--------------------------- MODULE SessionProofs ---------------------------
(***************************************************************************)
(* Proofs about Session, for any groups, ids, tokens, node numbers and     *)
(* calls.  SessionInv is inductive; the safety properties follow from it.  *)
(***************************************************************************)
EXTENDS Session, RegistryProofs

-----------------------------------------------------------------------------
(* SessionInv is kept by every step.                                        *)

\* An id that parses stands for a group.
LEMMA ParsedGroup == ASSUME NEW cg \in Ids PROVE ParseGroupID(cg) \in Groups
BY SessionAssumption DEF Ids, ParseGroupID

\* No handler is None, and a client's credentials are not Anonymous.
LEMMA Distinct ==
  /\ None \notin Handlers
  /\ \A c \in Credential : c.cg \in Ids /\ c.node \in NodeNumbers /\ c.cred \in Tokens
BY SessionAssumption DEF Handlers, Credential

\* Whatever happens to the registry, the calls the hub serves stay authenticated.
LEMMA RegistryInv ==
  ASSUME SessionInv, RegistryNext, UNCHANGED hub
  PROVE  SessionInv'
<1> USE DEF SessionInv, hub
<1>1. /\ RegistryTypeOK' /\ Credentials'
      /\ \A g \in Groups, n \in NodeNumbers :
           issued[g][n] # None => issued'[g][n] = issued[g][n]
      BY RegistryStep DEF TypeOK
<1>2. TypeOK' BY <1>1 DEF TypeOK
<1>3. Authenticated'
      BY <1>1, ParsedGroup, Distinct, RegistryAssumption DEF Authenticated
<1>4. Found' /\ Entries' BY DEF Found, Entries
<1>5. MapHoldsKnownGroups'
      BY <1>1, ParsedGroup DEF MapHoldsKnownGroups
<1> QED BY <1>1, <1>2, <1>3, <1>4, <1>5

\* A call that comes in has no place in the router yet.
LEMMA ArriveInv ==
  ASSUME SessionInv, NEW h \in Handlers, NEW c \in Credential, Arrive(h, c)
  PROVE  SessionInv'
<1> USE DEF SessionInv, Arrive, Goes, registry
<1>1. TypeOK' /\ Credentials'
      BY DEF TypeOK, PCs, RegistryTypeOK, Credentials
<1>2. Authenticated' BY DEF Authenticated, TypeOK
<1>3. Found' BY DEF Found, TypeOK
<1>4. Entries' BY DEF Entries, TypeOK
<1>5. MapHoldsKnownGroups' BY DEF MapHoldsKnownGroups
<1> QED BY <1>1, <1>2, <1>3, <1>4, <1>5

\* Authentication compares the credential with the one the number was issued with.
LEMMA AuthenticateInv ==
  ASSUME SessionInv, NEW h \in Handlers, Authenticate(h)
  PROVE  SessionInv'
<1> USE DEF SessionInv, Authenticate, Goes, registry
<1>1. TypeOK' /\ Credentials'
      BY DEF TypeOK, PCs, RegistryTypeOK, Credentials
<1>2. Authenticated' BY DEF Authenticated, TypeOK
<1>3. Found' BY DEF Found, TypeOK
<1>4. Entries' BY DEF Entries, TypeOK
<1>5. MapHoldsKnownGroups' BY DEF MapHoldsKnownGroups
<1> QED BY <1>1, <1>2, <1>3, <1>4, <1>5

\* The map has one connectivityGroup for an id, made on behalf of a known node.
LEMMA FindOrCreateGroupInv ==
  ASSUME SessionInv, NEW h \in Handlers, FindOrCreateGroup(h)
  PROVE  SessionInv'
<1> USE DEF SessionInv
<1> DEFINE cg == id[h].cg
<1>0. /\ pc[h] = "seen" /\ id[h] \in Credential /\ cg \in Ids
      /\ pc' = [pc EXCEPT ![h] = "found"]
      /\ groups' = [groups EXCEPT ![cg] = IF groups[cg] = None THEN h ELSE groups[cg]]
      /\ obj' = [obj EXCEPT ![h] = groups'[cg]]
      /\ UNCHANGED <<registry, id, client, connectors, evicted>>
      BY Distinct DEF FindOrCreateGroup, Goes, Authenticated, TypeOK
<1>1. groups'[cg] \in Handlers /\ groups'[cg] # None
      BY <1>0, Distinct DEF TypeOK
<1>2. TypeOK' /\ Credentials'
      BY <1>0, <1>1 DEF TypeOK, PCs, RegistryTypeOK, Credentials, registry
<1>3. Authenticated' BY <1>0 DEF Authenticated, TypeOK, registry
<1>4. Found'
  <2>1. \A k \in Handlers : pc'[k] \in {"found", "serving", "leaving"} =>
          obj'[k] # None /\ obj'[k] = groups'[id'[k].cg]
    <3>1. \A k \in Handlers : pc[k] \in {"found", "serving", "leaving"} =>
            groups[id[k].cg] # None /\ id[k].cg \in Ids
          BY Distinct DEF Found, Authenticated
    <3> QED BY <1>0, <1>1, <3>1 DEF Found, TypeOK
  <2>2. \A c \in Ids : groups'[c] # None => /\ id'[groups'[c]].cg = c
                                            /\ pc'[groups'[c]] \notin {"idle", "auth", "seen"}
        BY <1>0, <1>1 DEF Found, TypeOK
  <2> QED BY <2>1, <2>2 DEF Found
<1>5. Entries' BY <1>0 DEF Entries, TypeOK
<1>6. MapHoldsKnownGroups'
  <2>1. issued[ParseGroupID(cg)][id[h].node] # None
        BY <1>0, Distinct, RegistryAssumption DEF Authenticated
  <2> QED BY <1>0, <2>1, Distinct DEF MapHoldsKnownGroups, TypeOK, registry
<1> QED BY <1>2, <1>3, <1>4, <1>5, <1>6

\* connect puts the new stream where the evicted one was.
LEMMA ConnectInv ==
  ASSUME SessionInv, NEW h \in Handlers, Connect(h)
  PROVE  SessionInv'
<1> USE DEF SessionInv
<1> DEFINE o == obj[h]
           n == id[h].node
<1>0. /\ pc[h] = "found" /\ o \in Handlers /\ n \in NodeNumbers
      /\ pc' = [pc EXCEPT ![h] = "serving"]
      /\ connectors' = [connectors EXCEPT ![o][n] = h]
      /\ evicted' = evicted \cup ({connectors[o][n]} \ {None})
      /\ UNCHANGED <<registry, id, client, groups, obj>>
      BY Distinct DEF Connect, Previous, Goes, Authenticated, Found, TypeOK
<1>1. connectors[o][n] \in Handlers \cup {None} /\ connectors[o][n] # h
      BY <1>0, Distinct DEF Entries, TypeOK
<1>2. TypeOK' /\ Credentials'
      BY <1>0, <1>1 DEF TypeOK, PCs, RegistryTypeOK, Credentials, registry
<1>3. Authenticated' BY <1>0 DEF Authenticated, TypeOK, registry
<1>4. Found' BY <1>0 DEF Found, TypeOK
<1>5. Entries'
  <2>1. \A a \in Handlers, m \in NodeNumbers :
          /\ a = o /\ m = n => connectors'[a][m] = h
          /\ a # o \/ m # n => connectors'[a][m] = connectors[a][m]
        BY <1>0 DEF TypeOK
  <2>2. h \notin evicted' /\ h # None
        BY <1>0, <1>1, Distinct DEF Entries
  <2>3. \A a \in Handlers, m \in NodeNumbers :
          LET q == connectors'[a][m] IN
            q # None => /\ pc'[q] \in {"serving", "leaving"} /\ q \notin evicted'
                        /\ obj'[q] = a /\ id'[q].node = m
    <3> SUFFICES ASSUME NEW a \in Handlers, NEW m \in NodeNumbers,
                        connectors'[a][m] # None
                 PROVE  /\ pc'[connectors'[a][m]] \in {"serving", "leaving"}
                        /\ connectors'[a][m] \notin evicted'
                        /\ obj'[connectors'[a][m]] = a /\ id'[connectors'[a][m]].node = m
          OBVIOUS
    <3>1. CASE a = o /\ m = n
          BY <1>0, <2>1, <2>2, <3>1 DEF TypeOK
    <3>2. CASE a # o \/ m # n
      <4> DEFINE q == connectors[a][m]
      <4>1. /\ connectors'[a][m] = q /\ q \in Handlers
            /\ pc[q] \in {"serving", "leaving"} /\ q \notin evicted
            /\ obj[q] = a /\ id[q].node = m
            BY <2>1, <3>2 DEF Entries, TypeOK
      <4>2. q # connectors[o][n]
            BY <1>0, <3>2, <4>1, Distinct DEF Entries
      <4> HIDE DEF q
      <4> QED BY <1>0, <4>1, <4>2 DEF TypeOK
    <3> QED BY <3>1, <3>2
  <2>4. \A k \in Handlers : pc'[k] \in {"serving", "leaving"} /\ k \notin evicted'
          => connectors'[obj'[k]][id'[k].node] = k
    <3> SUFFICES ASSUME NEW k \in Handlers, pc'[k] \in {"serving", "leaving"},
                        k \notin evicted'
                 PROVE  connectors'[obj'[k]][id'[k].node] = k
          OBVIOUS
    <3>1. CASE k = h BY <1>0, <2>1, <3>1
    <3>2. CASE k # h
      <4>1. /\ pc[k] \in {"serving", "leaving"} /\ k \notin evicted
            /\ k # connectors[o][n] /\ connectors[obj[k]][id[k].node] = k
            /\ obj[k] \in Handlers /\ id[k].node \in NodeNumbers
            BY <1>0, <3>2, Distinct DEF Entries, TypeOK, Found, Authenticated
      <4> QED BY <1>0, <2>1, <4>1
    <3> QED BY <3>1, <3>2
  <2>5. \A k \in evicted' : pc'[k] \in {"serving", "leaving"}
        BY <1>0, <1>1 DEF Entries, TypeOK
  <2> QED BY <2>3, <2>4, <2>5 DEF Entries
<1>6. MapHoldsKnownGroups' BY <1>0 DEF MapHoldsKnownGroups, registry
<1> QED BY <1>2, <1>3, <1>4, <1>5, <1>6

\* A client that leaves changes nothing the router has.
LEMMA ClientLeavesInv ==
  ASSUME SessionInv, NEW h \in Handlers, ClientLeaves(h)
  PROVE  SessionInv'
<1> USE DEF SessionInv, ClientLeaves, registry
<1>1. TypeOK' /\ Credentials'
      BY DEF TypeOK, RegistryTypeOK, Credentials
<1>2. Authenticated' /\ Found' /\ Entries' /\ MapHoldsKnownGroups'
      BY DEF Authenticated, Found, Entries, MapHoldsKnownGroups
<1> QED BY <1>1, <1>2

\* Nor does Run returning: the entry stays until Disconnect.
LEMMA RunReturnsInv ==
  ASSUME SessionInv, NEW h \in Handlers, RunReturns(h)
  PROVE  SessionInv'
<1> USE DEF SessionInv, RunReturns, Goes, registry
<1>1. TypeOK' /\ Credentials'
      BY DEF TypeOK, PCs, RegistryTypeOK, Credentials
<1>2. Authenticated' BY DEF Authenticated, TypeOK
<1>3. Found' BY DEF Found, TypeOK
<1>4. Entries' BY DEF Entries, TypeOK
<1>5. MapHoldsKnownGroups' BY DEF MapHoldsKnownGroups
<1> QED BY <1>1, <1>2, <1>3, <1>4, <1>5

\* A call that returns from a place where it has no Connector.
LEMMA ReturnInv ==
  ASSUME SessionInv, NEW h \in Handlers, pc[h] \in {"auth", "found"}, Returns(h),
         UNCHANGED <<registry, id, groups, connectors>>
  PROVE  SessionInv'
<1> USE DEF SessionInv, Returns, registry
<1>1. TypeOK' /\ Credentials'
      BY DEF TypeOK, PCs, RegistryTypeOK, Credentials
<1>2. Authenticated' BY DEF Authenticated, TypeOK
<1>3. Found' BY DEF Found, TypeOK
<1>4. Entries' BY DEF Entries, TypeOK
<1>5. MapHoldsKnownGroups' BY DEF MapHoldsKnownGroups
<1> QED BY <1>1, <1>2, <1>3, <1>4, <1>5

\* Disconnect removes the stream's own entry and no other.
LEMMA DisconnectInv ==
  ASSUME SessionInv, NEW h \in Handlers, Disconnect(h)
  PROVE  SessionInv'
<1> USE DEF SessionInv
<1> DEFINE o == obj[h]
           n == id[h].node
<1>0. /\ pc[h] = "leaving" /\ o \in Handlers /\ n \in NodeNumbers
      /\ pc' = [pc EXCEPT ![h] = "done"]
      /\ obj' = [obj EXCEPT ![h] = None]
      /\ client' = [client EXCEPT ![h] = "here"]
      /\ evicted' = evicted \ {h}
      /\ connectors' = [connectors EXCEPT ![o][n] =
                          IF connectors[o][n] = h THEN None ELSE connectors[o][n]]
      /\ UNCHANGED <<registry, id, groups>>
      BY Distinct DEF Disconnect, Returns, Authenticated, Found, TypeOK
<1>1. \A a \in Handlers, m \in NodeNumbers :
        /\ connectors'[a][m] \in {connectors[a][m], None} /\ connectors'[a][m] # h
        /\ connectors[a][m] # h => connectors'[a][m] = connectors[a][m]
  <2> SUFFICES ASSUME NEW a \in Handlers, NEW m \in NodeNumbers
               PROVE  /\ connectors'[a][m] \in {connectors[a][m], None}
                      /\ connectors'[a][m] # h
                      /\ connectors[a][m] # h => connectors'[a][m] = connectors[a][m]
        OBVIOUS
  <2>1. CASE a = o /\ m = n
        BY <1>0, <2>1, Distinct DEF TypeOK
  <2>2. CASE a # o \/ m # n
    <3>1. connectors'[a][m] = connectors[a][m] BY <1>0, <2>2 DEF TypeOK
    <3>2. connectors[a][m] # h BY <1>0, <2>2, Distinct DEF Entries
    <3> QED BY <3>1, <3>2
  <2> QED BY <2>1, <2>2
<1>2. TypeOK' /\ Credentials'
  <2>1. connectors' \in [Handlers -> [NodeNumbers -> Handlers \cup {None}]]
        BY <1>0 DEF TypeOK
  <2> QED BY <1>0, <2>1 DEF TypeOK, PCs, RegistryTypeOK, Credentials, registry
<1>3. Authenticated' BY <1>0 DEF Authenticated, TypeOK, registry
<1>4. Found' BY <1>0 DEF Found, TypeOK
<1>5. Entries'
  <2>1. ASSUME NEW a \in Handlers, NEW m \in NodeNumbers, connectors'[a][m] # None
        PROVE  LET q == connectors'[a][m] IN
                 /\ pc'[q] \in {"serving", "leaving"} /\ q \notin evicted'
                 /\ obj'[q] = a /\ id'[q].node = m
    <3> DEFINE q == connectors[a][m]
    <3>1. connectors'[a][m] = q /\ q # None /\ q # h /\ q \in Handlers
          BY <1>1, <2>1 DEF TypeOK
    <3>2. /\ pc[q] \in {"serving", "leaving"} /\ q \notin evicted
          /\ obj[q] = a /\ id[q].node = m
          BY <3>1 DEF Entries
    <3> HIDE DEF q
    <3> QED BY <1>0, <3>1, <3>2 DEF TypeOK
  <2>2. \A k \in Handlers : pc'[k] \in {"serving", "leaving"} /\ k \notin evicted'
          => connectors'[obj'[k]][id'[k].node] = k
    <3> SUFFICES ASSUME NEW k \in Handlers, pc'[k] \in {"serving", "leaving"},
                        k \notin evicted'
                 PROVE  connectors'[obj'[k]][id'[k].node] = k
          OBVIOUS
    <3>1. /\ k # h /\ pc[k] \in {"serving", "leaving"} /\ k \notin evicted
          /\ obj'[k] = obj[k] /\ obj[k] \in Handlers /\ id[k].node \in NodeNumbers
          BY <1>0, Distinct DEF TypeOK, Found, Authenticated
    <3>2. connectors[obj[k]][id[k].node] = k BY <3>1 DEF Entries
    <3>3. connectors'[obj[k]][id[k].node] = k BY <1>1, <3>1, <3>2
    <3> QED BY <1>0, <3>1, <3>3
  <2>3. \A k \in evicted' : pc'[k] \in {"serving", "leaving"}
        BY <1>0 DEF Entries, TypeOK
  <2> QED BY <2>1, <2>2, <2>3 DEF Entries
<1>6. MapHoldsKnownGroups' BY <1>0 DEF MapHoldsKnownGroups, registry
<1> QED BY <1>2, <1>3, <1>4, <1>5, <1>6

\* SessionInv holds initially.
LEMMA SessionInit == ASSUME Init PROVE SessionInv
<1> USE RegistryAssumption, SessionAssumption DEF Init, RegistryInit
<1>1. TypeOK /\ Credentials
      BY DEF TypeOK, RegistryTypeOK, PCs, Credentials
<1>2. Authenticated /\ Found /\ Entries /\ MapHoldsKnownGroups
      BY DEF Authenticated, Found, Entries, MapHoldsKnownGroups
<1> QED BY <1>1, <1>2 DEF SessionInv

\* SessionInv is kept by every step.
LEMMA SessionNext == ASSUME SessionInv, [Next]_vars PROVE SessionInv'
<1>1. CASE UNCHANGED vars
      BY <1>1 DEF vars, registry, hub, SessionInv, TypeOK, RegistryTypeOK, Credentials,
                  Authenticated, Found, Entries, MapHoldsKnownGroups
<1>2. CASE RegistryNext /\ UNCHANGED hub BY <1>2, RegistryInv
<1>3. ASSUME NEW h \in Handlers, Calls(h) PROVE SessionInv'
  <2>1. CASE \E c \in Credential : Arrive(h, c) BY <2>1, ArriveInv
  <2>2. CASE Refuse(h) \/ \E d \in NodeNumbers : RouteRequest(h, d)
        BY <2>2, ReturnInv DEF Refuse, RouteRequest
  <2>3. CASE Authenticate(h) BY <2>3, AuthenticateInv
  <2>4. CASE FindOrCreateGroup(h) BY <2>4, FindOrCreateGroupInv
  <2>5. CASE Connect(h) BY <2>5, ConnectInv
  <2>6. CASE ClientLeaves(h) \/ StreamEnds(h) \/ StreamCloses(h)
        BY <2>6, ClientLeavesInv, RunReturnsInv DEF StreamEnds, StreamCloses
  <2>7. CASE Disconnect(h) BY <2>7, DisconnectInv
  <2> QED BY <1>3, <2>1, <2>2, <2>3, <2>4, <2>5, <2>6, <2>7 DEF Calls, Works
<1> QED BY <1>1, <1>2, <1>3 DEF Next

-----------------------------------------------------------------------------
(* The theorems.                                                            *)

\* SessionInv, which ties what the router holds to the rows that authenticated
\* it, always holds.
THEOREM SessionInvariant == Spec => []SessionInv
BY SessionInit, SessionNext, PTL DEF Spec

\* The router's map of groups has entries for groups with registrations only.
THEOREM MapIsBounded == Spec => []MapHoldsKnownGroups
<1>1. SessionInv => MapHoldsKnownGroups BY DEF SessionInv
<1> QED BY <1>1, SessionInvariant, PTL

\* ConnectedNodes tells the streams that are served, one for each node.
THEOREM OnlineIsExact == Spec => []OnlineIsServed
<1>1. ASSUME SessionInv, NEW cg \in Ids
      PROVE  /\ ConnectedNodes(cg) = {id[h].node : h \in Serving(cg)}
             /\ \A h, k \in Serving(cg) : id[h].node = id[k].node => h = k
  <2> USE <1>1 DEF SessionInv
  <2>1. \A h \in Serving(cg) : /\ obj[h] = groups[cg] /\ groups[cg] # None
                               /\ connectors[groups[cg]][id[h].node] = h
                               /\ id[h].node \in NodeNumbers /\ h # None
        BY Distinct DEF Serving, Live, Entries, Found, Authenticated
  <2>2. ASSUME NEW n \in ConnectedNodes(cg)
        PROVE  \E h \in Serving(cg) : n = id[h].node
    <3> DEFINE q == connectors[groups[cg]][n]
    <3>1. /\ groups[cg] \in Handlers /\ groups[cg] # None
          /\ n \in NodeNumbers /\ q # None /\ q \in Handlers
          BY <2>2 DEF ConnectedNodes, TypeOK
    <3>2. /\ pc[q] \in {"serving", "leaving"} /\ q \notin evicted
          /\ obj[q] = groups[cg] /\ id[q].node = n
          BY <3>1 DEF Entries
    <3>3. id[q].cg = cg
          BY <3>1, <3>2, Distinct DEF Found, Authenticated
    <3> QED BY <3>1, <3>2, <3>3 DEF Serving, Live
  <2>3. \A h \in Serving(cg) : id[h].node \in ConnectedNodes(cg)
        BY <2>1 DEF ConnectedNodes
  <2>4. ConnectedNodes(cg) = {id[h].node : h \in Serving(cg)}
        BY <2>2, <2>3
  <2> QED BY <2>1, <2>4
<1>2. ASSUME SessionInv, NEW g \in Groups \ Aliased
      PROVE  ConnectedNodes(<<g, "canonical">>)
               = {id[h].node : h \in {k \in Live : ParseGroupID(id[k].cg) = g}}
  <2> DEFINE cg == <<g, "canonical">>
  <2>1. cg \in Ids BY DEF Ids
  <2>2. ASSUME NEW k \in Live PROVE ParseGroupID(id[k].cg) = g <=> id[k].cg = cg
    <3>1. id[k].cg \in Ids BY <1>2, <2>2 DEF SessionInv, Authenticated, Live, Credential
    <3> QED BY <3>1 DEF Ids, ParseGroupID
  <2>3. {k \in Live : ParseGroupID(id[k].cg) = g} = Serving(cg) BY <2>2 DEF Serving
  <2> QED BY <1>1, <1>2, <2>1, <2>3
<1>3. SessionInv => OnlineIsServed BY <1>1, <1>2 DEF OnlineIsServed
<1> QED BY <1>3, SessionInvariant, PTL

\* A request is taken by the registration that holds the number it names, in the
\* caller's group, whatever became of rows and groups since the stream was
\* authenticated.
THEOREM RequestsReachTheirNode == Spec => RequestReachesItsNode
<1>1. ASSUME SessionInv, NEW h \in Handlers, NEW d \in NodeNumbers, RouteRequest(h, d),
             connectors[obj[h]][d] # None
      PROVE  LET q == connectors[obj[h]][d]
                 g == ParseGroupID(id[h].cg)
             IN /\ ParseGroupID(id[q].cg) = g /\ id[q].node = d
                /\ issued[g][d] = id[q].cred
  <2> USE <1>1 DEF SessionInv
  <2> DEFINE q == connectors[obj[h]][d]
  <2>1. /\ pc[h] = "found" /\ obj[h] \in Handlers /\ obj[h] = groups[id[h].cg]
        /\ obj[h] # None /\ id[h].cg \in Ids
        BY Distinct DEF RouteRequest, Found, TypeOK, Authenticated
  <2>2. /\ q \in Handlers /\ pc[q] \in {"serving", "leaving"}
        /\ obj[q] = obj[h] /\ id[q].node = d
        BY <2>1 DEF Entries, TypeOK
  <2>3. id[q].cg = id[h].cg
        BY <2>1, <2>2, Distinct DEF Found, Authenticated
  <2> QED BY <2>2, <2>3 DEF Authenticated
<1>2. SessionInv /\ [Next]_vars
        => [\A h \in Handlers, d \in NodeNumbers :
              RouteRequest(h, d) =>
                LET q == connectors[obj[h]][d]
                    g == ParseGroupID(id[h].cg)
                IN q # None => /\ ParseGroupID(id[q].cg) = g /\ id[q].node = d
                               /\ issued[g][d] = id[q].cred]_vars
      BY <1>1
<1> QED BY <1>2, SessionInvariant, PTL DEF Spec, RequestReachesItsNode

-----------------------------------------------------------------------------
\* The hub's calls never write to the registry: with them, it is still the registry
\* that the standalone backend implements, and what is proved of it holds here.
THEOREM SessionKeepsRegistry == Spec => RegistrySpec
<1>1. Init => RegistryInit BY DEF Init
<1>2. [Next]_vars => [RegistryNext]_registry
  <2>1. ASSUME NEW h \in Handlers, Calls(h) PROVE UNCHANGED registry
        BY <2>1 DEF Calls, Works, Arrive, Authenticate, Refuse, FindOrCreateGroup, Connect,
           StreamEnds, StreamCloses, RunReturns, Disconnect, RouteRequest, ClientLeaves
  <2> QED BY <2>1 DEF Next, vars
<1> QED BY <1>1, <1>2, PTL DEF Spec, RegistrySpec
=============================================================================
