------------------------------- MODULE Session -------------------------------
(***************************************************************************)
(* The registry composed with the hub's calls: StartServing and the unary  *)
(* calls that route a request are authenticated once, against the rows of  *)
(* that moment, then find their group in the router's map under the id the *)
(* client sent, and act on it later.  Nodes and groups come and go at any  *)
(* time.  Inside a group, Routing has the detail: here a Connector is the  *)
(* handler that owns it, and connect, disconnect and the lookup of a       *)
(* request's target, each one critical section of g.mutex, are one step.   *)
(***************************************************************************)
EXTENDS Naturals, Registry

CONSTANTS
  MaxCalls,  \* bound: calls of the hub
  Aliased    \* the groups whose id some clients write in another form: uuid.Parse
             \* accepts several

ASSUME SessionAssumption ==
  MaxCalls \in Nat /\ None \notin 1..MaxCalls /\ Aliased \subseteq Groups

VARIABLES
  pc,          \* what each handler does next
  id,          \* the credentials its client sent
  client,      \* its client: "here" or "gone"
  groups,      \* Router.groups; a connectivityGroup goes by the handler that made it
  obj,         \* the connectivityGroup each handler has found
  connectors,  \* connectors of each connectivityGroup
  evicted      \* the handlers whose Connector was evicted

hub == <<pc, id, client, groups, obj, connectors, evicted>>
vars == <<registry, hub>>

Handlers == 1..MaxCalls  \* in the order in which the calls come in
Ids == (Groups \X {"canonical"}) \cup (Aliased \X {"other"})
Credential == [cg : Ids, node : NodeNumbers, cred : Tokens]
Anonymous == [cg |-> None, node |-> None, cred |-> None]
PCs == {"idle", "auth", "seen", "found", "serving", "leaving", "done"}

\* parseGroupID: the group an id stands for, however it is written.
ParseGroupID(cg) == cg[1]

\* The values every variable ranges over.
TypeOK ==
  /\ RegistryTypeOK
  /\ pc \in [Handlers -> PCs]
  /\ id \in [Handlers -> Credential \cup {Anonymous}]
  /\ client \in [Handlers -> {"here", "gone"}]
  /\ groups \in [Ids -> Handlers \cup {None}]
  /\ obj \in [Handlers -> Handlers \cup {None}]
  /\ connectors \in [Handlers -> [NodeNumbers -> Handlers \cup {None}]]
  /\ evicted \in SUBSET Handlers

Init ==
  /\ RegistryInit
  /\ pc = [h \in Handlers |-> "idle"]
  /\ id = [h \in Handlers |-> Anonymous]
  /\ client = [h \in Handlers |-> "here"]
  /\ groups = [cg \in Ids |-> None]
  /\ obj = [h \in Handlers |-> None]
  /\ connectors = [h \in Handlers |-> [n \in NodeNumbers |-> None]]
  /\ evicted = {}

-----------------------------------------------------------------------------
(* A call up to its place in the router.                                    *)

Goes(h, next) == pc' = [pc EXCEPT ![h] = next]

\* The handler returns: what it found and whether its client is there is over.
Returns(h) ==
  /\ pc' = [pc EXCEPT ![h] = "done"]
  /\ obj' = [obj EXCEPT ![h] = None]
  /\ client' = [client EXCEPT ![h] = "here"]
  /\ evicted' = evicted \ {h}

\* The next call comes in, from a client that knows the number and the credential
\* of some registration; the group's id it sends need not be the right one.
Arrive(h, c) ==
  /\ pc[h] = "idle" /\ \A k \in 1..(h - 1) : pc[k] # "idle"
  /\ \E g \in Groups : issued[g][c.node] = c.cred
  /\ id' = [id EXCEPT ![h] = c]
  /\ Goes(h, "auth")
  /\ UNCHANGED <<registry, client, groups, obj, connectors, evicted>>

\* Mutant: the query has no connectivity_group_id = ?.
AuthenticateAnyGroup(h) ==
  /\ pc[h] = "auth" /\ client[h] = "here"
  /\ \E g \in Groups : /\ nodes[g][id[h].node] = "live"
                       /\ issued[g][id[h].node] = id[h].cred
  /\ Goes(h, "seen")
  /\ UNCHANGED <<registry, id, client, groups, obj, connectors, evicted>>

\* authenticateAndRateLimit lets the call through: one query, which fails when
\* the client has gone.
Authenticate(h) ==
  LET g == ParseGroupID(id[h].cg) IN
    /\ pc[h] = "auth" /\ client[h] = "here"
    /\ nodes[g][id[h].node] = "live" /\ issued[g][id[h].node] = id[h].cred
    /\ Goes(h, "seen")
    /\ UNCHANGED <<registry, id, client, groups, obj, connectors, evicted>>

\* It refuses the call: no row, another credential, a rate limit, an error.
Refuse(h) ==
  /\ pc[h] = "auth"
  /\ Returns(h)
  /\ UNCHANGED <<registry, id, groups, connectors>>

\* Mutant: the group is looked up before the call is authenticated.
FindOrCreateGroupEarly(h) ==
  LET cg == id[h].cg IN
    /\ pc[h] \in {"auth", "seen"}
    /\ groups' = [groups EXCEPT ![cg] = IF @ = None THEN h ELSE @]
    /\ obj' = [obj EXCEPT ![h] = groups'[cg]]
    /\ Goes(h, IF pc[h] = "auth" THEN "auth" ELSE "found")
    /\ UNCHANGED <<registry, id, client, connectors, evicted>>

\* Mutant: a new connectivityGroup every time.
CreateGroupAlways(h) ==
  /\ pc[h] = "seen"
  /\ groups' = [groups EXCEPT ![id[h].cg] = h]
  /\ obj' = [obj EXCEPT ![h] = h]
  /\ Goes(h, "found")
  /\ UNCHANGED <<registry, id, client, connectors, evicted>>

\* findOrCreateGroup, under r.mutex.  StartServing has told the backend about
\* last_seen and the activity log before, and goes on when that fails: nothing
\* looks whether the client is still there.
FindOrCreateGroup(h) ==
  LET cg == id[h].cg IN
    /\ pc[h] = "seen"
    /\ groups' = [groups EXCEPT ![cg] = IF @ = None THEN h ELSE @]
    /\ obj' = [obj EXCEPT ![h] = groups'[cg]]
    /\ Goes(h, "found")
    /\ UNCHANGED <<registry, id, client, connectors, evicted>>

\* The Connector that h's node has in h's group, or None.
Previous(h) == connectors[obj[h]][id[h].node]

\* StartServing: connect replaces and evicts the node's previous Connector.
Connect(h) ==
  /\ pc[h] = "found"
  /\ connectors' = [connectors EXCEPT ![obj[h]][id[h].node] = h]
  /\ evicted' = evicted \cup ({Previous(h)} \ {None})
  /\ Goes(h, "serving")
  /\ UNCHANGED <<registry, id, client, groups, obj>>

\* A unary call instead: routeRequest takes the Connector of the node d it names.
RouteRequest(h, d) ==
  /\ pc[h] = "found"
  /\ Returns(h)
  /\ UNCHANGED <<registry, id, groups, connectors>>

-----------------------------------------------------------------------------
(* The end of a serving stream.                                             *)

\* The client hangs up, at any time.
ClientLeaves(h) ==
  /\ pc[h] \notin {"idle", "done"} /\ client[h] = "here"
  /\ client' = [client EXCEPT ![h] = "gone"]
  /\ UNCHANGED <<registry, pc, id, groups, obj, connectors, evicted>>

\* Run returns, or the Welcome could not be sent.
RunReturns(h) ==
  /\ pc[h] = "serving"
  /\ Goes(h, "leaving")
  /\ UNCHANGED <<registry, id, client, groups, obj, connectors, evicted>>

\* It must, for a client that has gone or a Connector that was evicted ...
StreamEnds(h) == RunReturns(h) /\ (client[h] = "gone" \/ h \in evicted)

\* ... and may for a client that is there: it half-closes, or the TTL sheds it.
StreamCloses(h) == RunReturns(h) /\ client[h] = "here" /\ h \notin evicted

\* Mutant: a handler that returns early does not disconnect.
DisconnectNothing(h) ==
  /\ pc[h] = "leaving"
  /\ Returns(h)
  /\ UNCHANGED <<registry, id, groups, connectors>>

\* The deferred Disconnect, which removes the entry only if it is its own.
Disconnect(h) ==
  /\ pc[h] = "leaving"
  /\ connectors' = [connectors EXCEPT ![obj[h]][id[h].node] = IF @ = h THEN None ELSE @]
  /\ Returns(h)
  /\ UNCHANGED <<registry, id, groups>>

-----------------------------------------------------------------------------
\* What the hub does for a call without waiting for its client.
Works(h) ==
  \/ Authenticate(h) \/ Refuse(h) \/ FindOrCreateGroup(h) \/ Connect(h)
  \/ StreamEnds(h) \/ Disconnect(h)

Calls(h) ==
  \/ \E c \in Credential : Arrive(h, c)
  \/ \E d \in NodeNumbers : RouteRequest(h, d)
  \/ Works(h) \/ ClientLeaves(h) \/ StreamCloses(h)

Next ==
  \/ RegistryNext /\ UNCHANGED hub
  \/ \E h \in Handlers : Calls(h)

Spec == Init /\ [][Next]_vars

\* Go's scheduler runs runnable goroutines, and calls to the backend return.
FairSpec == Spec /\ \A h \in Handlers : WF_vars(Works(h))

-----------------------------------------------------------------------------
(* Properties.                                                              *)

\* ConnectedNodes and IsNodeConnected: the nodes connected under the id cg.
ConnectedNodes(cg) ==
  IF groups[cg] = None THEN {}
  ELSE {n \in NodeNumbers : connectors[groups[cg]][n] # None}

\* The handlers that serve a stream and were not evicted ...
Live == {h \in Handlers : pc[h] \in {"serving", "leaving"} /\ h \notin evicted}

\* ... under the id cg.
Serving(cg) == {h \in Live : id[h].cg = cg}

\* A routed request goes to the very registration that holds the number it names,
\* in the caller's own group: a stream authenticated long ago, whose node or group
\* was deleted or reset since, never receives what is meant for another node,
\* however clients write the group's id.
RequestReachesItsNode ==
  [][\A h \in Handlers, d \in NodeNumbers :
       RouteRequest(h, d) =>
         LET q == connectors[obj[h]][d]
             g == ParseGroupID(id[h].cg)
         IN q # None => /\ ParseGroupID(id[q].cg) = g /\ id[q].node = d
                        /\ issued[g][d] = id[q].cred]_vars

\* What the REST API and ListNodes show as online is exactly what is being served
\* under that id, one stream for each node, through reconnects, evictions and
\* late disconnects: no stream is lost in a connectivityGroup the map forgot.  Of a
\* group whose clients all write its id in canonical form, these are all streams;
\* "the group's currently connected nodes" (routing.go) is too much for the others.
OnlineIsServed ==
  /\ \A cg \in Ids :
       /\ ConnectedNodes(cg) = {id[h].node : h \in Serving(cg)}
       /\ \A h, k \in Serving(cg) : id[h].node = id[k].node => h = k
  /\ \A g \in Groups \ Aliased :
       ConnectedNodes(<<g, "canonical">>)
         = {id[h].node : h \in {k \in Live : ParseGroupID(id[k].cg) = g}}

\* The map of groups, which is never emptied, holds ids of groups that have had a
\* node: no call that fails authentication, and no query, makes an entry.  A group may
\* have one for each way in which authenticated clients write its id.
MapHoldsKnownGroups ==
  \A cg \in Ids : groups[cg] # None
                    => \E n \in NodeNumbers : issued[ParseGroupID(cg)][n] # None

\* A client that has gone does not keep its node online: its stream is out of the
\* router in the end, even if the handler registers it only after the client left.
NoGhosts ==
  \A h \in Handlers :
    client[h] = "gone" ~> /\ pc[h] = "done"
                          /\ \A o \in Handlers, n \in NodeNumbers : connectors[o][n] # h

-----------------------------------------------------------------------------
(* The inductive invariant behind the safety properties.                    *)

\* A call past authentication carries the credential its number was issued with.
Authenticated ==
  \A h \in Handlers :
    /\ pc[h] # "idle" => id[h] \in Credential
    /\ pc[h] \in {"seen", "found", "serving", "leaving"} =>
         issued[ParseGroupID(id[h].cg)][id[h].node] = id[h].cred

\* The map finds the connectivityGroup that all of an id's handlers have found.
Found ==
  /\ \A h \in Handlers : pc[h] \in {"found", "serving", "leaving"} =>
                            obj[h] # None /\ obj[h] = groups[id[h].cg]
  /\ \A cg \in Ids : groups[cg] # None => /\ id[groups[cg]].cg = cg
                                          /\ pc[groups[cg]] \notin {"idle", "auth", "seen"}

\* An entry is a stream of that node and group, and not evicted; a stream that is
\* not evicted has its entry.
Entries ==
  /\ \A o \in Handlers, n \in NodeNumbers :
       LET q == connectors[o][n] IN
         q # None => /\ pc[q] \in {"serving", "leaving"} /\ q \notin evicted
                     /\ obj[q] = o /\ id[q].node = n
  /\ \A h \in Handlers : pc[h] \in {"serving", "leaving"} /\ h \notin evicted
                            => connectors[obj[h]][id[h].node] = h
  /\ \A h \in evicted : pc[h] \in {"serving", "leaving"}

\* The conjunction is inductive; the safety properties follow from it.
SessionInv == TypeOK /\ Credentials /\ Authenticated /\ Found /\ Entries /\ MapHoldsKnownGroups

-----------------------------------------------------------------------------
(* What a status text claims and a delayed handler refutes.                 *)

\* "connection superseded by a newer connection for this node" (hubsrv.go): the
\* stream that evicts another came in after it.
SupersededByNewer ==
  [][\A h \in Handlers : Connect(h) /\ Previous(h) # None
                            => Previous(h) < h]_vars
=============================================================================
