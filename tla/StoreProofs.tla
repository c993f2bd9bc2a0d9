---------------------------- MODULE StoreProofs ----------------------------
(***************************************************************************)
(* Proofs about Store, for any sets of handlers and tokens and any bounds. *)
(* TableInv is inductive; the safety properties follow from it.            *)
(***************************************************************************)
EXTENDS Store, FiniteSetTheorems, TLAPS

-----------------------------------------------------------------------------
(* TableInv is kept by every kind of step.                                  *)

\* A handler that answers or aborts keeps TableInv: what it knew is forgotten and
\* the connection, if it held it, is free again.
LEMMA ReturnsInv ==
  ASSUME TableInv, NEW p \in Procs, Returns(p), conn' = IF conn = p THEN None ELSE conn,
         UNCHANGED <<tables, history>>
  PROVE  TableInv'
<1> USE StoreAssumption DEF TableInv, Returns, Forgets, tables, history
<1>1. TypeOK'
      BY DEF TypeOK, PCs, Blank, NoRoster, Rosters
<1>2. Registrations' BY DEF Registrations, TokenOneShot
<1>3. Transaction' BY DEF Transaction, TypeOK
<1>4. SeenRows' BY DEF SeenRows, TypeOK
<1>5. Versions' BY DEF Versions, TypeOK
<1> QED BY <1>1, <1>2, <1>3, <1>4, <1>5

\* A new group row, and a token whose time has come, keep TableInv.
LEMMA OutsideInv ==
  ASSUME TableInv, PostConnectivityGroup \/ \E t \in Tokens : TokenExpires(t)
  PROVE  TableInv'
<1> USE StoreAssumption DEF TableInv, history, locals
<1>1. CASE PostConnectivityGroup
  <2> USE <1>1 DEF PostConnectivityGroup
  <2>1. TypeOK' BY DEF TypeOK
  <2>2. Registrations' BY DEF Registrations, TokenOneShot
  <2>3. Transaction' BY DEF Transaction, TypeOK
  <2>4. SeenRows' BY DEF SeenRows
  <2>5. Versions' BY DEF Versions
  <2> QED BY <2>1, <2>2, <2>3, <2>4, <2>5
<1>2. ASSUME NEW t \in Tokens, TokenExpires(t) PROVE TableInv'
  <2> USE <1>2 DEF TokenExpires
  <2>1. TypeOK' BY DEF TypeOK
  <2>2. Registrations' BY DEF Registrations, TokenOneShot, TypeOK
  <2>3. Transaction' BY DEF Transaction, TypeOK
  <2>4. SeenRows' BY DEF SeenRows
  <2>5. Versions' BY DEF Versions
  <2> QED BY <2>1, <2>2, <2>3, <2>4, <2>5
<1> QED BY <1>1, <1>2

\* Taking a request keeps TableInv: a registration takes the connection with a
\* token it has just seen pending, a deletion remembers a row it has just seen.
LEMMA StartsInv ==
  ASSUME TableInv, NEW p \in Procs, Starts(p)
  PROVE  TableInv'
<1> USE StoreAssumption DEF TableInv, Takes, Goes, tables, history
<1>1. CASE PostTokenCheck(p) \/ ResetCheck(p) \/ QuotaCheck(p)
  <2> USE <1>1 DEF PostTokenCheck, ResetCheck, QuotaCheck
  <2>1. TypeOK' BY DEF TypeOK, PCs
  <2>2. Registrations' BY DEF Registrations, TokenOneShot
  <2>3. Transaction' BY DEF Transaction, TypeOK
  <2>4. SeenRows' BY DEF SeenRows, TypeOK
  <2>5. Versions' BY DEF Versions, TypeOK
  <2> QED BY <2>1, <2>2, <2>3, <2>4, <2>5
<1>2. ASSUME NEW t \in Tokens, RegisterLookup(p, t) PROVE TableInv'
  <2> USE <1>2 DEF RegisterLookup
  <2>1. TypeOK' BY DEF TypeOK, PCs
  <2>2. Registrations' BY DEF Registrations, TokenOneShot
  <2>3. Transaction' BY DEF Transaction, TypeOK
  <2>4. SeenRows' BY DEF SeenRows, TypeOK
  <2>5. Versions' BY DEF Versions, TypeOK
  <2> QED BY <2>1, <2>2, <2>3, <2>4, <2>5
<1>3. ASSUME NEW n \in NodeNumbers, DeregisterAuth(p, n) PROVE TableInv'
  <2> USE <1>3 DEF DeregisterAuth
  <2>1. TypeOK' BY DEF TypeOK, PCs, NodeNumbers
  <2>2. Registrations' BY DEF Registrations, TokenOneShot
  <2>3. Transaction' BY DEF Transaction, TypeOK
  <2>4. SeenRows' BY DEF SeenRows, TypeOK
  <2>5. Versions' BY DEF Versions, TypeOK
  <2> QED BY <2>1, <2>2, <2>3, <2>4, <2>5
<1>4. ASSUME NEW n \in NodeNumbers, GetRoster(p, n) \/ DeleteNodeReadRoster(p, n)
      PROVE TableInv'
  <2> DEFINE seen == [epoch |-> resets, roster |-> roster]
  <2>0. /\ base' = [base EXCEPT ![p] = seen] /\ arg' = [arg EXCEPT ![p] = n]
        /\ pc' = [pc EXCEPT ![p] = "built"] \/ pc' = [pc EXCEPT ![p] = "checkNode"]
        /\ conn = None /\ pc[p] = "idle"
        /\ UNCHANGED <<conn, tables, history, plan>>
        BY <1>4 DEF GetRoster, DeleteNodeReadRoster
  <2>1. TypeOK'
    <3>1. seen \in [epoch : Nat, roster : Rosters]
          BY DEF TypeOK
    <3>2. n \in Nat BY DEF NodeNumbers
    <3> HIDE DEF seen
    <3> QED BY <2>0, <3>1, <3>2 DEF TypeOK, PCs
  <2>2. Registrations' BY <2>0 DEF Registrations, TokenOneShot
  <2>3. Transaction' BY <2>0 DEF Transaction, TypeOK
  <2>4. SeenRows' BY <2>0 DEF SeenRows, TypeOK
  <2>5. Versions' BY <2>0 DEF Versions, TypeOK, Rosters
  <2> QED BY <2>1, <2>2, <2>3, <2>4, <2>5
<1>5. CASE DeleteGroupNodes(p)
  <2> USE <1>5 DEF DeleteGroupNodes, SoftDeleteAll
  <2>1. TypeOK' BY DEF TypeOK, PCs
  <2>2. Registrations' BY DEF Registrations, TokenOneShot, TypeOK
  <2>3. Transaction' BY DEF Transaction, TypeOK
  <2>4. SeenRows' BY DEF SeenRows, TypeOK
  <2>5. Versions' BY DEF Versions, TypeOK
  <2> QED BY <2>1, <2>2, <2>3, <2>4, <2>5
<1> QED BY <1>1, <1>2, <1>3, <1>4, <1>5 DEF Starts

\* What a client or an endorser does to an UpdateRoster call keeps TableInv: the
\* planned roster is one version ahead of the one that was read.
LEMMA HearsInv ==
  ASSUME TableInv, NEW p \in Procs, Hears(p)
  PROVE  TableInv'
<1> USE StoreAssumption DEF TableInv, At, Goes, tables, history
<1>1. CASE UpdateRefused(p)
      BY <1>1, ReturnsInv DEF UpdateRefused
<1>2. CASE CosignReturns(p)
  <2> USE <1>2 DEF CosignReturns
  <2>1. TypeOK' BY DEF TypeOK, PCs
  <2>2. Registrations' BY DEF Registrations, TokenOneShot
  <2>3. Transaction' BY DEF Transaction, TypeOK
  <2>4. SeenRows' BY DEF SeenRows, TypeOK
  <2>5. Versions' BY DEF Versions, TypeOK
  <2> QED BY <2>1, <2>2, <2>3, <2>4, <2>5
<1>3. ASSUME NEW r \in Rosters, r.version = base[p].roster.version + 1,
             pc[p] = "built", conn = None,
             pc' = [pc EXCEPT ![p] = "cosign"] \/ pc' = [pc EXCEPT ![p] = "updateRoster"],
             plan' = [plan EXCEPT ![p] = r],
             UNCHANGED <<conn, tables, history, arg, base>>
      PROVE  TableInv'
  <2> USE <1>3
  <2>1. TypeOK' BY DEF TypeOK, PCs
  <2>2. Registrations' BY DEF Registrations, TokenOneShot
  <2>3. Transaction' BY DEF Transaction, TypeOK
  <2>4. SeenRows' BY DEF SeenRows, TypeOK
  <2>5. Versions' BY DEF Versions, TypeOK
  <2> QED BY <2>1, <2>2, <2>3, <2>4, <2>5
<1>4. CASE UpdateActivation(p)
  <2>1. /\ Activated(base[p].roster, arg[p]) \in Rosters
        /\ Activated(base[p].roster, arg[p]).version = base[p].roster.version + 1
        BY <1>4 DEF UpdateActivation, Activated, Rosters, TypeOK, SeenRows
  <2> QED BY <1>3, <1>4, <2>1 DEF UpdateActivation
<1>5. ASSUME NEW m \in NodeNumbers, UpdateRevocation(p, m) PROVE TableInv'
  <2>1. /\ Revoked(base[p].roster, m) \in Rosters
        /\ Revoked(base[p].roster, m).version = base[p].roster.version + 1
        BY DEF Revoked, Rosters, TypeOK
  <2> QED BY <1>3, <1>5, <2>1 DEF UpdateRevocation
<1> QED BY <1>1, <1>2, <1>4, <1>5 DEF Hears

\* The statements of a handler keep TableInv.  The commit of a registration uses
\* a token nobody else can have used since the lookup; a roster that is stored is
\* one version ahead of the one it replaces.
LEMMA WorksInv ==
  ASSUME TableInv, NEW p \in Procs, Works(p)
  PROVE  TableInv'
<1> USE StoreAssumption DEF TableInv, At, Goes, history
<1>1. ASSUME NEW t \in Tokens, PostTokenInsert(p, t) PROVE TableInv'
  <2> USE <1>1 DEF PostTokenInsert, Returns, Forgets
  <2>1. TypeOK' BY DEF TypeOK, PCs, Blank, NoRoster, Rosters
  <2>2. Registrations' BY DEF Registrations, TokenOneShot, TypeOK
  <2>3. Transaction' BY DEF Transaction, TypeOK
  <2>4. SeenRows' BY DEF SeenRows, TypeOK
  <2>5. Versions' BY DEF Versions, TypeOK
  <2> QED BY <2>1, <2>2, <2>3, <2>4, <2>5
<1>2. CASE RegisterCommit(p)
  <2> USE <1>2 DEF RegisterCommit, Forgets
  <2>0. /\ nextNode \in NodeNumbers /\ issued[nextNode] = None
        /\ arg[p] \in Tokens /\ tokens[arg[p]] # "used"
        BY DEF Transaction, Registrations, TypeOK, NodeNumbers
  <2>1. TypeOK' BY <2>0 DEF TypeOK, PCs, NodeNumbers, Blank, NoRoster, Rosters
  <2>2. Registrations'
    <3>1. \A n \in NodeNumbers : issued[n] # arg[p]
          BY <2>0 DEF Registrations, TypeOK
    <3>2. TokenOneShot'
          BY <2>0, <3>1 DEF Registrations, TokenOneShot, TypeOK
    <3>3. \A n \in NodeNumbers : nodes'[n] = "none" <=> n >= nextNode'
      <4>1. \A n \in NodeNumbers : nodes[n] = "none" <=> n >= nextNode BY DEF Registrations
      <4>2. nodes' = [nodes EXCEPT ![nextNode] = "live"] /\ nextNode' = nextNode + 1 OBVIOUS
      <4>3. \A n \in NodeNumbers : nodes'[n] = IF n = nextNode THEN "live" ELSE nodes[n]
            BY <4>2 DEF TypeOK
      <4>4. \A n \in NodeNumbers : n \in Nat /\ nextNode \in Nat BY <2>0 DEF NodeNumbers
      <4> QED BY <4>1, <4>2, <4>3, <4>4
    <3>4. \A n \in NodeNumbers : /\ nodes'[n] = "none" <=> issued'[n] = None
                                 /\ issued'[n] # None => tokens'[issued'[n]] = "used"
          BY <2>0 DEF Registrations, TypeOK
    <3> QED BY <3>2, <3>3, <3>4 DEF Registrations
  <2>3. Transaction' BY DEF Transaction, TypeOK
  <2>4. SeenRows' BY <2>0 DEF SeenRows, TypeOK
  <2>5. Versions' BY DEF Versions, TypeOK
  <2> QED BY <2>1, <2>2, <2>3, <2>4, <2>5
<1>3. CASE InsertActivityLog(p) \/ DeleteNodeRefused(p) \/ CountTokens(p)
      BY <1>3, ReturnsInv DEF InsertActivityLog, DeleteNodeRefused, CountTokens
<1>4. CASE DeleteNode(p)
  <2>0. /\ arg[p] \in NodeNumbers /\ nodes[arg[p]] # "none"
        /\ \E v \in {"live", "deleted"} : nodes' = [nodes EXCEPT ![arg[p]] = v]
        /\ Returns(p) /\ conn = None
        /\ UNCHANGED <<conn, group, nextNode, roster, tokens, history>>
        BY <1>4 DEF DeleteNode, SeenRows, TypeOK
  <2>1. TypeOK' BY <2>0 DEF TypeOK, Returns, Forgets, PCs, Blank, NoRoster, Rosters
  <2>2. Registrations' BY <2>0 DEF Registrations, TokenOneShot, TypeOK
  <2>3. Transaction' BY <2>0 DEF Transaction, TypeOK, Returns, Forgets
  <2>4. SeenRows' BY <2>0 DEF SeenRows, TypeOK, Returns, Forgets
  <2>5. Versions' BY <2>0 DEF Versions, TypeOK, Returns, Forgets
  <2> QED BY <2>1, <2>2, <2>3, <2>4, <2>5
<1>5. CASE UpdateRoster(p)
  <2>1. CASE Returns(p) /\ UNCHANGED roster
        BY <1>5, <2>1, ReturnsInv DEF UpdateRoster, tables
  <2>2. CASE roster.version = plan[p].version - 1 /\ roster' = plan[p] /\ Forgets(p, "log")
    <3> USE <1>5, <2>2 DEF UpdateRoster, Forgets
    <3>0. /\ pc' = [pc EXCEPT ![p] = "log"] /\ roster' = plan[p]
          /\ plan[p].version = roster.version + 1
          /\ UNCHANGED <<conn, group, nextNode, nodes, tokens, history>>
          BY DEF TypeOK, Rosters, Versions
    <3>1. TypeOK'
      <4>1. plan[p] \in Rosters BY DEF TypeOK
      <4>2. NoRoster \in Rosters /\ Blank \in [epoch : Nat, roster : Rosters]
            BY DEF NoRoster, Blank, Rosters
      <4> HIDE DEF Rosters, NoRoster, Blank
      <4> QED BY <3>0, <4>1, <4>2 DEF TypeOK, PCs
    <3>2. Registrations' BY DEF Registrations, TokenOneShot, TypeOK
    <3>3. Transaction' BY DEF Transaction, TypeOK
    <3>4. SeenRows' BY DEF SeenRows, TypeOK
    <3>5. Versions'
      <4>1. \A q \in Procs : pc'[q] \in {"built", "cosign", "updateRoster"} =>
              q # p /\ base'[q] = base[q] /\ plan'[q] = plan[q] /\ pc'[q] = pc[q]
            BY DEF TypeOK
      <4>2. \A q \in Procs : base[q].roster.version \in Nat /\ roster.version \in Nat
            BY DEF TypeOK, Rosters
      <4> QED BY <3>0, <4>1, <4>2 DEF Versions
    <3> QED BY <3>1, <3>2, <3>3, <3>4, <3>5
  <2> QED BY <1>5, <2>1, <2>2 DEF UpdateRoster, Accepts, ExpectedVersion
<1>6. CASE DeleteNodeCheck(p)
  <2> USE <1>6 DEF DeleteNodeCheck, tables
  <2>1. TypeOK' BY DEF TypeOK, PCs
  <2>2. Registrations' BY DEF Registrations, TokenOneShot, TypeOK
  <2>3. Transaction' BY DEF Transaction, TypeOK
  <2>4. SeenRows' BY DEF SeenRows, TypeOK
  <2>5. Versions' BY DEF Versions, TypeOK
  <2> QED BY <2>1, <2>2, <2>3, <2>4, <2>5
<1>7. CASE DeleteGroup(p)
  <2> USE <1>7 DEF DeleteGroup, Returns, Forgets
  <2>1. TypeOK' BY DEF TypeOK, PCs, Blank, NoRoster, Rosters
  <2>2. Registrations' BY DEF Registrations, TokenOneShot, TypeOK
  <2>3. Transaction' BY DEF Transaction, TypeOK
  <2>4. SeenRows' BY DEF SeenRows, TypeOK
  <2>5. Versions' BY DEF Versions, TypeOK
  <2> QED BY <2>1, <2>2, <2>3, <2>4, <2>5
<1>8. CASE ResetNodes(p)
  <2> USE <1>8 DEF ResetNodes, SoftDeleteAll
  <2>1. TypeOK' BY DEF TypeOK, PCs
  <2>2. Registrations' BY DEF Registrations, TokenOneShot, TypeOK
  <2>3. Transaction' BY DEF Transaction, TypeOK
  <2>4. SeenRows' BY DEF SeenRows, TypeOK
  <2>5. Versions' BY DEF Versions, TypeOK
  <2> QED BY <2>1, <2>2, <2>3, <2>4, <2>5
<1>9. CASE ResetRoster(p)
  <2> USE <1>9 DEF ResetRoster, Returns, Forgets
  <2>1. TypeOK' BY DEF TypeOK, PCs, Blank, NoRoster, Rosters
  <2>2. Registrations' BY DEF Registrations, TokenOneShot, TypeOK
  <2>3. Transaction' BY DEF Transaction, TypeOK
  <2>4. SeenRows' BY DEF SeenRows, TypeOK
  <2>5. Versions' BY DEF Versions, TypeOK, NoRoster
  <2> QED BY <2>1, <2>2, <2>3, <2>4, <2>5
<1>10. CASE DeregisterNode(p)
  <2> USE <1>10 DEF DeregisterNode, Forgets
  <2>0. arg[p] \in NodeNumbers /\ nodes[arg[p]] # "none" BY DEF SeenRows
  <2>1. TypeOK' BY DEF TypeOK, PCs, Blank, NoRoster, Rosters
  <2>2. Registrations' BY <2>0 DEF Registrations, TokenOneShot, TypeOK
  <2>3. Transaction' BY DEF Transaction, TypeOK
  <2>4. SeenRows' BY <2>0 DEF SeenRows, TypeOK
  <2>5. Versions' BY DEF Versions, TypeOK
  <2> QED BY <2>1, <2>2, <2>3, <2>4, <2>5
<1>11. CASE ListNodes(p)
  <2> USE <1>11 DEF ListNodes, tables
  <2>0. Cardinality(LiveNodes) \in Nat
    <3>1. LiveNodes \subseteq NodeNumbers
          BY DEF LiveNodes
    <3>2. IsFiniteSet(NodeNumbers)
          BY FS_Interval, 1 \in Int, MaxNode \in Int DEF NodeNumbers
    <3>3. IsFiniteSet(LiveNodes)
          BY <3>1, <3>2, FS_Subset
    <3> QED BY <3>3, FS_CardinalityType
  <2>1. TypeOK' BY <2>0 DEF TypeOK, PCs
  <2>2. Registrations' BY DEF Registrations, TokenOneShot
  <2>3. Transaction' BY DEF Transaction, TypeOK
  <2>4. SeenRows' BY DEF SeenRows, TypeOK
  <2>5. Versions' BY DEF Versions, TypeOK
  <2> QED BY <2>1, <2>2, <2>3, <2>4, <2>5
<1>12. CASE RowsExhausted(p) \/ CountActivity(p)
  <2> USE <1>12 DEF RowsExhausted, CountActivity, tables
  <2>1. TypeOK' BY DEF TypeOK, PCs
  <2>2. Registrations' BY DEF Registrations, TokenOneShot
  <2>3. Transaction' BY DEF Transaction, TypeOK
  <2>4. SeenRows' BY DEF SeenRows, TypeOK
  <2>5. Versions' BY DEF Versions, TypeOK
  <2> QED BY <2>1, <2>2, <2>3, <2>4, <2>5
<1> QED BY <1>1, <1>2, <1>3, <1>4, <1>5, <1>6, <1>7, <1>8, <1>9, <1>10, <1>11, <1>12 DEF Works

\* TableInv is kept by every step.
LEMMA TableNext == ASSUME TableInv, [Next]_vars PROVE TableInv'
<1>1. CASE UNCHANGED vars
      BY <1>1 DEF vars, TableInv, TypeOK, Registrations, TokenOneShot, Transaction,
                  SeenRows, Versions
<1>2. CASE PostConnectivityGroup \/ \E t \in Tokens : TokenExpires(t)
      BY <1>2, OutsideInv
<1>3. ASSUME NEW p \in Procs, Starts(p) \/ Works(p) \/ Hears(p) \/ Abort(p)
      PROVE  TableInv'
      BY <1>3, StartsInv, WorksInv, HearsInv, ReturnsInv DEF Abort
<1> QED BY <1>1, <1>2, <1>3 DEF Next

-----------------------------------------------------------------------------
(* Revocations is kept: until a group is reset, roster updates only add to  *)
(* what is revoked, because equal versions mean equal rosters.              *)

\* Every step keeps Revocations.
LEMMA RevocationsNext ==
  ASSUME TableInv, Revocations, [Next]_vars
  PROVE  Revocations'
<1> SUFFICES ASSUME resets = 0, resets' = 0 PROVE Revocations'
  <2>1. resets' # 0 => Revocations' BY DEF Revocations
  <2>2. resets' = 0 => resets = 0
        BY DEF Next, vars, tables, history, locals, PostConnectivityGroup, TokenExpires, Abort,
           Starts, PostTokenCheck, RegisterLookup, DeregisterAuth, GetRoster,
           DeleteNodeReadRoster, DeleteGroupNodes, ResetCheck, QuotaCheck,
           Works, PostTokenInsert, RegisterCommit, InsertActivityLog, DeregisterNode,
           UpdateRoster, DeleteNodeCheck, DeleteNodeRefused, DeleteNode, DeleteGroup,
           ResetNodes, ResetRoster, ListNodes, RowsExhausted, CountActivity, CountTokens,
           Hears, UpdateRefused, UpdateActivation, CosignReturns, UpdateRevocation,
           TableInv, TypeOK
  <2> QED BY <2>1, <2>2
<1> USE DEF TableInv, TypeOK, tables, history, locals, At, Goes
<1>1. CASE UNCHANGED vars BY <1>1 DEF vars, Revocations
<1>2. CASE PostConnectivityGroup \/ \E t \in Tokens : TokenExpires(t)
      BY <1>2 DEF PostConnectivityGroup, TokenExpires, Revocations
<1>3. ASSUME NEW p \in Procs, Abort(p) PROVE Revocations'
      BY <1>3 DEF Abort, Returns, Forgets, Revocations
<1>4. ASSUME NEW p \in Procs, Starts(p) PROVE Revocations'
  <2> USE DEF Takes, Revocations
  <2>1. CASE PostTokenCheck(p) \/ QuotaCheck(p) \/ ResetCheck(p) \/ DeleteGroupNodes(p)
             \/ (\E t \in Tokens : RegisterLookup(p, t))
             \/ (\E n \in NodeNumbers : DeregisterAuth(p, n))
    <3>1. /\ pc[p] = "idle" /\ UNCHANGED <<roster, base, plan>>
          /\ \E at \in {"mint", "listNodes", "resetNodes", "deleteGroup", "register", "deregister"} :
               pc' = [pc EXCEPT ![p] = at]
          /\ \A q \in Procs \ {p} : arg'[q] = arg[q]
      <4> HIDE DEF Revocations
      <4> QED BY <2>1 DEF PostTokenCheck, QuotaCheck, ResetCheck, DeleteGroupNodes,
                          RegisterLookup, DeregisterAuth
    <3> QED BY <3>1
  <2>2. ASSUME NEW n \in NodeNumbers, GetRoster(p, n) \/ DeleteNodeReadRoster(p, n)
        PROVE  Revocations'
    <3>1. /\ base' = [base EXCEPT ![p] = [epoch |-> resets, roster |-> roster]]
          /\ pc' = [pc EXCEPT ![p] = "built"] \/ pc' = [pc EXCEPT ![p] = "checkNode"]
          /\ UNCHANGED <<tables, history, plan>>
          /\ arg' = [arg EXCEPT ![p] = n]
      <4> HIDE DEF Revocations, TableInv, TypeOK
      <4> QED BY <2>2 DEF GetRoster, DeleteNodeReadRoster
    <3>2. base'[p].roster = roster BY <3>1
    <3>3. \A q \in Procs : q # p => /\ base'[q] = base[q] /\ plan'[q] = plan[q]
                                   /\ arg'[q] = arg[q] /\ pc'[q] = pc[q]
          BY <3>1
    <3>4. pc'[p] \in {"built", "checkNode"} BY <3>1
    <3>5. UNCHANGED <<roster, resets>> BY <3>1
    <3> QED BY <3>2, <3>3, <3>4, <3>5
  <2> QED BY <1>4, <2>1, <2>2 DEF Starts
<1>5. ASSUME NEW p \in Procs, Hears(p) PROVE Revocations'
  <2> USE DEF Revocations
  <2>1. CASE UpdateRefused(p) BY <2>1 DEF UpdateRefused, Returns, Forgets
  <2>2. CASE CosignReturns(p) BY <2>2 DEF CosignReturns
  <2>3. CASE UpdateActivation(p) BY <2>3 DEF UpdateActivation, Activated
  <2>4. ASSUME NEW m \in NodeNumbers, UpdateRevocation(p, m) PROVE Revocations'
        BY <2>4 DEF UpdateRevocation, Revoked
  <2> QED BY <1>5, <2>1, <2>2, <2>3, <2>4 DEF Hears
<1>6. ASSUME NEW p \in Procs, Works(p) PROVE Revocations'
  <2> USE DEF Revocations
  <2>1. CASE InsertActivityLog(p) \/ DeleteNodeRefused(p) \/ CountTokens(p) \/ DeleteNode(p)
             \/ DeleteGroup(p) \/ \E t \in Tokens : PostTokenInsert(p, t)
    <3>1. Returns(p) /\ UNCHANGED <<roster, resets>>
      <4> HIDE DEF Revocations, TableInv, TypeOK
      <4> QED BY <2>1 DEF InsertActivityLog, DeleteNodeRefused, CountTokens, DeleteNode,
                          DeleteGroup, PostTokenInsert
    <3> QED BY <3>1 DEF Returns, Forgets
  <2>2. CASE RegisterCommit(p) \/ DeregisterNode(p)
    <3>1. Forgets(p, "log") /\ UNCHANGED <<roster, resets>>
      <4> HIDE DEF Revocations, TableInv, TypeOK
      <4> QED BY <2>2 DEF RegisterCommit, DeregisterNode
    <3> QED BY <3>1 DEF Forgets
  <2>3. CASE DeleteNodeCheck(p)
        BY <2>3 DEF DeleteNodeCheck
  <2>4. CASE ListNodes(p) \/ RowsExhausted(p) \/ CountActivity(p) \/ ResetNodes(p)
    <3>1. /\ UNCHANGED <<roster, base, plan>>
          /\ \E at \in {"rows", "countActivity", "countTokens", "resetRoster"} :
               pc' = [pc EXCEPT ![p] = at]
          /\ \A q \in Procs \ {p} : arg'[q] = arg[q]
      <4> HIDE DEF Revocations
      <4> QED BY <2>4 DEF ListNodes, RowsExhausted, CountActivity, ResetNodes
    <3> QED BY <3>1
  <2>5. CASE UpdateRoster(p)
    <3>0. \E at \in {"log", "idle"} : Forgets(p, at)
      <4> HIDE DEF Revocations, TableInv, TypeOK
      <4> QED BY <2>5 DEF UpdateRoster, Returns
    <3>1. CASE roster' = roster BY <3>0, <3>1 DEF Forgets
    <3>2. CASE roster' # roster
      <4>1. roster' = plan[p] /\ roster.version = plan[p].version - 1
            BY <2>5, <3>2 DEF UpdateRoster, Accepts, ExpectedVersion
      <4>2. base[p].roster = roster
            BY <2>5, <4>1 DEF UpdateRoster, Versions, Rosters
      <4>3. roster.revoked \subseteq roster'.revoked
            BY <2>5, <4>1, <4>2 DEF UpdateRoster
      <4> QED BY <2>5, <3>0, <4>1, <4>3 DEF UpdateRoster, Forgets
    <3> QED BY <3>1, <3>2
  <2>6. CASE ResetRoster(p)
        BY <2>6 DEF ResetRoster, Returns, Forgets
  <2> QED BY <1>6, <2>1, <2>2, <2>3, <2>4, <2>5, <2>6 DEF Works
<1> QED BY <1>1, <1>2, <1>3, <1>4, <1>5, <1>6 DEF Next

-----------------------------------------------------------------------------
(* Counted is kept: what a quota has counted stays covered by used tokens.  *)

\* Every live node was registered with a used token of its own, so there are no
\* more live nodes than used tokens.
LEMMA LiveNodesCovered ==
  ASSUME TypeOK, Registrations
  PROVE  /\ Cardinality(LiveNodes) \in Nat /\ Cardinality(UsedTokens) \in Nat
         /\ Cardinality(LiveNodes) <= Cardinality(UsedTokens)
<1> DEFINE f == [n \in LiveNodes |-> issued[n]]
<1>1. IsFiniteSet(UsedTokens)
      BY FS_Subset, StoreAssumption DEF UsedTokens
<1>2. f \in Injection(LiveNodes, UsedTokens)
  <2>1. \A n \in LiveNodes : f[n] \in UsedTokens
        BY DEF LiveNodes, UsedTokens, Registrations, TypeOK
  <2>2. \A m, n \in LiveNodes : f[m] = f[n] => m = n
        BY DEF LiveNodes, Registrations, TokenOneShot
  <2>3. f \in [LiveNodes -> UsedTokens] BY <2>1
  <2> QED BY <2>2, <2>3 DEF Injection, IsInjective
<1>3. /\ IsFiniteSet(LiveNodes)
      /\ Cardinality(LiveNodes) <= Cardinality(UsedTokens)
  <2> HIDE DEF f
  <2> QED BY <1>1, <1>2, FS_Injection
<1> QED BY <1>1, <1>3, FS_CardinalityType

\* A used token stays used; a handler that has counted nodes has just done so, or
\* keeps its number.
LEMMA CountsKept ==
  ASSUME TableInv, [Next]_vars
  PROVE  /\ UsedTokens \subseteq UsedTokens'
         /\ \A p \in Procs : pc'[p] \in {"rows", "countActivity", "countTokens"} =>
              \/ ListNodes(p)
              \/ pc[p] \in {"rows", "countActivity", "countTokens"} /\ arg'[p] = arg[p]
<1> DEFINE Kept(q) == pc'[q] \in {"rows", "countActivity", "countTokens"} =>
                        \/ ListNodes(q)
                        \/ pc[q] \in {"rows", "countActivity", "countTokens"} /\ arg'[q] = arg[q]
<1> USE DEF TableInv, TypeOK, UsedTokens, tables, history, locals, At, Takes, Goes
<1>1. CASE UNCHANGED vars BY <1>1 DEF vars
<1>2. CASE PostConnectivityGroup \/ \E t \in Tokens : TokenExpires(t)
      BY <1>2 DEF PostConnectivityGroup, TokenExpires
<1>3. ASSUME NEW p \in Procs, \E at \in {"idle", "log"} : Forgets(p, at),
             UsedTokens \subseteq UsedTokens'
      PROVE  /\ UsedTokens \subseteq UsedTokens'
             /\ \A q \in Procs : Kept(q)
      BY <1>3 DEF Forgets
<1>4. ASSUME NEW p \in Procs, NEW at, pc' = [pc EXCEPT ![p] = at],
             at \notin {"rows", "countActivity", "countTokens"},
             \A q \in Procs \ {p} : arg'[q] = arg[q], UNCHANGED tokens
      PROVE  /\ UsedTokens \subseteq UsedTokens'
             /\ \A q \in Procs : Kept(q)
      BY <1>4
<1>5. ASSUME NEW p \in Procs, Abort(p) \/ UpdateRefused(p) \/ InsertActivityLog(p)
             \/ DeleteNodeRefused(p) \/ CountTokens(p) \/ DeleteNode(p) \/ DeleteGroup(p)
             \/ ResetRoster(p) \/ DeregisterNode(p) \/ UpdateRoster(p) \/ RegisterCommit(p)
             \/ \E t \in Tokens : PostTokenInsert(p, t)
      PROVE  /\ UsedTokens \subseteq UsedTokens'
             /\ \A q \in Procs : Kept(q)
  <2>1. \E at \in {"idle", "log"} : Forgets(p, at)
        BY <1>5 DEF Abort, UpdateRefused, InsertActivityLog, DeleteNodeRefused, CountTokens,
           DeleteNode, DeleteGroup, ResetRoster, DeregisterNode, UpdateRoster,
           RegisterCommit, PostTokenInsert, Returns
  <2>2. UsedTokens \subseteq UsedTokens'
        BY <1>5 DEF Abort, UpdateRefused, InsertActivityLog, DeleteNodeRefused, CountTokens,
           DeleteNode, DeleteGroup, ResetRoster, DeregisterNode, UpdateRoster,
           RegisterCommit, PostTokenInsert
  <2> QED BY <1>3, <2>1, <2>2
<1>6. ASSUME NEW p \in Procs, UpdateActivation(p) \/ CosignReturns(p)
             \/ (\E m \in NodeNumbers : UpdateRevocation(p, m)) \/ DeleteNodeCheck(p)
             \/ ResetNodes(p) \/ Starts(p)
      PROVE  /\ UsedTokens \subseteq UsedTokens'
             /\ \A q \in Procs : Kept(q)
  <2>1. /\ \E at \in {"cosign", "updateRoster", "deleteNode", "resetRoster", "mint",
                      "register", "deregister", "built", "checkNode", "deleteGroup",
                      "resetNodes", "listNodes"} : pc' = [pc EXCEPT ![p] = at]
        /\ \A q \in Procs \ {p} : arg'[q] = arg[q]
        /\ UNCHANGED tokens
        BY <1>6 DEF UpdateActivation, CosignReturns, UpdateRevocation, DeleteNodeCheck,
           ResetNodes, Starts, PostTokenCheck, RegisterLookup, DeregisterAuth, GetRoster,
           DeleteNodeReadRoster, DeleteGroupNodes, ResetCheck, QuotaCheck
  <2> QED BY <1>4, <2>1
<1>7. ASSUME NEW p \in Procs, ListNodes(p) \/ RowsExhausted(p) \/ CountActivity(p)
      PROVE  /\ UsedTokens \subseteq UsedTokens'
             /\ \A q \in Procs : Kept(q)
      BY <1>7 DEF ListNodes, RowsExhausted, CountActivity
<1> QED BY <1>1, <1>2, <1>5, <1>6, <1>7 DEF Next, Works, Hears

\* Every step keeps Counted.
LEMMA CountedNext ==
  ASSUME TableInv, Counted, [Next]_vars
  PROVE  Counted'
<1>1. TypeOK /\ Registrations /\ TypeOK'
      BY TableNext DEF TableInv
<1>2. /\ Cardinality(UsedTokens) \in Nat /\ Cardinality(UsedTokens') \in Nat
      /\ Cardinality(UsedTokens) <= Cardinality(UsedTokens')
  <2>1. IsFiniteSet(UsedTokens) /\ IsFiniteSet(UsedTokens')
        BY FS_Subset, StoreAssumption DEF UsedTokens
  <2> QED BY <2>1, CountsKept, FS_Subset, FS_CardinalityType
<1> SUFFICES ASSUME NEW p \in Procs, pc'[p] \in {"rows", "countActivity", "countTokens"}
             PROVE  arg'[p] \in Nat /\ arg'[p] <= Cardinality(UsedTokens')
    BY DEF Counted
<1>3. CASE ListNodes(p)
  <2>1. arg'[p] = Cardinality(LiveNodes)
        BY <1>1, <1>3 DEF ListNodes, TypeOK
  <2> QED BY <1>1, <1>2, <2>1, LiveNodesCovered
<1>4. CASE pc[p] \in {"rows", "countActivity", "countTokens"} /\ arg'[p] = arg[p]
      BY <1>2, <1>4 DEF Counted
<1> QED BY <1>3, <1>4, CountsKept

-----------------------------------------------------------------------------
(* The theorems.                                                            *)

\* StoreInv holds initially.
LEMMA InitInv == ASSUME Init PROVE StoreInv
BY StoreAssumption DEF Init, StoreInv, TableInv, Revocations, TypeOK, Registrations, TokenOneShot,
   Transaction, SeenRows, Versions, Counted, NodeNumbers, PCs, Blank, NoRoster, Rosters

\* So is StoreInv.
LEMMA NextInv == ASSUME StoreInv, [Next]_vars PROVE StoreInv'
BY TableNext, RevocationsNext, CountedNext DEF StoreInv

\* StoreInv, which says what a registration in its transaction may rely on and
\* what a roster version stands for, always holds.
THEOREM StoreInvariant == Spec => []StoreInv
BY InitInv, NextInv, PTL DEF Spec

\* CompleteNodeRegistration never makes two nodes from one token.
THEOREM TokensAreOneShot == Spec => []TokenOneShot
<1>1. StoreInv => TokenOneShot BY DEF StoreInv, TableInv, Registrations
<1> QED BY <1>1, StoreInvariant, PTL

\* A registration in its transaction gives the next free number to a new node,
\* with the group's row still there.
LEMMA CommitTakesFreeNumber ==
  ASSUME StoreInv, NEW p \in Procs, RegisterCommit(p)
  PROVE  /\ group = "live" /\ nextNode \in NodeNumbers
         /\ nodes[nextNode] = "none" /\ issued[nextNode] = None
BY StoreAssumption DEF StoreInv, TableInv, RegisterCommit, Transaction, Registrations, TypeOK,
   NodeNumbers

\* No other step makes a row live, revives one or changes who it was issued to.
LEMMA OthersOnlyDelete ==
  ASSUME StoreInv, [Next]_vars, \A p \in Procs : ~RegisterCommit(p), NEW n \in NodeNumbers
  PROVE  /\ nodes'[n] = nodes[n] \/ nodes'[n] = "deleted"
         /\ issued'[n] = issued[n]
<1> USE DEF tables, history, locals, StoreInv, TableInv, TypeOK
<1>1. CASE UNCHANGED vars BY <1>1 DEF vars
<1>2. CASE PostConnectivityGroup \/ \E t \in Tokens : TokenExpires(t)
      BY <1>2 DEF PostConnectivityGroup, TokenExpires
<1>3. ASSUME NEW p \in Procs, Starts(p)
      PROVE  /\ nodes'[n] = nodes[n] \/ nodes'[n] = "deleted"
             /\ issued'[n] = issued[n]
      BY <1>3 DEF Starts, PostTokenCheck, RegisterLookup, DeregisterAuth, GetRoster,
         DeleteNodeReadRoster, DeleteGroupNodes, SoftDeleteAll, ResetCheck, QuotaCheck
<1>4. ASSUME NEW p \in Procs, Works(p)
      PROVE  /\ nodes'[n] = nodes[n] \/ nodes'[n] = "deleted"
             /\ issued'[n] = issued[n]
      BY <1>4 DEF Works, PostTokenInsert, InsertActivityLog, DeregisterNode, UpdateRoster,
         DeleteNodeCheck, DeleteNodeRefused, DeleteNode, DeleteGroup, ResetNodes,
         SoftDeleteAll, ResetRoster, ListNodes, RowsExhausted, CountActivity, CountTokens
<1>5. ASSUME NEW p \in Procs, Hears(p) \/ Abort(p)
      PROVE  /\ nodes'[n] = nodes[n] \/ nodes'[n] = "deleted"
             /\ issued'[n] = issued[n]
      BY <1>5 DEF Hears, Abort, UpdateRefused, UpdateActivation, CosignReturns,
         UpdateRevocation
<1> QED BY <1>1, <1>2, <1>3, <1>4, <1>5 DEF Next

\* Node numbers are never reused, across deletions and resets.
THEOREM NumbersAreNeverReused == Spec => NumbersNeverReused
<1>1. ASSUME StoreInv, [Next]_vars, NEW n \in NodeNumbers
      PROVE  /\ nodes[n] = "deleted" => nodes'[n] = "deleted"
             /\ issued[n] # None => issued'[n] = issued[n]
  <2>1. ASSUME NEW p \in Procs, RegisterCommit(p)
        PROVE  /\ nodes[n] = "deleted" => nodes'[n] = "deleted"
               /\ issued[n] # None => issued'[n] = issued[n]
        BY <1>1, <2>1, CommitTakesFreeNumber DEF RegisterCommit, StoreInv, TableInv, TypeOK
  <2> QED BY <1>1, <2>1, OthersOnlyDelete
<1>2. StoreInv /\ [Next]_vars
        => [\A n \in NodeNumbers :
              /\ nodes[n] = "deleted" => nodes'[n] = "deleted"
              /\ issued[n] # None => issued'[n] = issued[n]]_vars
      BY <1>1
<1> QED BY <1>2, StoreInvariant, PTL DEF Spec, NumbersNeverReused

\* Deleting the group closes it to registrations.
THEOREM NoneRegisteredAfterDelete == Spec => NoRegistrationAfterDelete
<1>1. ASSUME StoreInv, [Next]_vars, group = "deleted", NEW n \in NodeNumbers,
             nodes'[n] = "live"
      PROVE  nodes[n] = "live"
  <2>1. \A p \in Procs : ~RegisterCommit(p)
        BY <1>1, CommitTakesFreeNumber
  <2> QED BY <1>1, <2>1, OthersOnlyDelete
<1>2. StoreInv /\ [Next]_vars
        => [group = "deleted"
              => \A n \in NodeNumbers : nodes'[n] = "live" => nodes[n] = "live"]_vars
      BY <1>1
<1> QED BY <1>2, StoreInvariant, PTL DEF Spec, NoRegistrationAfterDelete

\* The version test of Backend.UpdateRoster loses no update made since the last
\* reset: equal versions mean equal rosters.
THEOREM NoRosterUpdateLost == Spec => NoLostRosterUpdate
<1>1. ASSUME StoreInv, NEW p \in Procs, UpdateRoster(p), roster' # roster,
             base[p].epoch = resets
      PROVE  base[p].roster = roster
      BY <1>1 DEF UpdateRoster, Accepts, ExpectedVersion, At, StoreInv, TableInv, Versions,
         TypeOK, Rosters
<1>2. StoreInv /\ [Next]_vars
        => [\A p \in Procs : UpdateRoster(p) /\ roster' # roster /\ base[p].epoch = resets
              => base[p].roster = roster]_vars
      BY <1>1
<1> QED BY <1>2, StoreInvariant, PTL DEF Spec, NoLostRosterUpdate

\* deleteNode acts on a roster that still says what it read: a node it deletes is
\* revoked, until the first reset.
THEOREM DeletedNodesAreRevoked == Spec => DeletesOnlyRevoked
<1>1. ASSUME StoreInv, NEW p \in Procs, DeleteNode(p), resets = 0
      PROVE  arg[p] \in roster.revoked /\ arg[p] \notin roster.active
      BY <1>1 DEF DeleteNode, At, StoreInv, Revocations
<1>2. StoreInv /\ [Next]_vars
        => [\A p \in Procs : DeleteNode(p) /\ resets = 0
              => arg[p] \in roster.revoked /\ arg[p] \notin roster.active]_vars
      BY <1>1
<1> QED BY <1>2, StoreInvariant, PTL DEF Spec, DeletesOnlyRevoked

\* getConnectivityGroup counts no registration twice: the nodes it counted came
\* from used tokens, which are not among the pending ones it counts later.
THEOREM QuotaIsNotOvercounted == Spec => QuotaCountsOnce
<1>1. ASSUME StoreInv, NEW p \in Procs, CountTokens(p)
      PROVE  arg[p] + Cardinality(PendingTokens)
               <= Cardinality({t \in Tokens : tokens[t] # "none"})
  <2> DEFINE minted == {t \in Tokens : tokens[t] # "none"}
  <2>1. arg[p] \in Nat /\ arg[p] <= Cardinality(UsedTokens)
        BY <1>1 DEF CountTokens, At, StoreInv, Counted
  <2>2. IsFiniteSet(UsedTokens) /\ IsFiniteSet(PendingTokens) /\ IsFiniteSet(minted)
        BY FS_Subset, StoreAssumption DEF UsedTokens, PendingTokens
  <2>3. UsedTokens \cup PendingTokens \subseteq minted /\ UsedTokens \cap PendingTokens = {}
        BY DEF UsedTokens, PendingTokens
  <2> HIDE DEF minted
  <2>4. Cardinality(UsedTokens \cup PendingTokens)
          = Cardinality(UsedTokens) + Cardinality(PendingTokens) - 0
        BY <2>2, <2>3, FS_Union, FS_EmptySet
  <2>5. Cardinality(UsedTokens \cup PendingTokens) <= Cardinality(minted)
        BY <2>2, <2>3, FS_Subset
  <2>6. /\ Cardinality(UsedTokens) \in Nat /\ Cardinality(PendingTokens) \in Nat
        /\ Cardinality(minted) \in Nat
        BY <2>2, FS_CardinalityType
  <2>7. arg[p] + Cardinality(PendingTokens) <= Cardinality(minted)
        BY <2>1, <2>4, <2>5, <2>6
  <2> QED BY <2>7 DEF minted
<1>2. StoreInv /\ [Next]_vars
        => [\A p \in Procs : CountTokens(p)
              => arg[p] + Cardinality(PendingTokens)
                 <= Cardinality({t \in Tokens : tokens[t] # "none"})]_vars
      BY <1>1
<1> QED BY <1>2, StoreInvariant, PTL DEF Spec, QuotaCountsOnce

-----------------------------------------------------------------------------
(* Store implements Registry, for one group.                                *)

\* A step that leaves the group, the nodes and who they were issued to alone, and
\* mints no token, is a stutter of the registry.
LEMMA RefStutter ==
  ASSUME UNCHANGED <<group, nodes, issued>>,
         \A t \in Tokens : tokens'[t] = "none" <=> tokens[t] = "none"
  PROVE  UNCHANGED R!registry
BY DEF R!registry

\* Soft-deleting live nodes, any set of them, is the registry's Remove.
LEMMA RefRemove ==
  ASSUME TypeOK, UNCHANGED <<group, issued, tokens>>, NEW S \in SUBSET NodeNumbers,
         nodes' = [n \in NodeNumbers |-> IF n \in S /\ nodes[n] = "live"
                                           THEN "deleted" ELSE nodes[n]]
  PROVE  R!RegistryNext
<1>1. R!Remove("cg", S) BY DEF R!Remove
<1> QED BY <1>1 DEF R!RegistryNext

\* The statements that are seen from outside are steps of the registry.
LEMMA RefWorks ==
  ASSUME StoreInv, NEW p \in Procs, Works(p)
  PROVE  R!RegistryNext \/ UNCHANGED R!registry
<1> USE StoreAssumption DEF StoreInv, TableInv, tables, history
<1>1. ASSUME NEW t \in Tokens, PostTokenInsert(p, t) PROVE R!RegistryNext
  <2>1. group # "none" BY <1>1 DEF PostTokenInsert, At, SeenRows
  <2>2. R!MintToken(t, "cg")
        BY <1>1, <2>1 DEF PostTokenInsert, R!MintToken, TypeOK
  <2> QED BY <2>2 DEF R!RegistryNext
<1>2. CASE RegisterCommit(p)
  <2>1. /\ arg[p] \in Tokens /\ tokens[arg[p]] \in {"pending", "expired"}
        /\ \A n \in NodeNumbers : issued[n] # arg[p]
        BY <1>2 DEF RegisterCommit, Transaction, Registrations
  <2>2. group = "live" /\ nextNode \in NodeNumbers /\ nodes[nextNode] = "none"
        BY <1>2, CommitTakesFreeNumber
  <2>3. R!Register(arg[p], nextNode)
        BY <1>2, <2>1, <2>2 DEF RegisterCommit, R!Register, R!Spent, TypeOK
  <2> QED BY <2>1, <2>2, <2>3 DEF R!RegistryNext
<1>3. CASE DeregisterNode(p)
  <2>1. arg[p] \in NodeNumbers /\ nodes[arg[p]] # "none"
        BY <1>3 DEF DeregisterNode, At, SeenRows
  <2>2. nodes' = [n \in NodeNumbers |-> IF n \in {arg[p]} /\ nodes[n] = "live"
                                          THEN "deleted" ELSE nodes[n]]
        BY <1>3, <2>1 DEF DeregisterNode, TypeOK
  <2>3. {arg[p]} \in SUBSET NodeNumbers BY <2>1
  <2>4. UNCHANGED <<group, issued, tokens>> BY <1>3 DEF DeregisterNode
  <2> HIDE DEF StoreInv, TableInv
  <2>5. TypeOK BY DEF StoreInv, TableInv
  <2> QED BY <2>2, <2>3, <2>4, <2>5, RefRemove
<1>4. CASE DeleteNode(p)
  <2>1. arg[p] \in NodeNumbers BY <1>4 DEF DeleteNode, At, SeenRows
  <2>2. nodes' = [n \in NodeNumbers |-> IF n \in {arg[p]} /\ nodes[n] = "live"
                                          THEN "deleted" ELSE nodes[n]]
        BY <1>4, <2>1 DEF DeleteNode, TypeOK
  <2>3. {arg[p]} \in SUBSET NodeNumbers BY <2>1
  <2>4. UNCHANGED <<group, issued, tokens>> BY <1>4 DEF DeleteNode
  <2> HIDE DEF StoreInv, TableInv
  <2>5. TypeOK BY DEF StoreInv, TableInv
  <2> QED BY <2>2, <2>3, <2>4, <2>5, RefRemove
<1>5. CASE ResetNodes(p)
  <2>1. nodes' = [n \in NodeNumbers |-> IF n \in NodeNumbers /\ nodes[n] = "live"
                                          THEN "deleted" ELSE nodes[n]]
        BY <1>5 DEF ResetNodes, SoftDeleteAll, TypeOK
  <2> QED BY <1>5, <2>1, RefRemove DEF ResetNodes
<1>6. CASE DeleteGroup(p)
  <2>1. CASE group = "live"
    <3>1. R!DeleteGroup("cg") BY <1>6, <2>1 DEF DeleteGroup, R!DeleteGroup
    <3> QED BY <3>1 DEF R!RegistryNext
  <2>2. CASE group # "live" BY <1>6, <2>2, RefStutter DEF DeleteGroup
  <2> QED BY <2>1, <2>2
<1>7. CASE InsertActivityLog(p) \/ UpdateRoster(p) \/ DeleteNodeCheck(p)
           \/ DeleteNodeRefused(p) \/ ResetRoster(p) \/ ListNodes(p)
           \/ RowsExhausted(p) \/ CountActivity(p) \/ CountTokens(p)
      BY <1>7, RefStutter DEF InsertActivityLog, UpdateRoster, DeleteNodeCheck,
         DeleteNodeRefused, ResetRoster, ListNodes, RowsExhausted, CountActivity,
         CountTokens
<1> QED BY <1>1, <1>2, <1>3, <1>4, <1>5, <1>6, <1>7 DEF Works

\* Taking a request soft-deletes the nodes of a group that goes, or stutters.
LEMMA RefStarts ==
  ASSUME StoreInv, NEW p \in Procs, Starts(p)
  PROVE  R!RegistryNext \/ UNCHANGED R!registry
<1>1. CASE DeleteGroupNodes(p)
  <2>1. nodes' = [n \in NodeNumbers |-> IF n \in NodeNumbers /\ nodes[n] = "live"
                                          THEN "deleted" ELSE nodes[n]]
        BY <1>1 DEF DeleteGroupNodes, SoftDeleteAll
  <2> QED BY <1>1, <2>1, RefRemove DEF DeleteGroupNodes, history, StoreInv, TableInv
<1>2. CASE ~DeleteGroupNodes(p)
      BY <1>2, RefStutter DEF Starts, PostTokenCheck, RegisterLookup, DeregisterAuth,
         GetRoster, DeleteNodeReadRoster, ResetCheck, QuotaCheck, tables, history
<1> QED BY <1>1, <1>2

\* The single-step registry the sessions rely on is what the handlers implement.
THEOREM ImplementsTheRegistry == Spec => ImplementsRegistry
<1>1. Init => R!RegistryInit
      BY StoreAssumption DEF Init, R!RegistryInit
<1>2. ASSUME StoreInv, [Next]_vars PROVE [R!RegistryNext]_R!registry
  <2>1. CASE UNCHANGED vars BY <2>1, RefStutter DEF vars
  <2>2. CASE PostConnectivityGroup
    <3>1. R!CreateGroup("cg")
          BY <2>2 DEF PostConnectivityGroup, R!CreateGroup, history
    <3> QED BY <3>1 DEF R!RegistryNext
  <2>3. ASSUME NEW t \in Tokens, TokenExpires(t) PROVE UNCHANGED R!registry
        BY <1>2, <2>3, RefStutter DEF TokenExpires, StoreInv, TableInv, TypeOK, history
  <2>4. ASSUME NEW p \in Procs, Hears(p) \/ Abort(p) PROVE UNCHANGED R!registry
        BY <2>4, RefStutter DEF Hears, Abort, UpdateRefused, UpdateActivation,
           CosignReturns, UpdateRevocation, tables, history
  <2> QED BY <1>2, <2>1, <2>2, <2>3, <2>4, RefWorks, RefStarts DEF Next
<1> QED BY <1>1, <1>2, StoreInvariant, PTL DEF Spec, ImplementsRegistry, R!RegistrySpec

-----------------------------------------------------------------------------
(* What is proved of Registry holds of the tables.                          *)

P == INSTANCE RegistryProofs WITH
       Groups <- {"cg"},
       group  <- [g \in {"cg"} |-> group],
       nodes  <- [g \in {"cg"} |-> nodes],
       owner  <- [t \in Tokens |-> IF tokens[t] = "none" THEN None ELSE "cg"],
       issued <- [g \in {"cg"} |-> issued]

\* R and P are one and the same registry.
LEMMA SameRegistry == R!RegistrySpec => P!RegistrySpec
<1>1. R!RegistryInit => P!RegistryInit BY DEF R!RegistryInit, P!RegistryInit
<1>2. [R!RegistryNext]_R!registry => [P!RegistryNext]_P!registry
  <2>1. R!registry = P!registry /\ R!registry' = P!registry'
        BY DEF R!registry, P!registry
  <2>2. \A g \in {"cg"} : (R!CreateGroup(g) => P!CreateGroup(g))
                          /\ (R!DeleteGroup(g) => P!DeleteGroup(g))
        BY DEF R!CreateGroup, P!CreateGroup, R!DeleteGroup, P!DeleteGroup
  <2>3. \A t \in Tokens, g \in {"cg"} : R!MintToken(t, g) => P!MintToken(t, g)
        BY DEF R!MintToken, P!MintToken
  <2>4. \A t \in Tokens, n \in NodeNumbers : R!Register(t, n) => P!Register(t, n)
        BY DEF R!Register, P!Register, R!Spent, P!Spent
  <2>5. \A g \in {"cg"}, S \in SUBSET NodeNumbers : R!Remove(g, S) => P!Remove(g, S)
        BY DEF R!Remove, P!Remove
  <2>6. R!RegistryNext => P!RegistryNext
        BY <2>2, <2>3, <2>4, <2>5 DEF R!RegistryNext, P!RegistryNext
  <2> QED BY <2>1, <2>6
<1> QED BY <1>1, <1>2, PTL DEF R!RegistrySpec, P!RegistrySpec

\* A row of nodes is there if and only if its registration was answered with a credential,
\* and no two nodes have the same one: the statements of any number of handlers, aborted
\* wherever, keep what a single-step registry keeps.
THEOREM TablesKeepCredentials == Spec => []R!Credentials
<1>1. P!RegistryAssumption BY StoreAssumption DEF P!RegistryAssumption
<1>2. P!RegistrySpec => [](P!RegistryTypeOK /\ P!Credentials) BY <1>1, P!CredentialsAreUnique
<1>3. P!Credentials => R!Credentials BY DEF P!Credentials, R!Credentials
<1> QED BY <1>2, <1>3, SameRegistry, ImplementsTheRegistry, PTL DEF ImplementsRegistry
=============================================================================
