------------------------------- MODULE Store -------------------------------
(***************************************************************************)
(* The standalone hub's sqlite state: the gRPC backend of                  *)
(* connect/hub/standalone_grpc.go, the REST API of standalone_rest.go and  *)
(* the UpdateRoster and DeregisterNode handlers of hubsrv.go that call it. *)
(*                                                                         *)
(* One connectivity group is modelled: no statement touches two.  Every    *)
(* SQL statement is one step, because the pool has a single connection     *)
(* (SetMaxOpenConns(1)); a registration keeps that connection from BEGIN   *)
(* to COMMIT and a query of many rows until the last row is read, every    *)
(* other statement gives it back at once, so handlers interleave between   *)
(* statements.  A handler may stop at any statement: its client hangs up,  *)
(* the statement fails, the hub crashes.                                   *)
(***************************************************************************)
EXTENDS Naturals, FiniteSets

CONSTANTS
  Procs,      \* handler goroutines
  Tokens,     \* registration tokens
  Kinds,      \* the requests the environment makes
  MaxNode,    \* bound: node numbers
  MaxVersion, \* bound: roster versions
  MaxResets,  \* bound: group resets
  None        \* nil

ASSUME StoreAssumption ==
  /\ None \notin Procs /\ None \notin Tokens /\ IsFiniteSet(Tokens)
  /\ Tokens \cap Nat = {} /\ None \notin Nat /\ None # "cg"
  /\ MaxNode \in Nat /\ MaxVersion \in Nat /\ MaxResets \in Nat

VARIABLES
  conn,      \* the handler that keeps the only connection, or None
  group,     \* the group's row: "none", "live" or "deleted"
  nextNode,  \* next_node_number
  nodes,     \* each node's row: "none", "live" or "deleted"
  roster,    \* roster and roster_version
  tokens,    \* each token's row: "none", "pending", "expired" or "used"
  resets,    \* history: how often the roster was reset
  issued,    \* history: the token each node was registered with
  pc,        \* what each handler does next
  arg,       \* the token or node number a handler works on
  base,      \* the roster a handler or its client has read; history: when
  plan       \* the roster a client wants stored

tables == <<group, nextNode, nodes, roster, tokens>>
history == <<resets, issued>>
locals == <<pc, arg, base, plan>>
vars == <<conn, group, nextNode, nodes, roster, tokens, resets, issued,
          pc, arg, base, plan>>

NodeNumbers == 1..MaxNode
Rosters == [version : Nat, active : SUBSET NodeNumbers, revoked : SUBSET NodeNumbers]
NoRoster == [version |-> 0, active |-> {}, revoked |-> {}]
Blank == [epoch |-> 0, roster |-> NoRoster]
PCs == {"idle", "mint", "register", "log", "deregister", "built", "cosign",
        "updateRoster", "checkNode", "deleteNode", "deleteGroup",
        "resetNodes", "resetRoster", "listNodes", "rows", "countActivity",
        "countTokens"}

\* The values every variable ranges over.
TypeOK ==
  /\ conn \in Procs \cup {None}
  /\ group \in {"none", "live", "deleted"}
  /\ nextNode \in 1..(MaxNode + 1)
  /\ nodes \in [NodeNumbers -> {"none", "live", "deleted"}]
  /\ roster \in Rosters
  /\ tokens \in [Tokens -> {"none", "pending", "expired", "used"}]
  /\ resets \in Nat
  /\ issued \in [NodeNumbers -> Tokens \cup {None}]
  /\ pc \in [Procs -> PCs]
  /\ arg \in [Procs -> Nat \cup Tokens \cup {None}]
  /\ base \in [Procs -> [epoch : Nat, roster : Rosters]]
  /\ plan \in [Procs -> Rosters]

Init ==
  /\ conn = None
  /\ group = "none"
  /\ nextNode = 1
  /\ nodes = [n \in NodeNumbers |-> "none"]
  /\ roster = NoRoster
  /\ tokens = [t \in Tokens |-> "none"]
  /\ resets = 0
  /\ issued = [n \in NodeNumbers |-> None]
  /\ pc = [p \in Procs |-> "idle"]
  /\ arg = [p \in Procs |-> None]
  /\ base = [p \in Procs |-> Blank]
  /\ plan = [p \in Procs |-> NoRoster]

-----------------------------------------------------------------------------
(* Handlers at large.                                                       *)

\* A free handler p takes a request of a kind the environment makes.
Takes(p, kind) == pc[p] = "idle" /\ kind \in Kinds /\ conn = None

\* Handler p is about to run the statement at, on the connection.
At(p, at) == pc[p] = at /\ conn = None

\* Handler p goes on to the next statement.
Goes(p, next) == pc' = [pc EXCEPT ![p] = next]

\* What handler p knew no longer matters to what it does next.
Forgets(p, next) ==
  /\ pc' = [pc EXCEPT ![p] = next]
  /\ arg' = [arg EXCEPT ![p] = None]
  /\ base' = [base EXCEPT ![p] = Blank]
  /\ plan' = [plan EXCEPT ![p] = NoRoster]

\* Handler p has answered.
Returns(p) == Forgets(p, "idle")

SoftDeleteAll == nodes' = [n \in NodeNumbers |->
                             IF nodes[n] = "live" THEN "deleted" ELSE nodes[n]]

\* Handler p stops between two statements: request context cancelled, statement
\* failed, or the hub went down.  The deferred Rollback frees the connection.
Abort(p) ==
  /\ pc[p] # "idle"
  /\ conn' = IF conn = p THEN None ELSE conn
  /\ Returns(p)
  /\ UNCHANGED <<tables, history>>

-----------------------------------------------------------------------------
(* Groups and tokens (REST).                                                *)

PostConnectivityGroup ==
  /\ group = "none"
  /\ conn = None
  /\ group' = "live"
  /\ UNCHANGED <<conn, nextNode, nodes, roster, tokens, history, locals>>

\* Bound: a token is left for every handler that has begun to mint one.
TokensLeft == Cardinality({p \in Procs : pc[p] = "mint"})
              < Cardinality({t \in Tokens : tokens[t] = "none"})

\* postRegistrationToken: groupExists ...
PostTokenCheck(p) ==
  /\ Takes(p, "mint")
  /\ group = "live" /\ TokensLeft
  /\ Goes(p, "mint")
  /\ UNCHANGED <<conn, tables, history, arg, base, plan>>

\* ... then the INSERT; the group may be gone by now.
PostTokenInsert(p, t) ==
  /\ At(p, "mint")
  /\ tokens[t] = "none"
  /\ tokens' = [tokens EXCEPT ![t] = "pending"]
  /\ Returns(p)
  /\ UNCHANGED <<conn, group, nextNode, nodes, roster, history>>

\* expires_at_millis passes.
TokenExpires(t) ==
  /\ tokens[t] = "pending"
  /\ "expire" \in Kinds
  /\ tokens' = [tokens EXCEPT ![t] = "expired"]
  /\ UNCHANGED <<conn, group, nextNode, nodes, roster, history, locals>>

-----------------------------------------------------------------------------
(* CompleteNodeRegistration: one transaction, then the activity log.        *)

\* Mutant: the lookup does not join the group's row.
RegisterLookupAnyGroup(p, t) ==
  /\ Takes(p, "register")
  /\ tokens[t] = "pending" /\ nextNode <= MaxNode
  /\ conn' = p
  /\ Goes(p, "register")
  /\ arg' = [arg EXCEPT ![p] = t]
  /\ UNCHANGED <<tables, history, base, plan>>

\* BEGIN and the token lookup.  A token that is used, expired or of a deleted
\* group is refused, which changes nothing.
RegisterLookup(p, t) ==
  /\ Takes(p, "register")
  /\ tokens[t] = "pending" /\ group = "live"
  /\ nextNode <= MaxNode
  /\ conn' = p
  /\ Goes(p, "register")
  /\ arg' = [arg EXCEPT ![p] = t]
  /\ UNCHANGED <<tables, history, base, plan>>

\* Mutant: the token is not marked used.
RegisterCommitKeepsToken(p) ==
  /\ pc[p] = "register" /\ conn = p
  /\ nextNode' = nextNode + 1
  /\ nodes' = [nodes EXCEPT ![nextNode] = "live"]
  /\ issued' = [issued EXCEPT ![nextNode] = arg[p]]
  /\ conn' = None
  /\ Forgets(p, "log")
  /\ UNCHANGED <<group, roster, tokens, resets>>

\* Mutant: the lowest number that no live node has, INSERT OR REPLACE.
RegisterCommitReuses(p) ==
  \E n \in NodeNumbers :
    /\ pc[p] = "register" /\ conn = p
    /\ nodes[n] # "live" /\ \A m \in 1..(n - 1) : nodes[m] = "live"
    /\ nextNode' = nextNode + 1
    /\ nodes' = [nodes EXCEPT ![n] = "live"]
    /\ tokens' = [tokens EXCEPT ![arg[p]] = "used"]
    /\ issued' = [issued EXCEPT ![n] = arg[p]]
    /\ conn' = None
    /\ Forgets(p, "log")
    /\ UNCHANGED <<group, roster, resets>>

\* The three writes of the transaction and COMMIT: nobody sees a part of them.  The
\* INSERT fails, and the handler aborts, if the number has a row: it is the primary key.
RegisterCommit(p) ==
  /\ pc[p] = "register" /\ conn = p
  /\ nodes[nextNode] = "none"
  /\ nextNode' = nextNode + 1
  /\ nodes' = [nodes EXCEPT ![nextNode] = "live"]
  /\ tokens' = [tokens EXCEPT ![arg[p]] = "used"]
  /\ issued' = [issued EXCEPT ![nextNode] = arg[p]]
  /\ conn' = None
  /\ Forgets(p, "log")
  /\ UNCHANGED <<group, roster, resets>>

\* insertActivityLog, also at the end of DeregisterNode and of a roster update: a
\* statement of its own, on the same pool.  The log's rows are not modelled.
InsertActivityLog(p) ==
  /\ At(p, "log")
  /\ Returns(p)
  /\ UNCHANGED <<conn, tables, history>>

-----------------------------------------------------------------------------
(* DeregisterNode (hub): authentication, the soft delete, the activity log. *)

DeregisterAuth(p, n) ==
  /\ Takes(p, "deregister")
  /\ nodes[n] = "live"
  /\ arg' = [arg EXCEPT ![p] = n]
  /\ Goes(p, "deregister")
  /\ UNCHANGED <<conn, tables, history, base, plan>>

DeregisterNode(p) ==
  /\ At(p, "deregister")
  /\ nodes' = [nodes EXCEPT ![arg[p]] = "deleted"]
  /\ Forgets(p, "log")
  /\ UNCHANGED <<conn, group, nextNode, roster, tokens, history>>

-----------------------------------------------------------------------------
(* Roster updates: the client reads the roster, extends it, and calls       *)
(* UpdateRoster of the hub, which awaits the endorser of an activation      *)
(* before it hands the roster to the backend.                               *)

\* The caller's authentication and the read: a caller deregistered in between is
\* refused when it comes back.
GetRoster(p, n) ==
  /\ Takes(p, "roster")
  /\ group = "live" /\ nodes[n] = "live"
  /\ base' = [base EXCEPT ![p] = [epoch |-> resets, roster |-> roster]]
  /\ arg' = [arg EXCEPT ![p] = n]
  /\ Goes(p, "built")
  /\ UNCHANGED <<conn, tables, history, plan>>

\* The roster r extended by an activation of n (external: made by the client).
Activated(r, n) == [version |-> r.version + 1,
                    active  |-> r.active \cup {n},
                    revoked |-> r.revoked]

\* The roster r extended by the revocation of m (external).
Revoked(r, m) == [version |-> r.version + 1,
                  active  |-> r.active \ {m},
                  revoked |-> r.revoked \cup {m}]

\* authenticateAndRateLimit refuses a caller deregistered meanwhile.
UpdateRefused(p) ==
  /\ At(p, "built")
  /\ nodes[arg[p]] # "live"
  /\ Returns(p)
  /\ UNCHANGED <<conn, tables, history>>

\* authenticateAndRateLimit accepts the caller; it must be the new node.
UpdateActivation(p) ==
  /\ At(p, "built")
  /\ nodes[arg[p]] = "live"
  /\ base[p].roster.version < MaxVersion
  /\ arg[p] \notin base[p].roster.active \cup base[p].roster.revoked
  /\ plan' = [plan EXCEPT ![p] = Activated(base[p].roster, arg[p])]
  /\ Goes(p, "cosign")
  /\ UNCHANGED <<conn, tables, history, arg, base>>

\* The caller must be the revoker.
UpdateRevocation(p, m) ==
  /\ At(p, "built")
  /\ nodes[arg[p]] = "live"
  /\ base[p].roster.version < MaxVersion
  /\ arg[p] \in base[p].roster.active /\ m \in base[p].roster.active
  /\ plan' = [plan EXCEPT ![p] = Revoked(base[p].roster, m)]
  /\ Goes(p, "updateRoster")
  /\ UNCHANGED <<conn, tables, history, arg, base>>

\* getEndorserCosignature: the endorser has answered through the router.
CosignReturns(p) ==
  /\ pc[p] = "cosign"
  /\ Goes(p, "updateRoster")
  /\ UNCHANGED <<conn, tables, history, arg, base, plan>>

\* Mutant: UpdateRoster without AND roster_version = expected_version.
UpdateRosterBlind(p) ==
  /\ At(p, "updateRoster")
  /\ group = "live"
  /\ roster' = plan[p]
  /\ Returns(p)
  /\ UNCHANGED <<conn, group, nextNode, nodes, tokens, history>>

\* The version before that of the last addendum, which clients number like the
\* roster it makes (external).
ExpectedVersion(p) == plan[p].version - 1

\* Backend.UpdateRoster takes the roster: a newer version, and one compare-and-set.
Accepts(p) ==
  /\ plan[p].version > ExpectedVersion(p)
  /\ group = "live" /\ roster.version = ExpectedVersion(p)

\* A success is logged.
UpdateRoster(p) ==
  /\ At(p, "updateRoster")
  /\ \/ /\ Accepts(p)
        /\ roster' = plan[p]
        /\ Forgets(p, "log")
     \/ /\ ~Accepts(p)
        /\ Returns(p)
        /\ UNCHANGED roster
  /\ UNCHANGED <<conn, group, nextNode, nodes, tokens, history>>

-----------------------------------------------------------------------------
(* deleteNode (REST): three statements.                                     *)

DeleteNodeReadRoster(p, n) ==
  /\ Takes(p, "deleteNode")
  /\ group = "live"
  /\ base' = [base EXCEPT ![p] = [epoch |-> resets, roster |-> roster]]
  /\ arg' = [arg EXCEPT ![p] = n]
  /\ Goes(p, "checkNode")
  /\ UNCHANGED <<conn, tables, history, plan>>

\* Mutant: the revoked test is dropped.
DeleteNodeCheckNothing(p) ==
  /\ At(p, "checkNode")
  /\ nodes[arg[p]] = "live"
  /\ Goes(p, "deleteNode")
  /\ UNCHANGED <<conn, tables, history, arg, base, plan>>

\* The node is there and revoked in the roster read before ...
DeleteNodeCheck(p) ==
  /\ At(p, "checkNode")
  /\ nodes[arg[p]] = "live" /\ arg[p] \in base[p].roster.revoked
  /\ Goes(p, "deleteNode")
  /\ UNCHANGED <<conn, tables, history, arg, base, plan>>

\* ... or the answer is 404 or 409.
DeleteNodeRefused(p) ==
  /\ At(p, "checkNode")
  /\ nodes[arg[p]] # "live" \/ arg[p] \notin base[p].roster.revoked
  /\ Returns(p)
  /\ UNCHANGED <<conn, tables, history>>

DeleteNode(p) ==
  /\ At(p, "deleteNode")
  /\ nodes' = [nodes EXCEPT ![arg[p]] = IF @ = "live" THEN "deleted" ELSE @]
  /\ Returns(p)
  /\ UNCHANGED <<conn, group, nextNode, roster, tokens, history>>

-----------------------------------------------------------------------------
(* deleteConnectivityGroup and resetConnectivityGroup (REST).               *)

DeleteGroupNodes(p) ==
  /\ Takes(p, "deleteGroup")
  /\ SoftDeleteAll
  /\ Goes(p, "deleteGroup")
  /\ UNCHANGED <<conn, group, nextNode, roster, tokens, history, arg, base, plan>>

DeleteGroup(p) ==
  /\ At(p, "deleteGroup")
  /\ group' = IF group = "live" THEN "deleted" ELSE group
  /\ Returns(p)
  /\ UNCHANGED <<conn, nextNode, nodes, roster, tokens, history>>

ResetCheck(p) ==
  /\ Takes(p, "reset")
  /\ group = "live" /\ resets < MaxResets
  /\ Goes(p, "resetNodes")
  /\ UNCHANGED <<conn, tables, history, arg, base, plan>>

ResetNodes(p) ==
  /\ At(p, "resetNodes")
  /\ SoftDeleteAll
  /\ Goes(p, "resetRoster")
  /\ UNCHANGED <<conn, group, nextNode, roster, tokens, history, arg, base, plan>>

ResetRoster(p) ==
  /\ At(p, "resetRoster")
  /\ roster' = IF group = "live" THEN NoRoster ELSE roster
  /\ resets' = IF group = "live" THEN resets + 1 ELSE resets
  /\ Returns(p)
  /\ UNCHANGED <<conn, group, nextNode, nodes, tokens, issued>>

-----------------------------------------------------------------------------
(* getConnectivityGroup (REST): the quota is the number of nodes, read row  *)
(* by row, plus the number of pending tokens, read by a later statement.    *)

LiveNodes == {n \in NodeNumbers : nodes[n] = "live"}
PendingTokens == {t \in Tokens : tokens[t] = "pending"}

QuotaCheck(p) ==
  /\ Takes(p, "quota")
  /\ group = "live"
  /\ Goes(p, "listNodes")
  /\ UNCHANGED <<conn, tables, history, arg, base, plan>>

\* The query of the nodes: rows keeps the connection.  arg[p] is len(nodeList).
ListNodes(p) ==
  /\ At(p, "listNodes")
  /\ conn' = p
  /\ arg' = [arg EXCEPT ![p] = Cardinality(LiveNodes)]
  /\ Goes(p, "rows")
  /\ UNCHANGED <<tables, history, base, plan>>

\* Mutant: the loop stops before the last row; rows is closed at return only.
RowsKept(p) ==
  /\ pc[p] = "rows" /\ conn = p
  /\ Goes(p, "countActivity")
  /\ UNCHANGED <<conn, tables, history, arg, base, plan>>

\* rows.Next has said there are no more: that closes rows.
RowsExhausted(p) ==
  /\ pc[p] = "rows" /\ conn = p
  /\ conn' = None
  /\ Goes(p, "countActivity")
  /\ UNCHANGED <<tables, history, arg, base, plan>>

\* The activity statistics; the handler goes on if they fail.
CountActivity(p) ==
  /\ At(p, "countActivity")
  /\ Goes(p, "countTokens")
  /\ UNCHANGED <<conn, tables, history, arg, base, plan>>

\* The answer is arg[p] plus the tokens counted now.
CountTokens(p) ==
  /\ At(p, "countTokens")
  /\ Returns(p)
  /\ UNCHANGED <<conn, tables, history>>

-----------------------------------------------------------------------------
\* What handler p does once it has taken its request.
Works(p) ==
  \/ \E t \in Tokens : PostTokenInsert(p, t)
  \/ RegisterCommit(p) \/ InsertActivityLog(p)
  \/ DeregisterNode(p)
  \/ UpdateRoster(p)
  \/ DeleteNodeCheck(p) \/ DeleteNodeRefused(p) \/ DeleteNode(p)
  \/ DeleteGroup(p) \/ ResetNodes(p) \/ ResetRoster(p)
  \/ ListNodes(p) \/ RowsExhausted(p) \/ CountActivity(p) \/ CountTokens(p)

\* What it does when its client calls UpdateRoster, or the endorser answers.
Hears(p) ==
  \/ UpdateRefused(p) \/ UpdateActivation(p) \/ CosignReturns(p)
  \/ \E m \in NodeNumbers : UpdateRevocation(p, m)

\* The requests it may take.
Starts(p) ==
  \/ PostTokenCheck(p)
  \/ \E t \in Tokens : RegisterLookup(p, t)
  \/ \E n \in NodeNumbers : DeregisterAuth(p, n) \/ GetRoster(p, n)
                            \/ DeleteNodeReadRoster(p, n)
  \/ DeleteGroupNodes(p) \/ ResetCheck(p) \/ QuotaCheck(p)

Next ==
  \/ PostConnectivityGroup
  \/ \E t \in Tokens : TokenExpires(t)
  \/ \E p \in Procs : Starts(p) \/ Works(p) \/ Hears(p) \/ Abort(p)

Spec == Init /\ [][Next]_vars

\* database/sql queues the goroutines that wait for the connection, so one that
\* is free again and again is got in the end.  Nothing is assumed of clients,
\* of endorsers, or of requests being aborted.
FairSpec == Spec /\ \A p \in Procs : SF_vars(Works(p))

-----------------------------------------------------------------------------
(* Properties.                                                              *)

\* A registration token makes at most one node, whatever registrations run at
\* the same time, fail, or are retried after an abort: lookup and the three
\* writes are one transaction.
TokenOneShot ==
  \A m, n \in NodeNumbers : issued[m] # None /\ issued[m] = issued[n] => m = n

\* A node number is never given out twice, not even after a reset: a row, once
\* soft-deleted, stays deleted, so no old credential names a new node.
NumbersNeverReused ==
  [][\A n \in NodeNumbers :
       /\ nodes[n] = "deleted" => nodes'[n] = "deleted"
       /\ issued[n] # None => issued'[n] = issued[n]]_vars

\* No node is registered in a deleted group, however registration and deletion
\* interleave: the group's row is read in the registration's transaction.
NoRegistrationAfterDelete ==
  [][group = "deleted" => \A n \in NodeNumbers : nodes'[n] = "live" => nodes[n] = "live"]_vars

\* Optimistic locking: a roster update that goes through replaces the very
\* roster its client built it from, unless a reset came in between.
NoLostRosterUpdate ==
  [][\A p \in Procs :
       UpdateRoster(p) /\ roster' # roster /\ base[p].epoch = resets
       => base[p].roster = roster]_vars

\* In a group that was never reset, deleteNode soft-deletes a node only while it
\* is revoked and not active in the stored roster, though it decides on a roster
\* read two statements before and roster updates go on: this keeps nodes out of
\* the "deregistered-but-still-activated" state.
DeletesOnlyRevoked ==
  [][\A p \in Procs : DeleteNode(p) /\ resets = 0
       => arg[p] \in roster.revoked /\ arg[p] \notin roster.active]_vars

\* The quota of getConnectivityGroup never counts a registration twice, once as a
\* node and once as its pending token: the nodes are counted first, and a token
\* never goes back from used to pending.
QuotaCountsOnce ==
  [][\A p \in Procs : CountTokens(p)
       => arg[p] + Cardinality(PendingTokens)
          <= Cardinality({t \in Tokens : tokens[t] # "none"})]_vars

\* Every handler that waits for the database gets its answer out: none waits for
\* the connection it holds itself.
HandlersFinish ==
  \A p \in Procs : (pc[p] \notin {"idle", "built", "cosign"})
                      ~> (pc[p] \in {"idle", "built", "cosign"})

-----------------------------------------------------------------------------
(* The inductive invariant behind the safety properties.                    *)

\* Numbers below next_node_number are taken, the others are free; a node's token
\* is used; no two nodes share one.
Registrations ==
  /\ \A n \in NodeNumbers :
       /\ nodes[n] = "none" <=> n >= nextNode
       /\ nodes[n] = "none" <=> issued[n] = None
       /\ issued[n] # None => tokens[issued[n]] = "used"
  /\ TokenOneShot

\* The handler that keeps the connection reads rows, or is a registration whose
\* token and group nobody can have touched since it looked them up.
Transaction ==
  /\ \A p \in Procs : pc[p] \in {"register", "rows"} => conn = p
  /\ conn # None =>
       /\ pc[conn] \in {"register", "rows"}
       /\ pc[conn] = "register" =>
            /\ group = "live" /\ nextNode <= MaxNode
            /\ arg[conn] \in Tokens /\ tokens[arg[conn]] \in {"pending", "expired"}

\* The rows a handler relies on having seen are there: the node it soft-deletes,
\* the group it mints a token for.
SeenRows ==
  \A p \in Procs :
    /\ pc[p] = "mint" => group # "none"
    /\ pc[p] \in {"deregister", "deleteNode"} =>
         arg[p] \in NodeNumbers /\ nodes[arg[p]] # "none"
    /\ pc[p] \in {"checkNode", "built"} => arg[p] \in NodeNumbers

\* Between two resets versions only grow, so a version stands for one roster.
Versions ==
  \A p \in Procs :
    /\ pc[p] \in {"built", "cosign", "updateRoster"} =>
         /\ base[p].epoch <= resets
         /\ base[p].epoch = resets => base[p].roster.version <= roster.version
         /\ base[p].epoch = resets /\ base[p].roster.version = roster.version
              => base[p].roster = roster
    /\ pc[p] \in {"cosign", "updateRoster"} =>
         plan[p].version = base[p].roster.version + 1

\* What does not depend on what rosters say is inductive by itself.
TableInv == TypeOK /\ Registrations /\ Transaction /\ SeenRows /\ Versions

\* Until the first reset no revocation is undone, neither in the stored roster nor
\* in one that is about to replace it: what deleteNode read stays true.
Revocations ==
  resets = 0 =>
    /\ roster.active \cap roster.revoked = {}
    /\ \A p \in Procs :
         /\ pc[p] = "built" => base[p].roster.active \cap base[p].roster.revoked = {}
         /\ pc[p] \in {"cosign", "updateRoster"} =>
              /\ base[p].roster.revoked \subseteq plan[p].revoked
              /\ plan[p].active \cap plan[p].revoked = {}
         /\ pc[p] = "checkNode" => base[p].roster.revoked \subseteq roster.revoked
         /\ pc[p] = "deleteNode" => arg[p] \in roster.revoked

UsedTokens == {t \in Tokens : tokens[t] = "used"}

\* The nodes a quota has counted were registered with as many tokens, which stay
\* used whatever becomes of the nodes.
Counted ==
  \A p \in Procs : pc[p] \in {"rows", "countActivity", "countTokens"} =>
    arg[p] \in Nat /\ arg[p] <= Cardinality(UsedTokens)

\* The conjunction is inductive; the proved properties follow from it.
StoreInv == TableInv /\ Revocations /\ Counted

-----------------------------------------------------------------------------
(* What the tables promise the rest of the hub.                             *)

R == INSTANCE Registry WITH
       Groups <- {"cg"},
       group  <- [g \in {"cg"} |-> group],
       nodes  <- [g \in {"cg"} |-> nodes],
       owner  <- [t \in Tokens |-> IF tokens[t] = "none" THEN None ELSE "cg"],
       issued <- [g \in {"cg"} |-> issued]

\* The handlers, statement by statement, implement the registry of atomic
\* operations that streams and calls are authenticated against: what others can
\* see of an operation happens in one statement or one transaction.
ImplementsRegistry == R!RegistrySpec

-----------------------------------------------------------------------------
(* What a comment in the code claims and interleavings refute.              *)

\* "Cascade the soft-delete to the group's nodes" (standalone_rest.go): a deleted
\* group has no live nodes.
DeletedGroupHasNoNodes ==
  group = "deleted" => LiveNodes = {}
=============================================================================
