------------------------------ MODULE Registry ------------------------------
(***************************************************************************)
(* What the backend promises the hub about groups, registration tokens and *)
(* nodes, for any number of groups: every operation is one step.  Store,   *)
(* which runs each request as several SQL statements, implements it for    *)
(* one group; Session composes it with the hub's serving streams.          *)
(***************************************************************************)

CONSTANTS
  Groups,       \* ids of connectivity groups, in canonical form
  Tokens,       \* registration tokens
  NodeNumbers,  \* bound: node numbers
  None          \* nil

ASSUME RegistryAssumption == None \notin Groups /\ None \notin Tokens

VARIABLES
  group,   \* each group's row: "none", "live" or "deleted"
  nodes,   \* for each group, each node's row: "none", "live" or "deleted"
  owner,   \* the group each token was minted for
  issued   \* for each group, the token each node was registered with; the token
           \* also stands for the credential its registration was answered with

registry == <<group, nodes, owner, issued>>

RegistryTypeOK ==
  /\ group \in [Groups -> {"none", "live", "deleted"}]
  /\ nodes \in [Groups -> [NodeNumbers -> {"none", "live", "deleted"}]]
  /\ owner \in [Tokens -> Groups \cup {None}]
  /\ issued \in [Groups -> [NodeNumbers -> Tokens \cup {None}]]

RegistryInit ==
  /\ group = [g \in Groups |-> "none"]
  /\ nodes = [g \in Groups |-> [n \in NodeNumbers |-> "none"]]
  /\ owner = [t \in Tokens |-> None]
  /\ issued = [g \in Groups |-> [n \in NodeNumbers |-> None]]

\* postConnectivityGroup: the id is new.
CreateGroup(g) ==
  /\ group[g] = "none"
  /\ group' = [group EXCEPT ![g] = "live"]
  /\ UNCHANGED <<nodes, owner, issued>>

\* postRegistrationToken: the group was there, and may be deleted by now.
MintToken(t, g) ==
  /\ owner[t] = None /\ group[g] # "none"
  /\ owner' = [owner EXCEPT ![t] = g]
  /\ UNCHANGED <<group, nodes, issued>>

Spent(t) == \E g \in Groups, n \in NodeNumbers : issued[g][n] = t

\* Mutant: the number is the first one no live node has.
RegisterReuses(t, n) ==
  LET g == owner[t] IN
    /\ g # None /\ ~Spent(t)
    /\ group[g] = "live" /\ nodes[g][n] # "live"
    /\ nodes' = [nodes EXCEPT ![g][n] = "live"]
    /\ issued' = [issued EXCEPT ![g][n] = t]
    /\ UNCHANGED <<group, owner>>

\* CompleteNodeRegistration: spends the token, for a number never given out.
Register(t, n) ==
  LET g == owner[t] IN
    /\ g # None /\ ~Spent(t)
    /\ group[g] = "live" /\ nodes[g][n] = "none"
    /\ nodes' = [nodes EXCEPT ![g][n] = "live"]
    /\ issued' = [issued EXCEPT ![g][n] = t]
    /\ UNCHANGED <<group, owner>>

\* DeregisterNode, deleteNode, and what a reset or a group's deletion does to nodes.
Remove(g, S) ==
  /\ nodes' = [nodes EXCEPT ![g] =
                 [n \in NodeNumbers |-> IF n \in S /\ nodes[g][n] = "live"
                                          THEN "deleted" ELSE nodes[g][n]]]
  /\ UNCHANGED <<group, owner, issued>>

DeleteGroup(g) ==
  /\ group[g] = "live"
  /\ group' = [group EXCEPT ![g] = "deleted"]
  /\ UNCHANGED <<nodes, owner, issued>>

RegistryNext ==
  \/ \E g \in Groups : CreateGroup(g) \/ DeleteGroup(g)
  \/ \E t \in Tokens, g \in Groups : MintToken(t, g)
  \/ \E t \in Tokens, n \in NodeNumbers : Register(t, n)
  \/ \E g \in Groups, S \in SUBSET NodeNumbers : Remove(g, S)

RegistrySpec == RegistryInit /\ [][RegistryNext]_registry

-----------------------------------------------------------------------------
\* A row and its credential come and stay together; a credential names one node of
\* the group its token was minted for.
Credentials ==
  \A g \in Groups, n \in NodeNumbers :
    /\ nodes[g][n] = "none" <=> issued[g][n] = None
    /\ issued[g][n] # None =>
         /\ owner[issued[g][n]] = g
         /\ \A h \in Groups, m \in NodeNumbers :
              issued[h][m] = issued[g][n] => h = g /\ m = n
=============================================================================
