----------------------------- MODULE Admission -----------------------------
(***************************************************************************)
(* The way of a call through the hub's gRPC server: the interceptors that  *)
(* newHubGRPCServer chains (hub.go, metrics.go, version.go), then the rate *)
(* limiters that stand between a handler and the database: one bucket for  *)
(* every claimed node identity (Limiter, hubsrv.go) and one for all        *)
(* registrations (regLimiter, standalone_grpc.go).                         *)
(*                                                                         *)
(* A bucket is the library's rate.Limiter: it gains Rate tokens a tick, up *)
(* to Burst, and Allow takes one if there is one, under the bucket's lock. *)
(***************************************************************************)
EXTENDS Integers, Sequences, FiniteSets, Version

CONSTANTS
  Procs,         \* goroutines that handle calls
  Keys,          \* claimed node identities, "group:number"
  Registration,  \* what stands for regLimiter among the keys
  None,          \* nil; also the identity of a call without credentials
  Requests,      \* the calls clients make: a header and a key
  NodeBurst, NodeRate, RegistrationBurst, RegistrationRate,
  MaxCalls,      \* bound: calls
  MaxTime        \* bound: ticks of the clock

AllKeys == Keys \cup {Registration}

ASSUME AdmissionAssumption ==
  /\ Registration \notin Keys /\ None \notin AllKeys
  /\ IsFiniteSet(Procs)
  /\ Requests \subseteq [header : Seq(Int), key : AllKeys \cup {None}]
  /\ NodeBurst \in Nat /\ NodeRate \in Nat
  /\ RegistrationBurst \in Nat /\ RegistrationRate \in Nat
  /\ MaxCalls \in Nat /\ MaxTime \in Nat

VARIABLES
  now,       \* the clock
  limiters,  \* the limiter of each key, or 0
  buckets,   \* every limiter that was ever put to use
  pc,        \* where each goroutine is: "idle", "in", "limit", "lookup" or "out"
  pos,       \* the interceptor it enters or leaves next
  call,      \* the call it handles
  held,      \* the limiter it got from LoadOrStore
  started,   \* grpc_server_started_total
  handled,   \* grpc_server_handled_total
  answered,  \* history: answers sent
  grants,    \* history: how often each key was allowed through
  before     \* history: grants when the clock reached each tick

metrics == <<started, handled, answered>>
limits == <<now, limiters, buckets, grants, before>>
vars == <<now, limiters, buckets, pc, pos, call, held, started, handled,
          answered, grants, before>>

\* Mutant: the version gate is outside the metrics.
ChainGateFirst == <<"version", "metrics">>

\* "Metrics before the version gate so version-rejected calls are counted too."
Chain == <<"metrics", "version">>

Burst(k) == IF k = Registration THEN RegistrationBurst ELSE NodeBurst
Rate(k) == IF k = Registration THEN RegistrationRate ELSE NodeRate
Times == 0..MaxTime
FullBucket(k) == [tokens |-> Burst(k), last |-> now]
NoCall == [header |-> <<>>, key |-> None]

TypeOK ==
  /\ now \in Times
  /\ buckets \in Seq([tokens : Nat, last : Nat])
  /\ limiters \in [AllKeys -> 0..Len(buckets)]
  /\ pc \in [Procs -> {"idle", "in", "limit", "lookup", "out"}]
  /\ pos \in [Procs -> 0..(Len(Chain) + 1)]
  /\ call \in [Procs -> Requests \cup {NoCall}]
  /\ held \in [Procs -> 0..Len(buckets)]
  /\ started \in Nat /\ handled \in Nat /\ answered \in Nat
  /\ grants \in [AllKeys -> Nat]
  /\ before \in [AllKeys -> [Times -> Nat]]

Init ==
  /\ now = 0
  /\ limiters = [k \in AllKeys |-> IF k = Registration THEN 1 ELSE 0]
  /\ buckets = <<[tokens |-> RegistrationBurst, last |-> 0]>>
  /\ pc = [p \in Procs |-> "idle"]
  /\ pos = [p \in Procs |-> 0]
  /\ call = [p \in Procs |-> NoCall]
  /\ held = [p \in Procs |-> 0]
  /\ started = 0 /\ handled = 0 /\ answered = 0
  /\ grants = [k \in AllKeys |-> 0]
  /\ before = [k \in AllKeys |-> [t \in Times |-> 0]]

Active == {p \in Procs : pc[p] # "idle"}

-----------------------------------------------------------------------------
(* Interceptors.                                                            *)

\* A call reaches the server.
Arrive(p, r) ==
  /\ pc[p] = "idle"
  /\ answered + Cardinality(Active) < MaxCalls
  /\ pc' = [pc EXCEPT ![p] = "in"]
  /\ pos' = [pos EXCEPT ![p] = 1]
  /\ call' = [call EXCEPT ![p] = r]
  /\ UNCHANGED <<limits, metrics, held>>

Enters(p, interceptor) ==
  pc[p] = "in" /\ pos[p] \in DOMAIN Chain /\ Chain[pos[p]] = interceptor

\* recordUnaryMetrics and recordStreamMetrics up to the call of handler.
CountStarted(p) ==
  /\ Enters(p, "metrics")
  /\ started' = started + 1
  /\ pos' = [pos EXCEPT ![p] = @ + 1]
  /\ UNCHANGED <<limits, handled, answered, pc, call, held>>

PassVersion(p) ==
  /\ Enters(p, "version")
  /\ checkClientVersion(call[p].header)
  /\ pos' = [pos EXCEPT ![p] = @ + 1]
  /\ UNCHANGED <<limits, metrics, pc, call, held>>

\* InvalidArgument or FailedPrecondition.
RejectVersion(p) ==
  /\ Enters(p, "version")
  /\ ~checkClientVersion(call[p].header)
  /\ pc' = [pc EXCEPT ![p] = "out"]
  /\ pos' = [pos EXCEPT ![p] = @ - 1]
  /\ UNCHANGED <<limits, metrics, call, held>>

\* The handler of call p is done and the interceptors are left in turn.
Returns(p) ==
  /\ pc' = [pc EXCEPT ![p] = "out"]
  /\ pos' = [pos EXCEPT ![p] = Len(Chain)]
  /\ held' = [held EXCEPT ![p] = 0]

Leaves(p, interceptor) ==
  pc[p] = "out" /\ pos[p] \in DOMAIN Chain /\ Chain[pos[p]] = interceptor

\* The version gate does nothing on the way back.
LeaveVersion(p) ==
  /\ Leaves(p, "version")
  /\ pos' = [pos EXCEPT ![p] = @ - 1]
  /\ UNCHANGED <<limits, metrics, pc, call, held>>

CountHandled(p) ==
  /\ Leaves(p, "metrics")
  /\ handled' = handled + 1
  /\ pos' = [pos EXCEPT ![p] = @ - 1]
  /\ UNCHANGED <<limits, started, answered, pc, call, held>>

\* The status goes out (external: grpc-go).
Answer(p) ==
  /\ pc[p] = "out" /\ pos[p] = 0
  /\ answered' = answered + 1
  /\ pc' = [pc EXCEPT ![p] = "idle"]
  /\ call' = [call EXCEPT ![p] = NoCall]
  /\ UNCHANGED <<limits, started, handled, pos, held>>

-----------------------------------------------------------------------------
(* authenticateAndRateLimit, and CompleteNodeRegistration of the backend.   *)

InHandler(p) == pc[p] = "in" /\ pos[p] = Len(Chain) + 1

\* "missing credentials": before the limiter.
Unauthenticated(p) ==
  /\ InHandler(p)
  /\ call[p].key = None
  /\ Returns(p)
  /\ UNCHANGED <<limits, metrics, call>>

\* Mutant: the node number is left out of the key; the nodes are of one group.
LimiterKeyOfGroup(p) ==
  IF call[p].key \in Keys THEN CHOOSE k \in Keys : TRUE ELSE call[p].key

\* The claimed identity, before it is authenticated.
LimiterKey(p) == call[p].key

\* Mutant: two first requests both find no entry and the later Store wins.
StoreAlways(p) ==
  LET k == LimiterKey(p) IN
    /\ InHandler(p)
    /\ k # None
    /\ buckets' = Append(buckets, FullBucket(k))
    /\ limiters' = [limiters EXCEPT ![k] = Len(buckets) + 1]
    /\ held' = [held EXCEPT ![p] = limiters'[k]]
    /\ pc' = [pc EXCEPT ![p] = "limit"]
    /\ UNCHANGED <<now, grants, before, metrics, pos, call>>

\* limiters.LoadOrStore: the fresh limiter is dropped if the key has one.
LoadOrStore(p) ==
  LET k == LimiterKey(p) IN
    /\ InHandler(p)
    /\ k # None
    /\ \/ limiters[k] # 0 /\ UNCHANGED <<buckets, limiters>>
       \/ /\ limiters[k] = 0
          /\ buckets' = Append(buckets, FullBucket(k))
          /\ limiters' = [limiters EXCEPT ![k] = Len(buckets) + 1]
    /\ held' = [held EXCEPT ![p] = limiters'[k]]
    /\ pc' = [pc EXCEPT ![p] = "limit"]
    /\ UNCHANGED <<now, grants, before, metrics, pos, call>>

\* What limiter l of key k has at this moment (external: rate.Limiter.advance).
Tokens(l, k) ==
  LET filled == buckets[l].tokens + Rate(k) * (now - buckets[l].last)
  IN  IF filled > Burst(k) THEN Burst(k) ELSE filled

\* rate.Limiter.Allow says no: ResourceExhausted, without a lookup.
Refuse(p) ==
  /\ pc[p] = "limit"
  /\ Tokens(held[p], LimiterKey(p)) = 0
  /\ Returns(p)
  /\ UNCHANGED <<limits, metrics, call>>

\* It says yes, and takes a token.
Allow(p) ==
  LET k == LimiterKey(p)
      l == held[p]
  IN
    /\ pc[p] = "limit"
    /\ Tokens(l, k) > 0
    /\ buckets' = [buckets EXCEPT ![l] = [tokens |-> Tokens(l, k) - 1, last |-> now]]
    /\ grants' = [grants EXCEPT ![call[p].key] = @ + 1]
    /\ pc' = [pc EXCEPT ![p] = "lookup"]
    /\ UNCHANGED <<now, limiters, before, metrics, pos, call, held>>

\* AuthenticateNode or the registration goes to the database; then the handler
\* does what it does and returns.
Lookup(p) ==
  /\ pc[p] = "lookup"
  /\ Returns(p)
  /\ UNCHANGED <<limits, metrics, call>>

Tick ==
  /\ now < MaxTime
  /\ now' = now + 1
  /\ before' = [k \in AllKeys |-> [before[k] EXCEPT ![now + 1] = grants[k]]]
  /\ UNCHANGED <<limiters, buckets, grants, metrics, pc, pos, call, held>>

-----------------------------------------------------------------------------
Step(p) ==
  \/ \E r \in Requests : Arrive(p, r)
  \/ CountStarted(p) \/ PassVersion(p) \/ RejectVersion(p)
  \/ Unauthenticated(p) \/ LoadOrStore(p) \/ Refuse(p) \/ Allow(p) \/ Lookup(p)
  \/ LeaveVersion(p) \/ CountHandled(p) \/ Answer(p)

Next == Tick \/ \E p \in Procs : Step(p)

Spec == Init /\ [][Next]_vars

-----------------------------------------------------------------------------
(* Properties.                                                              *)

\* The call's handler runs.
Admitted(p) == InHandler(p) \/ pc[p] \in {"limit", "lookup"}

\* "Rate limiting before auth protects the database from unauthenticated spam":
\* from any tick on, a key gets through at most Burst times plus Rate times the
\* ticks since, however its calls race, its first ones included, which all find
\* no limiter: they end up with the same one.
GrantsBounded ==
  \A k \in AllKeys : \A t \in 0..now :
    grants[k] - before[k][t] <= Burst(k) + Rate(k) * (now - t)

\* A key is refused only when it has itself spent all that is due to it since some
\* tick: nobody else's calls, and none of its own that were refused, cost it.
RefusedOnlyWhenSpent ==
  [][\A p \in Procs : Refuse(p) =>
       LET k == call[p].key
       IN  \E t \in 0..now : grants[k] - before[k][t] >= Burst(k) + Rate(k) * (now - t)]_vars

\* The counters say what metrics.go promises of them: no answer is missing from
\* handled, a rejected call's neither, and the "open streams", started less
\* handled, are no fewer than the calls inside handlers and no more than those on
\* the server.
CallsAreCounted ==
  /\ answered <= handled
  /\ Cardinality({p \in Procs : Admitted(p)}) <= started - handled
  /\ started - handled <= Cardinality(Active)

Rejected(p) == pc[p] = "out" /\ ~Malformed(call[p].header) /\ ~checkClientVersion(call[p].header)
VersionOf(p) == extractClientVersion(call[p].header)

\* What it means to be an older release.
Older(a, b) ==
  \/ a[1] < b[1]
  \/ a[1] = b[1] /\ a[2] < b[2]
  \/ a[1] = b[1] /\ a[2] = b[2] /\ a[3] < b[3]

\* A call is turned away for its version only if it is older than all that get in,
\* and a client unfit for shedding is older than those that are fit, whatever
\* components the versions differ in.
GateKeepsOrder ==
  \A p, q \in Procs :
    Admitted(p) =>
      /\ Rejected(q) => Older(VersionOf(q), VersionOf(p))
      /\ Admitted(q) /\ clientIsShedSafe(call[p].header) /\ ~clientIsShedSafe(call[q].header)
           => Older(VersionOf(q), VersionOf(p))

-----------------------------------------------------------------------------
(* The inductive invariant behind the properties.                           *)

\* A call in its handler has passed the gate; one at the limiter holds its key's.
Positions ==
  \A p \in Procs :
    /\ pc[p] = "in" => pos[p] \in 1..3
    /\ pc[p] = "out" => pos[p] \in 0..2
    /\ Admitted(p) \/ (pc[p] = "out" /\ pos[p] = 2) => checkClientVersion(call[p].header)
    /\ pc[p] \in {"limit", "lookup"} => call[p].key # None
    /\ pc[p] = "limit" => held[p] # 0 /\ held[p] = limiters[call[p].key]

\* No two keys share a limiter, and none has been used in the future.
Limiters ==
  /\ \A k, m \in AllKeys : limiters[k] # 0 /\ limiters[k] = limiters[m] => k = m
  /\ \A l \in 1..Len(buckets) : buckets[l].last <= now

\* What a key's next calls find.
Due(k) == IF limiters[k] = 0 THEN Burst(k) ELSE Tokens(limiters[k], k)

\* What a key has spent since a tick and what is due to it are at most what it was
\* given since; and since some tick, the last with a full bucket, they are that.
Spending ==
  \A k \in AllKeys :
    /\ \A t \in 0..now :
         grants[k] - before[k][t] + Due(k) <= Burst(k) + Rate(k) * (now - t)
    /\ \E t \in 0..now :
         grants[k] - before[k][t] + Due(k) >= Burst(k) + Rate(k) * (now - t)

Inside == {p \in Procs : \/ Admitted(p)
                         \/ pc[p] = "in" /\ pos[p] = 2
                         \/ pc[p] = "out" /\ pos[p] # 0}
Left == {p \in Procs : pc[p] = "out" /\ pos[p] = 0}

Counters ==
  /\ started = handled + Cardinality(Inside)
  /\ handled = answered + Cardinality(Left)

\* The conjunction is inductive; every property above follows from it.
AdmissionInv == TypeOK /\ Positions /\ Limiters /\ Spending /\ Counters
=============================================================================
