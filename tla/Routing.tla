------------------------------ MODULE Routing ------------------------------
(***************************************************************************)
(* Request routing in one connectivity group: connect/hub/routing.go, the  *)
(* StartServing handler of connect/hub/hubsrv.go that drives a Connector,  *)
(* and the shard TTL of connect/hub/sharding.go.                           *)
(*                                                                         *)
(* A stream is one call of StartServing; it owns one Connector.  A call is *)
(* one unary RPC (PairNodes, StartConnection, UpdateRoster's cosigning)    *)
(* that routes one request to a node and awaits the future.  Groups share  *)
(* nothing but the map that finds them, so one group is modelled.          *)
(*                                                                         *)
(* Every goroutine is interleaved: the handlers, the two loops of a        *)
(* Connector, the callers, the TTL timer, and the clients at the far end.  *)
(* g.mutex sections are atomic, except connect's eviction, whose effects   *)
(* (ctx, the evicted flag) are read by a goroutine that takes no lock.     *)
(***************************************************************************)
EXTENDS Naturals, FiniteSets

CONSTANTS
  Nodes,          \* node numbers of the group
  Streams,        \* StartServing calls, one Connector each
  Calls,          \* unary RPCs that route a request
  None,           \* nil
  AssignedShard,  \* --assigned-shard: 0 for an unsharded hub, else 1 or 2
  FirstChar,      \* first byte of the group id, 0 for the empty id
  ShedSafe,       \* streams whose client reports a version >= 0.14.0
  HalfCloses      \* streams whose client may close its sending side only

ASSUME RoutingAssumption ==
  /\ None \notin Nodes /\ None \notin Streams /\ None \notin Calls
  /\ AssignedShard \in 0..2
  /\ FirstChar \in 0..255
  /\ ShedSafe \subseteq Streams
  /\ HalfCloses \subseteq Streams

VARIABLES
  mutex,       \* the stream whose connect() holds g.mutex between steps, or None
  connectors,  \* g.connectors: the stream registered for each node, or None
  futures,     \* g.futures: set of [id, call], a map from request id to future
  msgCounter,  \* g.msgCounter
  handler,     \* where each StartServing call stands
  nodeNum,     \* the authenticated node of each stream
  ctx,         \* Connector.ctx: "live", or why it was cancelled
  evicted,     \* streams whose evicted flag is set
  timer,       \* the shard TTL of each stream
  status,      \* what StartServing returns
  link,        \* the client's end of each stream: "up", "half" closed, "down"
  recvLoop,    \* the receiving goroutine of each Connector
  sendLoop,    \* the sending goroutine of each Connector
  outMsg,      \* the request sendLoop is passing to stream.Send, or None
  stage,       \* where each caller stands; its last value is the RPC's result
  dest,        \* DestNodeNumber of each call
  reqID,       \* RequestId of each call
  target,      \* the Connector routeRequest found
  future,      \* the FutureResponse of each call: "pending" until doneCH closes
  answer,      \* fr.resp: the call whose request the response answers
  delivered,   \* how often the client of the target received each request
  inflight     \* set of <<stream, call>>: responses on their way to recvLoop

serverVars == <<mutex, connectors, futures, msgCounter>>
streamVars == <<handler, nodeNum, ctx, evicted, timer, status, link>>
loopVars   == <<recvLoop, sendLoop, outMsg>>
callVars   == <<stage, dest, reqID, target, future, answer>>
wireVars   == <<delivered, inflight>>
vars == <<mutex, connectors, futures, msgCounter,
          handler, nodeNum, ctx, evicted, timer, status, link,
          recvLoop, sendLoop, outMsg,
          stage, dest, reqID, target, future, answer,
          delivered, inflight>>

-----------------------------------------------------------------------------
HandlerStates == {"idle", "evicting", "welcome", "running", "returning",
                  "returned", "closed"}
CtxStates     == {"live", "evict", "shed", "ended"}
TimerStates   == {"off", "armed", "fired", "closed", "stopped"}
Statuses      == {"none", "ok", "aborted", "resharding", "sendError"}
Stages        == {"idle", "send", "register", "await",
                  "reply", "unavailable", "cancelled"}
FutureStates  == {"pending", "resolved", "failed", "panic"}

\* The handler's Connector has been entered into g.connectors and its deferred
\* Disconnect has not run yet.
Registered(s) == handler[s] \in {"welcome", "running", "returning"}

\* The values every variable ranges over; nobody is evicted who is not there.
TypeOK ==
  /\ mutex \in Streams \cup {None}
  /\ connectors \in [Nodes -> Streams \cup {None}]
  /\ futures \subseteq [id : Nat, call : Calls]
  /\ msgCounter \in Nat
  /\ handler \in [Streams -> HandlerStates]
  /\ nodeNum \in [Streams -> Nodes \cup {None}]
  /\ ctx \in [Streams -> CtxStates]
  /\ evicted \subseteq Streams
  /\ timer \in [Streams -> TimerStates]
  /\ status \in [Streams -> Statuses]
  /\ link \in [Streams -> {"up", "half", "down"}]
  /\ recvLoop \in [Streams -> {"off", "run", "exited"}]
  /\ sendLoop \in [Streams -> {"off", "run", "exited"}]
  /\ outMsg \in [Streams -> Calls \cup {None}]
  /\ stage \in [Calls -> Stages]
  /\ dest \in [Calls -> Nodes \cup {None}]
  /\ reqID \in [Calls -> Nat]
  /\ target \in [Calls -> Streams \cup {None}]
  /\ future \in [Calls -> FutureStates]
  /\ answer \in [Calls -> Calls \cup {None}]
  /\ delivered \in [Calls -> Nat]
  /\ inflight \subseteq Streams \X Calls

Init ==
  /\ mutex = None
  /\ connectors = [n \in Nodes |-> None]
  /\ futures = {}
  /\ msgCounter = 0
  /\ handler = [s \in Streams |-> "idle"]
  /\ nodeNum = [s \in Streams |-> None]
  /\ ctx = [s \in Streams |-> "live"]
  /\ evicted = {}
  /\ timer = [s \in Streams |-> "off"]
  /\ status = [s \in Streams |-> "none"]
  /\ link = [s \in Streams |-> "up"]
  /\ recvLoop = [s \in Streams |-> "off"]
  /\ sendLoop = [s \in Streams |-> "off"]
  /\ outMsg = [s \in Streams |-> None]
  /\ stage = [c \in Calls |-> "idle"]
  /\ dest = [c \in Calls |-> None]
  /\ reqID = [c \in Calls |-> 0]
  /\ target = [c \in Calls |-> None]
  /\ future = [c \in Calls |-> "pending"]
  /\ answer = [c \in Calls |-> None]
  /\ delivered = [c \in Calls |-> 0]
  /\ inflight = {}

-----------------------------------------------------------------------------
(* Helpers shared by the handlers.                                          *)

\* context.CancelFunc: the first cancellation wins, later ones are no-ops.
Cancelled(s, why) == [ctx EXCEPT ![s] = IF @ = "live" THEN why ELSE @]

\* close(doneCH) panics when the channel is closed already.
CloseAs(f, how) == IF future[f] = "pending" THEN how ELSE "panic"

\* The futures clearFutures deletes and fails for node n.
FuturesOf(n) == {e \in futures : dest[e.call] = n}

ClearFutures(n) ==
  /\ futures' = futures \ FuturesOf(n)
  /\ future' = [c \in Calls |-> IF \E e \in FuturesOf(n) : e.call = c
                                  THEN CloseAs(c, "failed") ELSE future[c]]

\* The mirror of the frontends' rule: first byte in [0-9a-c] is shard 1.
GetShard(c) == IF c \in 48..57 \/ c \in 97..99 THEN 1 ELSE 2

\* StartServing arms the TTL for a shed-safe client of a group it does not own.
ShedEligible(s) ==
  /\ AssignedShard # 0
  /\ s \in ShedSafe
  /\ GetShard(FirstChar) # AssignedShard

-----------------------------------------------------------------------------
(* StartServing and the Connector's registration.  A step runs up to the    *)
(* next access to state that another goroutine reads or writes.             *)

\* StartServing up to connect(), no connector under this number.  The request
\* passed authenticateAndRateLimit (a refused one never reaches the router);
\* arming the TTL is part of the step, nobody else sees the timer.
ConnectFresh(s, n) ==
  /\ handler[s] = "idle"
  /\ mutex = None
  /\ connectors[n] = None
  /\ connectors' = [connectors EXCEPT ![n] = s]
  /\ nodeNum' = [nodeNum EXCEPT ![s] = n]
  /\ timer' = [timer EXCEPT ![s] = IF ShedEligible(s) THEN "armed" ELSE @]
  /\ handler' = [handler EXCEPT ![s] = "welcome"]
  /\ UNCHANGED <<mutex, futures, msgCounter, ctx, evicted, status, link,
                 loopVars, callVars, wireVars>>

\* Mutant: a reconnecting node does not cancel its previous connector.
ConnectEvictNoCancel(s, n) ==
  /\ handler[s] = "idle"
  /\ mutex = None
  /\ connectors[n] # None
  /\ ClearFutures(n)
  /\ mutex' = s
  /\ nodeNum' = [nodeNum EXCEPT ![s] = n]
  /\ handler' = [handler EXCEPT ![s] = "evicting"]
  /\ UNCHANGED <<connectors, msgCounter, ctx, evicted, timer, status, link,
                 loopVars, stage, dest, reqID, target, answer, wireVars>>

\* The same with a previous connector, up to and including previous.cancel().
ConnectEvict(s, n) ==
  /\ handler[s] = "idle"
  /\ mutex = None
  /\ connectors[n] # None
  /\ ClearFutures(n)
  /\ ctx' = Cancelled(connectors[n], "evict")
  /\ mutex' = s
  /\ nodeNum' = [nodeNum EXCEPT ![s] = n]
  /\ handler' = [handler EXCEPT ![s] = "evicting"]
  /\ UNCHANGED <<connectors, msgCounter, evicted, timer, status, link,
                 loopVars, stage, dest, reqID, target, answer, wireVars>>

\* The rest of connect(): previous.evicted.Store(true), the new connector, the
\* unlock; then the TTL.
ConnectReplace(s) ==
  /\ handler[s] = "evicting"
  /\ evicted' = evicted \cup {connectors[nodeNum[s]]}
  /\ connectors' = [connectors EXCEPT ![nodeNum[s]] = s]
  /\ mutex' = None
  /\ timer' = [timer EXCEPT ![s] = IF ShedEligible(s) THEN "armed" ELSE @]
  /\ handler' = [handler EXCEPT ![s] = "welcome"]
  /\ UNCHANGED <<futures, msgCounter, nodeNum, ctx, status, link,
                 loopVars, callVars, wireVars>>

\* stream.Send(Welcome) succeeds; Run starts both loops and waits for ctx.
Welcome(s) ==
  /\ handler[s] = "welcome"
  /\ handler' = [handler EXCEPT ![s] = "running"]
  /\ recvLoop' = [recvLoop EXCEPT ![s] = "run"]
  /\ sendLoop' = [sendLoop EXCEPT ![s] = "run"]
  /\ UNCHANGED <<serverVars, nodeNum, ctx, evicted, timer, status, link,
                 outMsg, callVars, wireVars>>

\* stream.Send(Welcome) fails, which it does only on a dead stream.
WelcomeFails(s) ==
  /\ handler[s] = "welcome"
  /\ link[s] = "down"
  /\ handler' = [handler EXCEPT ![s] = "returning"]
  /\ status' = [status EXCEPT ![s] = "sendError"]
  /\ UNCHANGED <<serverVars, nodeNum, ctx, evicted, timer, link, loopVars,
                 callVars, wireVars>>

\* <-c.ctx.Done() ends Run; the handler loads the evicted flag, then the TTL's
\* fired flag, and returns accordingly.
RunReturns(s) ==
  /\ handler[s] = "running"
  /\ ctx[s] # "live"
  /\ handler' = [handler EXCEPT ![s] = "returning"]
  /\ status' = [status EXCEPT ![s] =
                  IF s \in evicted THEN "aborted"
                  ELSE IF timer[s] \in {"fired", "closed"} THEN "resharding"
                  ELSE "ok"]
  /\ UNCHANGED <<serverVars, nodeNum, ctx, evicted, timer, link, loopVars,
                 callVars, wireVars>>

\* timer.Stop(): a callback that has begun is not waited for.
Stopped(s) == [timer EXCEPT ![s] = IF @ = "armed" THEN "stopped" ELSE @]

\* Mutant: disconnect() without the check that c is still the current connector.
DisconnectAny(s) ==
  /\ handler[s] = "returning"
  /\ mutex = None
  /\ timer' = Stopped(s)
  /\ connectors' = [connectors EXCEPT ![nodeNum[s]] = None]
  /\ ClearFutures(nodeNum[s])
  /\ handler' = [handler EXCEPT ![s] = "returned"]
  /\ UNCHANGED <<mutex, msgCounter, nodeNum, ctx, evicted, status, link,
                 loopVars, stage, dest, reqID, target, answer, wireVars>>

\* The deferred calls: stopTTL, then Disconnect, which leaves a newer connector
\* of the node alone.
Disconnect(s) ==
  /\ handler[s] = "returning"
  /\ mutex = None
  /\ timer' = Stopped(s)
  /\ \/ /\ connectors[nodeNum[s]] = s
        /\ connectors' = [connectors EXCEPT ![nodeNum[s]] = None]
        /\ ClearFutures(nodeNum[s])
     \/ /\ connectors[nodeNum[s]] # s
        /\ UNCHANGED <<connectors, futures, future>>
  /\ handler' = [handler EXCEPT ![s] = "returned"]
  /\ UNCHANGED <<mutex, msgCounter, nodeNum, ctx, evicted, status, link,
                 loopVars, stage, dest, reqID, target, answer, wireVars>>

\* gRPC ends the stream once the handler has returned and cancels its context,
\* of which Connector.ctx is a child.
StreamEnds(s) ==
  /\ handler[s] = "returned"
  /\ handler' = [handler EXCEPT ![s] = "closed"]
  /\ ctx' = Cancelled(s, "ended")
  /\ UNCHANGED <<serverVars, nodeNum, evicted, timer, status, link, loopVars,
                 callVars, wireVars>>

-----------------------------------------------------------------------------
(* ShedAfterTTL's timer callback: fired.Store(true), then closeConn().      *)

\* Mutant: closeConn() runs before fired.Store(true).
TTLClosesFirst(s) ==
  /\ timer[s] = "armed"
  /\ timer' = [timer EXCEPT ![s] = "armed"]
  /\ ctx' = Cancelled(s, "shed")
  /\ UNCHANGED <<serverVars, handler, nodeNum, evicted, status, link,
                 loopVars, callVars, wireVars>>

TTLFires(s) ==
  /\ timer[s] = "armed"
  /\ timer' = [timer EXCEPT ![s] = "fired"]
  /\ UNCHANGED <<serverVars, handler, nodeNum, ctx, evicted, status, link,
                 loopVars, callVars, wireVars>>

\* Mutant: the callback never calls closeConn().
TTLNeverCloses(s) ==
  /\ timer[s] = "fired"
  /\ timer' = [timer EXCEPT ![s] = "closed"]
  /\ UNCHANGED <<serverVars, handler, nodeNum, ctx, evicted, status, link,
                 loopVars, callVars, wireVars>>

TTLCloses(s) ==
  /\ timer[s] = "fired"
  /\ timer' = [timer EXCEPT ![s] = "closed"]
  /\ ctx' = Cancelled(s, "shed")
  /\ UNCHANGED <<serverVars, handler, nodeNum, evicted, status, link,
                 loopVars, callVars, wireVars>>

-----------------------------------------------------------------------------
(* The two loops of a Connector.                                            *)

\* Mutant: processResponse resolves the future but leaves it in g.futures.
ProcessResponseKeeps(s, c) ==
  /\ recvLoop[s] = "run"
  /\ <<s, c>> \in inflight
  /\ mutex = None
  /\ inflight' = inflight \ {<<s, c>>}
  /\ future' = [d \in Calls |-> IF [id |-> reqID[c], call |-> d] \in futures
                                  THEN CloseAs(d, "resolved") ELSE future[d]]
  /\ answer' = [d \in Calls |-> IF [id |-> reqID[c], call |-> d] \in futures
                                  THEN c ELSE answer[d]]
  /\ UNCHANGED <<serverVars, streamVars, loopVars, stage, dest, reqID, target,
                 delivered>>

\* recvLoop got a response: processResponse, under the lock.  A response with
\* no future under its id is logged as "unknown/expired" and discarded.
ProcessResponse(s, c) ==
  LET found == {e \in futures : e.id = reqID[c]} IN
  /\ recvLoop[s] = "run"
  /\ <<s, c>> \in inflight
  /\ mutex = None
  /\ inflight' = inflight \ {<<s, c>>}
  /\ futures' = futures \ found
  /\ future' = [d \in Calls |-> IF \E e \in found : e.call = d
                                  THEN CloseAs(d, "resolved") ELSE future[d]]
  /\ answer' = [d \in Calls |-> IF \E e \in found : e.call = d
                                  THEN c ELSE answer[d]]
  /\ UNCHANGED <<mutex, connectors, msgCounter, streamVars, loopVars,
                 stage, dest, reqID, target, delivered>>

\* stream.Recv() fails: the client left, the stream ended, or the client
\* half-closed and all it had sent before has been received.
RecvFails(s) ==
  \/ link[s] = "down"
  \/ handler[s] = "closed"
  \/ link[s] = "half" /\ \A c \in Calls : <<s, c>> \notin inflight

\* Mutant: recvLoop returns without c.cancel().
RecvLoopExitsSilently(s) ==
  /\ recvLoop[s] = "run"
  /\ RecvFails(s)
  /\ recvLoop' = [recvLoop EXCEPT ![s] = "exited"]
  /\ inflight' = {m \in inflight : m[1] # s}
  /\ UNCHANGED <<serverVars, streamVars, sendLoop, outMsg, callVars, delivered>>

RecvLoopExits(s) ==
  /\ recvLoop[s] = "run"
  /\ RecvFails(s)
  /\ recvLoop' = [recvLoop EXCEPT ![s] = "exited"]
  /\ ctx' = Cancelled(s, "ended")
  /\ inflight' = {m \in inflight : m[1] # s}
  /\ UNCHANGED <<serverVars, handler, nodeNum, evicted, timer, status, link,
                 sendLoop, outMsg, callVars, delivered>>

\* sendLoop's select takes <-c.ctx.Done().
SendLoopExits(s) ==
  /\ sendLoop[s] = "run" /\ outMsg[s] = None
  /\ ctx[s] # "live"
  /\ sendLoop' = [sendLoop EXCEPT ![s] = "exited"]
  /\ UNCHANGED <<serverVars, streamVars, recvLoop, outMsg, callVars, wireVars>>

\* stream.Send(msg) returns nil and the client receives the request.
SendDelivers(s) ==
  /\ outMsg[s] # None
  /\ link[s] # "down" /\ handler[s] # "closed"
  /\ delivered' = [delivered EXCEPT ![outMsg[s]] = @ + 1]
  /\ outMsg' = [outMsg EXCEPT ![s] = None]
  /\ UNCHANGED <<serverVars, streamVars, recvLoop, sendLoop, callVars, inflight>>

\* stream.Send(msg) on a dead stream: it may still return nil, the message lost.
SendLost(s) ==
  /\ outMsg[s] # None
  /\ link[s] = "down" \/ handler[s] = "closed"
  /\ outMsg' = [outMsg EXCEPT ![s] = None]
  /\ \/ /\ sendLoop' = [sendLoop EXCEPT ![s] = "exited"]
        /\ ctx' = Cancelled(s, "ended")
     \/ UNCHANGED <<sendLoop, ctx>>
  /\ UNCHANGED <<serverVars, handler, nodeNum, evicted, timer, status, link,
                 recvLoop, callVars, wireVars>>

-----------------------------------------------------------------------------
(* Callers: Router.RouteRequest, then FutureResponse.Await.                 *)

\* Mutant: the request takes the counter's value without advancing it.
RouteRequestNoAdd(c, n) ==
  /\ stage[c] = "idle"
  /\ mutex = None
  /\ reqID' = [reqID EXCEPT ![c] = msgCounter + 1]
  /\ dest' = [dest EXCEPT ![c] = n]
  /\ target' = [target EXCEPT ![c] = connectors[n]]
  /\ stage' = [stage EXCEPT ![c] = IF connectors[n] = None THEN "await" ELSE "send"]
  /\ future' = [future EXCEPT ![c] = IF connectors[n] = None THEN CloseAs(c, "failed")
                                                             ELSE @]
  /\ UNCHANGED <<serverVars, streamVars, loopVars, answer, wireVars>>

\* msgCounter.Add(1), the first critical section of routeRequest, and f.fail
\* when the node is not connected.  The counter is not protected by the lock;
\* Add is atomic, so the two orders differ only in which ids two calls get.
RouteRequest(c, n) ==
  /\ stage[c] = "idle"
  /\ mutex = None
  /\ msgCounter' = msgCounter + 1
  /\ reqID' = [reqID EXCEPT ![c] = msgCounter + 1]
  /\ dest' = [dest EXCEPT ![c] = n]
  /\ target' = [target EXCEPT ![c] = connectors[n]]
  /\ \/ /\ connectors[n] = None
        /\ future' = [future EXCEPT ![c] = CloseAs(c, "failed")]
        /\ stage' = [stage EXCEPT ![c] = "await"]
     \/ /\ connectors[n] # None
        /\ stage' = [stage EXCEPT ![c] = "send"]
        /\ UNCHANGED future
  /\ UNCHANGED <<mutex, connectors, futures, streamVars, loopVars, answer, wireVars>>

\* Connector.send takes <-c.ctx.Done(): the request fails, nothing is sent.
SendFails(c) ==
  /\ stage[c] = "send"
  /\ ctx[target[c]] # "live"
  /\ future' = [future EXCEPT ![c] = CloseAs(c, "failed")]
  /\ stage' = [stage EXCEPT ![c] = "await"]
  /\ UNCHANGED <<serverVars, streamVars, loopVars, dest, reqID, target, answer,
                 wireVars>>

\* Mutant: send retries after the message was taken.
HandOverRetries(c) ==
  /\ stage[c] = "send"
  /\ sendLoop[target[c]] = "run" /\ outMsg[target[c]] = None
  /\ outMsg' = [outMsg EXCEPT ![target[c]] = c]
  /\ stage' = [stage EXCEPT ![c] = "send"]
  /\ UNCHANGED <<serverVars, streamVars, recvLoop, sendLoop, dest, reqID,
                 target, future, answer, wireVars>>

\* Connector.send meets sendLoop's select on the unbuffered outCH.
HandOver(c) ==
  /\ stage[c] = "send"
  /\ sendLoop[target[c]] = "run" /\ outMsg[target[c]] = None
  /\ outMsg' = [outMsg EXCEPT ![target[c]] = c]
  /\ stage' = [stage EXCEPT ![c] = "register"]
  /\ UNCHANGED <<serverVars, streamVars, recvLoop, sendLoop, dest, reqID,
                 target, future, answer, wireVars>>

\* The second critical section of routeRequest: g.futures[req.RequestId] = f.
Register(c) ==
  /\ stage[c] = "register"
  /\ mutex = None
  /\ futures' = {e \in futures : e.id # reqID[c]} \cup {[id |-> reqID[c], call |-> c]}
  /\ stage' = [stage EXCEPT ![c] = "await"]
  /\ UNCHANGED <<mutex, connectors, msgCounter, streamVars, loopVars,
                 dest, reqID, target, future, answer, wireVars>>

\* Await takes <-fr.doneCH.
AwaitDone(c) ==
  /\ stage[c] = "await"
  /\ future[c] # "pending"
  /\ stage' = [stage EXCEPT ![c] = IF future[c] = "resolved" THEN "reply"
                                                             ELSE "unavailable"]
  /\ UNCHANGED <<serverVars, streamVars, loopVars, dest, reqID, target, future,
                 answer, wireVars>>

\* Await takes <-ctx.Done(): the caller hung up or its deadline passed.  The
\* future stays in g.futures.
AwaitCancelled(c) ==
  /\ stage[c] = "await"
  /\ stage' = [stage EXCEPT ![c] = "cancelled"]
  /\ UNCHANGED <<serverVars, streamVars, loopVars, dest, reqID, target, future,
                 answer, wireVars>>

-----------------------------------------------------------------------------
(* The clients at the other end of the streams (external).                  *)

\* The client answers a request it has received, on any stream of its node, and
\* perhaps more than once.
ClientAnswers(s, c) ==
  /\ recvLoop[s] = "run" /\ link[s] = "up"
  /\ delivered[c] > 0
  /\ nodeNum[target[c]] = nodeNum[s]
  /\ inflight' = inflight \cup {<<s, c>>}
  /\ UNCHANGED <<serverVars, streamVars, loopVars, callVars, delivered>>

\* The client closes its sending side only: Recv will return io.EOF.
ClientHalfCloses(s) ==
  /\ s \in HalfCloses /\ Registered(s)
  /\ link[s] = "up"
  /\ link' = [link EXCEPT ![s] = "half"]
  /\ UNCHANGED <<serverVars, handler, nodeNum, ctx, evicted, timer, status,
                 loopVars, callVars, wireVars>>

\* The client goes away: gRPC cancels the stream's context.  To have left before
\* the stream is registered is to leave as soon as it is (Session models that
\* delay); after the handler has returned it makes no difference.
ClientLeaves(s) ==
  /\ Registered(s)
  /\ link[s] # "down"
  /\ link' = [link EXCEPT ![s] = "down"]
  /\ ctx' = Cancelled(s, "ended")
  /\ UNCHANGED <<serverVars, handler, nodeNum, evicted, timer, status,
                 loopVars, callVars, wireVars>>

-----------------------------------------------------------------------------
HandlerStep(s) ==
  \/ ConnectReplace(s) \/ Welcome(s) \/ WelcomeFails(s)
  \/ RunReturns(s) \/ Disconnect(s) \/ StreamEnds(s)

TimerStep(s) == TTLFires(s) \/ TTLCloses(s)

LoopStep(s) ==
  \/ \E c \in Calls : ProcessResponse(s, c)
  \/ RecvLoopExits(s) \/ SendLoopExits(s) \/ SendDelivers(s) \/ SendLost(s)

CallStep(c) ==
  \/ \E n \in Nodes : RouteRequest(c, n)
  \/ SendFails(c) \/ HandOver(c) \/ Register(c)
  \/ AwaitDone(c) \/ AwaitCancelled(c)

ClientStep(s) ==
  \/ \E n \in Nodes : ConnectFresh(s, n) \/ ConnectEvict(s, n)
  \/ \E c \in Calls : ClientAnswers(s, c)
  \/ ClientHalfCloses(s) \/ ClientLeaves(s)

Next ==
  \/ \E s \in Streams : HandlerStep(s) \/ TimerStep(s) \/ LoopStep(s) \/ ClientStep(s)
  \/ \E c \in Calls : CallStep(c)

Spec == Init /\ [][Next]_vars

-----------------------------------------------------------------------------
(* Fairness.  The hub's goroutines run whenever they can, and so does the   *)
(* timer.  Nothing is assumed of clients, of callers hanging up, or of      *)
(* stream.Send on a stream that is still up: flow control may block it for  *)
(* as long as the client does not read.                                     *)

Fairness ==
  /\ \A s \in Streams :
       /\ WF_vars(HandlerStep(s))
       /\ WF_vars(TimerStep(s))
       /\ WF_vars(RecvLoopExits(s))
       /\ WF_vars(\E c \in Calls : ProcessResponse(s, c))
       /\ WF_vars(SendLoopExits(s))
       /\ WF_vars(SendLost(s))
  /\ \A c \in Calls :
       WF_vars(SendFails(c) \/ Register(c) \/ AwaitDone(c))

FairSpec == Spec /\ Fairness

-----------------------------------------------------------------------------
(* Properties.                                                              *)

\* Router.ConnectedNodes.
ConnectedNodes == {n \in Nodes : connectors[n] # None}

\* No interleaving of resolve and fail closes a future's doneCH twice, which
\* would panic and take the hub down: whoever closes it has removed it from
\* g.futures, or never put it there.
NoDoubleClose == \A c \in Calls : future[c] # "panic"

\* A caller is only ever handed the response to its own request, and only after
\* the client of the node it addressed received that request, once: request ids
\* are never shared, however connects, reconnects and late answers interleave.
ReplyIsGenuine ==
  \A c \in Calls : stage[c] = "reply" =>
    /\ answer[c] = c
    /\ delivered[c] = 1
    /\ nodeNum[target[c]] = dest[c]

\* g.connectors holds exactly the streams being served that no newer stream of
\* their node has replaced: a late Disconnect of an old stream never unregisters
\* the new one, and no finished stream stays registered.
RegistryCurrent ==
  /\ \A n \in ConnectedNodes :
       /\ nodeNum[connectors[n]] = n
       /\ Registered(connectors[n])
       /\ connectors[n] \notin evicted
  /\ \A s \in Streams : Registered(s) /\ s \notin evicted
                           => connectors[nodeNum[s]] = s

\* A node never has two Connectors whose context is live past connect().
OneLiveConnectorPerNode ==
  \A s, t \in Streams :
    /\ Registered(s) /\ ctx[s] = "live"
    /\ Registered(t) /\ ctx[t] = "live"
    /\ nodeNum[s] = nodeNum[t]
    => s = t

\* A stream that the shard TTL closed is told "resharding" (or "superseded", if
\* it was evicted as well), never ended as if the client had left: the fired
\* flag is visible before the context is done.
ShedIsReported ==
  \A s \in Streams : ctx[s] = "shed" /\ status[s] # "none"
                        => status[s] \in {"resharding", "aborted", "sendError"}

\* A routed request fails with "disconnected" only when the very Connector it
\* was routed to has ended, never because an older or a newer one of the node
\* has: eviction, Disconnect and send all fail the right futures.
FailsOnlyWithItsConnector ==
  [][\A c \in Calls :
       future[c] = "pending" /\ future'[c] = "failed" /\ target[c] # None
       => ctx'[target[c]] # "live"]_vars

\* Every stream whose context ends, for whatever reason and at whatever point of
\* StartServing, is released: the handler returns, unregistered, and neither
\* loop is left running.
EndedStreamIsReleased ==
  \A s \in Streams :
    (handler[s] # "idle" /\ (link[s] # "up" \/ ctx[s] # "live"))
      ~> (handler[s] = "closed" /\ recvLoop[s] # "run" /\ sendLoop[s] # "run")

\* A failed-over stream whose TTL was armed does not outlive it.
FailedOverStreamSheds ==
  \A s \in Streams : (timer[s] = "armed") ~> (handler[s] = "closed")

\* A caller blocked in Connector.send on a Connector that has been replaced or
\* removed gets out: send takes no caller context, only the Connector's.
BlockedCallerReleased ==
  \A c \in Calls :
    (stage[c] = "send" /\ connectors[dest[c]] # target[c]) ~> (stage[c] # "send")

\* The router implements the request/reply service its callers rely on.
RR == INSTANCE RequestReply WITH
        online   <- ConnectedNodes,
        phase    <- [c \in Calls |-> IF stage[c] \in {"send", "register", "await"}
                                      THEN "pending" ELSE stage[c]],
        routed   <- {c \in Calls : target[c] # None},
        received <- delivered

\* Whatever the goroutines, reconnects and lost messages do, a caller sees
\* at-most-once delivery and a single outcome, a reply only if delivered.
ImplementsRequestReply == RR!Spec

-----------------------------------------------------------------------------
(* The inductive invariant behind the safety properties: what holds of each *)
(* stream, and of each call, between any two steps.                         *)

\* A stream's context is done once it is evicted, its client is gone or its
\* handler is on the way out, and a TTL that ended it has set its flag before.
EndedStreams ==
  \A s \in Streams :
    /\ s \in evicted => ctx[s] # "live"
    /\ link[s] = "down" => ctx[s] # "live"
    /\ handler[s] \in {"returning", "returned", "closed"} => ctx[s] # "live"
    /\ status[s] # "none" => handler[s] \in {"returning", "returned", "closed"}
    /\ ctx[s] = "shed" => timer[s] = "closed"
    /\ handler[s] \in {"idle", "evicting"} => timer[s] = "off"

\* Only a connect() that is evicting holds the lock across steps; what it is
\* replacing stays registered, cancelled, until it is replaced.
Evicting ==
  \A s \in Streams :
    /\ handler[s] = "idle" => s \notin evicted
    /\ handler[s] # "idle" => nodeNum[s] \in Nodes
    /\ handler[s] = "evicting" =>
         /\ mutex = s
         /\ s \notin evicted
         /\ connectors[nodeNum[s]] # None
         /\ ctx[connectors[nodeNum[s]]] # "live"

\* What holds of the streams.
StreamInv == RegistryCurrent /\ EndedStreams /\ Evicting

\* A request id belongs to one call, taken when the call is routed.
RequestIds ==
  /\ \A c \in Calls : reqID[c] <= msgCounter
  /\ \A c \in Calls : stage[c] # "idle" => reqID[c] # 0
  /\ \A c, d \in Calls : reqID[c] # 0 /\ reqID[c] = reqID[d] => c = d

\* A future in the map is one nobody has closed.
PendingFutures ==
  /\ \A e \in futures :
       /\ e.id = reqID[e.call]
       /\ stage[e.call] \in {"await", "cancelled"}
       /\ future[e.call] = "pending"
  /\ \A c \in Calls : stage[c] \in {"idle", "send", "register"} => future[c] = "pending"

\* A call is routed to a stream of the node it addressed.
Targets ==
  \A c \in Calls :
    /\ stage[c] = "idle" => target[c] = None
    /\ stage[c] # "idle" => dest[c] \in Nodes
    /\ stage[c] \in {"send", "register"} => target[c] # None
    /\ target[c] # None =>
         /\ nodeNum[target[c]] = dest[c]
         /\ handler[target[c]] \notin {"idle", "evicting"}

\* A request is in at most one place: not handed over yet, with the sendLoop of
\* its target, delivered, or lost.
Exchange ==
  /\ \A s \in Streams : outMsg[s] # None =>
       /\ target[outMsg[s]] = s
       /\ delivered[outMsg[s]] = 0
       /\ stage[outMsg[s]] \notin {"idle", "send"}
  /\ \A c \in Calls :
       /\ delivered[c] \in {0, 1}
       /\ delivered[c] = 1 => stage[c] \notin {"idle", "send"} /\ target[c] # None
       /\ future[c] = "resolved" => delivered[c] = 1 /\ answer[c] = c
       /\ stage[c] = "reply" => future[c] = "resolved"
  /\ \A m \in inflight : delivered[m[2]] = 1

\* What holds of the calls.
CallInv == NoDoubleClose /\ RequestIds /\ PendingFutures /\ Targets /\ Exchange

\* The conjunction is inductive; every safety property follows from it.
InductiveInv == TypeOK /\ StreamInv /\ CallInv

-----------------------------------------------------------------------------
(* What comments in the code claim and interleavings refute.                *)

\* "Tell the evicted client why its stream ended" (hubsrv.go): a stream that
\* ended because it was evicted returns Aborted.
EvictedIsTold ==
  \A s \in Streams : ctx[s] = "evict" /\ status[s] # "none"
                        => status[s] \in {"aborted", "sendError"}

\* "Received response for unknown/expired request ID" (routing.go): a response
\* that processResponse discards belongs to a request that is over.
DiscardedIsExpired ==
  [][\A s \in Streams, c \in Calls :
       ProcessResponse(s, c) => future'[c] # "pending" \/ stage[c] = "cancelled"]_vars
=============================================================================
