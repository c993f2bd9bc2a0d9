--------------------------- MODULE RoutingProofs ---------------------------
(***************************************************************************)
(* Proofs about Routing, for any sets of nodes, streams and calls.         *)
(***************************************************************************)
EXTENDS Routing, TLAPS

-----------------------------------------------------------------------------
(* Type correctness.                                                        *)

\* The first state has the right types.
LEMMA InitTypeOK == ASSUME Init PROVE TypeOK
BY RoutingAssumption
   DEF Init, TypeOK, HandlerStates, CtxStates, TimerStates, Statuses, Stages, FutureStates

\* A step of StartServing preserves the types; that connect() evicts a connector
\* and not nil is part of the invariant.
LEMMA HandlerTypeOK ==
  ASSUME TypeOK, Evicting, NEW s \in Streams, HandlerStep(s)
  PROVE  TypeOK'
<1> USE DEF serverVars, streamVars, loopVars, callVars, wireVars, TypeOK,
            HandlerStates, CtxStates, TimerStates, Statuses, Stages, FutureStates
<1>1. CASE ConnectReplace(s)  BY <1>1 DEF ConnectReplace, ShedEligible, Evicting
<1>2. CASE Welcome(s)         BY <1>2 DEF Welcome
<1>3. CASE WelcomeFails(s)    BY <1>3 DEF WelcomeFails
<1>4. CASE RunReturns(s)      BY <1>4 DEF RunReturns
<1>5. CASE Disconnect(s)
      BY <1>5 DEF Disconnect, Stopped, ClearFutures, FuturesOf, CloseAs
<1>6. CASE StreamEnds(s)      BY <1>6 DEF StreamEnds, Cancelled
<1> QED BY <1>1, <1>2, <1>3, <1>4, <1>5, <1>6 DEF HandlerStep

\* So do the timer, the loops and the client of a stream.
LEMMA StreamTypeOK ==
  ASSUME TypeOK, NEW s \in Streams, TimerStep(s) \/ LoopStep(s) \/ ClientStep(s)
  PROVE  TypeOK'
<1> USE DEF serverVars, streamVars, loopVars, callVars, wireVars, TypeOK,
            HandlerStates, CtxStates, TimerStates, Statuses, Stages, FutureStates
<1>1. CASE TTLFires(s)        BY <1>1 DEF TTLFires
<1>2. CASE TTLCloses(s)       BY <1>2 DEF TTLCloses, Cancelled
<1>3. ASSUME NEW c \in Calls, ProcessResponse(s, c) PROVE TypeOK'
      BY <1>3 DEF ProcessResponse, CloseAs
<1>4. CASE RecvLoopExits(s)   BY <1>4 DEF RecvLoopExits, Cancelled
<1>5. CASE SendLoopExits(s)   BY <1>5 DEF SendLoopExits
<1>6. CASE SendDelivers(s)    BY <1>6, RoutingAssumption DEF SendDelivers
<1>7. CASE SendLost(s)        BY <1>7 DEF SendLost, Cancelled
<1>8. ASSUME NEW n \in Nodes, ConnectFresh(s, n) PROVE TypeOK'
      BY <1>8 DEF ConnectFresh, ShedEligible
<1>9. ASSUME NEW n \in Nodes, ConnectEvict(s, n) PROVE TypeOK'
      BY <1>9 DEF ConnectEvict, ClearFutures, FuturesOf, CloseAs, Cancelled
<1>10. ASSUME NEW c \in Calls, ClientAnswers(s, c) PROVE TypeOK'
      BY <1>10 DEF ClientAnswers
<1>11. CASE ClientHalfCloses(s) BY <1>11 DEF ClientHalfCloses
<1>12. CASE ClientLeaves(s)     BY <1>12 DEF ClientLeaves, Cancelled
<1> QED BY <1>1, <1>2, <1>3, <1>4, <1>5, <1>6, <1>7, <1>8, <1>9, <1>10, <1>11, <1>12
        DEF TimerStep, LoopStep, ClientStep

\* And so does a caller.
LEMMA CallTypeOK ==
  ASSUME TypeOK, NEW c \in Calls, CallStep(c)
  PROVE  TypeOK'
<1> USE DEF serverVars, streamVars, loopVars, callVars, wireVars, TypeOK,
            HandlerStates, CtxStates, TimerStates, Statuses, Stages, FutureStates
<1>1. ASSUME NEW n \in Nodes, RouteRequest(c, n) PROVE TypeOK'
      BY <1>1 DEF RouteRequest, CloseAs
<1>2. CASE SendFails(c)       BY <1>2 DEF SendFails, CloseAs
<1>3. CASE HandOver(c)        BY <1>3 DEF HandOver
<1>4. CASE Register(c)        BY <1>4 DEF Register
<1>5. CASE AwaitDone(c)       BY <1>5 DEF AwaitDone
<1>6. CASE AwaitCancelled(c)  BY <1>6 DEF AwaitCancelled
<1> QED BY <1>1, <1>2, <1>3, <1>4, <1>5, <1>6 DEF CallStep

\* Every step preserves the types.
LEMMA NextTypeOK == ASSUME TypeOK, Evicting, [Next]_vars PROVE TypeOK'
<1>1. CASE UNCHANGED vars BY <1>1 DEF vars, TypeOK
<1>2. CASE Next BY <1>2, HandlerTypeOK, StreamTypeOK, CallTypeOK DEF Next
<1> QED BY <1>1, <1>2

-----------------------------------------------------------------------------
(* The streams.                                                             *)

\* A step that leaves the streams' state alone leaves their invariant alone.
LEMMA StreamInvFrame ==
  ASSUME StreamInv, UNCHANGED <<mutex, connectors, streamVars>>
  PROVE  StreamInv'
BY DEF StreamInv, RegistryCurrent, EndedStreams, Evicting, ConnectedNodes,
       Registered, streamVars

\* Cancelling a context only ever takes it away from "live".
LEMMA CancelledEnds ==
  ASSUME TypeOK, NEW s \in Streams, NEW why \in {"evict", "shed", "ended"}
  PROVE  /\ Cancelled(s, why)[s] # "live"
         /\ \A t \in Streams : ctx[t] # "live" => Cancelled(s, why)[t] = ctx[t]
         /\ \A t \in Streams : Cancelled(s, why)[t] = "shed"
                               => ctx[t] = "shed" \/ (t = s /\ why = "shed")
         /\ \A t \in Streams : t # s => Cancelled(s, why)[t] = ctx[t]
BY DEF TypeOK, Cancelled, CtxStates

\* A step that only cancels contexts, none of them a TTL's, keeps the invariant.
LEMMA StreamInvCancel ==
  ASSUME TypeOK, StreamInv, NEW s \in Streams, ctx' = Cancelled(s, "ended"),
         UNCHANGED <<mutex, connectors, handler, nodeNum, evicted, timer, status, link>>
  PROVE  StreamInv'
<1>1. RegistryCurrent' BY DEF StreamInv, RegistryCurrent, ConnectedNodes, Registered
<1>2. EndedStreams' BY CancelledEnds DEF StreamInv, EndedStreams
<1>3. Evicting'
      BY CancelledEnds DEF StreamInv, Evicting, TypeOK
<1> QED BY <1>1, <1>2, <1>3 DEF StreamInv

\* A step of the StartServing handler keeps what holds of the streams: connect()
\* replaces only a connector it has cancelled, Disconnect removes only its own.
LEMMA HandlerStreamInv ==
  ASSUME TypeOK, StreamInv, NEW s \in Streams, HandlerStep(s)
  PROVE  StreamInv'
<1> USE RoutingAssumption
<1> USE DEF TypeOK, StreamInv, RegistryCurrent, EndedStreams, Evicting,
            ConnectedNodes, Registered, HandlerStates, serverVars
<1>1. CASE ConnectReplace(s)
  <2>1. RegistryCurrent' BY <1>1 DEF ConnectReplace
  <2>2. EndedStreams' BY <1>1 DEF ConnectReplace
  <2>3. Evicting' BY <1>1 DEF ConnectReplace
  <2> QED BY <2>1, <2>2, <2>3
<1>2. CASE Welcome(s)         BY <1>2 DEF Welcome
<1>3. CASE WelcomeFails(s)    BY <1>3 DEF WelcomeFails
<1>4. CASE RunReturns(s)      BY <1>4 DEF RunReturns
<1>5. CASE Disconnect(s)
  <2>1. RegistryCurrent' BY <1>5 DEF Disconnect
  <2>2. EndedStreams' BY <1>5 DEF Disconnect, Stopped
  <2>3. Evicting' BY <1>5 DEF Disconnect
  <2> QED BY <2>1, <2>2, <2>3
<1>6. CASE StreamEnds(s)
  <2>1. RegistryCurrent' BY <1>6 DEF StreamEnds
  <2>2. EndedStreams' BY <1>6, CancelledEnds DEF StreamEnds
  <2>3. Evicting' BY <1>6, CancelledEnds DEF StreamEnds
  <2> QED BY <2>1, <2>2, <2>3
<1> QED BY <1>1, <1>2, <1>3, <1>4, <1>5, <1>6 DEF HandlerStep

\* So does a step of a stream's timer, loops or client, a new connection included.
LEMMA StreamStreamInv ==
  ASSUME TypeOK, StreamInv, NEW s \in Streams,
         TimerStep(s) \/ LoopStep(s) \/ ClientStep(s)
  PROVE  StreamInv'
<1> USE DEF serverVars, loopVars, callVars, wireVars
<1>1. CASE TTLFires(s)
      BY <1>1 DEF TTLFires, TypeOK, StreamInv, RegistryCurrent, EndedStreams,
                  Evicting, ConnectedNodes, Registered
<1>2. CASE TTLCloses(s)
  <2>1. RegistryCurrent'
        BY <1>2 DEF TTLCloses, StreamInv, RegistryCurrent, ConnectedNodes, Registered
  <2>2. EndedStreams' BY <1>2, CancelledEnds DEF TTLCloses, TypeOK, StreamInv, EndedStreams
  <2>3. Evicting' BY <1>2, CancelledEnds DEF TTLCloses, TypeOK, StreamInv, Evicting
  <2> QED BY <2>1, <2>2, <2>3 DEF StreamInv
<1>3. ASSUME NEW c \in Calls, ProcessResponse(s, c) PROVE StreamInv'
      BY <1>3, StreamInvFrame DEF ProcessResponse
<1>4. CASE RecvLoopExits(s)   BY <1>4, StreamInvCancel DEF RecvLoopExits
<1>5. CASE SendLoopExits(s)   BY <1>5, StreamInvFrame DEF SendLoopExits
<1>6. CASE SendDelivers(s)    BY <1>6, StreamInvFrame DEF SendDelivers
<1>7. CASE SendLost(s)
      BY <1>7, StreamInvFrame, StreamInvCancel DEF SendLost, streamVars
<1>8. ASSUME NEW n \in Nodes, ConnectFresh(s, n) PROVE StreamInv'
  <2> USE RoutingAssumption
  <2> USE DEF TypeOK, StreamInv, RegistryCurrent, EndedStreams, Evicting,
              ConnectedNodes, Registered, HandlerStates
  <2>1. RegistryCurrent' BY <1>8 DEF ConnectFresh
  <2>2. EndedStreams' BY <1>8 DEF ConnectFresh, TimerStates
  <2>3. Evicting' BY <1>8 DEF ConnectFresh
  <2> QED BY <2>1, <2>2, <2>3
<1>9. ASSUME NEW n \in Nodes, ConnectEvict(s, n) PROVE StreamInv'
  <2> USE RoutingAssumption
  <2> USE DEF TypeOK, StreamInv, RegistryCurrent, EndedStreams, Evicting,
              ConnectedNodes, Registered, HandlerStates
  <2>0. connectors[n] \in Streams BY <1>9 DEF ConnectEvict
  <2>1. RegistryCurrent' BY <1>9 DEF ConnectEvict
  <2>2. EndedStreams' BY <1>9, <2>0, CancelledEnds DEF ConnectEvict
  <2>3. Evicting' BY <1>9, <2>0, CancelledEnds DEF ConnectEvict
  <2> QED BY <2>1, <2>2, <2>3
<1>10. ASSUME NEW c \in Calls, ClientAnswers(s, c) PROVE StreamInv'
      BY <1>10, StreamInvFrame DEF ClientAnswers
<1>11. CASE ClientHalfCloses(s)
      BY <1>11 DEF ClientHalfCloses, TypeOK, StreamInv, RegistryCurrent,
                   EndedStreams, Evicting, ConnectedNodes, Registered
<1>12. CASE ClientLeaves(s)
  <2>1. RegistryCurrent'
        BY <1>12 DEF ClientLeaves, StreamInv, RegistryCurrent, ConnectedNodes, Registered
  <2>2. EndedStreams' BY <1>12, CancelledEnds DEF ClientLeaves, TypeOK, StreamInv, EndedStreams
  <2>3. Evicting' BY <1>12, CancelledEnds DEF ClientLeaves, TypeOK, StreamInv, Evicting
  <2> QED BY <2>1, <2>2, <2>3 DEF StreamInv
<1> QED BY <1>1, <1>2, <1>3, <1>4, <1>5, <1>6, <1>7, <1>8, <1>9, <1>10, <1>11, <1>12
        DEF TimerStep, LoopStep, ClientStep

\* A caller does not touch the streams.
LEMMA CallStreamInv ==
  ASSUME StreamInv, NEW c \in Calls, CallStep(c)
  PROVE  StreamInv'
<1>1. UNCHANGED <<mutex, connectors, streamVars>>
      BY DEF CallStep, RouteRequest, SendFails, HandOver, Register, AwaitDone,
             AwaitCancelled, serverVars
<1> QED BY <1>1, StreamInvFrame

\* Every step preserves what holds of the streams.
LEMMA NextStreamInv == ASSUME TypeOK, StreamInv, [Next]_vars PROVE StreamInv'
<1>1. CASE UNCHANGED vars BY <1>1, StreamInvFrame DEF vars, streamVars
<1>2. CASE Next BY <1>2, HandlerStreamInv, StreamStreamInv, CallStreamInv DEF Next
<1> QED BY <1>1, <1>2

-----------------------------------------------------------------------------
(* The calls.                                                               *)

\* A step that leaves the calls and the wire alone keeps the calls' invariant as
\* long as no stream that has started serving goes back or changes its node.
LEMMA CallInvFrame ==
  ASSUME TypeOK, CallInv,
         \A s \in Streams : handler[s] \notin {"idle", "evicting"} =>
             nodeNum'[s] = nodeNum[s] /\ handler'[s] \notin {"idle", "evicting"},
         UNCHANGED <<futures, msgCounter, callVars, outMsg, wireVars>>
  PROVE  CallInv'
<1> USE DEF callVars, wireVars
<1>1. NoDoubleClose' BY DEF CallInv, NoDoubleClose
<1>2. RequestIds' BY DEF CallInv, RequestIds
<1>3. PendingFutures' BY DEF CallInv, PendingFutures
<1>4. Targets' BY DEF CallInv, Targets, TypeOK
<1>5. Exchange' BY DEF CallInv, Exchange
<1> QED BY <1>1, <1>2, <1>3, <1>4, <1>5 DEF CallInv

\* clearFutures closes only futures that are pending, and removes all it closes.
LEMMA ClearFuturesCallInv ==
  ASSUME TypeOK, CallInv, NEW n \in Nodes, ClearFutures(n),
         \A s \in Streams : handler[s] \notin {"idle", "evicting"} =>
             nodeNum'[s] = nodeNum[s] /\ handler'[s] \notin {"idle", "evicting"},
         UNCHANGED <<msgCounter, stage, dest, reqID, target, answer, outMsg, wireVars>>
  PROVE  CallInv'
<1> USE DEF wireVars
<1>0. /\ futures' \subseteq futures
      /\ \A e \in futures' : future'[e.call] = future[e.call]
      /\ \A c \in Calls : future'[c] = future[c]
                          \/ (future'[c] = "failed" /\ stage[c] \in {"await", "cancelled"}
                             /\ future[c] = "pending")
      BY DEF ClearFutures, FuturesOf, CloseAs, TypeOK, CallInv, PendingFutures
<1>1. NoDoubleClose' BY <1>0 DEF CallInv, NoDoubleClose
<1>2. RequestIds' BY DEF CallInv, RequestIds
<1>3. PendingFutures' BY <1>0 DEF CallInv, PendingFutures
<1>4. Targets' BY DEF CallInv, Targets, TypeOK
<1>5. Exchange' BY <1>0 DEF CallInv, Exchange
<1> QED BY <1>1, <1>2, <1>3, <1>4, <1>5 DEF CallInv

\* A step of the handler keeps what holds of the calls: the futures it fails are
\* pending, and leave the map.
LEMMA HandlerCallInv ==
  ASSUME TypeOK, StreamInv, CallInv, NEW s \in Streams, HandlerStep(s)
  PROVE  CallInv'
<1> USE DEF serverVars, loopVars, TypeOK
<1>1. CASE ConnectReplace(s)  BY <1>1, CallInvFrame DEF ConnectReplace
<1>2. CASE Welcome(s)         BY <1>2, CallInvFrame DEF Welcome
<1>3. CASE WelcomeFails(s)    BY <1>3, CallInvFrame DEF WelcomeFails
<1>4. CASE RunReturns(s)      BY <1>4, CallInvFrame DEF RunReturns
<1>5. CASE Disconnect(s)
  <2>1. nodeNum[s] \in Nodes BY <1>5 DEF Disconnect, StreamInv, Evicting
  <2>2. CASE connectors[nodeNum[s]] = s
        BY <1>5, <2>1, <2>2, ClearFuturesCallInv DEF Disconnect
  <2>3. CASE connectors[nodeNum[s]] # s
        BY <1>5, <2>3, CallInvFrame DEF Disconnect, callVars
  <2> QED BY <2>2, <2>3
<1>6. CASE StreamEnds(s)      BY <1>6, CallInvFrame DEF StreamEnds
<1> QED BY <1>1, <1>2, <1>3, <1>4, <1>5, <1>6 DEF HandlerStep

\* A response resolves the future of its own request, or none.
LEMMA ProcessResponseCallInv ==
  ASSUME TypeOK, CallInv, NEW s \in Streams, NEW c \in Calls, ProcessResponse(s, c)
  PROVE  CallInv'
<1> USE DEF ProcessResponse, streamVars, loopVars
<1>1. delivered[c] = 1 /\ stage[c] \notin {"idle", "send"}
      BY DEF CallInv, Exchange
<1>2. \A e \in futures : e.call \in Calls /\ (e.id = reqID[c] <=> e.call = c)
      BY <1>1 DEF CallInv, RequestIds, PendingFutures, TypeOK
<1>3. /\ \A e \in futures' : e \in futures /\ e.call # c
      /\ \A d \in Calls \ {c} : future'[d] = future[d] /\ answer'[d] = answer[d]
      /\ \/ future'[c] = future[c] /\ answer'[c] = answer[c]
         \/ /\ future[c] = "pending" /\ future'[c] = "resolved" /\ answer'[c] = c
            /\ stage[c] \in {"await", "cancelled"}
      BY <1>2 DEF CloseAs, CallInv, PendingFutures, TypeOK
<1>4. NoDoubleClose' BY <1>3 DEF CallInv, NoDoubleClose
<1>5. RequestIds' BY DEF CallInv, RequestIds
<1>6. PendingFutures' BY <1>2, <1>3 DEF CallInv, PendingFutures
<1>7. Targets' BY DEF CallInv, Targets
<1>8. Exchange' BY <1>1, <1>3 DEF CallInv, Exchange
<1> QED BY <1>4, <1>5, <1>6, <1>7, <1>8 DEF CallInv

\* A step of a stream's timer, loops or client keeps what holds of the calls: a
\* request is handed on once, and answered only after it was delivered.
LEMMA StreamCallInv ==
  ASSUME TypeOK, StreamInv, CallInv, NEW s \in Streams,
         TimerStep(s) \/ LoopStep(s) \/ ClientStep(s)
  PROVE  CallInv'
<1> USE DEF serverVars, streamVars, loopVars
<1>1. CASE TTLFires(s)        BY <1>1, CallInvFrame DEF TTLFires
<1>2. CASE TTLCloses(s)       BY <1>2, CallInvFrame DEF TTLCloses
<1>3. ASSUME NEW c \in Calls, ProcessResponse(s, c) PROVE CallInv'
      BY <1>3, ProcessResponseCallInv
<1>4. CASE RecvLoopExits(s)
      BY <1>4 DEF RecvLoopExits, callVars, TypeOK, CallInv, NoDoubleClose, RequestIds,
                  PendingFutures, Targets, Exchange
<1>5. CASE SendLoopExits(s)   BY <1>5, CallInvFrame DEF SendLoopExits
<1>6. CASE SendDelivers(s)
  <2> USE <1>6 DEF SendDelivers, callVars
  <2>1. NoDoubleClose' BY DEF CallInv, NoDoubleClose
  <2>2. RequestIds' BY DEF CallInv, RequestIds
  <2>3. PendingFutures' BY DEF CallInv, PendingFutures
  <2>4. Targets' BY DEF CallInv, Targets
  <2>5. Exchange' BY RoutingAssumption DEF CallInv, Exchange, TypeOK
  <2> QED BY <2>1, <2>2, <2>3, <2>4, <2>5 DEF CallInv
<1>7. CASE SendLost(s)
  <2> USE <1>7 DEF SendLost, callVars, wireVars
  <2>1. NoDoubleClose' BY DEF CallInv, NoDoubleClose
  <2>2. RequestIds' BY DEF CallInv, RequestIds
  <2>3. PendingFutures' BY DEF CallInv, PendingFutures
  <2>4. Targets' BY DEF CallInv, Targets
  <2>5. Exchange' BY DEF CallInv, Exchange, TypeOK
  <2> QED BY <2>1, <2>2, <2>3, <2>4, <2>5 DEF CallInv
<1>8. ASSUME NEW n \in Nodes, ConnectFresh(s, n) PROVE CallInv'
      BY <1>8, CallInvFrame DEF ConnectFresh, TypeOK
<1>9. ASSUME NEW n \in Nodes, ConnectEvict(s, n) PROVE CallInv'
      BY <1>9, ClearFuturesCallInv DEF ConnectEvict, TypeOK
<1>10. ASSUME NEW c \in Calls, ClientAnswers(s, c) PROVE CallInv'
  <2> USE <1>10 DEF ClientAnswers, callVars
  <2>1. delivered[c] = 1 BY DEF CallInv, Exchange
  <2>2. Exchange' BY <2>1 DEF CallInv, Exchange
  <2>3. NoDoubleClose' /\ RequestIds' /\ PendingFutures' /\ Targets'
        BY DEF CallInv, NoDoubleClose, RequestIds, PendingFutures, Targets
  <2> QED BY <2>2, <2>3 DEF CallInv
<1>11. CASE ClientHalfCloses(s) BY <1>11, CallInvFrame DEF ClientHalfCloses
<1>12. CASE ClientLeaves(s)     BY <1>12, CallInvFrame DEF ClientLeaves
<1> QED BY <1>1, <1>2, <1>3, <1>4, <1>5, <1>6, <1>7, <1>8, <1>9, <1>10, <1>11, <1>12
        DEF TimerStep, LoopStep, ClientStep

\* A step of a caller keeps what holds of the calls: it takes a request id of its
\* own and registers a future nobody has closed.
LEMMA CallCallInv ==
  ASSUME TypeOK, StreamInv, CallInv, NEW c \in Calls, CallStep(c)
  PROVE  CallInv'
<1> USE RoutingAssumption
<1> USE DEF serverVars, streamVars, loopVars, wireVars, TypeOK
<1>1. ASSUME NEW n \in Nodes, RouteRequest(c, n) PROVE CallInv'
  <2> USE <1>1 DEF RouteRequest
  <2>0. future[c] = "pending" BY DEF CallInv, PendingFutures
  <2>1. NoDoubleClose' BY <2>0 DEF CallInv, NoDoubleClose, CloseAs
  <2>2. RequestIds' BY DEF CallInv, RequestIds
  <2>3. PendingFutures'
        BY <2>0 DEF CallInv, PendingFutures, CloseAs
  <2>4. Targets'
        BY DEF CallInv, Targets, StreamInv, RegistryCurrent, ConnectedNodes, Registered
  <2>5. Exchange' BY <2>0 DEF CallInv, Exchange, CloseAs
  <2> QED BY <2>1, <2>2, <2>3, <2>4, <2>5 DEF CallInv
<1>2. CASE SendFails(c)
  <2> USE <1>2 DEF SendFails
  <2>0. future[c] = "pending" BY DEF CallInv, PendingFutures
  <2>1. NoDoubleClose' BY <2>0 DEF CallInv, NoDoubleClose, CloseAs
  <2>2. RequestIds' BY DEF CallInv, RequestIds
  <2>3. PendingFutures' BY <2>0 DEF CallInv, PendingFutures, CloseAs
  <2>4. Targets' BY DEF CallInv, Targets
  <2>5. Exchange' BY <2>0 DEF CallInv, Exchange, CloseAs
  <2> QED BY <2>1, <2>2, <2>3, <2>4, <2>5 DEF CallInv
<1>3. CASE HandOver(c)
  <2> USE <1>3 DEF HandOver
  <2>1. NoDoubleClose' BY DEF CallInv, NoDoubleClose
  <2>2. RequestIds' BY DEF CallInv, RequestIds
  <2>3. PendingFutures' BY DEF CallInv, PendingFutures
  <2>4. Targets' BY DEF CallInv, Targets
  <2>5. Exchange' BY DEF CallInv, Exchange, Targets
  <2> QED BY <2>1, <2>2, <2>3, <2>4, <2>5 DEF CallInv
<1>4. CASE Register(c)
  <2> USE <1>4 DEF Register
  <2>1. NoDoubleClose' BY DEF CallInv, NoDoubleClose
  <2>2. RequestIds' BY DEF CallInv, RequestIds
  <2>3. PendingFutures' BY DEF CallInv, PendingFutures
  <2>4. Targets' BY DEF CallInv, Targets
  <2>5. Exchange' BY DEF CallInv, Exchange
  <2> QED BY <2>1, <2>2, <2>3, <2>4, <2>5 DEF CallInv
<1>5. CASE AwaitDone(c)
  <2> USE <1>5 DEF AwaitDone
  <2>1. NoDoubleClose' BY DEF CallInv, NoDoubleClose
  <2>2. RequestIds' BY DEF CallInv, RequestIds
  <2>3. PendingFutures' BY DEF CallInv, PendingFutures
  <2>4. Targets' BY DEF CallInv, Targets
  <2>5. Exchange' BY DEF CallInv, Exchange
  <2> QED BY <2>1, <2>2, <2>3, <2>4, <2>5 DEF CallInv
<1>6. CASE AwaitCancelled(c)
  <2> USE <1>6 DEF AwaitCancelled
  <2>1. NoDoubleClose' BY DEF CallInv, NoDoubleClose
  <2>2. RequestIds' BY DEF CallInv, RequestIds
  <2>3. PendingFutures' BY DEF CallInv, PendingFutures
  <2>4. Targets' BY DEF CallInv, Targets
  <2>5. Exchange' BY DEF CallInv, Exchange
  <2> QED BY <2>1, <2>2, <2>3, <2>4, <2>5 DEF CallInv
<1> QED BY <1>1, <1>2, <1>3, <1>4, <1>5, <1>6 DEF CallStep

\* Every step preserves what holds of the calls.
LEMMA NextCallInv == ASSUME TypeOK, StreamInv, CallInv, [Next]_vars PROVE CallInv'
<1>1. CASE UNCHANGED vars BY <1>1, CallInvFrame DEF vars, callVars, wireVars
<1>2. CASE Next BY <1>2, HandlerCallInv, StreamCallInv, CallCallInv DEF Next
<1> QED BY <1>1, <1>2

-----------------------------------------------------------------------------
(* The safety properties.                                                   *)

\* The first state satisfies the invariant.
LEMMA InitInductiveInv == ASSUME Init PROVE InductiveInv
<1>1. TypeOK BY InitTypeOK
<1>2. StreamInv
      BY RoutingAssumption DEF Init, StreamInv, RegistryCurrent, EndedStreams, Evicting,
                               ConnectedNodes, Registered
<1>3. CallInv
      BY DEF Init, CallInv, NoDoubleClose, RequestIds, PendingFutures, Targets, Exchange
<1> QED BY <1>1, <1>2, <1>3 DEF InductiveInv

\* The router's inductive invariant holds in every reachable state: the types,
\* what connects each stream to the registry, and each request to its future.
THEOREM Inductive == Spec => []InductiveInv
<1>1. ASSUME InductiveInv, [Next]_vars PROVE InductiveInv'
      BY <1>1, NextTypeOK, NextStreamInv, NextCallInv DEF InductiveInv, StreamInv
<1> QED BY <1>1, InitInductiveInv, PTL DEF Spec

\* Every variable of the router keeps its type; in particular connect() never
\* evicts a connector that is not there.
THEOREM TypeCorrect == Spec => []TypeOK
<1>1. InductiveInv => TypeOK BY DEF InductiveInv
<1> QED BY <1>1, Inductive, PTL

\* No doneCH is closed twice, for any number of streams and calls.
THEOREM NoPanic == Spec => []NoDoubleClose
<1>1. InductiveInv => NoDoubleClose BY DEF InductiveInv, CallInv
<1> QED BY <1>1, Inductive, PTL

\* A reply answers the caller's own request, delivered once to the node it named.
THEOREM RepliesGenuine == Spec => []ReplyIsGenuine
<1>1. InductiveInv => ReplyIsGenuine
      BY DEF InductiveInv, CallInv, Exchange, Targets, ReplyIsGenuine
<1> QED BY <1>1, Inductive, PTL

\* g.connectors is exactly the set of streams being served and not replaced.
THEOREM RegistryAlwaysCurrent == Spec => []RegistryCurrent
<1>1. InductiveInv => RegistryCurrent BY DEF InductiveInv, StreamInv
<1> QED BY <1>1, Inductive, PTL

\* A node never has two live Connectors.
THEOREM OneLiveConnector == Spec => []OneLiveConnectorPerNode
<1>1. InductiveInv => OneLiveConnectorPerNode
      BY DEF InductiveInv, StreamInv, RegistryCurrent, EndedStreams, OneLiveConnectorPerNode
<1> QED BY <1>1, Inductive, PTL

-----------------------------------------------------------------------------
(* The shard TTL.                                                           *)

\* A context that ended for another reason than the TTL is nobody's shedding.
LEMMA ShedFrame ==
  ASSUME TypeOK, ShedIsReported, NEW s \in Streams, NEW why \in {"evict", "ended"},
         ctx' = ctx \/ ctx' = Cancelled(s, why), UNCHANGED status
  PROVE  ShedIsReported'
BY CancelledEnds DEF ShedIsReported

\* The steps that cancel a context or decide a status keep the property.
LEMMA ShedStep ==
  ASSUME InductiveInv, ShedIsReported, NEW s \in Streams,
         HandlerStep(s) \/ TimerStep(s) \/ LoopStep(s) \/ ClientStep(s)
  PROVE  ShedIsReported'
<1> USE DEF InductiveInv, streamVars
<1>1. CASE WelcomeFails(s)
      BY <1>1 DEF WelcomeFails, ShedIsReported, TypeOK
<1>2. CASE RunReturns(s)
      BY <1>2 DEF RunReturns, ShedIsReported, TypeOK, StreamInv, EndedStreams
<1>3. CASE TTLCloses(s)
      BY <1>3, CancelledEnds DEF TTLCloses, ShedIsReported, TypeOK, StreamInv, EndedStreams
<1>4. CASE ConnectReplace(s) \/ Welcome(s) \/ Disconnect(s) \/ StreamEnds(s) \/ TTLFires(s)
      BY <1>4, ShedFrame DEF ConnectReplace, Welcome, Disconnect, StreamEnds, TTLFires
<1>5. CASE LoopStep(s)
      BY <1>5, ShedFrame DEF LoopStep, ProcessResponse, RecvLoopExits, SendLoopExits,
                             SendDelivers, SendLost
<1>6. ASSUME NEW n \in Nodes, ConnectFresh(s, n) PROVE ShedIsReported'
      BY <1>6, ShedFrame DEF ConnectFresh
<1>7. ASSUME NEW n \in Nodes, ConnectEvict(s, n) PROVE ShedIsReported'
  <2>1. connectors[n] \in Streams BY <1>7 DEF ConnectEvict, TypeOK
  <2> QED BY <1>7, <2>1, ShedFrame DEF ConnectEvict
<1>8. ASSUME NEW c \in Calls, ClientAnswers(s, c) PROVE ShedIsReported'
      BY <1>8, ShedFrame DEF ClientAnswers
<1>9. CASE ClientHalfCloses(s) \/ ClientLeaves(s)
      BY <1>9, ShedFrame DEF ClientHalfCloses, ClientLeaves
<1> QED BY <1>1, <1>2, <1>3, <1>4, <1>5, <1>6, <1>7, <1>8, <1>9
        DEF HandlerStep, TimerStep, ClientStep

\* A stream the TTL closed is told so, for any number of streams.
THEOREM ShedAlwaysReported == Spec => []ShedIsReported
<1>1. Init => ShedIsReported BY DEF Init, ShedIsReported
<1>2. ASSUME InductiveInv, ShedIsReported, [Next]_vars PROVE ShedIsReported'
  <2>1. ASSUME NEW c \in Calls, CallStep(c) PROVE ShedIsReported'
        BY <1>2, <2>1 DEF CallStep, RouteRequest, SendFails, HandOver, Register, AwaitDone,
               AwaitCancelled, streamVars, ShedIsReported
  <2>2. CASE UNCHANGED vars BY <1>2, <2>2 DEF vars, ShedIsReported
  <2> QED BY <1>2, <2>1, <2>2, ShedStep DEF Next
<1> QED BY <1>1, <1>2, Inductive, PTL DEF Spec

-----------------------------------------------------------------------------
(* Failing the right futures.                                               *)

\* Once the node's current connector is cancelled or gone, so is every one that
\* a call was ever routed to.
LEMMA ClearedTargetEnded ==
  ASSUME InductiveInv, NEW n \in Nodes, ClearFutures(n), NEW c \in Calls,
         future[c] = "pending", future'[c] = "failed", target[c] # None,
         ctx[target[c]] = "live"
  PROVE  connectors[n] = target[c]
<1>1. dest[c] = n
      BY DEF ClearFutures, FuturesOf, CloseAs, InductiveInv, TypeOK
<1>2. target[c] \in Streams /\ nodeNum[target[c]] = n
      BY <1>1 DEF InductiveInv, TypeOK, CallInv, Targets
<1>3. Registered(target[c]) /\ target[c] \notin evicted
      BY <1>2 DEF InductiveInv, TypeOK, HandlerStates, CallInv, Targets, StreamInv,
                  EndedStreams, Registered
<1> QED BY <1>2, <1>3 DEF InductiveInv, StreamInv, RegistryCurrent

\* A routed request fails only when its own Connector has ended.
THEOREM FailsWithItsConnector == Spec => FailsOnlyWithItsConnector
<1> DEFINE Fair == \A c \in Calls :
             future[c] = "pending" /\ future'[c] = "failed" /\ target[c] # None
             => ctx'[target[c]] # "live"
<1>1. ASSUME InductiveInv, Next PROVE Fair
  <2> SUFFICES ASSUME NEW c \in Calls, future[c] = "pending", future'[c] = "failed",
                      target[c] # None
               PROVE  ctx'[target[c]] # "live"
      OBVIOUS
  <2> USE DEF callVars, streamVars
  <2>0. target[c] \in Streams BY <1>1 DEF InductiveInv, TypeOK
  <2>1. ASSUME NEW s \in Streams, Disconnect(s) PROVE ctx'[target[c]] # "live"
    <3>1. nodeNum[s] \in Nodes /\ ctx[s] # "live"
          BY <1>1, <2>1 DEF Disconnect, InductiveInv, StreamInv, Evicting, EndedStreams
    <3>2. connectors[nodeNum[s]] = s /\ ClearFutures(nodeNum[s])
          BY <2>1 DEF Disconnect
    <3> QED BY <1>1, <2>1, <3>1, <3>2, ClearedTargetEnded DEF Disconnect
  <2>2. ASSUME NEW s \in Streams, NEW n \in Nodes, ConnectEvict(s, n)
        PROVE  ctx'[target[c]] # "live"
    <3>1. connectors[n] \in Streams /\ TypeOK
          BY <1>1, <2>2 DEF ConnectEvict, InductiveInv, TypeOK
    <3>2. CASE ctx[target[c]] = "live"
          BY <1>1, <2>2, <3>1, <3>2, ClearedTargetEnded, CancelledEnds DEF ConnectEvict
    <3>3. CASE ctx[target[c]] # "live"
          BY <2>0, <2>2, <3>1, <3>3, CancelledEnds DEF ConnectEvict
    <3> QED BY <3>2, <3>3
  <2>3. ASSUME NEW s \in Streams, NEW d \in Calls, ProcessResponse(s, d) PROVE FALSE
        BY <1>1, <2>3 DEF ProcessResponse, CloseAs, InductiveInv, TypeOK
  <2>4. ASSUME NEW d \in Calls, NEW n \in Nodes, RouteRequest(d, n) PROVE FALSE
        BY <1>1, <2>4 DEF RouteRequest, InductiveInv, TypeOK, CallInv, Targets
  <2>5. ASSUME NEW d \in Calls, SendFails(d) PROVE ctx'[target[c]] # "live"
        BY <1>1, <2>5 DEF SendFails, InductiveInv, TypeOK
  <2>6. ASSUME UNCHANGED future PROVE FALSE BY <2>6
  <2>7. ASSUME NEW s \in Streams,
               HandlerStep(s) \/ TimerStep(s) \/ LoopStep(s) \/ ClientStep(s)
        PROVE  ctx'[target[c]] # "live"
        BY <2>1, <2>2, <2>3, <2>6, <2>7
           DEF HandlerStep, ConnectReplace, Welcome, WelcomeFails, RunReturns, StreamEnds,
               TimerStep, TTLFires, TTLCloses, LoopStep, RecvLoopExits, SendLoopExits,
               SendDelivers, SendLost, ClientStep, ConnectFresh, ClientAnswers,
               ClientHalfCloses, ClientLeaves
  <2>8. ASSUME NEW d \in Calls, CallStep(d) PROVE ctx'[target[c]] # "live"
        BY <2>4, <2>5, <2>6, <2>8 DEF CallStep, HandOver, Register, AwaitDone, AwaitCancelled
  <2> QED BY <1>1, <2>7, <2>8 DEF Next
<1>2. ASSUME InductiveInv, [Next]_vars PROVE [Fair]_vars BY <1>1, <1>2
<1> QED BY <1>2, Inductive, PTL DEF Spec, FailsOnlyWithItsConnector

-----------------------------------------------------------------------------
(* Refinement.                                                              *)

\* The phase a caller sees.
Phase == [c \in Calls |-> IF stage[c] \in {"send", "register", "await"}
                          THEN "pending" ELSE stage[c]]

\* The calls that found their node connected.
Routed == {c \in Calls : target[c] # None}

\* A step that changes none of what a caller sees is a stutter.
LEMMA RefStutter ==
  ASSUME UNCHANGED <<connectors, stage, target, delivered>>
  PROVE  UNCHANGED RR!vars
BY DEF RR!vars, ConnectedNodes

\* A step of the handler is a node going on- or offline, or a stutter.
LEMMA RefHandler ==
  ASSUME InductiveInv, NEW s \in Streams, HandlerStep(s)
  PROVE  [RR!Next]_RR!vars
<1> USE DEF serverVars, loopVars, callVars, wireVars
<1>1. CASE Welcome(s) \/ WelcomeFails(s) \/ RunReturns(s) \/ StreamEnds(s)
      BY <1>1, RefStutter DEF Welcome, WelcomeFails, RunReturns, StreamEnds
<1>2. CASE ConnectReplace(s)
  <2>1. ConnectedNodes' = ConnectedNodes
        BY <1>2, RoutingAssumption DEF ConnectReplace, ConnectedNodes, InductiveInv, TypeOK,
                                       StreamInv, Evicting
  <2> QED BY <1>2, <2>1 DEF ConnectReplace, RR!vars
<1>3. CASE Disconnect(s)
  <2>1. CASE connectors[nodeNum[s]] # s BY <1>3, <2>1, RefStutter DEF Disconnect
  <2>2. CASE connectors[nodeNum[s]] = s
    <3>1. nodeNum[s] \in Nodes /\ nodeNum[s] \in ConnectedNodes
          BY <1>3, <2>2, RoutingAssumption DEF Disconnect, ConnectedNodes, InductiveInv,
                                               StreamInv, Evicting
    <3>2. ConnectedNodes' = ConnectedNodes \ {nodeNum[s]}
          BY <1>3, <2>2, <3>1 DEF Disconnect, ConnectedNodes, InductiveInv, TypeOK
    <3>3. RR!NodeOffline(nodeNum[s])
          BY <1>3, <3>1, <3>2 DEF Disconnect, RR!NodeOffline
    <3> QED BY <3>1, <3>3 DEF RR!Next
  <2> QED BY <2>1, <2>2
<1> QED BY <1>1, <1>2, <1>3 DEF HandlerStep

\* A step of a stream's timer, loops or client is a node going online, a delivery,
\* or a stutter.
LEMMA RefStream ==
  ASSUME InductiveInv, NEW s \in Streams, TimerStep(s) \/ LoopStep(s) \/ ClientStep(s)
  PROVE  [RR!Next]_RR!vars
<1> USE DEF serverVars, streamVars, loopVars, callVars, wireVars
<1>1. CASE TimerStep(s) \/ RecvLoopExits(s) \/ SendLoopExits(s) \/ SendLost(s)
           \/ ClientHalfCloses(s) \/ ClientLeaves(s)
      BY <1>1, RefStutter DEF TimerStep, TTLFires, TTLCloses, RecvLoopExits, SendLoopExits,
                              SendLost, ClientHalfCloses, ClientLeaves
<1>2. ASSUME NEW c \in Calls, ProcessResponse(s, c) \/ ClientAnswers(s, c)
      PROVE  [RR!Next]_RR!vars
      BY <1>2, RefStutter DEF ProcessResponse, ClientAnswers
<1>3. CASE SendDelivers(s)
  <2>1. /\ outMsg[s] \in Calls
        /\ target[outMsg[s]] # None
        /\ delivered[outMsg[s]] = 0
        BY <1>3, RoutingAssumption DEF SendDelivers, InductiveInv, TypeOK, CallInv, Exchange
  <2>2. delivered' = [delivered EXCEPT ![outMsg[s]] = 1]
        BY <1>3, <2>1 DEF SendDelivers, InductiveInv, TypeOK
  <2>3. RR!Deliver(outMsg[s])
        BY <1>3, <2>1, <2>2 DEF SendDelivers, RR!Deliver, ConnectedNodes
  <2> QED BY <2>1, <2>3 DEF RR!Next
<1>4. ASSUME NEW n \in Nodes, ConnectFresh(s, n) PROVE [RR!Next]_RR!vars
  <2>1. n \notin ConnectedNodes /\ ConnectedNodes' = ConnectedNodes \cup {n}
        BY <1>4, RoutingAssumption DEF ConnectFresh, ConnectedNodes, InductiveInv, TypeOK
  <2>2. RR!NodeOnline(n) BY <1>4, <2>1 DEF ConnectFresh, RR!NodeOnline
  <2> QED BY <2>2 DEF RR!Next
<1>5. ASSUME NEW n \in Nodes, ConnectEvict(s, n) PROVE [RR!Next]_RR!vars
      BY <1>5, RefStutter DEF ConnectEvict
<1> QED BY <1>1, <1>2, <1>3, <1>4, <1>5 DEF LoopStep, ClientStep

\* A step of a caller is a request, its conclusion, or a stutter.
LEMMA RefCall ==
  ASSUME InductiveInv, NEW c \in Calls, CallStep(c)
  PROVE  [RR!Next]_RR!vars
<1> USE DEF serverVars, streamVars, loopVars, wireVars
<1>0. stage \in [Calls -> Stages] /\ target \in [Calls -> Streams \cup {None}]
      BY DEF InductiveInv, TypeOK
<1>1. ASSUME NEW n \in Nodes, RouteRequest(c, n) PROVE [RR!Next]_RR!vars
  <2>1. Phase[c] = "idle" /\ Phase' = [Phase EXCEPT ![c] = "pending"]
        BY <1>0, <1>1 DEF RouteRequest, Phase, Stages
  <2>2. Routed' = IF n \in ConnectedNodes THEN Routed \cup {c} ELSE Routed
        BY <1>0, <1>1 DEF RouteRequest, Routed, ConnectedNodes, InductiveInv, CallInv, Targets
  <2>3. RR!Request(c, n)
        BY <1>1, <2>1, <2>2 DEF RouteRequest, RR!Request, Phase, Routed, ConnectedNodes
  <2> QED BY <2>3 DEF RR!Next
<1>2. CASE SendFails(c) \/ HandOver(c) \/ Register(c)
  <2>1. Phase' = Phase
        BY <1>0, <1>2 DEF SendFails, HandOver, Register, Phase
  <2> QED BY <1>2, <2>1
          DEF SendFails, HandOver, Register, RR!vars, Phase, ConnectedNodes
<1>3. ASSUME AwaitDone(c) \/ AwaitCancelled(c) PROVE [RR!Next]_RR!vars
  <2>1. PICK outcome \in {"reply", "unavailable", "cancelled"} :
             /\ stage' = [stage EXCEPT ![c] = outcome]
             /\ outcome = "reply" => future[c] = "resolved"
        BY <1>3 DEF AwaitDone, AwaitCancelled
  <2>2. Phase[c] = "pending" /\ Phase' = [Phase EXCEPT ![c] = outcome]
        BY <1>0, <1>3, <2>1 DEF AwaitDone, AwaitCancelled, Phase, Stages
  <2>3. outcome = "reply" => delivered[c] = 1
        BY <2>1 DEF InductiveInv, CallInv, Exchange
  <2>4. RR!Conclude(c, outcome)
        BY <1>3, <2>2, <2>3
           DEF AwaitDone, AwaitCancelled, RR!Conclude, Phase, ConnectedNodes
  <2> QED BY <2>4 DEF RR!Next, RR!Outcomes
<1> QED BY <1>1, <1>2, <1>3 DEF CallStep

\* The router implements RequestReply: its first states map to first states, and
\* each of its steps to a step of the service or to a stutter.
THEOREM Refinement == Spec => ImplementsRequestReply
<1>1. Init => RR!Init
      BY RoutingAssumption DEF Init, RR!Init, ConnectedNodes
<1>2. ASSUME InductiveInv, [Next]_vars PROVE [RR!Next]_RR!vars
  <2>1. CASE UNCHANGED vars BY <2>1, RefStutter DEF vars
  <2> QED BY <1>2, <2>1, RefHandler, RefStream, RefCall DEF Next
<1> QED BY <1>1, <1>2, Inductive, PTL DEF Spec, ImplementsRequestReply, RR!Spec

-----------------------------------------------------------------------------
\* What a caller was told is what it stays told, and a request is not delivered a second
\* time, also not when the answer, the eviction or the loss of its stream comes late.
ConcludesOnce ==
  [][\A c \in Calls :
       /\ stage[c] \in {"reply", "unavailable", "cancelled"} => stage'[c] = stage[c]
       /\ delivered[c] = 1 => delivered'[c] = 1]_vars

\* The router inherits this from the service it implements: it need not be shown of
\* its goroutines one by one.
THEOREM CallsConcludeOnce == Spec => ConcludesOnce
<1>1. ASSUME TypeOK, [RR!Next]_RR!vars, NEW c \in Calls
      PROVE  /\ stage[c] \in {"reply", "unavailable", "cancelled"} => stage'[c] = stage[c]
             /\ delivered[c] = 1 => delivered'[c] = 1
  <2>1. /\ Phase[c] \in {"reply", "unavailable", "cancelled"} => Phase'[c] = Phase[c]
        /\ delivered[c] = 1 => delivered'[c] = 1
    <3>1. CASE UNCHANGED RR!vars BY <3>1 DEF RR!vars, Phase
    <3>2. ASSUME NEW d \in Calls, NEW n \in Nodes, RR!Request(d, n)
          PROVE  /\ Phase' = [Phase EXCEPT ![d] = "pending"] /\ Phase[d] = "idle"
                 /\ delivered' = delivered
          BY <3>2 DEF RR!Request, Phase
    <3>3. ASSUME NEW d \in Calls, RR!Deliver(d)
          PROVE  Phase' = Phase /\ delivered' = [delivered EXCEPT ![d] = 1]
          BY <3>3 DEF RR!Deliver, Phase
    <3>4. ASSUME NEW d \in Calls, NEW o \in RR!Outcomes, RR!Conclude(d, o)
          PROVE  /\ Phase' = [Phase EXCEPT ![d] = o] /\ Phase[d] = "pending"
                 /\ delivered' = delivered
          BY <3>4 DEF RR!Conclude, Phase
    <3>5. ASSUME NEW n \in Nodes, RR!NodeOnline(n) \/ RR!NodeOffline(n)
          PROVE  Phase' = Phase /\ delivered' = delivered
          BY <3>5 DEF RR!NodeOnline, RR!NodeOffline, Phase
    <3>6. c \in DOMAIN Phase /\ c \in DOMAIN delivered BY <1>1 DEF Phase, TypeOK
    <3> HIDE DEF Phase
    <3> QED BY <1>1, <3>1, <3>2, <3>3, <3>4, <3>5, <3>6 DEF RR!Next
  <2> QED BY <1>1, <2>1 DEF Phase, TypeOK, Stages
<1>2. TypeOK /\ TypeOK' /\ [RR!Next]_RR!vars /\ [Next]_vars
        => [\A c \in Calls :
              /\ stage[c] \in {"reply", "unavailable", "cancelled"} => stage'[c] = stage[c]
              /\ delivered[c] = 1 => delivered'[c] = 1]_vars
      BY <1>1
<1> QED BY <1>2, TypeCorrect, Refinement, PTL
        DEF Spec, ImplementsRequestReply, RR!Spec, ConcludesOnce
=============================================================================
