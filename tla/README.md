# TLA+ models of wispers-hub

wispers-hub is the rendezvous server of Wispers Connect. Nodes of a
*connectivity group* keep a serving stream open to the hub; the hub routes
unary requests of one node (pairing, starting a connection, cosigning a roster)
to the stream of another and returns the answer. In standalone mode the hub also
implements its own backend (sqlite) and an admin REST API.

This directory holds TLA+ models of the parts of the hub in which order, failure
and concurrency matter, the TLC configurations that check them, and TLAPS proofs
of their safety properties for every value of the constants.

## Inventory

| Part | State | Operations | Hard behaviour | What makes it correct |
|---|---|---|---|---|
| Router (`routing.go`) | map of groups, never emptied; per group: `connectors`, `futures`, `msgCounter`; per Connector: context, evicted flag, two loops | connect, disconnect, routeRequest, processResponse, Await | goroutines meet through contexts, an unbuffered channel and a lock that is released around `send`; late and duplicate responses; reconnects | exact registry, one outcome per future, genuine replies, nobody stuck |
| Serving streams (`StartServing`) | one Connector and one timer each | connect, Welcome, Run, status, deferred Disconnect | the client leaves or half-closes at any point; eviction by a newer stream | every ended stream is released and told why |
| Shard TTL (`sharding.go`) | timer, `fired` flag | arm, fire, close, stop | timer callback races eviction and return | a shed stream is told so, and does get shed |
| Standalone backend (`standalone_grpc.go`) | tables `connectivity_groups`, `nodes`, `node_registration_tokens` | register, authenticate, get/update roster, deregister | several statements per request, one pooled connection, requests cancelled anywhere | one-shot tokens, no reused numbers, no lost roster update |
| Admin REST API (`standalone_rest.go`) | the same tables | create/reset/delete group, mint token, delete node, report quota | check-then-act over two or three statements | deleted means closed; only revoked nodes are deleted |
| Start-up (`standalone.go`) | `meta`, `api_keys`, the file `initial-api-key` | ensureMeta, ensureAPIKey, key file | crash between two writes, two processes at once | one stable identity; a key the operator can use |
| Unary handlers (`hubsrv.go`) | none of their own | PairNodes, StartConnection, UpdateRoster, DeregisterNode, reads | state read before an await is used after it | see router and backend |
| Interceptors (`metrics.go`, `version.go`, `hub.go`) | counters | count, reject by version | order of the chain, early returns | every answer counted, releases kept in order |
| Rate limiters (`hubsrv.go`, `standalone_grpc.go`) | a limiter for each claimed identity, one for registrations | LoadOrStore, Allow | concurrent first requests, charged before authentication | a budget for each identity, no more and no less |
| API keys (`apikeys.go`, checkAPIKey) | rows of `api_keys` | generate, parse, compare | fixed-width numbers with leading zeros | open for stored keys only, whatever was drawn |
| TURN credentials, attestation, flags | none | | | see "Not modelled" |

The parts interact by calls: handlers of `hubsrv.go` call the router and the
backend (in standalone mode over an in-memory gRPC connection); the REST API
shares the backend's `*sql.DB` and asks the router which nodes are online. All
HTTP and gRPC requests run in goroutines of their own. PROJECT.json lists under
`hazards` the places where this can go wrong, with the properties that watch
them.

## Modules

| Module | Content |
|---|---|
| `Routing` | router, serving streams and shard TTL of one group |
| `RequestReply` | what the router promises its callers, abstractly |
| `MCRouting` | model values and symmetry for Routing |
| `RoutingProofs` | proofs about Routing, and that it implements RequestReply |
| `Registry`, `RegistryProofs` | what the backend promises, abstractly: groups, tokens, nodes, in one step each; what follows about credentials |
| `Store` | tables of one group, the backend and REST handlers, statement by statement |
| `MCStore`, `StoreProofs` | instance and proofs for Store, and that it implements Registry |
| `Session` | Registry composed with the hub's calls and the router's map of groups |
| `MCSession`, `SessionProofs` | the same for Session |
| `Version` | client versions: parsing, order, floor |
| `Admission` | interceptors and rate limiters, with Version |
| `MCAdmission`, `AdmissionProofs` | the same for Admission |
| `Bootstrap` | opening the state file |
| `ApiKeys`, `ApiKeysProofs` | encoding and parsing of API keys, and what they compute at every width |
| `ApiAccess` | Bootstrap composed with ApiKeys: which requests the REST API lets in |
| `MCBootstrap` | instance of ApiAccess, and with it of Bootstrap and ApiKeys |
| `BootstrapProofs`, `ApiAccessProofs` | proofs about Bootstrap, and about ApiAccess from these and those about ApiKeys |

Registry is used twice. Store implements it for one group (`ImplementsRegistry`
maps its tables to Registry's rows), and Session builds on it: what is checked and
proved of Session needs of the backend only what Registry says. What follows from
Registry alone is proved once, in RegistryProofs, and holds of both.

### Routing

One group is modelled: the only thing groups share is the map that finds them,
which is in Session.
A *stream* is one call of StartServing and owns one Connector; a *call* is one
unary RPC that routes one request and awaits its future.

* `handler[s]` is the place of StartServing: `idle`, `evicting` (inside
  connect(), between `previous.cancel()` and `previous.evicted.Store`),
  `welcome` (registered), `running` (in Run), `returning` (status decided),
  `returned` (deferred calls done), `closed` (gRPC has ended the stream).
* `ctx[s]` is Connector.ctx, with the reason of the first cancellation kept for
  the properties; `link[s]` is the client's side.
* `futures` is the map of pending futures, `future[c]` the future itself; closing
  a closed `doneCH` makes it `panic`, as Go would.
* `stage[c]` is the caller: before `send`, in `send`, between `send` and the
  second critical section, in Await, or at its result.

An action is what a goroutine does up to the next access to something another
goroutine can touch. Critical sections under `g.mutex` are one step, except that
connect()'s eviction is split in two: the evicted handler looks at the context
and the flag without the lock. `stream.Send` and `stream.Recv` are external: a
Send on a dead stream may report success and lose the message; Recv delivers
what the client sent, then fails. Clients answer requests they received, perhaps
twice, on any stream of their node. The last_seen and activity-log calls of the
handlers have no effect on this state; they only delay the handler, which any
interleaving covers.

### Store

One group is modelled: no statement touches two. Each SQL statement is a step,
because `SetMaxOpenConns(1)` leaves one connection; a registration keeps it from
BEGIN to COMMIT (`conn`), the other handlers give it back after each statement.
`pc[p]` is the statement handler `p` runs next. `Abort` stops a handler anywhere:
a cancelled request context, a failed statement, or the hub dying (a crash is
the abort of all handlers; the tables survive). A roster is its version and the
sets of active and revoked nodes; clients number the last addendum, from which the
hub takes the expected version, like the roster (`ExpectedVersion`). `Activated` and `Revoked` are what honest
clients build (external). `resets`, `issued` and `base`'s epoch are history
for the properties only. The rows of the activity log are not kept, but the
statement that inserts one is a step, because it needs the connection.

The connection also stays with a handler while it holds `Rows`:
getConnectivityGroup reads its nodes (`ListNodes`), gives the connection back when
they are exhausted (`RowsExhausted`), reads the statistics (`CountActivity`) and
counts tokens (`CountTokens`). A registration whose number has a row would fail on the
primary key of `nodes` (a guard of `RegisterCommit`, never false in reachable states).

### Session

A call is a handler: it arrives with some credentials, is authenticated by one
query (`Authenticate`), then finds its group under the id *as its client wrote it*
(`FindOrCreateGroup`), then connects a stream or routes one request. Between any
two of these steps nodes and groups are registered, deregistered, reset and
deleted (`RegistryNext`), and the client may leave. Nothing looks at the stream's
context between authentication and `router.Connect`, so nothing in the model does.
A `connectivityGroup` is named by the handler that made it; a Connector by the
handler that owns it. connect, disconnect and the lookup of a request's target are
one step each, as they are critical sections of `g.mutex`; Routing has what happens
around them. The id the router uses is not the canonical one of the database:
`Aliased` are groups that some clients write in another form.

### Admission and Version

A call passes the interceptors in the order of `newHubGRPCServer` (`Chain`), then
the handler's limiter, then goes to the database; on the way back the interceptors
are left in turn. `pos[p]` is the place in the chain. A limiter is an index into
`buckets`, so that two racing first requests could end up with different ones.
The bucket is the library's, in whole tokens and ticks, and reads the clock and
updates in one step, as `Limiter.Allow` does under its lock up to the resolution
of the clock. Keys are claimed identities as they are spelled. A version header is
the sequence of its components, -1 for one that Atoi rejects; the pre-release
suffix is cut off before. `servertime`, outermost in the chain, only adds a header.

### Bootstrap, ApiKeys and ApiAccess

Processes open the same state file, one after the other or at once, and die at
any step. Each statement, the truncation and the write of the key file are steps.

ApiKeys is the encoding, character by character because that is what its theorems are
about; nothing else looks into a key. Characters are numbers (the base 62 digits, then `_`, `.`
and any other), an operation that may fail returns the set of its result.
ApiAccess gives Bootstrap's keys the bytes that were drawn and asks of every
reachable set of rows which `Headers` `checkAPIKey` accepts. The instance has the key
as shown, the key with another environment (accepted: no row holds it), and near
misses (every character changed, dropped or added, another key's secret, a number
too large for its bytes). The number of a string and the digits of a number are
recursive functions over positions, as the loops of the code are, so that they can be
proved about; string positions are found with the library's `SelectInSeq`.

## Runs

All cfgs say `CHECK_DEADLOCK FALSE`: streams, calls, tokens, node numbers and
keys are finite, so a behaviour may end when all of them are used.

| Run | Bounds | Shows |
|---|---|---|
| `routing_calls` | 1 node, 2 streams, 2 calls | NoDoubleClose, ReplyIsGenuine |
| `routing_live` | 2 nodes, 2 streams, 1 half-closes, 1 call, fairness | RegistryCurrent, OneLiveConnectorPerNode, InductiveInv, FailsOnlyWithItsConnector, ImplementsRequestReply, BlockedCallerReleased |
| `routing_shed` | 1 node, 2 streams (one shed-safe, on the wrong shard), fairness | ShedIsReported, EndedStreamIsReleased, FailedOverStreamSheds |
| `store` | 2 handlers of every kind, 2 tokens, 2 nodes, 3 roster versions, 1 reset, fairness | StoreInv, TokenOneShot, NumbersNeverReused, NoRegistrationAfterDelete, NoLostRosterUpdate, DeletesOnlyRevoked, QuotaCountsOnce, ImplementsRegistry, HandlersFinish |
| `session` | 2 groups (one written in two ways), 2 tokens, 2 node numbers, 2 calls, fairness | SessionInv, OnlineIsServed, MapHoldsKnownGroups, RequestReachesItsNode, NoGhosts |
| `admission` | 2 goroutines, 4 calls of 2 nodes, registrations and calls without credentials, 2 ticks | AdmissionInv, GrantsBounded, CallsAreCounted, GateKeepsOrder, RefusedOnlyWhenSpent |
| `bootstrap` | 3 processes, 3 API keys at the edges of their width (1 byte in 2 digits, 2 bytes in 3) | OneIdentity, IdentityStable, FileKeyWorks, BootInv, OpensForStoredKeysOnly |

The bounds are the smallest at which the races exist. For routing that is an old
and a new stream of one node, a second node where something might be done to the
wrong one, and two calls where request ids and futures could be confused. For the
store it is two handlers that race, each of which may run several requests in
turn, so that a roster is read, changed by the other and written. For sessions it
is two calls that meet in one group or in two, with a node to be confused with in
each. For admission it is two first requests at once, a burst that can be used up
and a bucket that can fill again. Real widths of API keys are out of reach of TLC's
integers; the instance has numbers that overflow the bytes and numbers that do not,
and leading zeros in both, and the proofs cover the real ones. The hub's floor is
0.0.0 today; the run uses a higher one so that calls are rejected. The proofs lift
the bounds for all safety properties; the liveness properties are known on these
instances only.

Symmetry is used only in runs without liveness properties, for sets whose
elements are interchangeable.

### Runs that find a violation

Each checks what a comment, a log text or the README of the repository says.

* `routing_evict`: connect() cancels the old Connector's context before it sets
  the evicted flag, so the evicted handler can return OK although "Tell the
  evicted client why its stream ended" (`hubsrv.go:524`).
* `routing_discard`: the future is registered after the request was sent; a
  response that is faster is dropped as "unknown/expired" (`routing.go:216`) and
  the caller waits for its own deadline. For the same reason a future can be
  registered after clearFutures ran for its node.
* `store_delete`: a registration between the two statements of
  deleteConnectivityGroup leaves a live node in the deleted group.
* `session_superseded`: a handler held up between authentication and
  `router.Connect`, even one whose client has given up and reconnected, evicts the
  stream that came in after it, which is told that it was "superseded by a newer
  connection for this node" (`hubsrv.go:529`).
* `bootstrap_crash`: a crash between the INSERT of the bootstrap key and the file
  write leaves a hub with one active key that nobody has seen; the next start
  mints none.

Limits that the passing properties state and the models make visible, without a
run of their own:

* NoLostRosterUpdate speaks of updates built since the last reset, because a reset
  starts versions over and a roster from before it can pass the version test.
  For the same reason DeletesOnlyRevoked is stated until the first reset: an update
  built on a roster from before it can undo revocations.
* DeregisterNode does not look at the roster: a deregistered node may be active in it.
* QuotaCountsOnce is an upper bound: a registration between the two counts of
  getConnectivityGroup is in neither.
* OnlineIsServed holds for each spelling of a group's id, and for the whole group only
  if all its clients write the canonical one. A node that connects with another
  spelling is authenticated, but neither the REST API (which asks for the canonical id)
  nor nodes that use the canonical id see it, although ConnectedNodes is said to return
  "the group's currently connected nodes" (`routing.go:264`). Without the exception for
  `Aliased` groups the property fails after one such stream.
* A reset that stops between its two statements leaves deleted nodes active in the
  roster. What holds of it is what holds without a reset (NoLostRosterUpdate,
  DeletesOnlyRevoked), because roster and version are cleared by one statement.
* GrantsBounded is about claimed identities: whoever claims one spends its budget,
  and another spelling of the group's id has a budget of its own.
* RequestReachesItsNode says that the receiver holds the registration the number was
  issued to, not that this registration is still live: a stream outlives its node's
  deletion.

## Fairness

* Routing: weak fairness of each goroutine of the hub (handler, timer, receive
  loop, exit of the send loop, callers after they are released). Go's scheduler
  runs runnable goroutines, mutexes are handed over (starvation mode), and a
  timer's callback is run. The backend is assumed to answer the activity-log
  call a handler makes before it returns. Nothing is assumed of clients, of
  callers' deadlines, or of `stream.Send` on a live stream, which flow control
  may block.
* Store: strong fairness of the statements of a handler. The connection may be
  taken by others in between, but database/sql queues those who wait for it.
  Nothing is assumed of clients and endorsers.

* Session: weak fairness of what the hub does for a call without its client.
  Calls to the backend return (their context ends with the client's), and Run
  returns once its context is done. Nothing is assumed of clients: a stream whose
  client stays may be served for ever.

## Proofs

Everything is proved for arbitrary sets and bounds, from the assumptions
`RoutingAssumption`, `StoreAssumption`, `RegistryAssumption`, `SessionAssumption`,
`VersionAssumption`, `AdmissionAssumption` and `BootstrapAssumption` (None is none of
the other values, constants have their types, there are finitely many goroutines and
tokens), and for API keys `WidthAssumption` (the digits hold the bytes),
`KeyAssumption`, `EnvAssumption` and `HeaderAssumption` (types; the environment is not
empty and has no `_`, as "standalone" has none). TLC evaluates all of them on the
instances. `WidthAssumption` is in addition proved of the code's own widths
(`CodeWidthsSuffice`).

**Routing.** `InductiveInv` = `TypeOK` /\ `StreamInv` /\ `CallInv`.
RegistryCurrent is not inductive alone: while connect() is between its two
steps, the connector it replaces must still be registered and already cancelled
(`Evicting`), and evicted, left or returning streams must have an ended context
(`EndedStreams`). NoDoubleClose needs that a future in the map is pending and
that its caller has passed `send` (`PendingFutures`), and that a request id
belongs to one call (`RequestIds`), or a response could close another call's
future. ReplyIsGenuine needs in addition that a request is in one place at a time
(`Exchange`) and goes to a stream of its node (`Targets`). From the invariant
follow the theorems TypeCorrect, NoPanic, RepliesGenuine, RegistryAlwaysCurrent,
OneLiveConnector, ShedAlwaysReported and FailsWithItsConnector. `Refinement`
shows that every step maps to a step of RequestReply or a stutter. What RequestReply
guarantees then holds of the router without another look at its goroutines:
`CallsConcludeOnce`, that an outcome is final and a delivered request is not
delivered again, is obtained so.

**Store.** `StoreInv` contains the table invariant (`TableInv`), from which the
theorems about tokens and deletions follow, and `Revocations`. TokenOneShot needs
that the token of a registration in its transaction is unused (`Transaction`: nobody
else gets at the tables), and that tokens of existing nodes are used
(`Registrations`). NoLostRosterUpdate needs that between two resets a version stands
for one roster (`Versions`). DeletesOnlyRevoked needs that until the first reset
revocations are never undone, so what deleteNode saw still holds (`Revocations`).
`ImplementsTheRegistry` shows that each statement maps to one step of Registry or
to none; it needs `SeenRows` (what a handler is about to act on was there).
QuotaCountsOnce adds two numbers that were read at different times. It needs that the
first, the count of nodes, stays bounded by the tokens used (`Counted`): when it is
taken, distinct nodes have distinct used tokens (an injection, from `Registrations`
and TokenOneShot), and afterwards tokens stay used whatever becomes of the nodes. Used
and pending tokens are disjoint, so both counts together are at most the tokens minted.

**Registry.** `CredentialsAreUnique` and `CredentialsAreKept`: a credential belongs to
one node of the group its token was minted for, and a number stays with the credential
it was issued with. `TablesKeepCredentials` carries the first over to the tables
through the refinement; `SessionKeepsRegistry` shows that Session, which adds calls and
the router to Registry's steps, still satisfies RegistrySpec.

**Session.** `SessionInv`: rows and credentials come together and name one node
(`Credentials`), a call past authentication carries the credential its number was
issued with (`Authenticated`: this is what stays true when the row is deleted,
because numbers are not reused), all handlers of an id have found the object that
the map holds (`Found`), and a Connector is registered in it under its node's number
exactly while it is served and not evicted (`Entries`).

**Admission.** `AdmissionInv`: where a call is in the chain and what it has passed
(`Positions`), no two keys share a limiter (`Limiters`), the counters differ by the
calls between them (`Counters`), and the potential argument for the buckets
(`Spending`): what a key has spent since a tick, plus what is due to it, is at most
what it was given since, and exactly that since some tick, the last at which its
bucket was full. The first half gives GrantsBounded, the second
RefusedOnlyWhenSpent. GateKeepsOrder rests on the comparison of versions, which
`VersionsAreOrdered` shows to be a strict total order whatever components differ.

**Bootstrap.** `BootInv`: what a process has read or stored is what `meta` holds,
and the key it is about to write has a row.

**API keys.** The theorems are about what loops compute, for every width and every
input, so they need induction over positions. The library's induction theorems take an
operator as a parameter, which the provers do not instantiate; here the predicate is a
set of numbers instead, and `Induction` follows from the least element of its
complement (`Least`). `Recursion` is the same for the existence of a function with a
recursive definition. On these rest:

* a number read digit by digit, divided again and again, gives back its digits, and
  conversely (`SpelledOfNumber` and its lemmas), whatever the base;
* `EncodeNeverPanics`: a width that holds the largest number of so many bytes holds
  every other (numbers are monotone in their digits, `Left` in its number);
* `Base62RoundTrip`: decodeBase62 returns given bytes for exactly one string of the
  fixed width, the one that encodeBase62 makes of them;
* `CodeWidthsSuffice`: 12 bytes fit into 17 digits and 32 bytes into 43. The second is
  close (256^32 is about 98 % of 62^43, and 42 digits would not do); the bound is
  carried through four bytes, then four digits, at a time, with numbers the SMT solver
  can multiply;
* `ParseReadsRawKeys`: split cuts a string where Generate joined it, at the first `_`
  after the prefix and the first `.` after that, because neither is a digit.

ApiAccessProofs puts them together with BootstrapProofs: `ApiOpensForStoredKeysOnly`,
and `InitialKeyAlwaysOpens`, from the bytes drawn over the row and the file to the
answer of checkAPIKey. The hash is assumed to be injective (`Sum256`).

Only model-checked: the liveness properties (EndedStreamIsReleased,
FailedOverStreamSheds, BlockedCallerReleased, HandlersFinish, NoGhosts), which need
reasoning about fairness and ENABLED that the prover does not do. The violations are
shown by TLC's counterexamples.

## Not modelled

* TURN credentials and attestation JWTs: pure functions around an HMAC and a
  signature, without state.
* patchNode, names, metadata, association keys, last_seen: columns written by single
  statements that no other modelled state depends on. A unique index of sqlite alone
  keeps association keys apart among live groups.
* Listings, statistics and the other handlers that only read, and the rows of the
  activity log.
* The lengths, TTL profiles and codehalf of a registration token: a token is a fresh
  value that may expire at any time.
* Message counters, histograms, the server-time and version headers, flags and process
  wiring.
* The managed backend, which is not in this repository.

## What could follow

1. Routing and Session as one specification: Session as the abstraction of several
   groups of Routing, so that the eviction's two steps meet rows that change.
2. UpdateRoster with the router's real outcomes in place of `CosignReturns`.
3. The safety side of the liveness properties: that the holder of the database
   connection always has a next statement, and that the statements left to a handler
   only decrease, as theorems from which HandlersFinish follows by fairness alone.
