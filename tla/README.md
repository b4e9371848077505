# A TLA+ development for sonic-telemetry

sonic-telemetry serves the state of a SONiC switch over gNMI. Collectors dial in
and call `Subscribe`, `Get` or `Set`; with dial-out the switch connects to the
collector and publishes. This directory holds TLA+ modules for the concurrent core
of that program and for its request handlers, the TLC configurations that check them and TLAPS proofs of the
properties that matter most. Paths and line numbers are those of `src/`;
`PROJECT.json` maps every definition to the lines it models.

Contents: [inventory](#1-inventory), [modules](#2-modules),
[runs](#3-runs), [fairness](#4-fairness), [proofs](#5-proofs),
[departures](#6-where-the-code-departs-from-what-it-says),
[abstractions](#7-abstractions-and-what-is-not-modelled), [plan](#8-plan).

To repeat a check: `tlc -workers 2 -config <run>.cfg <MC module>` and
`tlapm <proof module>.tla`.

## 1. Inventory

| Component | Source | State | Operations | Hard behaviour | Correct when |
|---|---|---|---|---|---|
| Dial-in session | `gnmi_server/server.go` (`Subscribe`), `client_subscribe.go` | registry `clients`; per client the queue `q`, the channels `stop`/`polled`/`once`, the WaitGroup `w`, counters | `Subscribe`, `Run`, `recv`, `send`, `Close` | three and more goroutines per session, a second call from the same address, Close from three places | channels are closed once, Run returns after its goroutines, the registry holds live calls |
| DB data client, routines | `sonic_data_client/db_client.go` | `synced`, `w`, the queue it fills | `StreamRun`, `PollRun`, `OnceRun`, one goroutine per path | sync_response against the first values and their failures, queue ordered by time stamps | a sync_response follows every path's value; every poll is answered |
| DB data client, tables | same (`dbTableKeySubscribe`, `dbSingleTableKeySubscribe`) | PSubscribes, `msiAll`, each listener's `msi` | first read, notifications, ticks | writes between PSubscribe, the first read and the listeners; lost connections | the client converges to the table |
| DB data client, fields | same (`dbFieldSubscribe`, `dbFieldMultiSubscribe`) | `path2ValueMap` / `val` | read at every tick, compare, send | one tick reads several keys that change meanwhile | nothing that is left out is news |
| Non-DB data client | `non_db_client.go` | ring of CPU samples; per session as above | `StreamRun`, `PollRun`, `streamSample`, `getCpuUtilStat`, `pollStats` | ring arithmetic in `uint64`; goroutines no WaitGroup counts | a rate compares samples that are in the ring, as far apart as it says |
| Translib data client | `transl_data_client.go` | `valueCache`, `ticker_map`, `synced` | `StreamRun`, `TranslSubscribe`, `PollRun`, `OnceRun`, `Get`, `Set` | timers that share a value cache, suppression and heartbeats, failures of the backend, a channel closed from two sides | suppression withholds nothing new; heartbeats go on |
| Dial-out client | `dialout/dialout_client/dialout_client.go` | `destGrpNameMap`, `ClientSubscriptionNameMap`, `DestGrp2ClientSubMap`, `clientSubscription` structs | `DialOutRun`, `processTelemetryClientConfig`, `publishRun`, `Close`, `NewInstance` | configuration races the goroutines it starts and stops; structs copied while in use; retries | one publisher per subscription, with the configuration of the table |
| Dial-out server | `dialout/dialout_server` | registry of clients, the data store, `sRWMu` | `Publish`, `Run`, `Close`, `SetDataStore`, `Stop` | calls that append to one slice; a data store set while they run | what is sent is kept, in order and once |
| Get, Set, Capabilities | `server.go`, `transl_utils` | the syslog `Writer` | `Get`, `Set`, `Capabilities`, `TranslProcess...` | bulk requests that fail in part, Update followed by Replace, a `Writer` made on first use | answers say what was done, operations are audited |
| Authentication | `gnmi_server/*Auth.go`, `common_utils/context.go` | JWT secret, lifetimes; the identity in a context | `authenticate`, `Authenticate`, `Refresh` | modes tried in turn on one context, expiry, refresh, restarts | an access is made in the name of who presented the credentials |
| gNOI | `gnoi.go` | none | system calls, actions of translib, tokens | - | as above |
| Virtual paths | `virtual_db.go`, `trie.go` | tries; six name maps cached from COUNTERS_DB and CONFIG_DB | `lookupV2R`, `v2r...`, `init...Map` | maps filled by concurrent requests without a lock and never refreshed | a path shows the counters of the port it names |
| Path resolution | `db_client.go` (`populateDbtablePath`), `non_db_client.go` (`lookupGetFunc`) | `pathG2S` | `NewDbClient`, `Get`, `NewNonDbClient` | rows that come and go between look-up and read | as above |
| Database configuration | `sonic_db_config` | parsed JSON, namespaces | lookups | a namespace that is not configured | - |
| Programs, generated code | `telemetry`, CLIs, `gnoi_client`, `proto` | flags | `main` | - | the server runs with the modes main chose |

How they interact. `Server.Subscribe` makes a `Client`, registers it under the peer
address and calls `Run`, which reads the first request, picks a data client (DB,
non-DB or translib) and starts its routine and `recv`; `send` runs in the call's own
goroutine. The data client puts values into the session's priority queue and watches
the session's channel; `Close` disposes of the queue and closes the channel. The
dial-out client uses the same data clients through the same queue and channel, with
`publishRun` in the place of `send`, and the dial-out server is its counterpart.
`Get`, `Set` and the gNOI calls authenticate, leave the identity in the context and
call translib, which the audit log follows. A data client is made from the paths of
the request: `populateDbtablePath` looks each up in the trie of virtual paths, fills
the name maps, and leaves the table paths that `Get`, the table and the field routines
read from redis.

What is hard to test is listed in `PROJECT.json` under "hazards", each at its line,
with the properties that would catch it going wrong.

## 2. Modules

Each module opens with what it models and what its variables stand for. Definitions
named after faults (`...Unchecked`, `...Not`, `...Never`) stand at the head of a
module: they are what a slip in the code would make of a definition, and the
properties must notice each of them.

**SubscribeSession** (`MCSubscribeSession`): `Server.Subscribe`, `Client.Run`,
`recv`, `send`, `Close`, `StreamRun`, `PollRun` and `OnceRun` of the DB and non-DB
clients, and `PollRun` and `OnceRun` of the translib client (whose `updates_only`
leaves out the values of the first round). Each goroutine has a control point (`rpc`, `recv`, `run`, `wrk[p]`);
a blocking call is a guard. `stop`, `polled` and `once` are one variable `chan`,
since a session makes only one of them, and `tok` is what is buffered in it. A
WaitGroup is the set of goroutines that still have to call `Done`. A value carries
its path, its round and its time stamp. Stamping and `Put` of a value are two steps,
because a path's goroutine can be overtaken between them. `Close` is one step: it
runs under `c.mu`, and what another goroutine can see between the disposal of the
queue and the close of the channel (a refused `Put` first, the closed channel later)
it can also see by being slow. The modules below, which are about what one routine
does then, take it in two steps. The registry's insertion and the Close of the
client it replaces are one step too (under `s.cMu`).

**TableStream** (`MCTableStream`): one table subscription. `Main...` actions are
`dbTableKeySubscribe`, one action per redis call, `Listen...` are the
`dbSingleTableKeySubscribe` goroutines. Redis is external: it keeps rows and sends
keyspace notifications in order; a listener reads the row as it is by then. A row is a
hash of fields: HSET and HMSET set some of them, HDEL removes some or all, DEL the row,
and other commands (HINCRBY, RENAME, an expiry) change it with a notification that the
listeners ignore; `unseen`, a history variable, holds the rows last changed so. A JSON
object is a function on names. `sub`, chosen at the start, is the
subscription: a path with a key, a virtual path with a name for each key, or a whole
table; ON_CHANGE or SAMPLE.

**FieldStream** (`MCFieldStream`): one field subscription, read at each tick by one
`HGet` after the other, each of which may fail and is then the empty string. `saved` is
`path2ValueMap` (or `val`).

**CpuStats** (`MCCpuStats`): the ring of 3000 samples. A sample is its number.
Index arithmetic is that of `uint64`; 2^64 is taken modulo the capacity, as TLC's
integers have 32 bits. `Offsets` are the code's, `Said` what its comments say of them.

**TranslStream** (`MCTranslStream`): `TranslClient.StreamRun` with its timers and
value cache, and `TranslSubscribe`. Translib is external: it answers reads and
reports first values and changes of ON_CHANGE paths in a queue. The session is
reduced to Close and the wait for the goroutines.

**DialOut** (`MCDialOut`): `processTelemetryClientConfig` as a handler that takes
notifications in order and reads the row when it gets to it, with a step for each
subscription it closes, cancels or sets up, and a `publishRun` for each
`clientSubscription` struct. A struct is an instance with the fields the code copies
in `setupDestGroupClients`: `opened`, `stop`, `client`, the cancel function and the
count of its WaitGroup. Between `cs.Close()` and `cs.cancel()` the handler holds the
struct, `h.cs`. HDEL or DEL of a row is one notification `hdel`. A read of the row may
fail: the notification is lost, and `lost`, a history variable, remembers its key. A
Periodic publisher reads (`unread`: it cannot) and sends; a Stream publisher waits in
`cs.q.Get(1)` until its feeder, the `StreamRun` goroutine, has put a value (`queued`) or
the queue is disposed of, and learns that the stream is broken or its context cancelled
from the `Send` of a value only.

**RpcServer** (`MCRpcServer`): one server with its calls: `authenticate` mode by mode,
each mode one step that may leave an identity behind, the handlers of Get, Set,
Capabilities, Subscribe (its access to data only) and gNOI, tokens, the audit log with
its shared `Writer`, and the launch by `main` or as a library, with crashes and new
starts. `load`, chosen at the start, is what a behaviour has to deal with: slots for
concurrent calls, the requests, the launches, and bounds for time, starts and changes
of roles. PAM, the groups of the host, certificates, time and translib are external; a
bulk request carries out a prefix of its operations.

**PathResolution** (`MCPathResolution`): `populateDbtablePath`, the trie, the four
translators, the name maps, namespaces, and `Get` of the DB and non-DB clients.
Requests are concurrent; each look at a map, each read of a namespace and each of the
three assignments of the alias maps is a step. Redis is external: ports come and go,
with an OID for the port and one for its queue, unique in a namespace only; and the
PORT_QOS_MAP of a namespace (`qos`) has no row, or a first row with or without
`pfc_enable`, which decides what `getPfcwdMap` does. `fit` and
`calm` are history variables: whether a request began with no map out of date and either
alone, or with complete alias maps beside requests that began so too; and whether redis
has changed, or failed it, since.
Two maps written at once by the Go runtime are taken as assignments of map pointers,
which is what the code does; a map is never written in place.

**DialOutServer** (`MCDialOutServer`): `Publish`, `Run`, `Close`, `SetDataStore` and
`Stop`. `append` is a read of the slice and a write of the longer one, under `sRWMu`.

**ResponseRounds** and **ResponseStore** are abstract specifications. ResponseRounds is
what a client of a session sees: values and sync_responses in rounds, a round's values
before its sync_response and the rounds in order. SubscribeSession implements it
(`AnswersInRounds`, the rounds read off what has been sent). ResponseStore is a
collector: one list that grows by the next response of some call, none lost, repeated
or reordered. DialOutServer implements it (`StoresInOrder`, `list <- store` and `kept`
the number of a call's responses in it).

**SubscribeSessionProofs**, **TableStreamProofs**, **DataClientProofs** (FieldStream and
CpuStats, whose definitions have names of their own so that one module can extend both),
**TranslStreamProofs**, **RpcServerProofs**, **DialOutProofs**, **DialOutServerProofs**,
**PathResolutionProofs**: proofs, section 5.

## 3. Runs

| Run | States | What it shows | Properties |
|---|---|---|---|
| `session_stream` | 198k | one session with two paths, STREAM of the DB client, POLL of the non-DB client, POLL or ONCE of the translib client; failures, updates and a client that leaves at any time | SyncComplete, PathInOrder, NoPanic, ChildrenExited, RunReturns, SyncOrEnd, RoundAnswered |
| `session_rounds` | 1.9M | STREAM of the non-DB client, POLL of the DB client or of the translib client with updates_only, polling ahead, ONCE of the DB client; a second call from the same address closes the first at any point and is refused itself | ClosedOnce, RegistryLive, AnswersInRounds (refinement) |
| `dialout_subscriptions` | 92k | a subscription row of every kind written, rewritten and deleted, notifications that are lost, destinations that go and come, data that cannot be read | OnePublisher, ClosedOnce, CancelledEnds, Reconnects |
| `dialout_groups` | 592k | subscription, group and global settings change ahead of the handler, which may fail to read a row | UsersAccurate, ConfigApplied |
| `zombie_publisher` | violation | a group change, then a subscription change: two publishers | OneDestination |
| `table_stream` | 917k | keys of a virtual path, ON_CHANGE and sampled; one key ON_CHANGE; a whole table ON_CHANGE with a lost redis connection; rows of two fields set, removed in part or whole, or changed by an ignored command | Converged, Delivered, SubscribeReturns |
| `field_stream` | 69k | a field of two keys, and one field that may be missing, with an HGet that fails | SavedIsSent, OnlyChanges, Delivered, ReturnsSynced |
| `cpu_windows` | 12k | the ring from empty through two wrap-arounds, with the offsets of the code | WindowSpans |
| `transl_stream` | 120k | samples with suppression and heartbeat, with and without updates_only; a sampled beside an ON_CHANGE path, with and without failures of reads, bundle version and backend | CacheIsSent, SyncComplete, Delivered, HeartbeatHeard, RunReturns |
| `rpc` | 690k | one call at a time with credentials of two users under pairs of modes, refreshed tokens, a restart and a change of roles; two Sets at a time, bulk ones that fail in part | Attributed, TokensRooted, Truthful, AuditComplete |
| `path_resolution` | 2.2M | two requests over paths of every shape, cold and warm maps, namespaces in which OIDs repeat, with and without watchdogs and `pfc_enable`, a change or a failure of redis | TrieAgrees, RightCounters, Resolves |
| `dialout_server` | 32k | two Publish calls from one address, broken and finished streams, Stop | CompleteAtEOF, StoresInOrder (refinement), CallsEnd |

Deadlock is not checked: a session that is over, and bounds that are used up, are
legitimate ends of a behaviour.

Bounds, and why they are enough to meet the cases:

* Two paths, so that one can fail, be late or be overtaken while the other goes on;
  `MaxUpdates` 1 (2 for samplers), so that a path has a value in the queue while the
  next is stamped. `MaxPolls` 2 gives three rounds with the one Run asks for; 3 with
  a client that polls ahead fills `polled`, blocks `recv` and leaves a poll over.
* Two calls and one address: a third call meets the same situation as the second. The
  second call of `session_rounds` brings no query of its own: what it does to the
  first, it does when it registers and when it returns.
* Rows: two, so that changes of one meet the reading of the other, with two fields, so
  that one can go and the other stay; a table begins with one row of one field or two
  rows of both. `MaxWrites` 2 for named keys and for a table, 3 for one key: a value
  that is set, deleted and set again is the case the listener's comparison could lose.
* Fields: two cells, three writes or failures of `HGet`, between and during ticks.
* Dial-out: one subscription, two destinations, two changes of the table, and two of
  the destinations or the data (a destination goes and comes back, or both go, or one
  goes while the data cannot be read): a restart can meet an old publisher in every
  phase. Any notification may be lost. `MaxInst` is at least the number of structs
  that the changes can make.
* CPU ring: the real capacity and offsets, 6100 samples, from an empty ring and from
  one about to wrap.
* Translib: two paths and two writes; intervals of 1 and 2 give two timers.
* RPCs: two users, so that credentials in one request can disagree; three calls with
  one restart and two ticks, so that a token is issued, refreshed and outlived; two
  paths and up to four operations, so that a bulk request can fail after any of them.
* Path resolution: ports in two namespaces with the same OIDs, two requests, and one
  change (of ports, watchdogs or QoS maps) or failure, at any point of them.
* Dial-out server: two responses of each of two calls.

The two values of each value set make "equal" and "different"; nothing looks at more.

Restrictions of the passing runs come from section 6: a property is checked for the
clients, modes and environments for which the code keeps it.

## 4. Fairness

Goroutines that can run do run (weak fairness of each goroutine's steps). A client
is never obliged to send, poll, close or disconnect; connections and collectors are
never obliged to fail. A client does read what it is sent: gRPC's flow control is
otherwise free to block `Send` for ever. Where a `select` has several ready cases Go
picks one at random, so a case that is ready again and again is taken: strong fairness
of `Stop`, `StreamStop` and the timers' ticks. In `TableStream` weak fairness of
`MainTick` and `MainStop` is enough, as they stay enabled. The code makes its interval timer anew in each turn
of the loop, so an endless stream of updates could starve it; the models have finitely
many updates and claim nothing for that case. `SessionClose` is fair because `Close`
goes on after the disposal without blocking. In `DialOutServer` a call that waits for
`sRWMu` gets it in the end (strong fairness of `RunLock`): Go's mutex hands itself to a
waiter that has starved. RpcServer and PathResolution claim no liveness.

In `DialOut` a call that blocks has a time limit or waits for another goroutine of the
model, with one exception: `send` waits in `cs.q.Get(1)` without limit. It is woken by a
value (`FeederPut`), which comes when the data changes and for which no fairness is
assumed, or by the disposal of the queue. A broken stream or a cancelled context does not
wake it. `CancelledEnds` and `Reconnects` therefore except a goroutine that from some
point on hears of nothing (`[]Unheard(i)`: its Stream has no value to send, or its
Periodic report cannot be read, and its channel is open); `CancelledEndsAnyway` and
`ReconnectsAnyway`, which have no such exception, fail (section 6). The other goroutines are covered: among them those that are
cancelled while they dial, publish, restart or wait.

## 5. Proofs

All proofs are checked by tlapm to the last leaf, for every value of the constants
that satisfies the named assumptions (`ConstantsAssumption`, `TableAssumption`,
`FieldAssumption`, `CpuStatsAssumption`, `TranslAssumption`, `RpcAssumption`,
`DialOutAssumption`, `ServerAssumption`, `PathAssumption`): any number of calls, addresses,
paths, polls, updates, rows, fields, values, samples, writes, users, requests, tokens,
subscriptions, groups, destinations, responses, ports and namespaces. Each inductive invariant was checked by TLC as an invariant of the module's
run, or of one with smaller bounds, before it was proved.

**The session** (SubscribeSessionProofs).

* `TypeCorrect`: `TypeOK`. It is inductive as it stands; the part with content is that
  `polled` and `once` never hold more than one token.
* `CloseIsSafe`: `ClosedOnce`. The strengthening `CountedInv` ties the WaitGroup to
  the control points (a routine that runs is in `w`, a path goroutine of a DB client
  too) and a closed channel to a disposed queue, which is what makes the early return
  of `Close` safe.
* `ChildrenHaveExited`: `ChildrenExited`, if no data client is the non-DB one; from the
  same invariant. The hypothesis is needed (section 6).
* `RegistryIsLive`: `RegistryLive`; inductive with the types.
* `SyncIsComplete`: `SyncComplete`, for all data clients and modes. The invariant
  `SyncInv` has four parts: `Routed` (which routines a mode runs), `Stamps` (what is
  stamped and not yet put), `Ordered` (rounds grow with time stamps from what was sent
  to what is queued) and `Covered` (for a sync message that is being sent, queued or
  stamped, the values it vouches for are sent, being sent or queued before it). One
  lemma per action that feeds or empties the queue; all others leave it alone
  (`QuietStep`).
* `ValuesInOrder`: `PathInOrder`. `Timely` says why a value that has been stamped and
  not yet put is not overtaken: it is younger than what is queued or being sent of its
  path, because one goroutine at a time stamps values of a path and puts the last one
  before it stamps the next.
* `SessionImplements`: `AnswersInRounds`, the refinement of ResponseRounds. Main's steps
  map to `Begin` (`RunQuery`), `End` or no step (`MainPhases`), all others to no step
  (`OthersSilent`), and `Send` to `Value` or `Sync` of the round that is open. For that the invariant needs to know which round this is. `Numbered` (POLL and
  ONCE) says that every round begun before the current one ends in the queue with its
  sync message, as the last of its round, so that the next value out is of the round
  after the last one closed; `Single` (STREAM) that there is one sync message at most.
  Nothing is assumed of the client: it may poll ahead.
* `NoSessionPanics`: `NoPanic`, under two hypotheses: the client does not poll ahead
  (`~Pipelined`), and only STREAM calls share their peer address with another call
  (`Sole`). Both are needed: `poll_pipelined_panics` shows the first, and a second call
  that closes a session between the making of `polled` and its first token the second.
  `Asked` is an account of polls: rounds begun, tokens, the request recv holds and the
  requests under way are one more than the polls issued, and all but one of those are
  closed. So while recv has yet to pass a poll on, everything before it is answered,
  the queue is empty and send waits (`WaitingAtRest`): nobody but recv can call `Close`.

**Tables** (TableStreamProofs). `TableTypes`, and `ClientConverges` (`Converged`) without
hypotheses. A listener compares what it reads with what it sent last, main passes on what
the listeners give it and at a tick what it has gathered, and redis is read after the
notification: a value is on its way in one of several places. The invariant `TableInv` has
three parts beside the types. `Staged` says what main has done by each control point: it
listens to every key before it reads it, and no listener runs before the first values are
sent. `Heeded` says that the listener of a key hears of that key only. `Kept` is about the
data: for a key, `Last` (what the listener compares with is what the client has, or is in
its hands) and `Current` (the values of the row's fields are known (`Known`), or an `hset`
of it is under way, or somebody is yet to read it, or its last change was one the listeners
ignore); for a whole table, of which only deletions can be promised (section 6), `Gone`.
`Known` speaks of the fields there are (`Good`): a field that HDEL has removed stays with
the client until the row is sent again under a name of its own, and for good where the row
is a path with a key, whose fields are merged one by one (`RemovalsKnown` fails, section 6). Removing a field
leaves `Known` true, which is why ignoring `hdel` is no harm to it. When all is quiet, only
`Known` and the ignored commands are left of `Current`.

**Field subscriptions** (DataClientProofs). `FieldTypes`, `SavedValuesAreSent`
(`SavedIsSent`), `OnChangeSendsChanges` (`OnlyChanges`): for the last, `News` says that
what is about to be sent differs from what the client has.

**CPU ring** (DataClientProofs). `WindowsSpanSamples` (`WindowSpans`), for a ring of any
capacity from 2 to 32767 and any offsets: the sample compared is in the ring, and an offset
k that fits in it leads k - 1 intervals back, which is not what the comments say
(`WindowsAsSaid` fails, section 6). `Ring` says what each slot holds: before `writeIdx` the samples
of this round, from there on those of the round before, or nothing. It is stated by
subtraction rather than by remainders, so that a step at the end of the ring is the only
one that wraps; `SlotExact` does the index arithmetic of a rate.

**Translib STREAM** (TranslStreamProofs). `TypesKept`, `SuppressedIsSent`
(`CacheIsSent`) and `SyncIsComplete` (`SyncComplete`), with failing reads, versions and
backends. `CacheIsSent` is inductive with the types. For `SyncComplete` the invariant
follows both goroutines: `SampledSent` (the first values of the sampled paths that
StreamRun has passed), `ReportedSent` (those of the ON_CHANGE paths are sent or stand in
translib's queue not behind the response that is marked as the last of them) and
`SignalledLate` (`synced` is signalled at that response only). That the marked response
comes after a value of every ON_CHANGE path, although translib reports them in any
order, is a counting argument (`AllListed`: a list as long as a finite set and without
repetition holds all of it).

**RPCs** (RpcServerProofs). `CallsAreAttributed` (`Attributed`), `TokensAreRooted`
(`TokensRooted`) and `StatusIsTruthful` (`Truthful`) hold without hypotheses;
`AuditIsComplete` (`AuditComplete`) while syslog can be dialled (`~DialFails`), which is
needed (`audit_race`). `Admitted` says of every control
point of `authenticate` what the context holds there: an identity a failed mode left
behind is not acted on unless a later mode has replaced or confirmed it. `Handled` says
what a handler has asked of translib by then, `WriterOpen` that a call about to write
finds a `Writer`, `Quiet` that nothing is in progress while the process is down.
`AuditComplete` has an invariant of its own: the lines written followed by the entries
still to write record the operations carried out (`Records`), so that each line that
moves from one to the other changes nothing. That the outcomes of a bulk request have
such a record rests on the existence of an increasing list of any finite set of numbers
(`InOrderAll`, by cardinality).

**Dial-out client** (DialOutProofs).

* `StructsKept`: the types, with what the maps and the handler have to do with each
  other (`Structs`, `Handling`): a subscription in the map has a struct made for it whose
  group lists it, and the handler has found in the map every user of its group that it
  has closed. Without it not even the types are inductive: `cs.cancel()` needs a struct
  with a cancel function.
* `TableIsApplied`: `ConfigApplied`, without hypotheses; rows whose last notification was
  lost are excepted by the property, and must be (`RowsApplied`, section 6). The handler reads a row when it
  gets to the notification, not when it was sent, so what it holds may be newer than the
  notification or be overtaken by the next write; a lost notification counts as one that
  never ceases to be on its way (`Pending`), until the next one of its row is processed. `AppliedInv` says what remains true:
  the last notification of a row that exists tells of a write (`LastIsSet`); what the
  handler has read is the row, unless another notification of it is on its way
  (`RowRead`); the maps hold the table but for rows with a notification on its way or at
  the handler (`RowApplied`, `GroupApplied`); and a goroutine that runs for a
  subscription was started with the destinations in the map, unless the handler has yet
  to set it up again (`Started`). A group may be forgotten because no subscription in the
  map has it: those groups have been used.
* `UsersAreListed`: `UsersAccurate`, if the rows of each subscription name one group or
  none (`OneGroup`). The hypothesis is needed: `moved_subscription`.
* `OnePublisherWithoutCopies` (`OnePublisher`) and `ClosedOnceWithoutCopies`
  (`ClosedOnce`), in every behaviour in which `setupDestGroupClients` copies no struct
  (`NoCopy`, a hypothesis on steps). It is needed: `zombie_publisher`,
  `copy_shares_channel`. `Told` says that the struct the handler replaces or forgets is
  in its list, in its hands or cancelled; `OwnChan` that a struct has a channel of its
  own, open while the struct is. That a restart finds a channel nobody uses is a
  counting argument (`FreshIsFree`).
* `GroupsFirstSafe`: both, from a condition on the table alone: groups first, and only
  subscriptions written later (`SubsAfterGroups`; the table of `dialout_subscriptions`
  is such a one). `GroupsFirstNoCopies` shows that no struct is copied then, because the
  groups are read while there are no users.

**Dial-out server** (DialOutServerProofs). `NothingMissing` (`CompleteAtEOF`) and
`StoreImplements` (`StoresInOrder`, the refinement of ResponseStore), if the data store
is not set while calls run; the hypothesis is needed (section 6). The invariant has four
parts beside the types: `Locked` (the call between Lock and Unlock is the one that holds
`sRWMu`, and the slice it has read is the data store), `Counted` (the data store holds as
many responses of a call as it has received, but for the one Run is at), `Settled` (each
of them is stored or printed) and `AllRead` (Run sees the end after the last response).
`AppendCounts` says what Append does to the number of a call's responses. The steps map
to `Keep` (`RunAppend`), `Send` (`SenderSend`) or to no step.

**Path resolution** (PathResolutionProofs).

* `PathTypes`: `TypeOK`, with what is known of a request's path, the map it is at and what
  it has read for it.
* `TrieIsRight`: `TrieAgrees`. `Walked` says where `findNode` is after each level of a path
  of COUNTERS_DB, and `WalkedStep` that one level leads from there to the next. That it is
  there at every level is not an induction, which the provers do not do: the least level
  at which it is not (`LeastNumber`) would have no level to have come from.
* `CountersAreThePorts`: `RightCounters`, if an OID that was used is not used again
  (`~Reuse`) and no port has another's name as its alias (`Apart`: such a name would stand
  for two ports). The first is needed: `oid_reused`. The name maps may be stale, filled half or by two requests at once; what
  holds of every OID in redis, in a map, in a request's hands and in a table path is
  `OwnedBy`: it was used for that port and is in use for no other.
* `RequestsResolve`: `Resolves`, if `Apart`, and if the default namespace is configured and
  every port is in a namespace the maps are filled from (`Homed`; without it
  `empty_resolution` with `NoHost` panics). The property speaks of requests under which
  redis has not changed and whose namespaces with a watchdog have a `pfc_enable` in the
  first PORT_QOS_MAP row (`PfcReadable`), which is needed (`ResolvesAnyQos`, section 6): `Live`. `FullInv` follows the maps and the answer.
  `World`: while a request that `Resolves` speaks of has not done with the maps, the OID
  maps are empty or complete (`MapsFine`), everybody who is filling one has read what is in
  redis, so that whoever assigns last assigns the same (`FillersFine`, `Accurate`), and the
  three alias maps are complete, or empty with nobody else about to fill them (`AliasAt`).
  `Progress`: the labels shown and those of the table paths left are the ones expected, or
  the port is not there and the one table path left has no row.

The attempt to prove `Resolves` showed that `Fit`, the condition on how a request begins,
was too weak beyond the bounds of the run. With three requests and two changes: a request
that redis failed leaves an empty queue map; one that arrives while another fills maps
makes an empty watchdog map of it and holds it; a third begins, finds all maps in order,
and has its watchdog map replaced by the empty one. `Fit` now asks that those who are
filling maps began fit too, and TLC has checked it with one port, three requests and two
changes as well. The code is as it was: this is one more way in which requests that fill
the maps at the same time harm each other.

Every safety property of the passing runs has a theorem. Only model-checked are the liveness
properties (tlapm does not reason about fairness and ENABLED here) and the type invariant
of RpcServer as far as it speaks of the configuration, which a bulk Set changes by a fold
(the proofs do without that part).

## 6. Where the code departs from what it says

`zombie_publisher` is a run. The other configurations named here are kept beside the
modules and are not among the runs; each makes TLC print the behaviour. Where no
configuration has a name of its own, the one to change is named in brackets; its
properties are replaced by the one in the second column.

| Configuration (MC module) | Property | What happens |
|---|---|---|
| `zombie_publisher` (DialOut) | OneDestination | the copied struct keeps a cancel function of a context already cancelled; nobody can stop its publishRun (`dialout_client.go:452`) |
| `copy_shares_channel` (DialOut) | ClosedOnce | struct and copy both close the shared stop channel |
| [`dialout_subscriptions` as a PROPERTY] (DialOut) | CancelledEndsAnyway | a publisher that restarted between the handler's Close and cancel streams, and waits in `q.Get` without limit: it learns of the cancellation from the Send of a further value only (`:213`) |
| [`dialout_subscriptions` as a PROPERTY] (DialOut) | ReconnectsAnyway | the same for a collector that goes down |
| [`dialout_subscriptions` with `SubRows <- PeriodicRows`, as a PROPERTY] (DialOut) | ReconnectsAnyway | a report that cannot be read goes back to the head of the loop before Send (`:343`): the lost collector is not noticed while that lasts |
| [`dialout_groups` as an INVARIANT] (DialOut) | RowsApplied | `HGetAll` fails: the handler returns and nothing reads the row again (`:465`) |
| `wait_never_returns` (DialOut) | Reconnects | the copied WaitGroup counts a goroutine that reports to the original |
| `delete_without_group` (DialOut) | NoPanic | nil dereference when a row without a group is deleted (`:558`) |
| [`dialout_subscriptions` as an INVARIANT] (DialOut) | ConnectionsHeld | a dial succeeds when the context has been cancelled: `publishRun` returns and nobody closes the connection (`:306`) |
| `moved_subscription` (DialOut) | UsersAccurate | the old group keeps a subscription that moved (`:622`) |
| [`duplicate_never_returns` as an INVARIANT] (SubscribeSession) | InProgressRegistered | an older call that returns deletes the entry of the newer one (`server.go:247`) |
| `once_never_returns` (SubscribeSession) | RunReturns | `OnceRun` never calls `w.Done()` (`db_client.go:288`, `non_db_client.go:550`) |
| `duplicate_never_returns` (SubscribeSession) | RunReturns | a client closed before its query arrived is never stopped (`server.go:239`) |
| `poll_pipelined_panics` (SubscribeSession) | NoPanic | `recv` sends on `polled` when Close closes it (`client_subscribe.go:221`) |
| [`once_never_returns` with `Queries <- DbPoll`, `MaxPolls = 1`] (SubscribeSession) | PollAnswered | `DbClient.PollRun` returns without a message (`db_client.go:263`; `TranslClient` does the same, `transl_data_client.go:434`); `RoundAnswered`, which the runs check, excepts this case |
| [`once_never_returns` with `Queries <- NonDbStream`, `MaxUpdates = 1`, as an INVARIANT] (SubscribeSession) | ChildrenExited | `streamSample` goroutines are not counted (`non_db_client.go:471`) |
| `listener_leak` (TableStream) | ListenersExit | a listener blocks on `updateChannel` after its reader has returned (`db_client.go:1055`) |
| `deaf_listener` (TableStream) | Delivered | after a lost connection a listener waits for the end of the session (`:1000`) |
| [`listener_leak` with `Subs <- WholeTable`, as an INVARIANT] (TableStream) | TableConverged | a changed row of a whole table is sent without its key (`:1038`) |
| [`table_stream` as an INVARIANT] (TableStream) | RemovalsKnown | `del` and `hdel` of a path with a key are ignored: the client keeps a field, or a row, that is gone (`:1010`; `:1009` is a TODO for it) |
| [`table_stream` as an INVARIANT] (TableStream) | ConvergedAnyway | a notification other than `hset`, `hdel` and `del` is ignored: the client keeps the old value (`:1049`) |
| [`cpu_windows` as an INVARIANT] (CpuStats) | WindowsAsSaid | the rates of 1 s, 5 s and 1 min compare samples 9, 49 and 599 intervals of 100 ms apart, not 10, 50 and 600 as the comments say (`non_db_client.go:166,179,192`); for 5 min the offset 30000 in a ring of 3000 wraps in `uint64` and leads 2383 intervals back (`:206`) |
| `transl_backend_panics` (TranslStream) | NoPanic | `TranslSubscribe` and `Close` both close the channel (`transl_data_client.go:366`) |
| `transl_version_hangs` (TranslStream) | RunReturnsAlways | return without `synced.Done()` (`:349`) |
| [`transl_version_hangs` with `Requests <- HastyChange`] (TranslStream) | RunReturns | the same, when the client leaves before the first values (`:358`) |
| [`transl_version_hangs` with `Requests <- ReadFails`] (TranslStream) | SyncOrEndAlways | `StreamRun` returns without a message (`:225`) |
| `subscribe_unattributed` (RpcServer) | SubscribeAttributed | the translib client of a subscription gets the stream's context, not the authenticated one (`client_subscribe.go:76,130`) |
| `auth_modes_dropped` (RpcServer) | AuthAsWanted | `cfg :=` in the inner block shadows the configuration NewServer gets (`telemetry.go:127`; `:38` says "we want to enable auth by default") |
| [`audit_race` with `DialFails = FALSE`, as a PROPERTY] (RpcServer) | UpdateKeeps | an object that appears between Update and Replace is overwritten (`transl_utils.go:236`) |
| `audit_race` (RpcServer) | AuditSafe | one request assigns a nil `Writer` after the other has tested it (`transl_utils.go:33`) |
| [`path_resolution` as an INVARIANT] (PathResolution) | ResolvesAnyQos | the first PORT_QOS_MAP row of a namespace with a watchdog has no `pfc_enable`: every request for COUNTERS_DB is refused, with redis in order (`virtual_db.go:165`) |
| `oid_reused` (PathResolution) | RightCounters | a name map that is never read again names an OID that is another port's by now (`virtual_db.go:78`; `:259` assumes a static map) |
| [`cold_start_race` with `MaxChanges = 1`] (PathResolution) | ResolvesAlways | a port that comes up after the maps were filled is not found |
| `cold_start_race` (PathResolution) | ResolvesAlways | a request finds `alias2nameMap` filled and `port2namespaceMap` not yet (`:103`) |
| `empty_resolution` (PathResolution) | NoPanic | ON_CHANGE for a virtual path that stands for nothing looks at the first of no table paths (`db_client.go:212`) |
| [`empty_resolution` with `Includes <- NoHost`, `Paths <- PortOrAll`] (PathResolution) | NoPanic | without an include for the default namespace a look-up in it panics (`db_config.go:78`) |
| [`dialout_server` with `SetLate = TRUE`] (DialOutServer) | CompleteAtEOF | the data store is tested again without the lock; a response is neither stored nor printed (`dialout_server.go:209`) |
| [`dialout_server` as a PROPERTY] (DialOutServer) | ClosedEnds | Close finds no channel to close, the call goes on (`:219` says "it will cause cancle of client context and exit") |
| [`dialout_server` as an INVARIANT] (DialOutServer) | InProgressRegistered | an older call that returns deletes the entry of the newer one (`:141`) |

## 7. Abstractions, and what is not modelled

* Values, names and messages are model values; JSON, wording, logging, counters for
  statistics and TLS are left out.
* Authentication at the head of `Subscribe` is left out of SubscribeSession, where a
  refused call changes nothing; it is modelled in RpcServer.
* RpcServer shows what one may not expect, too: a Set of one operation and a Get are not
  audited, a refreshed token keeps the roles it was issued with, and without TLS the
  secret stays 16 zero bytes, so that tokens survive a restart. `TokensRooted` is about
  servers that have generated a secret.
* In PathResolution a port has one queue and a row of COUNTERS is whole or gone; the
  table alone as a path is part of TableStream. A PFC watchdog enabled in some
  namespaces only, or no PORT_QOS_MAP row in one of them, leaves `countersPfcwdNameMap`
  empty, and `Resolves` excepts paths that ask for it then. A priority of `pfc_enable`
  is taken to have a queue in MAP_PFC_PRIORITY_TO_QUEUE (`virtual_db.go:180`: one that
  has none is left out), and a PORT row to have an alias. `Resolves` also leaves out the
  race of a cold start (`Fit`, `cold_start_race`).
* In TableStream the notifications of a whole table's changed rows, and what HDEL of one
  field of such a row shows (an empty object, though other fields are left), are modelled
  as they are; `Converged` claims of a table only that deleted rows are shown as empty.
* In FieldStream an `HGet` that fails is remembered and sent as the empty string
  (`db_client.go:824`, `:915`); `Delivered` says that the value itself follows.
* In DialOutServer the default of the type switch on the data store
  (`dialout_server.go:201`) is left out: every caller sets a slice of responses.
* Time stamps are a counter that grows: two values of one session never have the same
  nanosecond.
* `w` in SubscribeSession counts the data routine and the path goroutines; the
  listeners of tables are not in it and are modelled in TableStream.
* The copy of a struct in `DialOut` is one step, and the critical sections of
  `publishRun` are single steps, so that the copy of a locked mutex is not seen.
* HDEL of the last field of a row makes redis send `hdel` and `del`; DialOut sends
  one of them (a second one meets the nil dereference above), TableStream both.
* Not modelled: percentages of CPU statistics (a division by the ticks between two
  samples, `non_db_client.go:139`), what the getters of files render, ids and addresses
  in the database configuration, flags and certificates of the dial-out programs, and
  generated code other than the handlers of the services: it has no state of its own.

## 8. Plan

Done, in this order: the session (with its proofs), dial-out, tables, fields (with
proofs), CPU ring, translib STREAM, POLL and ONCE, RPCs with authentication, path
resolution, the dial-out server, and two abstract specifications; proofs of the session's
order, rounds and panics, of the CPU ring, of translib STREAM, of the RPCs, of the
dial-out client, of tables and of path resolution. What could follow:

1. Models: the dial-out copy with the mutex.
2. Abstract specifications: dial-out as "publish what the table says", implemented by
   DialOut without group changes; a field subscription as a register the client follows.
3. Proofs: the refinements of these; with them the safety of the dial-out client while
   groups change, if the copy of structs goes from the code.
