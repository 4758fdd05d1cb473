# A TLA+ verification of watchd

watchd keeps local copies ("projections") of PostgreSQL rows in sync. It reads one
logical replication slot, cuts the stream into committed transactions, and fans each one
out to the watchers of the table and scope it touches. `docs/internals.md` names the
promises everything serves: no gap, no lie about freshness, no harm to PostgreSQL.

This directory models the code with TLA+ modules, checks them with TLC on small
instances, and proves the central invariants, and that the reader implements its contract, with TLAPS
for every instance.

## The system

| Part | Files | State | Operations | Modules |
|---|---|---|---|---|
| Watch hub | `internal/watch/hub.go`, `event.go` | ring, floor, stale tables, watchers and their queues | `Accept`, `Watch` with `resume`, `snapshot`, `live`, `Stop` | `Hub` |
| Source | `internal/cdc/source.go` | started, streaming, stopped, the mutex | `Start`, `Snapshot`, the run goroutine | `Source`, stepped by `Daemon` |
| Bootstrap, slot | `bootstrap.go`, `slot.go` | the slot, the stream handed over | `Bootstrap`, `dropSlot`, `requireSlot` | `Source`, `Reader`, `Hub` |
| Snapshot reads | `snapshot.go` | cursor, MVCC snapshot | `Reader.Snapshot`, paging | `Hub`, `Source`, `RowStore` |
| Reader | `stream.go`, `reader.go`, `connections.go`, `errors.go` | connection state, safeLSN, attempts | `Run`, `read`, `receive`, `consumeCopyData` | `Reader`; errors in `Failures` |
| Decoder, shapes | `decoder.go`, `relation.go`, `validation.go` | open transaction, relations, baselines | `Consume`, `record`, `diff` | `Reader`; values in `RowCodec`, shapes in `Relations` |
| Retention | `retention.go`, `retention_policy.go` | retention state | sampling, terminal stop, slot drop | `RetentionPolicy`, `Reader` |
| Cursors, visibility | `types.go`, `visibility.go` | none | `Compare`, `After`, `MinCursor`, `includes`, `widen` | `Hub`, `Positions` |
| Go SDK | `sdk/go/watchd` | store, cursor, freshness, retry state | `Sync`, `stream`, `MemoryStore` | `Client` |
| Server | `internal/server/server.go` | open streams | `Watch`, `CompareCursors`, `sendRows`, `status` | `Client`, `Daemon`, `Positions`, `RowStore`, `Failures` |
| Daemon | `internal/daemon/daemon.go` | what runs, readiness | `Serve`, its start and stop order | `Daemon` |
| Configuration | `daemon/config.go`, `cdc/config.go` | none | defaults, validation | `Settings` |
| Ops, telemetry, generated code, example | | | | not modelled |

How they interact: PostgreSQL commits; its walsender streams to the reader; the decoder
emits one transaction per commit; the reader calls the sink, `Hub.Accept`, and
acknowledges the transaction's end only after it returns nil. A client's `Watch` either
resumes from a cursor (the hub replays its ring) or takes a snapshot through
`Source.Snapshot`; afterwards its goroutine alternates between draining its queue,
sending `Progress`, and waiting for the next tick. `Resync` ends a watch.

What makes it hard:

- Accept, Watch calls, snapshot reads and commits interleave freely, and the hub's lock is
  released between almost any two steps of a Watch call.
- A commit is in the WAL, and may be streamed, before new snapshots see it (it may wait
  for a synchronous standby), so a snapshot's cursor and its rows disagree.
- PostgreSQL resends after a reconnect; watchd restarts with an empty hub while clients
  keep their cursors.
- The ring and the queues are bounded; overflow ends a watch from outside it.
- A table can change shape in the middle: its changes are dropped from the stream, its
  watchers end, and resumes are refused until a snapshot has validated the new shape.
- The slot outlives every process: a connection, an acknowledgement, an answer to its
  creation or its drop can be lost, and the retention policy may take it away.
- The first snapshot holds the source's mutex while a client takes its rows.

## Modules

| Module | What it holds |
|---|---|
| `Hub` | the hub, the Watch calls, and what they meet of PostgreSQL and of clients; the properties |
| `HubInv` | the inductive invariant `Inv` |
| `HubSourceProofs` | lemmas on sequences; `TypeOK` and the source, ring, floor and visibility parts of `Inv` are preserved |
| `HubProofs` | the clients' part of `Inv`, the theorems that follow from it, and what a watch sends: nothing twice after a snapshot, and cursors in order |
| `MCHub` | the instances of `Hub` for TLC |
| `Client` | `Sync`, its streams and its store, with what they meet of the server and the hub; the properties |
| `ClientProofs` | `Sync` does not spin, no snapshot is half visible, and the store can always be continued from |
| `MCClient` | the instances of `Client` for TLC |
| `Stream` | what a source's replication stream promises its sink: the contract |
| `Reader` | one `Run` with its walsender, decoder, shape baselines and retention monitor; the properties |
| `ReaderProofs` | `Reader` implements `Stream`, drops the slot only for a cause, and guards the shape of rows |
| `RetentionPolicy` | the stages of the retention policy |
| `Source` | the source: `Start`, `Snapshot` with `Bootstrap`, the run goroutine, the mutex |
| `Daemon` | `Serve` composed with `Source`, the Watch calls and their clients; the properties |
| `DaemonProofs` | the safety properties of `Daemon` |
| `RowCodec`, `RowStore`, `RowPath` | a row by its values: decoder, server, SDK store; and the machine that sends rows down that path |
| `Positions`, `Relations`, `Settings`, `Failures` | cursors and transaction ids, shapes, configuration, errors |
| `Algorithms` | steps `RowPath` and calls every other algorithm over bounded arguments; the properties |
| `RowLemmas` | what the operators of `RowCodec`, `RowStore` and `Relations` return: decoding, limits, paging, packing, `Put`, `diff` |
| `RowProofs` | what a batch does to the client's rows, and the inductive invariant `RowInv` of `RowPath` |
| `AlgorithmProofs` | what the operators of `Positions`, `Settings`, `Failures` and `RetentionPolicy` return; every property of `Algorithms`, for any bounds |

### `Hub` and the code

A step is one critical section of `Hub.mu`, one send, or one channel operation of a Watch
call. `pc[c]` says where client c's call is:

    idle -> begin -> (bootstrap | reading) -> read -> clear -> record -> install   snapshot()
    idle -> backlog                                                                resume()
    backlog -> drain -> select -> drain ...                                        live()

- `ring`, `received`, `floor`, `lastEvicted`, `stale`, `tickTaken`, `stopped` are the
  fields of `Hub`; a `hasX` flag that is false is `NoCursor`. `closing` is the tick that
  `Accept` replaced under the lock and closes after releasing it.
- `queue`, `reason`, `todo`, `base`, `baseSafe`, `covered`, `pos`, `progressed`, `tick` are
  the watcher and the locals of its Watch call. A watcher is registered while its call runs
  and it has no `reason`; `endLocked` sets the reason and removes it in one step.
- `have`, `saved`, `resync` are the client: the transactions its projection holds, the
  cursor it may resume from (of a batch or a progress), the last Resync's reason.
- `log`, `visible`, `source`, `start`, `stream` are PostgreSQL and the reader as the hub
  meets them (external).
- `shaky` and `tainted` are ghosts. They mark a cursor that was claimed although the code
  had no grounds for it: by a watcher the hub had already ended, by falling back to a
  snapshot cursor that misses a commit, or after a replay across a shape change.

Abstractions. Transaction n's commit record occupies LSN 2n-1 to 2n, so that `After`, which
compares the record's start, and `Compare`, which compares its end, differ as they do in
the code. A transaction is the set of (table, scope) pairs it changes and the tables that
lost changes. What `Covers` decides from transaction ids is the set of transactions the
MVCC snapshot saw. A batch is applied as it is sent. Delivery scratch space, `Memo`,
metrics and logging are left out. A request may carry no cursor or the client's own one; a
client may disconnect anywhere. Errors of `Compare` between two sources cannot occur: a hub
has one source.

`VisibilityLag` says how long a commit in the WAL may be invisible to snapshots: `"none"`;
`"bounded"`, visible before the ring evicts it, before a slot starts after it, and before
it is streamed when it changes a table's shape; or `"any"`. The code has no defence against
the last: a commit that becomes visible only after it has left the ring is in neither the
rows nor the kept transactions. It is the one assumption of the theorems.

### `Client` and the code

A step is one event received and handled by `syncer.stream`, or the end of a stream with
all that `Sync` decides from it (`Ends`). `pc` is `loop` before a stream, `streaming`,
`waiting` in the backoff, or `returned`; `phase` is what the server has sent on the open
stream.

- `snapshot`, `resyncs`, `progressed`, `fresh`, `stateCursor`, `writer` are the locals of
  `Sync` and `stream` and the fields of `syncer`; `rows` and `cursor` are the store.
- `Status`, `RefuseCursor`, `SnapshotRows` (one row per message) are the server.
- `log`, `accepted`, `floor`, `base`, `baseSafe`, `sent`, `confirmed` are the hub as a client
  meets it (external): one whose claims are sound, which is `NoGap` of `Hub`.
- `spins` counts immediate retries and `revoked` remembers a Resync; both are ghosts.

Abstractions. A row has a small column and a big one that an update may leave `Unchanged`;
a value is the number of the transaction that wrote it. `Source` says from the log what the
rows must be, without `Apply`. A snapshot sees every commit so far, while the hub may lag
behind it: this is how transactions come to be replayed onto rows that hold them. A store
fails without effect, which is what the interface asks of a transactional one. A crash
keeps the store, as a persistent one does. A store may start with another source's cursor.

### `Reader` and the code

One `Run`, from its start to its return. A step is one message handled by
`consumeCopyData`, one decision of `Run`, or one step of PostgreSQL. `pc` says where `Run`
is:

    connect -> receive -> ended -> checked -> backoff -> connect ...       read, Run
                          ended -> stopped                                 the caller is done
                                   checked -> failed                       not retried
                                   checked, backoff -> drop -> failed      budgetExceeded

- `safeLSN`, `pending`, `inTx`, `relation`, `events` are the locals of `read` and its decoder:
  a new connection has new ones. `baseline` and `gen` are the `shapes` registry, which
  outlives them; `attempts`, which `Run` never sets back, and `handed` outlive them too.
- `cancelled` and `stopped` are the caller's context and the one the retention policy
  cancels. `Run` looks at them one after the other (`CheckCaller`, `CheckStream`).
- `sending`, `row`, `sent`, `status` are the walsender; `log`, `versions`, `slot`, `confirmed` are
  PostgreSQL (external). `taken` and `watch` are what `Hub.Accept` does for one watcher, reduced to
  the shapes of the rows it sends. A watcher's snapshot reads the table's shape
  (`projectionShape`), records it (`Validate`) and reads the rows (`ReadRows`) in three steps.

A WAL position is the number of transactions that commit before it. A transaction changes
no published table, or rows of one table in the shape the table has by then; it may alter
the table in its middle. A keepalive may come inside a transaction with that transaction's
end as its position. Shapes are compared for equality; what `diff` compares is in
`Relations`. An error is one of each kind `isRetryable` and `Run` treat differently.

`Stream` states the contract in four variables: the sink takes every published transaction
in order, and the slot only moves past what was taken. `Hub` relies on it: its `Accept`
takes the next transaction of the log and its `Reconnect` goes back at will.

### `Source`, `Daemon` and the code

A step is what a goroutine does between two waits: for the mutex, for PostgreSQL, for a
client, for the drain. `call[c]` is where a Watch call is (`lock` to `drop` in
`Source.Snapshot`, then `live` in the hub), `serve` is where `Serve` is. `mu` is the mutex
only when it is held across steps, that is by `Snapshot` during `Bootstrap` and during the
read that follows a slot found at the last moment; `Start`, the run goroutine and the
goroutine that waits for the context take it within a step, when it is free. `Run` is
reduced to: takes the stream handed over, returns when its context is done, or fails.

`orphan` is a ghost: it remembers why a slot that `Bootstrap` created was left behind.

### The algorithms

`RowPath` has one table with a key of a scope and an id, and one client. A row goes through
a pgoutput tuple by replica identity (`RowCodec`), the pending transaction with its limits,
routing by scope, the wire form, and `MemoryStore` (`RowStore`); snapshots go through
paging, packing and `Put`. A text is its length, with 0 the empty text: enough for limits,
key order, NULL against empty, and equality.

`Algorithms` adds one call of any other algorithm with its arguments kept in `call`, so
that a property compares the result with what it stands for. Transaction ids have 2 bits:
the wraparound is crossed with ids up to 6. A source id is a sequence of symbols that may
contain the separator. Durations and sizes in `Settings` are scaled down; fractions and
jitter are hundredths.

## Runs

| Run | Instance | Shows |
|---|---|---|
| `hub_safety` | ring 1, queue 1, 2 commits of any kind, bounded lag, 1 restart | `TypeOK`, `NoGap`, `ReplayWindow`, `NoLostWakeup`, `NoRedelivery`, `CursorsAscend`, and `Inv`, hold (1.8 million states) |
| `hub_live` | ring 1, queue 1, 2 commits, relevant or not | `EndedWatchEnds` and `ProgressFollows` hold under `LiveSpec` |
| `hub_drop` | ring 1, queue 1, 3 commits | `ProgressIsComplete` fails |
| `hub_floor` | ring 2, queue 1, 3 commits with shape changes | `FloorPastShapeChange` fails |
| `hub_stale` | ring 1, queue 1, 3 commits with shape changes | `StaleClearedByLiveWatcher` fails |
| `client_sync` | 2 rows, 3 transactions, 2 faults, 2 `Sync` calls | `TypeOK`, `Recoverable`, `NoSpin`, `NoHalfSnapshot`, and, under `LiveSpec`, `BecomesFresh` hold (1.0 million states) |
| `client_revoked` | 1 row, 1 transaction, 2 faults | `ResyncRevokes` fails |
| `reader` | 2 transactions, 2 shapes, 1 ALTER TABLE, 1 fault, 1 retry, budget 2, a refused row | `TypeOK`, `ShapeGuard` and the contract `ImplementsStream` hold (2.5 million states) |
| `reader_live` | 3 transactions, 1 shape, 2 faults, 2 retries, budget 3, a refused row | under `LiveSpec`, `DropHasCause`, `EveryTransactionTaken`, `WALIsReleased`, `BudgetStopsRun` hold (400 thousand states) |
| `reader_stop` | 2 transactions, 1 shape, 1 fault, 2 retries, budget 2 | `ShutdownKeepsSlot` fails |
| `lifecycle` | 2 calls, 2 faults | `TypeOK`, `OneStream`, `SlotHasOwner`, `ExitAfterCleanup`, `CleanExitWasAsked`, `StopHasReason`, and, under `LiveSpec`, `ShutdownCompletes`, `SourceFailureEndsServe`, `WaitsOnlyForClient` hold (40 thousand states) |
| `algorithms` | 2 scopes, 2 ids, 3 texts and NULL, 2 commits; calls over small arguments | `StoreMirrorsTable`, `RefusedExactly`, `PendingBounded`, `VisibilityExact`, `CursorsAgree`, `SnapshotArrivesWhole`, `DiffFindsChange`, `ConfigIsSafe`, `TransientErrorsRetried`, `RetentionSettles` hold (650 thousand states) |

Bounds. A ring and a queue of one make eviction and drop happen at the second relevant
commit, and every action of `Hub` fires. One client suffices for the runs: clients meet
only through the hub's fields, and the proofs cover any number. One table with one scope
suffices because routing is membership in a set; a commit that is not relevant stands for
every other table and scope. `WalSlack = {1}` puts a WAL record after the last commit, so a
snapshot's cursor is past it.

For `Client`, two rows make a snapshot of two messages, and three transactions allow an
insert, an update that leaves a column unchanged and a third change to replay them under.
Two faults let a failure strike the recovery from another, besides evictions and refused
cursors, which are not counted. Deadlock is not checked in the `Client` runs: `Sync` may
return, and then nothing is left to do once it has been called `MaxSyncs` times.

For `Reader`, two transactions let one be open while the other is resent or released, one
ALTER TABLE gives the table two versions, inside or between transactions, and one fault
ends a connection at any point; a refused row, which is in the log and comes again, uses up
the retries besides. A budget of two transactions is reached when nothing is confirmed.
`MaxMoves` bounds how often snapshots record another shape: twice lets one record what it
read before the ALTER TABLE after another has recorded the new shape. Liveness is checked
with a table that does not change, which the reader's progress does not depend on, and with
one transaction, one fault and one retry more.
For `lifecycle`, two calls meet at the mutex, and two faults let the drop of a slot fail
after the bootstrap did. Deadlock is not checked in these runs nor in `algorithms`: `Run` and `Serve`
return, and a refused row ends the stream.

In `algorithms` the id may be empty and a text may be longer than the value limit; two
changes fill a transaction, two large ones pass its byte limit, one row fills a page, and a
long row fills a message. A text longer than `ToastBytes` that an update leaves alone is sent
as unchanged.

Fairness (`LiveSpec`): a Watch call's goroutine takes its next step while its client reads
and PostgreSQL answers, and `Accept` closes the tick it replaced. Go schedules runnable
goroutines and neither waits on another client. Nothing is assumed of commits, the stream,
disconnects or new watches. The select's choice between its cases is not assumed fair: with
both the overflow and a closed tick ready, the tick may win until no more is accepted.

`Client`'s `LiveSpec` assumes that `Sync`'s goroutine runs, its timer fires and an unbroken
stream delivers what the server sends. Faults, commits and evictions are not assumed to
happen, and are finitely many by their bounds: a server that fails for ever is never fresh.

`Reader`'s `LiveSpec` assumes that `Run`, the walsender and their timers go on. The status
interval passes because a connection's deadline is shorter than the time between a
walsender's idle keepalives; a keepalive comes because a walsender sends one when it is
idle. Commits, faults, samples and watchers are not assumed. Commits are bounded, so "the
sink catches up" may be said with `[]<>`.

`Daemon`'s `LiveSpec` assumes that `Serve`, the source's goroutines and the calls go on, and
that the mutex starves nobody (strong fairness of `Lock`: Go's mutex hands over to a waiter
after a millisecond). Nothing is assumed of a client: it may never take a row. Failures are
not assumed either: `CallStep` is fair only in its steps that are not faults.

### What the failing runs show

- `hub_drop`: `live` reads `received`, drains its queue and sends `Progress` without looking
  at `overflow`. A watcher that `Accept` has just dropped claims a cursor past the
  transaction it lost. Its Resync follows, but a client whose connection breaks before it
  holds a cursor it may resume from.
- `hub_floor`: `evictLocked` overwrites `lastEvicted` with an older cursor than the one
  `invalidateLocked` put there, and the first snapshot derives the floor from it.
- `hub_stale`: the overflow check and the delete of the stale mark are separate steps; a
  shape change between them is wiped out by the watcher it ended.
- `client_revoked`: `Sync` forgets that it must rebuild when the forced snapshot's stream
  breaks or the source is unavailable. It resumes from the cursor stored before the Resync,
  and reports the old rows fresh. With `hub_drop` this matters: the cursor may be the one
  that was claimed past a lost transaction.
- `reader_stop`: `Run` looks at the caller's context and then at the stream's, which is derived
  from it (`stream.go:30` and `34`, `57` and `61`). A caller that stops `Run` between the two
  looks is taken for the retention policy, and the slot is dropped with little WAL retained.
  `docs/cdc-lifecycle.md:211` says that on a graceful shutdown the slot remains, and
  `source_integration_test.go:69` fails when stopping drops it. `DropHasCause` shows that this
  window is the only one.

`NoGap` is `ProgressIsComplete` for the cursors that `shaky` and `tainted` do not mark: those of
`hub_drop`, of a replay across a shape change, and of the fallback to a snapshot's cursor
before anything is received (`hub.go:504`), when a commit before it was not visible to the
snapshot. That it holds shows there is no other way to lose a change.

## Proofs

For any clients, tables, scopes, transactions, ring and queue sizes, and any number of
commits and restarts (`MaxTx`, `MaxRestarts` are arbitrary naturals), assuming
`VisibilityLag # "any"`:

| Theorem (`HubProofs`) | States |
|---|---|
| `TypeCorrect` | `Spec => []TypeOK` |
| `NoGapAlways` | `Spec => []NoGap` |
| `ReplayWindowAlways` | `Spec => []ReplayWindow` |
| `NoLostWakeupAlways` | `Spec => []NoLostWakeup` |
| `InvAlways` | `Spec => []Inv` |
| `NoRedeliveryAlways` | `Spec => []NoRedelivery` |
| `CursorsAscendAlways` | `Spec => CursorsAscend` |

`NoGap` is far from inductive: it speaks of cursors clients hold, and a step that claims
one relies on what the queue, the kept ring transactions and the rows hold together. `Inv`
says so:

- `HeldInv`: every due transaction the hub has passed is held by a registered watch, in
  its rows, its backlog or its queue; and everything before an item to be sent, or before
  the position about to be claimed, is held or sent already, also after the watcher ended.
- `OrderInv`: the backlog is before the queue, and both ascend, so sending the next item
  leaves nothing behind it.
- `VisibilityInv`: a commit the stream has left behind is visible to snapshots unless the
  ring still holds it, which is why keeping the ring's transactions closes the gap between
  streaming and visibility.
- `SourceInv`, `ReplayWindow`: the ring is an unbroken run of transactions that ends at
  `received` and reaches back to the floor, so a resume's backlog is complete.
- `TickInv`: a registered watcher that holds the hub's current tick has seen all that was
  accepted, so waiting on it loses nothing.
- `PhaseInv`, `KeptInv`, `OneBootstrap`: what each phase implies; `NoGap` per client; and one
  bootstrap at a time.

The argument is one lemma per action and per part of `Inv`; most actions touch one client,
and `OthersKeep` carries the part of the others over. `hub_safety` checks `Inv` itself.

The last two theorems need more than `Inv`. `SentInv` says that once `Covers` has filtered the
transactions kept from the ring, they and the rows have nothing in common, and that whatever
has been sent since is behind `received` and out of the queue. `AscendInv` says that the last
cursor sent is not after anything still in the backlog or the queue, nor after anything
`Accept` may still queue, nor after the position the next progress claims if it claims one.
A position can be behind an earlier cursor (a snapshot's, claimed before the first `Accept`);
it is then not after `progressed`, so it is not sent.

`ReaderProofs`, for any shapes, transactions, bounds, attempts and budget:

| Theorem | States |
|---|---|
| `ReaderImplementsStream` | `Spec => ImplementsStream` |
| `DropAlwaysHasCause` | `Spec => DropHasCause` |
| `TypeOKAlways` | `Spec => []TypeOK` |
| `ShapeGuardAlways` | `Spec => []ShapeGuard` |

The refinement rests on `StreamInv`: every position that the slot, the walsender or `Run` may
resume from or acknowledge (`confirmed`, `status`, `safeLSN`, `sent`) is `Safe`, with all that
is published up to it taken; and the transaction on the wire is the next published one
after `sent`, known to the decoder (`inTx`). Each action is then a step of `Stream` or a
stutter. `DropInv` says how `Run` gets to the drop. That a stop which comes in time keeps the slot
for ever is `Leaving`, or `Run` having returned: both last (`LeavingSame`), so the theorem's
second part is an invariant from the moment of the stop on.

`ShapeGuard` needs the reason why the decoder may drop a row without a new event. `ShapeInv`
says that while the registry's generation is the watcher's, and unless the table had changed
between the reading of its shape and the recording (`Promised`), there is a version `v`, the one
its snapshot validated, such that (`Validated(v)`): no row the hub has received, and no row on the
wire unless an event waits, is of a later version with another shape; a relation already
found incompatible is older than `v` unless its event waits; and what commits after the
snapshot is of `v` or later and is kept whole, in the baseline's shape, or has an event. A
resent transaction may use up an event without ending the watch; its relation is then one the
hub has received rows of, so it is older than `v`, and no later row is of it.

`DaemonProofs`, for any set of calls and any number of faults:

| Theorem | States |
|---|---|
| `LifecycleTyped`, `OneStreamAlways`, `SlotHasOwnerAlways` | `Spec => []TypeOK`, `[]OneStream`, `[]SlotHasOwner` |
| `ExitAfterCleanupAlways`, `CleanExitWasAskedAlways`, `StopHasReasonAlways` | the same for `ExitAfterCleanup`, `CleanExitWasAsked`, `StopHasReason` |

They follow from `LifeInv`, which adds who may hold the mutex (`Holding`), that nothing runs
before `Start` (`NothingBefore`), that calls are drained and none accepted before the source is
stopped (`DrainedBefore`), and that a shutdown without a failure was asked for
(`AskedBefore`).

`ClientProofs`, for any keys, transactions, faults and `Sync` calls:

| Theorem | States |
|---|---|
| `NoSpinAlways` | `Spec => []NoSpin` |
| `NoHalfSnapshotAlways` | `Spec => NoHalfSnapshot` |
| `RecoverableAlways` | `Spec => []Recoverable` |
| `TypeOKAlways` | `Spec => []TypeOK` |

`SpinInv` is why a third retry cannot be immediate: an immediate retry forces a snapshot, with
which a refused cursor is final, and a second one has counted its resync. `SnapshotInv` says
that the open `SnapshotWriter` holds the source's rows at the snapshot's position except the
ones still to come; that later commits leave those rows as they were is `SourceKept`, which
rests on `LatestIn` (a set of transactions has a last one, from the well-founded order on the
naturals).

`Recoverable` compares a replay of the log with the source. The replay is a recursive function,
and its value is found by the least counterexample: `ReplayGood` shows that `Good(rs, c)` is
what a replay from `c` needs and keeps. `Good` says that a row which no transaction after `c`
touches is the source's already, and that a column none of them writes has the value the
source kept; everything else is overwritten, which is why rows newer than the cursor are
harmless. `StoreInv` then says that the stored rows are `Good` for the stored cursor, and for a
live stream's position, which no cursor reported as fresh has passed. It rests on `LogOK`: a
transaction inserts a row exactly if the source has none, and only an update leaves a column
unchanged.

`AlgorithmProofs`, for any arguments of the operators, and for any `XidBits`, `MaxXid`,
`MaxLSN` and `SampleBudget`:

| Theorem | States |
|---|---|
| `CoversExact` | `Covers` is exact for any snapshot and any transaction within half the ID space of it |
| `RoundTrip` | a cursor of any accepted source ID is read back by its server and refused by others |
| `MinCursorLeast` | `MinCursor` of any number of cursors is the earliest, or an error |
| `NextSettles` | what `RetentionSettles` says, for all accepted thresholds, budgets and samples |
| `ValidIsSafe` | every accepted reader configuration, with any values, is safe |
| `VisibilityExactAlways`, `CursorsAgreeAlways`, `RetentionSettlesAlways` | `Spec => []VisibilityExact`, `[]CursorsAgree`, `[]RetentionSettles` |
| `ConfigIsSafeAlways`, `TransientErrorsRetriedAlways` | the same for `ConfigIsSafe`, `TransientErrorsRetried` |

The first five are about the operators and speak of more arguments than `Algorithms` calls
them with; the others follow from them and from `CallInv`, which says what the arguments of
each call are. Only the retention policy's calls have a past: `CallInv` says that its state is
what the policy makes of the last sample and the state before, under the stricter of the
two budgets, and that it is terminal exactly if some sample so far has reached that budget.
`BackoffBounded` and `Jittered` are the arithmetic of `ValidIsSafe`: the doubling stays between
the first and the longest backoff at every attempt, and the jitter moves it by its share. `WidenExact` is the core of `CoversExact`: two ids of one remainder that are both
within half the ID space of `xmax` are one id. `MinCursor`'s loop is a recursive function;
`LoopDefined` and the invariant of the loop in `MinCursorLeast` are found by the least
counterexample. `RoundTrip` rests on a source ID having no separator: the first one in the text
is then the one `encodeCursor` wrote.

`PositionsAssumption` says that the ID space `Wrap` (2 to the `XidBits`) is a positive even
number, since the provers do not know powers, and that a returned error (`Invalid`) is no
cursor, no visibility and no comparison. `AlgorithmsAssumption` asks for a `SampleBudget` of
at least 2, so that the server's stricter budget is not 0, and says of an error that it is not
the rows of a store. TLC evaluates both.

`RowLemmas`, `RowProofs` and `AlgorithmProofs`, for any scopes, texts, page and message sizes
and limits, any finite set of ids, and any number of commits:

| Theorem | States |
|---|---|
| `StoreMirrorsTableAlways`, `RefusedExactlyAlways`, `PendingBoundedAlways` | `Spec => []StoreMirrorsTable`, `[]RefusedExactly`, `[]PendingBounded` |
| `SnapshotArrivesWholeAlways`, `DiffFindsChangeAlways` | `Spec => []SnapshotArrivesWhole`, `[]DiffFindsChange` |
| `InstalledIs` | a snapshot of any finite set of rows, paged, packed, converted and put, installs those rows and no others |
| `DiffIs` | `diff` of shapes with any number of columns is empty exactly if they are equal in every part |
| `Redelivered` | applying a batch again does not change where the rest of the log takes the client's rows |
| `RowInvStep` | every step of the row path keeps `RowInv` |

`StoreMirrorsTable` speaks of a client at its latest position. A client that is sent batches
again holds rows that are neither the table's then nor its rows now: an update that leaves a
TOAST column unchanged takes the column from a later row, or finds no row and writes one
without the column. `RowInv` says what is still true of it:

- `RowTypes`: every pending and logged change is one the decoder makes of a row of the table
  (`MadeChange`), within the limits; `PendingBounded` follows from this part alone.
- `RefusedExactly` itself, from what the decoder's lemmas say of each change: an error exactly if
  there is a cause, and otherwise which change.
- `HistoryMirrors`, `PendingMirrors`: applied to the client's rows for the table before a
  transaction, its batch gives the client's rows for the table after it; and the pending
  changes so far lead from the last committed table to the one being written.
- `Settles`: the batches from the client's position to its latest one, applied in order, take
  its rows to the rows of the table at the latest position. At that position nothing is left to
  apply, which is `StoreMirrorsTable`.

That a redelivery keeps `Settles` is the core (`Redelivered`, `Again`). A batch is `Tame`: to
each key it does nothing, or it rewrites what is there keeping the columns sent as unchanged,
or it leaves a row, or none, that does not depend on what was there. Tame maps compose
(`TameCompose`), and if the rest of the log takes some rows where it takes those after a batch,
it also takes them there when the batch is applied to them again. For a snapshot,
`PageRead` and `ScanTurn` say that the pages read so far are the first rows in key order and
that a page after the last key is the next of them; `PackIs` and `MessagesAre` that packing
loses, repeats and reorders nothing; `PutIs` that each message is put under its rows' keys.
The decoder's lemmas (`InsertDecoded`, `UpdateDecoded`, `RekeyDecoded`, `DeleteDecoded`) find
what becomes of every change under every replica identity, error or change.

The loops of the code are recursive functions of a counter in the model. `LoopEnds` shows that
such a function is defined and `Turns` that what a turn keeps holds at the end, both by the
least counterexample (`LeastNatural`), so no induction theorem is needed. Sums over columns
are `FoldFunction`; `SumExists` and `SumTyped` show that such a sum exists and is a natural
number, which is all the limits need. `Sorted` stands for `slices.Sort`; `Enumerated` shows
that a finite set of names has the sequence that it chooses.

`RowPathAssumption` asks for texts and limits that are natural numbers, for finitely many ids
(a table has finitely many rows), and that an error is no value: no row, change, key,
transaction or store. TLC evaluates it for the run's instance.

Only model-checked: the liveness properties, which are outside the prover's reach. Every
invariant and action property of the passing runs has a theorem. The properties of the failing
runs have none: they are false.

## What the properties except

Some properties hold only with a condition. Each condition is a behaviour of the code that
a maintainer may want to know:

- `ShapeGuard` speaks of a watcher whose validation was the last to move the baseline. When
  another snapshot records a new shape first, rows of the new shape are compatible, and reach
  the watchers of the old one without an event that ends them (`relation.go:141`;
  `docs/semantics.md:80` says that they never receive them). And when the transaction that carries an
  incompatibility is one the hub has already received, resent after a reconnect, `Accept`
  ignores it with its event (`hub.go:245`): later rows are dropped by the decoder and the
  watcher is not told (`docs/semantics.md:81` says every watcher is sent a Resync). Its
  second clause asks that the shape read is the one validated: the table can be altered
  between the two. Its first excepts `stale`: the table can also be altered between the reading
  of its shape from the catalog and the recording of it (`validation.go:88` and `92`); a resent
  transaction may then use up the event that the new shape causes, and the watcher loses rows.
- `EveryTransactionTaken` counts a `Run` that has returned as done. `Run` never sets `attempts` back
  (`stream.go:27`), so a stream that was healthy for days between two short disconnects returns
  at the same number of them as one that never got anywhere.
- `SlotHasOwner` has `orphan`: when the answer to the slot's creation is lost, nothing drops it
  (`bootstrap.go:119`): it retains WAL until a later `Snapshot` or `Start` finds it.
- `ServeReturns` may time out while `Run` is still dropping the slot: the drop has up to 30
  seconds, the shutdown 10.
- `StoreMirrorsTable` excepts a table with `REPLICA IDENTITY USING INDEX` whose index lacks the
  scope column: it passes validation, and each change is routed to the empty scope
  (`hub.go:266`), so its watchers get snapshots and no changes.
- `RefusedExactly` names `REPLICA IDENTITY FULL`: every column is then a key column, so an update
  that changes any is taken for a changed key and ends the stream, and so does a change of a
  row with a NULL, with an empty text, or with a long text that an update leaves alone; other
  updates that change nothing are accepted. `decoder_test.go:354` accepts an update that comes with
  its whole old row and changes a column: its relation flags the key columns alone, while
  PostgreSQL, and `projectionShape` (`relation.go:219`), have every column in a full identity's key. It also names the
  empty key text, which a snapshot sends and the stream refuses; and, under such an index, a
  watcher of the empty scope: it is routed the changes of every scope, with a key its store
  does not know, and its `Sync` fails (`store.go:116`).
- `Redeliver` goes back to the cursor of the last snapshot, which may precede the rows it read:
  when a client resumes from that cursor, `Snapshot.Covers` (`types.go:257`) no longer filters
  what the rows hold already. `StoreMirrorsTable` holds once the client has caught up; until
  then its rows may be older or newer than its cursor.
- `ConfigIsSafe` lets a retry wait for no time at all when the jitter is 100%, which
  `validateReaderConfig` accepts.
- `RetentionSettles` has "if the lowest threshold is above 5%": below that, the hysteresis never
  lets the state go back to ok. A `max_slot_wal_keep_size` of 0 would make the effective
  budget 0, which switches the policy off; the samples have budgets above 0.
- A changed primary key is retried until the attempts are used up, as any error that
  `isRetryable` does not name.

## Not modelled

- The ops endpoints (stateless handlers over the readiness `Daemon` has as `serving`),
  telemetry (nothing reads it back), the generated wire code, and the example client.
- Configuration file formats and environment variables; only their decoded values.
- Decoder: a table renamed in the middle of a stream (`decoder.go:246`), `TRUNCATE` and
  logical-decoding messages, which end the stream.
- Snapshot reads: `checkReplayWindow` only as one of the failures of a call; publications
  with column lists and generated columns, for which `SELECT *` and the stream differ.
- Hub: an unknown projection and a cursor that does not parse, which end the call before it
  touches any state.
- Client: `MemoryStore.Apply` failing in the middle of a batch, which ends `Sync` with some of
  the batch applied and the cursor before it.
- Time: only the order of timeouts, never their length, except the retry delay's bounds.
