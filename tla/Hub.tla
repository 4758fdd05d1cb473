---------------------------------- MODULE Hub ----------------------------------
(*******************************************************************************)
(* internal/watch/hub.go: the fan-out of one source's committed transactions   *)
(* to scope watchers, with a bounded replay ring, snapshots paired with the    *)
(* stream, progress and resync.                                                *)
(*                                                                             *)
(* Every step is one critical section of Hub.mu, one send, or one channel      *)
(* operation of a Watch call.  PostgreSQL, the replication stream and the      *)
(* clients' stores are external and appear only as the hub meets them.         *)
(*                                                                             *)
(* Transactions are numbered 1, 2, ... in commit order.  Transaction n's       *)
(* commit record starts at LSN 2n-1 and ends at 2n, which is its Cursor; the   *)
(* WAL after it may hold other records, so an insert position after n commits  *)
(* is 2n + k, k in WalSlack.                                                   *)
(*******************************************************************************)
EXTENDS Integers, Sequences, Functions

CONSTANTS
    Clients,        \* clients; each runs at most one Watch call at a time
    Tables, Scopes, \* projected tables and scope values
    TableOf,        \* the table of the projection each client names
    ScopeOf,        \* the scope each client names
    TxKinds,        \* what a source transaction may contain
    MaxReplay,      \* Config.MaxReplayTransactions
    WatcherQueue,   \* Config.WatcherQueue
    VisibilityLag,  \* how long a commit in the WAL may stay invisible to snapshots
    WalSlack,       \* whether the WAL holds records after the last commit: {0}, {1}, {0, 1}
    MaxTx,          \* bound: transactions the source commits
    MaxRestarts     \* bound: restarts of the watchd process

ASSUME ClientsAssumption ==
    /\ TableOf \in [Clients -> Tables]
    /\ ScopeOf \in [Clients -> Scopes]
ASSUME TxKindsAssumption ==
    TxKinds \subseteq [changes : SUBSET (Tables \X Scopes), incompatible : SUBSET Tables]
\* New replaces a zero bound by its default and refuses a negative one.
ASSUME BoundsAssumption ==
    /\ MaxReplay \in Nat \ {0}
    /\ WatcherQueue \in Nat \ {0}
    /\ MaxTx \in Nat
    /\ MaxRestarts \in Nat
\* "none": a commit is visible at once.  "bounded": it is visible before the hub
\* evicts it, before a new slot starts after it, and, if it changes a table's
\* shape, before it is streamed.  "any": no limit.
ASSUME LagAssumption ==
    /\ VisibilityLag \in {"none", "bounded", "any"}
    /\ WalSlack \subseteq {0, 1}

VARIABLES
    \* external: PostgreSQL and the replication stream
    log,         \* committed transactions, in commit order
    visible,     \* the ones a new MVCC snapshot sees
    source,      \* "none" (no slot yet), "bootstrap", "streaming"
    start,       \* first transaction the slot delivers to this hub
    stream,      \* next transaction the stream delivers
    restarts,    \* restarts so far
    \* Hub, guarded by mu; NoCursor is the unset cursor of hasX = false
    ring, received, floor, lastEvicted, stale, tickTaken, stopped,
    closing,     \* Accept has replaced the tick and released mu, but not closed it yet
    \* per client, the locals and the watcher of its Watch call
    pc,          \* where the call is
    queue, reason,
    todo,        \* the ring transactions still to send: streamedTransactions or backlog
    base, baseSafe,
    covered,     \* what the snapshot's rows hold
    pos,         \* live's position in an iteration
    progressed,
    tick,        \* the tick it took: the hub's "current" one, "replaced", or "closed"
    shaky,       \* ghost: pos is not backed by the queue
    \* per client, external: its store
    have,        \* the transactions its projection holds
    saved,       \* the cursor it may resume from
    resync,      \* the reason of the Resync that ended its last watch
    tainted      \* ghost: a cursor it holds was claimed shakily

srcVars == <<log, visible, source, start, stream, restarts>>
ringVars == <<ring, received, lastEvicted>>
hubVars == <<ringVars, floor, stale, tickTaken, closing, stopped>>
mailVars == <<queue, reason>>
snapVars == <<base, baseSafe, covered>>
liveVars == <<pos, progressed, tick, shaky>>
watchVars == <<pc, todo, mailVars, snapVars, liveVars>>
storeVars == <<have, saved, tainted>>
vars == <<srcVars, hubVars, watchVars, storeVars, resync>>

NoCursor == -1
Cursors == Nat \cup {NoCursor}
CommitLSN(n) == 2 * n - 1
End(n) == 2 * n
\* Mutant of After: a commit that starts at the cursor counts as before it.
AfterExclusive(n, cursor) == CommitLSN(n) > cursor
After(n, cursor) == CommitLSN(n) >= cursor
Later(a, b) == a > b
MaxCursor(a, b) == IF Later(a, b) THEN a ELSE b

\* pg_current_wal_insert_lsn, or a new slot's consistent point
InsertPositions == {2 * Len(log) + k : k \in WalSlack}

\* projection.changes(scope, transaction) is not empty
Relevant(c, n) == <<TableOf[c], ScopeOf[c]>> \in log[n].changes
\* the transaction lost changes to the client's table: they have no decodable shape
Broken(c, n) == TableOf[c] \in log[n].incompatible

Reasons == {"SlowWatcher", "SchemaChanged"}
Resyncs == Reasons \cup {"CursorUnavailable", "SnapshotWindowClosed", "SourceStopped"}
PCs == {"idle", "begin", "bootstrap", "reading", "read", "clear", "record", "install",
        "backlog", "drain", "select"}

Ticks == {"none", "current", "replaced", "closed"}

\* h.watchers: endLocked removes a watcher when it sets the reason.
Ended(c) == reason[c] # "none"
Registered(c) == pc[c] # "idle" /\ reason[c] = "none"

Init ==
    /\ log = <<>> /\ visible = {} /\ restarts = 0
    /\ source = "none" /\ start = 0 /\ stream = 0
    /\ ring = <<>> /\ received = NoCursor /\ floor = NoCursor /\ lastEvicted = NoCursor
    /\ stale = {} /\ tickTaken = FALSE /\ closing = FALSE /\ stopped = FALSE
    /\ pc = [c \in Clients |-> "idle"]
    /\ queue = [c \in Clients |-> <<>>] /\ reason = [c \in Clients |-> "none"]
    /\ todo = [c \in Clients |-> {}]
    /\ base = [c \in Clients |-> NoCursor] /\ baseSafe = [c \in Clients |-> FALSE]
    /\ covered = [c \in Clients |-> {}]
    /\ pos = [c \in Clients |-> NoCursor] /\ progressed = [c \in Clients |-> NoCursor]
    /\ tick = [c \in Clients |-> "none"] /\ shaky = [c \in Clients |-> FALSE]
    /\ have = [c \in Clients |-> {}] /\ saved = [c \in Clients |-> NoCursor]
    /\ tainted = [c \in Clients |-> FALSE] /\ resync = [c \in Clients |-> "none"]

--------------------------------------------------------------------------------
(* PostgreSQL and the replication stream (external)                            *)

\* A producer commits; the commit may be in the WAL before snapshots see it.
Commit ==
    /\ Len(log) < MaxTx
    /\ \E t \in TxKinds : log' = Append(log, t)
    /\ \/ visible' = visible \cup {Len(log) + 1}
       \/ VisibilityLag # "none" /\ visible' = visible
    /\ UNCHANGED <<source, start, stream, restarts, hubVars, watchVars, storeVars, resync>>

BecomeVisible ==
    /\ \E n \in (1..Len(log)) \ visible : visible' = visible \cup {n}
    /\ UNCHANGED <<log, source, start, stream, restarts, hubVars, watchVars, storeVars, resync>>

\* What VisibilityLag = "bounded" promises when tx n is accepted or skipped.
Settled(n) == VisibilityLag = "bounded" => n \in visible

\* The stream reconnects and PostgreSQL resends from an earlier position.
Reconnect ==
    /\ source = "streaming"
    /\ ~closing
    /\ \E n \in start..(stream - 1) : stream' = n
    /\ UNCHANGED <<log, visible, source, start, restarts, hubVars, watchVars, storeVars, resync>>

\* watchd restarts with an empty hub; the slot resumes where it was acknowledged.
Restart ==
    /\ restarts < MaxRestarts
    /\ restarts' = restarts + 1
    /\ source' = IF source = "none" THEN "none" ELSE "streaming"
    /\ \E n \in start..stream :
          /\ \A m \in 1..(n - 1) : Settled(m)
          /\ start' = n /\ stream' = n
    /\ ring' = <<>> /\ received' = NoCursor /\ floor' = NoCursor /\ lastEvicted' = NoCursor
    /\ stale' = {} /\ tickTaken' = FALSE /\ closing' = FALSE /\ stopped' = FALSE
    /\ pc' = [c \in Clients |-> "idle"]
    /\ queue' = [c \in Clients |-> <<>>] /\ reason' = [c \in Clients |-> "none"]
    /\ todo' = [c \in Clients |-> {}]
    /\ base' = [c \in Clients |-> NoCursor] /\ baseSafe' = [c \in Clients |-> FALSE]
    /\ covered' = [c \in Clients |-> {}]
    /\ pos' = [c \in Clients |-> NoCursor] /\ progressed' = [c \in Clients |-> NoCursor]
    /\ tick' = [c \in Clients |-> "none"] /\ shaky' = [c \in Clients |-> FALSE]
    /\ resync' = [c \in Clients |-> "none"]
    /\ UNCHANGED <<log, visible, storeVars>>

--------------------------------------------------------------------------------
(* Accept: the source's TransactionSink                                        *)

\* After a reconnect a transaction the hub has accepted may come again.
AcceptDuplicate ==
    /\ source = "streaming" /\ ~closing
    /\ stream <= Len(log)
    /\ End(stream) <= received
    /\ stream' = stream + 1
    /\ UNCHANGED <<log, visible, source, start, restarts, hubVars, watchVars, storeVars, resync>>

\* Mutant of Replaced: Accept leaves the taken tick open.
NeverReplaced(t) == t

\* The tick a watcher holds after Accept: a tick some watcher took is replaced.
Replaced(t) == IF tickTaken /\ t = "current" THEN "replaced" ELSE t

\* The registered watchers transaction n ends because their table changed shape, the
\* ones it is routed to, and of those the ones whose queue is full.
Invalidated(n) == {c \in Clients : Registered(c) /\ Broken(c, n)}
Routed(n) == {c \in Clients : Registered(c) /\ ~Broken(c, n) /\ Relevant(c, n)}
Dropped(n) == {c \in Routed(n) : Len(queue[c]) >= WatcherQueue}

\* append to the ring and evictLocked while it is longer than MaxReplay
Overfull == Len(ring) + 1 > MaxReplay
Oldest == Head(Append(ring, stream))

\* lastEvicted after evictLocked, then invalidateLocked
EvictedAfter(n) ==
    LET evicted == IF Overfull THEN End(Oldest) ELSE lastEvicted
    IN  IF log[n].incompatible # {} THEN MaxCursor(End(n), evicted) ELSE evicted

\* Mutant of FloorAfter: evictLocked forgets the floor.
FloorIgnoringEviction(n) ==
    IF log[n].incompatible # {} THEN MaxCursor(End(n), floor) ELSE floor

\* floor after evictLocked, then invalidateLocked
FloorAfter(n) ==
    LET evicted == IF Overfull THEN MaxCursor(End(Oldest), floor) ELSE floor
    IN  IF log[n].incompatible # {} THEN MaxCursor(End(n), evicted) ELSE evicted

Accept ==
    /\ source = "streaming" /\ ~closing
    /\ stream <= Len(log)
    /\ End(stream) > received
    /\ Overfull => Settled(Oldest)
    /\ log[stream].incompatible # {} => Settled(stream)
    /\ stream' = stream + 1
    /\ received' = End(stream)
    /\ closing' = tickTaken /\ tickTaken' = FALSE
    /\ ring' = IF Overfull THEN Tail(Append(ring, stream)) ELSE Append(ring, stream)
    /\ lastEvicted' = EvictedAfter(stream)
    /\ floor' = IF floor = NoCursor THEN NoCursor ELSE FloorAfter(stream)
    /\ stale' = stale \cup log[stream].incompatible
    /\ reason' = [c \in Clients |->
          IF c \in Invalidated(stream) THEN "SchemaChanged"
          ELSE IF c \in Dropped(stream) THEN "SlowWatcher" ELSE reason[c]]
    /\ queue' = [c \in Clients |->
          IF c \in Routed(stream) \ Dropped(stream) THEN Append(queue[c], stream) ELSE queue[c]]
    /\ tick' = [c \in Clients |-> Replaced(tick[c])]
    /\ UNCHANGED <<log, visible, source, start, restarts, stopped, pc, todo, snapVars, pos,
                   progressed, shaky, storeVars, resync>>

\* Accept's deferred close of the tick it replaced, after mu is released.
CloseTick ==
    /\ closing
    /\ closing' = FALSE
    /\ tick' = [c \in Clients |-> IF tick[c] = "replaced" THEN "closed" ELSE tick[c]]
    /\ UNCHANGED <<srcVars, ringVars, floor, stale, tickTaken, stopped, pc, todo, mailVars,
                   snapVars, pos, progressed, shaky, storeVars, resync>>

Stop ==
    /\ ~stopped
    /\ stopped' = TRUE
    /\ UNCHANGED <<srcVars, ringVars, floor, stale, tickTaken, closing, watchVars, storeVars,
                   resync>>

--------------------------------------------------------------------------------
(* Watch: how it starts and how it ends                                        *)

\* The Watch call returns, after Resync(why) or with an error (why = "none"), and
\* its deferred unregister runs.  A bootstrap that fails drops its slot.
Leave(c, why) ==
    /\ pc' = [pc EXCEPT ![c] = "idle"]
    /\ queue' = [queue EXCEPT ![c] = <<>>] /\ reason' = [reason EXCEPT ![c] = "none"]
    /\ todo' = [todo EXCEPT ![c] = {}]
    /\ base' = [base EXCEPT ![c] = NoCursor] /\ baseSafe' = [baseSafe EXCEPT ![c] = FALSE]
    /\ covered' = [covered EXCEPT ![c] = {}]
    /\ pos' = [pos EXCEPT ![c] = NoCursor] /\ progressed' = [progressed EXCEPT ![c] = NoCursor]
    /\ tick' = [tick EXCEPT ![c] = "none"] /\ shaky' = [shaky EXCEPT ![c] = FALSE]
    /\ resync' = [resync EXCEPT ![c] = why]
    /\ IF pc[c] = "bootstrap"
       THEN source' = "none" /\ start' = 0 /\ stream' = 0
       ELSE UNCHANGED <<source, start, stream>>
    /\ UNCHANGED <<log, visible, restarts, hubVars, storeVars>>

\* ctx ends or a send fails, wherever the call is.
Disconnect(c) ==
    /\ pc[c] # "idle"
    /\ Leave(c, "none")

Replayable(cursor) == floor # NoCursor /\ cursor >= floor

\* Why a request with the client's cursor (NoCursor: none) is refused at once.
Refusal(c, cursor) ==
    IF stopped THEN "SourceStopped"
    ELSE IF cursor = NoCursor THEN "none"
    ELSE IF TableOf[c] \in stale THEN "SchemaChanged"
    ELSE IF ~Replayable(cursor) THEN "CursorUnavailable"
    ELSE "none"

Refuse(c) ==
    /\ pc[c] = "idle"
    /\ \E cursor \in {NoCursor, saved[c]} :
          /\ Refusal(c, cursor) # "none"
          /\ resync' = [resync EXCEPT ![c] = Refusal(c, cursor)]
    /\ UNCHANGED <<srcVars, hubVars, watchVars, storeVars>>

\* resume: one critical section checks the cursor, copies the backlog, registers.
\* (ghost) tainted: the replay crosses a transaction that lost changes.
Resume(c) ==
    /\ pc[c] = "idle"
    /\ saved[c] # NoCursor
    /\ Refusal(c, saved[c]) = "none"
    /\ pc' = [pc EXCEPT ![c] = "backlog"]
    /\ todo' = [todo EXCEPT ![c] = {n \in Range(ring) : Relevant(c, n) /\ After(n, saved[c])}]
    /\ base' = [base EXCEPT ![c] = saved[c]] /\ baseSafe' = [baseSafe EXCEPT ![c] = TRUE]
    /\ resync' = [resync EXCEPT ![c] = "none"]
    /\ tainted' = [tainted EXCEPT ![c] = @ \/ \E n \in 1..Len(log) :
                      Broken(c, n) /\ End(n) <= received /\ After(n, saved[c])]
    /\ UNCHANGED <<srcVars, hubVars, mailVars, covered, liveVars, have, saved>>

\* snapshot: the scope's ring transactions are kept and the watcher registers.
StartSnapshot(c) ==
    /\ pc[c] = "idle"
    /\ Refusal(c, NoCursor) = "none"
    /\ pc' = [pc EXCEPT ![c] = "begin"]
    /\ todo' = [todo EXCEPT ![c] = {n \in Range(ring) : Relevant(c, n)}]
    /\ resync' = [resync EXCEPT ![c] = "none"]
    /\ UNCHANGED <<srcVars, hubVars, mailVars, snapVars, liveVars, storeVars>>

--------------------------------------------------------------------------------
(* Watch: the snapshot                                                         *)

\* Source.Snapshot of a source with no slot: Bootstrap creates the slot, whose
\* exported snapshot holds exactly the transactions committed before it.
BootstrapSnapshot(c) ==
    /\ pc[c] = "begin"
    /\ source = "none"
    /\ \A n \in 1..Len(log) : Settled(n)
    /\ source' = "bootstrap"
    /\ start' = Len(log) + 1 /\ stream' = Len(log) + 1
    /\ pc' = [pc EXCEPT ![c] = "bootstrap"]
    /\ \E cursor \in InsertPositions : base' = [base EXCEPT ![c] = cursor]
    /\ covered' = [covered EXCEPT ![c] = 1..Len(log)]
    /\ UNCHANGED <<log, visible, restarts, hubVars, todo, mailVars, baseSafe, liveVars,
                   storeVars, resync>>

\* Bootstrap has read the rows and hands its stream to the reader.
BootstrapDone(c) ==
    /\ pc[c] = "bootstrap"
    /\ source' = "streaming"
    /\ pc' = [pc EXCEPT ![c] = "read"]
    /\ UNCHANGED <<log, visible, start, stream, restarts, hubVars, todo, mailVars, snapVars,
                   liveVars, storeVars, resync>>

\* Reader.Snapshot reads the insert position before it fixes the MVCC snapshot.
ReadCursor(c) ==
    /\ pc[c] = "begin"
    /\ source = "streaming"
    /\ pc' = [pc EXCEPT ![c] = "reading"]
    /\ \E cursor \in InsertPositions : base' = [base EXCEPT ![c] = cursor]
    /\ UNCHANGED <<srcVars, hubVars, todo, mailVars, baseSafe, covered, liveVars, storeVars,
                   resync>>

FixSnapshot(c) ==
    /\ pc[c] = "reading"
    /\ pc' = [pc EXCEPT ![c] = "read"]
    /\ covered' = [covered EXCEPT ![c] = visible]
    /\ UNCHANGED <<srcVars, hubVars, todo, mailVars, base, baseSafe, liveVars, storeVars,
                   resync>>

\* The snapshotter fails: the window closed, the source stopped, another error.
SnapshotFails(c) ==
    /\ pc[c] \in {"begin", "bootstrap", "reading"}
    /\ \E why \in {"SnapshotWindowClosed", "SourceStopped", "none"} : Leave(c, why)

\* The non-blocking look at overflow after the rows were read.
CheckOverflow(c) ==
    /\ pc[c] = "read"
    /\ IF Ended(c)
       THEN Leave(c, reason[c])
       ELSE /\ pc' = [pc EXCEPT ![c] = "clear"]
            /\ UNCHANGED <<srcVars, hubVars, todo, mailVars, snapVars, liveVars, storeVars,
                           resync>>

\* delete(h.stale, table), then the streamed transactions are filtered by Covers.
ClearStale(c) ==
    /\ pc[c] = "clear"
    /\ stale' = stale \ {TableOf[c]}
    /\ pc' = [pc EXCEPT ![c] = "record"]
    /\ todo' = [todo EXCEPT ![c] = @ \ covered[c]]
    /\ UNCHANGED <<srcVars, ringVars, floor, tickTaken, closing, stopped, mailVars, snapVars,
                   liveVars, storeVars, resync>>

\* recordSnapshotLocked
RecordSnapshot(c) ==
    /\ pc[c] = "record"
    /\ floor' = IF floor = NoCursor THEN MaxCursor(lastEvicted, base[c]) ELSE floor
    /\ pc' = [pc EXCEPT ![c] = "install"]
    /\ UNCHANGED <<srcVars, ringVars, stale, tickTaken, closing, stopped, todo, mailVars,
                   snapVars, liveVars, storeVars, resync>>

\* send(SnapshotEnd): the rows replace the client's projection, which has no
\* cursor until a batch or a progress brings one.
Install(c) ==
    /\ pc[c] = "install"
    /\ pc' = [pc EXCEPT ![c] = "backlog"]
    /\ have' = [have EXCEPT ![c] = covered[c]]
    /\ saved' = [saved EXCEPT ![c] = NoCursor]
    /\ tainted' = [tainted EXCEPT ![c] = FALSE]
    /\ UNCHANGED <<srcVars, hubVars, todo, mailVars, snapVars, liveVars, resync>>

--------------------------------------------------------------------------------
(* Watch: batches, progress and the live loop                                  *)

\* send(Batch): the client applies it and may resume from its cursor.
Batch(c, n) ==
    /\ have' = [have EXCEPT ![c] = @ \cup {n}]
    /\ saved' = [saved EXCEPT ![c] = End(n)]
    /\ UNCHANGED tainted

\* The backlog is sent oldest first.
SendBacklog(c) ==
    /\ pc[c] = "backlog"
    /\ \E n \in todo[c] :
          /\ \A m \in todo[c] : n <= m
          /\ Batch(c, n)
          /\ todo' = [todo EXCEPT ![c] = @ \ {n}]
    /\ UNCHANGED <<srcVars, hubVars, pc, mailVars, snapVars, liveVars, resync>>

\* Mutant of Need: live does not ask Covers.
NeedUncovered(c, n) == baseSafe[c] => After(n, base[c])

\* live's need: not covered by the snapshot, or after the resume cursor.
Need(c, n) ==
    IF baseSafe[c] THEN After(n, base[c]) ELSE n \notin covered[c]

\* (ghost) the position about to be claimed is not backed by the queue: the hub has
\* ended the watcher, or it is the cursor of a snapshot that misses a commit
\* before it.
Shaky(c) ==
    \/ Ended(c)
    \/ /\ received = NoCursor /\ ~baseSafe[c]
       /\ \E n \in 1..Len(log) : End(n) <= base[c] /\ n \notin covered[c]

\* Mutant of LivePosition: a resume cursor ahead of the hub is ignored.
LivePositionReceived(c) == IF received = NoCursor THEN base[c] ELSE received

\* The position live starts an iteration from.
LivePosition(c) ==
    IF received = NoCursor \/ (baseSafe[c] /\ Later(base[c], received))
    THEN base[c] ELSE received

\* The head of live's loop, entered after the backlog or when the tick closed.
Position(c) ==
    /\ \/ pc[c] = "backlog" /\ todo[c] = {}
       \/ pc[c] = "select" /\ tick[c] = "closed"
    /\ tickTaken' = TRUE
    /\ pc' = [pc EXCEPT ![c] = "drain"]
    /\ tick' = [tick EXCEPT ![c] = "current"]
    /\ pos' = [pos EXCEPT ![c] = LivePosition(c)]
    /\ shaky' = [shaky EXCEPT ![c] = Shaky(c)]
    /\ UNCHANGED <<srcVars, ringVars, floor, stale, closing, stopped, todo, mailVars, snapVars,
                   progressed, storeVars, resync>>

\* live takes one queued transaction.
Drain(c) ==
    /\ pc[c] = "drain"
    /\ queue[c] # <<>>
    /\ LET n == Head(queue[c])
       IN  /\ queue' = [queue EXCEPT ![c] = Tail(@)]
           /\ pos' = [pos EXCEPT ![c] = MaxCursor(End(n), @)]
           /\ IF Need(c, n) THEN Batch(c, n) ELSE UNCHANGED storeVars
    /\ UNCHANGED <<srcVars, hubVars, pc, todo, reason, snapVars, progressed, tick, shaky,
                   resync>>

\* The queue is drained: send(Progress) if it is the first or the position moved.  The
\* iteration's position goes out of scope.
Report(c) ==
    /\ pc[c] = "drain"
    /\ queue[c] = <<>>
    /\ pc' = [pc EXCEPT ![c] = "select"]
    /\ pos' = [pos EXCEPT ![c] = NoCursor] /\ shaky' = [shaky EXCEPT ![c] = FALSE]
    /\ progressed' = [progressed EXCEPT ![c] = MaxCursor(pos[c], @)]
    /\ IF Later(pos[c], progressed[c])
       THEN /\ saved' = [saved EXCEPT ![c] = pos[c]]
            /\ tainted' = [tainted EXCEPT ![c] = @ \/ shaky[c]]
       ELSE UNCHANGED <<saved, tainted>>
    /\ UNCHANGED <<srcVars, hubVars, todo, mailVars, snapVars, tick, have, resync>>

\* Mutants of SelectOverflow: an end is noticed only after Stop, or with a reason of
\* its own.
SelectOverflowLate(c) ==
    /\ pc[c] = "select"
    /\ Ended(c) /\ stopped
    /\ Leave(c, reason[c])

SelectOverflowUnnamed(c) ==
    /\ pc[c] = "select"
    /\ Ended(c)
    /\ Leave(c, "Overflow")

\* live's select; ctx.Done is Disconnect and the tick is Position.
SelectOverflow(c) ==
    /\ pc[c] = "select"
    /\ Ended(c)
    /\ Leave(c, reason[c])

SelectStopped(c) ==
    /\ pc[c] = "select"
    /\ stopped
    /\ Leave(c, "SourceStopped")

--------------------------------------------------------------------------------
\* The steps of a Watch call once it has started, which its goroutine always takes.
WatchStep(c) ==
    \/ BootstrapSnapshot(c) \/ BootstrapDone(c) \/ ReadCursor(c) \/ FixSnapshot(c)
    \/ CheckOverflow(c) \/ ClearStale(c) \/ RecordSnapshot(c) \/ Install(c)
    \/ SendBacklog(c) \/ Position(c) \/ Drain(c) \/ Report(c)
    \/ SelectOverflow(c) \/ SelectStopped(c)

Next ==
    \/ Commit \/ BecomeVisible \/ Reconnect \/ Restart
    \/ AcceptDuplicate \/ Accept \/ CloseTick \/ Stop
    \/ \E c \in Clients :
          Disconnect(c) \/ Refuse(c) \/ Resume(c) \/ StartSnapshot(c) \/ SnapshotFails(c)
          \/ WatchStep(c)

Spec == Init /\ [][Next]_vars

(* Fairness: the goroutine of a Watch call runs on as long as its client reads     *)
(* and PostgreSQL answers, and Accept closes its tick.  Nothing makes a client     *)
(* watch, the source commit or the stream deliver.                                 *)
Fairness ==
    /\ WF_vars(CloseTick)
    /\ \A c \in Clients : WF_vars(WatchStep(c))

LiveSpec == Spec /\ Fairness

--------------------------------------------------------------------------------
(* Properties                                                                  *)

\* Types of the hub's fields, of a Watch call's locals and of a client's store.
TypeOK ==
    /\ log \in Seq(TxKinds) /\ visible \subseteq 1..Len(log)
    /\ source \in {"none", "bootstrap", "streaming"}
    /\ start \in Nat /\ stream \in Nat /\ restarts \in Nat
    /\ ring \in Seq(Nat)
    /\ received \in Cursors /\ floor \in Cursors /\ lastEvicted \in Cursors
    /\ stale \subseteq Tables
    /\ tickTaken \in BOOLEAN /\ closing \in BOOLEAN /\ stopped \in BOOLEAN
    /\ pc \in [Clients -> PCs] /\ queue \in [Clients -> Seq(Nat)]
    /\ reason \in [Clients -> Reasons \cup {"none"}]
    /\ todo \in [Clients -> SUBSET Nat] /\ covered \in [Clients -> SUBSET Nat]
    /\ base \in [Clients -> Cursors] /\ baseSafe \in [Clients -> BOOLEAN]
    /\ pos \in [Clients -> Cursors] /\ progressed \in [Clients -> Cursors]
    /\ tick \in [Clients -> Ticks] /\ shaky \in [Clients -> BOOLEAN]
    /\ have \in [Clients -> SUBSET Nat] /\ saved \in [Clients -> Cursors]
    /\ tainted \in [Clients -> BOOLEAN] /\ resync \in [Clients -> Resyncs \cup {"none"}]

\* The client's projection holds every change to its scope committed at or before
\* cursor, the changes a shape change dropped from the stream included.
Complete(c, cursor) ==
    \A n \in 1..Len(log) :
        (Relevant(c, n) \/ Broken(c, n)) /\ End(n) <= cursor => n \in have[c]

\* What event.go says of Progress and Batch: everything relevant through the cursor
\* a client holds has been delivered to it, so it may resume from it.
ProgressIsComplete ==
    \A c \in Clients :
        saved[c] # NoCursor => Complete(c, saved[c])

\* The no-gap promise where the code keeps it: whatever the interleaving of Accept,
\* snapshots, resumes, drops, shape changes, resends and restarts, a cursor a client
\* holds is complete unless it was claimed by a watcher the hub had already ended,
\* by a fallback to a snapshot cursor that misses a commit, or after a replay
\* across a shape change.
NoGap ==
    \A c \in Clients :
        ~tainted[c] /\ saved[c] # NoCursor => Complete(c, saved[c])

\* The replay window (floor): every accepted transaction a resume from a cursor at or
\* after the floor needs is still in the ring, which is in commit order.
ReplayWindow ==
    /\ floor # NoCursor =>
          \A n \in 1..Len(log) : floor < End(n) /\ End(n) <= received => n \in Range(ring)
    /\ \A i \in 1..(Len(ring) - 1) : ring[i + 1] = ring[i] + 1

\* invalidateLocked: "the replay floor moves to it, for every table": no resume can
\* be served across an accepted transaction that lost changes to its table.
FloorPastShapeChange ==
    floor # NoCursor =>
        \A n \in 1..Len(log) :
            log[n].incompatible # {} /\ start <= n /\ End(n) <= received => End(n) <= floor

\* live waits only for what will wake it: a registered watcher that waits in select
\* while the hub is past what it has reported, or has queued something for it, holds
\* a tick that Accept has replaced and has closed or is about to close.
NoLostWakeup ==
    \A c \in Clients :
        /\ pc[c] = "select"
        /\ Registered(c)
        /\ queue[c] # <<>> \/ received > progressed[c]
        => tick[c] \in {"replaced", "closed"} /\ (tick[c] = "replaced" => closing)

\* Covers: in a watch that began with a snapshot, no transaction that is in its rows
\* or has been sent is still due to be sent, by the backlog or by the queue, or the
\* projection would move backwards.
NoRedelivery ==
    \A c \in Clients :
        pc[c] \in {"backlog", "drain", "select"} /\ ~baseSafe[c] =>
            /\ todo[c] \cap have[c] = {}
            /\ \A n \in Range(queue[c]) : Need(c, n) => n \notin have[c]

\* "Live events are in source commit order": the cursors one watch sends never move
\* backwards, backlog, queue and progress together, unless progress was shaky.
CursorsAscend ==
    [][\A c \in Clients :
          /\ pc[c] \in {"backlog", "drain", "select"}
          /\ pc'[c] # "idle"
          /\ ~tainted'[c]
          => saved'[c] >= saved[c]]_vars

\* ClearStale's comment: only a snapshot whose watcher was not ended re-validates its
\* table, since one that was may have read the shape before the change.
StaleClearedByLiveWatcher ==
    [][\A t \in stale \ stale' :
          restarts' # restarts \/ \E c \in Clients :
              TableOf[c] = t /\ pc[c] = "clear" /\ ~Ended(c)
              /\ pc'[c] = "record"]_vars

\* A watcher the hub ended, or any watch after Stop, is over in the end (its client
\* gets Resync), whichever case select picks meanwhile.
EndedWatchEnds ==
    \A c \in Clients : (Ended(c) \/ (stopped /\ pc[c] # "idle")) ~> pc[c] = "idle"

\* Freshness: once the hub has accepted up to a cursor, every watch then under way
\* reports progress at least that far, or ends.
ProgressFollows ==
    \A c \in Clients, n \in 1..MaxTx :
        (pc[c] # "idle" /\ received >= End(n))
            ~> (pc[c] = "idle" \/ progressed[c] >= End(n))
================================================================================
