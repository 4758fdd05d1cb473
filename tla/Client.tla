--------------------------------- MODULE Client --------------------------------
(*******************************************************************************)
(* sdk/go/watchd: Client.Sync keeps a Store in sync with one scope, over the   *)
(* Watch streams that internal/server serves.                                  *)
(*                                                                             *)
(* A step is one event received and handled by syncer.stream, or the end of a  *)
(* stream with what Sync then decides.  A gRPC stream delivers in order, and   *)
(* a broken one loses a suffix, so an event is received as it is sent.         *)
(* The hub is external here: it sends what Hub's Watch calls send when their   *)
(* claims are sound.                                                           *)
(*                                                                             *)
(* Transactions are numbered in commit order, and each changes one row.  A     *)
(* cursor is the number of the last transaction before it; a column's value is *)
(* the number of the transaction that wrote it.  The length of a backoff is    *)
(* left out: it is time, and no decision reads it.                             *)
(*******************************************************************************)
EXTENDS Integers, Sequences

CONSTANTS
    Keys,       \* primary keys of the scope's rows
    MaxTx,      \* bound: transactions the source commits
    MaxFaults,  \* bound: broken streams, resyncs, failures, cancellations
    MaxSyncs    \* bound: Sync calls on the same store

ASSUME ClientAssumption == MaxTx \in Nat /\ MaxFaults \in Nat /\ MaxSyncs \in Nat \ {0}

VARIABLES
    \* external: the source and the hub
    log,        \* committed changes
    accepted,   \* how many the hub has accepted
    floor,      \* the oldest cursor the hub can replay from
    \* the open stream, server side
    phase,      \* "closed", "opened", "rows", "live"
    base,       \* the request's cursor, then where live starts from
    baseSafe,
    sent,       \* the last transaction sent, or covered by the snapshot
    pending,    \* keys of the snapshot still to be sent
    confirmed,  \* the last progress sent
    \* Sync and syncer
    pc,         \* "returned", "loop", "streaming", "waiting"
    cancelled,  \* ctx
    snapshot, resyncs, progressed,
    fresh, stateCursor,
    writer,     \* the SnapshotWriter's rows
    \* Store
    rows, cursor,
    \* ghosts and bounds
    faults, syncs,
    spins,      \* immediate retries since the last wait or progress
    revoked     \* a Resync has come and no snapshot since

sourceVars == <<log, accepted, floor>>
sessionVars == <<phase, base, baseSafe, sent, pending, confirmed>>
syncVars == <<pc, cancelled, snapshot, resyncs, progressed, fresh, stateCursor>>
storeVars == <<rows, cursor>>
ghostVars == <<faults, syncs, spins, revoked>>
vars == <<sourceVars, sessionVars, syncVars, writer, storeVars, ghostVars>>

NoCursor == -1      \* ""
Foreign == -2       \* a cursor of another source
NoRow == [small |-> -1, big |-> -1]
Missing == -1       \* a column the row does not have
NoRows == [k \in Keys |-> NoRow]
\* What a store used with another source holds.
ForeignRows == [k \in Keys |-> [small |-> 0, big |-> 0]]
NoWriter == <<>>

Operations == {"insert", "update", "delete"}
Changes == [op : Operations, key : Keys, unchanged : BOOLEAN]

\* Mutant of Kept: an unchanged column is dropped from the row.
KeptNothing(row) == Missing

\* MemoryStore.Apply keeps the current value of an Unchanged column, if there is one.
Kept(row) == IF row = NoRow THEN Missing ELSE row.big

\* The rows after change n.
Applied(rs, n) ==
    LET change == log[n]
    IN  [rs EXCEPT ![change.key] =
            IF change.op = "delete" THEN NoRow
            ELSE [small |-> n, big |-> IF change.unchanged THEN Kept(rs[change.key]) ELSE n]]

\* The rows after changes from..to; every reader of the source applies them in order.
Replay(rs, from, to) ==
    LET after[n \in (from - 1)..to] == IF n < from THEN rs ELSE Applied(after[n - 1], n)
    IN  after[to]

\* A row of the source: an unchanged column keeps what the row had.
Written(k, n) == {m \in 1..n : log[m].key = k /\ ~log[m].unchanged}
Latest(S) == CHOOSE m \in S : \A l \in S : l <= m
Source(n) ==
    [k \in Keys |->
        LET touched == {m \in 1..n : log[m].key = k}
        IN  IF touched = {} \/ log[Latest(touched)].op = "delete" THEN NoRow
            ELSE [small |-> Latest(touched), big |-> Latest(Written(k, n))]]

Init ==
    /\ log = <<>> /\ accepted = 0 /\ floor = 0
    /\ phase = "closed" /\ base = NoCursor /\ baseSafe = FALSE
    /\ sent = 0 /\ pending = {} /\ confirmed = NoCursor
    /\ pc = "loop" /\ cancelled = FALSE /\ snapshot = FALSE /\ resyncs = 0
    /\ progressed = FALSE /\ fresh = FALSE /\ stateCursor = NoCursor
    /\ writer = NoWriter
    /\ \/ rows = NoRows /\ cursor = NoCursor
       \/ rows = ForeignRows /\ cursor = Foreign
    /\ faults = 0 /\ syncs = 1 /\ spins = 0 /\ revoked = FALSE

--------------------------------------------------------------------------------
(* The source and the hub (external)                                           *)

\* A producer commits a change that the row's presence allows; only an update can
\* leave a column unchanged.
Commit ==
    /\ Len(log) < MaxTx
    /\ \E change \in Changes :
          /\ (change.op = "insert") <=> (Source(Len(log))[change.key] = NoRow)
          /\ change.unchanged => change.op = "update"
          /\ log' = Append(log, change)
    /\ UNCHANGED <<accepted, floor, sessionVars, syncVars, writer, storeVars, ghostVars>>

HubAccepts ==
    /\ accepted < Len(log)
    /\ accepted' = accepted + 1
    /\ UNCHANGED <<log, floor, sessionVars, syncVars, writer, storeVars, ghostVars>>

HubEvicts ==
    /\ floor < accepted
    /\ floor' = floor + 1
    /\ UNCHANGED <<log, accepted, sessionVars, syncVars, writer, storeVars, ghostVars>>

Fault == faults < MaxFaults /\ faults' = faults + 1

--------------------------------------------------------------------------------
(* Sync: what it does when a stream has ended with err                         *)

HubErrors == {"UnknownProjection", "SourceUnavailable", "Misconfigured", "Unexpected"}

\* Server.status, for the errors a Watch call returns.
Status(error) ==
    CASE error = "UnknownProjection" -> "NotFound"
      [] error = "SourceUnavailable" -> "Unavailable"
      [] error = "Misconfigured" -> "FailedPrecondition"
      [] error = "Unexpected" -> "Internal"

IsPermanent(err) ==
    err \in {"NotFound", "InvalidArgument", "FailedPrecondition", "PermissionDenied",
             "Unauthenticated", "Unimplemented"}

\* The counts are only compared with one and two: they stop at the bound three.
Counted(n) == IF n < 3 THEN n + 1 ELSE n

\* Mutant of ForcesSnapshot: Sync resumes from the stored cursor after a resync.
ForcesSnapshotForRefused(err) == err = "InvalidArgument"

\* The stored cursor cannot be continued from.
ForcesSnapshot(err) == err \in {"resync", "InvalidArgument"}

\* Mutant of RetryNow: every resync is retried at once.
RetryNowAlways(err) == err \in {"resync", "InvalidArgument"}

\* A first resync, or a refused cursor, is retried without a wait.
RetryNow(err) ==
    \/ err = "resync" /\ Counted(resyncs) = 1
    \/ err = "InvalidArgument"

\* Sync returns: the store failed, or a retry cannot help.
Terminal(err) ==
    \/ err = "store"
    \/ IsPermanent(err) /\ (err = "InvalidArgument" => snapshot)

\* stream's deferred Abort, then Sync's loop from the end of the stream to the next one.
Ends(err) ==
    /\ phase' = "closed" /\ base' = NoCursor /\ baseSafe' = FALSE
    /\ sent' = 0 /\ pending' = {} /\ confirmed' = NoCursor
    /\ writer' = NoWriter
    /\ fresh' = FALSE
    /\ revoked' = (revoked \/ err = "resync")
    /\ IF cancelled \/ Terminal(err)
       THEN pc' = "returned" /\ spins' = 0 /\ UNCHANGED <<snapshot, resyncs>>
       ELSE /\ snapshot' = ForcesSnapshot(err)
            /\ resyncs' = IF progressed THEN (IF err = "resync" THEN 1 ELSE 0)
                          ELSE IF err = "resync" THEN Counted(resyncs) ELSE resyncs
            /\ pc' = IF RetryNow(err) THEN "loop" ELSE "waiting"
            /\ spins' = IF ~RetryNow(err) THEN 0 ELSE IF progressed THEN 1 ELSE Counted(spins)
    /\ UNCHANGED <<sourceVars, cancelled, progressed, syncs>>

--------------------------------------------------------------------------------
(* Sync: starting, waiting, stopping                                           *)

\* stream reads the store's cursor, unless a snapshot is forced, and calls Watch.
OpenStream ==
    /\ pc = "loop"
    /\ pc' = "streaming" /\ progressed' = FALSE
    /\ phase' = "opened" /\ base' = IF snapshot THEN NoCursor ELSE cursor
    /\ UNCHANGED <<sourceVars, baseSafe, sent, pending, confirmed, cancelled, snapshot, resyncs,
                   fresh, stateCursor, writer, storeVars, ghostVars>>

\* The select between ctx and the timer; both may be ready.
Waited ==
    /\ pc = "waiting"
    /\ \/ cancelled /\ pc' = "returned"
       \/ pc' = "loop"
    /\ UNCHANGED <<sourceVars, sessionVars, cancelled, snapshot, resyncs, progressed, fresh,
                   stateCursor, writer, storeVars, ghostVars>>

Cancel ==
    /\ pc # "returned" /\ ~cancelled
    /\ Fault
    /\ cancelled' = TRUE
    /\ UNCHANGED <<sourceVars, sessionVars, pc, snapshot, resyncs, progressed, fresh,
                   stateCursor, writer, storeVars, syncs, spins, revoked>>

\* ctx has ended: Recv fails.
Interrupted ==
    /\ pc = "streaming" /\ cancelled
    /\ Ends("Canceled")
    /\ UNCHANGED <<stateCursor, storeVars, faults>>

\* The client's process dies; a persistent store keeps what its transactions wrote.
Crash ==
    /\ pc # "returned"
    /\ Fault
    /\ pc' = "returned" /\ fresh' = FALSE /\ writer' = NoWriter
    /\ phase' = "closed" /\ base' = NoCursor /\ baseSafe' = FALSE
    /\ sent' = 0 /\ pending' = {} /\ confirmed' = NoCursor
    /\ spins' = 0
    /\ UNCHANGED <<sourceVars, cancelled, snapshot, resyncs, progressed, stateCursor, storeVars,
                   syncs, revoked>>

\* Sync is called again, with the store as it is.
SyncAgain ==
    /\ pc = "returned" /\ syncs < MaxSyncs
    /\ pc' = "loop" /\ syncs' = syncs + 1
    /\ cancelled' = FALSE /\ snapshot' = FALSE /\ resyncs' = 0
    /\ progressed' = FALSE /\ stateCursor' = NoCursor
    /\ UNCHANGED <<sourceVars, sessionVars, fresh, writer, storeVars, faults, spins, revoked>>

--------------------------------------------------------------------------------
(* How a stream fails                                                          *)

\* The position the hub's live claims once the watcher's queue is drained.
LivePosition == IF accepted = 0 \/ (baseSafe /\ base > accepted) THEN base ELSE accepted

\* decodeCursor refuses a cursor of another source.
RefuseCursor ==
    /\ phase = "opened" /\ base = Foreign
    /\ Ends("InvalidArgument")
    /\ UNCHANGED <<stateCursor, storeVars, faults>>

\* The hub cannot replay from the cursor.
CursorUnavailable ==
    /\ phase = "opened" /\ base >= 0 /\ base < floor
    /\ Ends("resync")
    /\ UNCHANGED <<stateCursor, storeVars, faults>>

\* Any other Resync: a slow watcher, a shape change, a stopped source, a closed window.
Resync ==
    /\ phase \in {"opened", "rows", "live"} /\ base # Foreign
    /\ Fault
    /\ Ends("resync")
    /\ UNCHANGED <<stateCursor, storeVars>>

\* The Watch call returns an error.
WatchFails ==
    /\ phase # "closed" /\ base # Foreign
    /\ Fault
    /\ \E error \in HubErrors :
          /\ error = "UnknownProjection" => phase = "opened"
          /\ error \in {"SourceUnavailable", "Misconfigured"} => base = NoCursor \/ phase = "rows"
          /\ error = "Unexpected" => base = NoCursor \/ phase # "opened"
          /\ Ends(Status(error))
    /\ UNCHANGED <<stateCursor, storeVars>>

\* The connection breaks, or cannot be made.
Broken ==
    /\ pc = "streaming"
    /\ Fault
    /\ Ends("Unavailable")
    /\ UNCHANGED <<stateCursor, storeVars>>

\* A method of the store fails, without effect: Cursor, BeginSnapshot, Put or Commit,
\* Apply or SaveCursor.
StoreFails ==
    /\ \/ pc = "loop" /\ ~snapshot
       \/ phase = "opened" /\ base = NoCursor
       \/ phase = "rows"
       \/ phase = "live" /\ (sent < accepted \/ LivePosition > confirmed)
    /\ Fault
    /\ Ends("store")
    /\ stateCursor' = IF phase = "opened" /\ base = NoCursor THEN NoCursor ELSE stateCursor
    /\ UNCHANGED storeVars

--------------------------------------------------------------------------------
(* What a stream brings                                                        *)

\* The hub resumes from the request's cursor; nothing is sent yet.
Resumed ==
    /\ phase = "opened" /\ base >= 0 /\ base >= floor
    /\ phase' = "live" /\ baseSafe' = TRUE /\ sent' = base
    /\ UNCHANGED <<sourceVars, base, pending, confirmed, syncVars, writer, storeVars, ghostVars>>

\* SnapshotBegin; the rows will be those of the source now.
SnapshotBegin ==
    /\ phase = "opened" /\ base = NoCursor
    /\ phase' = "rows" /\ base' = Len(log) /\ sent' = Len(log)
    /\ pending' = {k \in Keys : Source(Len(log))[k] # NoRow}
    /\ fresh' = FALSE /\ stateCursor' = NoCursor
    /\ writer' = NoRows
    /\ UNCHANGED <<sourceVars, baseSafe, confirmed, pc, cancelled, snapshot, resyncs, progressed,
                   storeVars, ghostVars>>

\* Mutant of SnapshotRows: Put writes into the projection in place.
SnapshotRowsInPlace ==
    /\ phase = "rows"
    /\ \E k \in pending :
          /\ pending' = pending \ {k}
          /\ writer' = [writer EXCEPT ![k] = Source(base)[k]]
          /\ rows' = [rows EXCEPT ![k] = Source(base)[k]]
    /\ UNCHANGED <<sourceVars, phase, base, baseSafe, sent, confirmed, syncVars, cursor,
                   ghostVars>>

\* One message of rows: writer.Put.
SnapshotRows ==
    /\ phase = "rows"
    /\ \E k \in pending :
          /\ pending' = pending \ {k}
          /\ writer' = [writer EXCEPT ![k] = Source(base)[k]]
    /\ UNCHANGED <<sourceVars, phase, base, baseSafe, sent, confirmed, syncVars, storeVars,
                   ghostVars>>

\* Mutant of SnapshotEnd: the committed writer is not forgotten.
SnapshotEndKeepsWriter ==
    /\ phase = "rows" /\ pending = {}
    /\ phase' = "live"
    /\ rows' = writer /\ cursor' = NoCursor /\ revoked' = FALSE
    /\ UNCHANGED <<sourceVars, base, baseSafe, sent, pending, confirmed, syncVars, writer, faults,
                   syncs, spins>>

\* SnapshotEnd: writer.Commit replaces the rows and clears the cursor.
SnapshotEnd ==
    /\ phase = "rows" /\ pending = {}
    /\ phase' = "live"
    /\ rows' = writer /\ cursor' = NoCursor /\ writer' = NoWriter
    /\ revoked' = FALSE
    /\ UNCHANGED <<sourceVars, base, baseSafe, sent, pending, confirmed, syncVars, faults, syncs,
                   spins>>

\* Batch: Store.Apply changes the rows and the cursor together.
Batch ==
    /\ phase = "live" /\ sent < accepted
    /\ sent' = sent + 1
    /\ rows' = Applied(rows, sent + 1) /\ cursor' = sent + 1
    /\ UNCHANGED <<sourceVars, phase, base, baseSafe, pending, confirmed, syncVars, writer,
                   ghostVars>>

\* Progress: SaveCursor, and the projection is fresh.
Progress ==
    /\ phase = "live" /\ sent >= accepted
    /\ LivePosition > confirmed
    /\ confirmed' = LivePosition /\ cursor' = LivePosition
    /\ progressed' = TRUE
    /\ fresh' = TRUE /\ stateCursor' = LivePosition
    /\ UNCHANGED <<sourceVars, phase, base, baseSafe, sent, pending, pc, cancelled, snapshot,
                   resyncs, writer, rows, ghostVars>>

--------------------------------------------------------------------------------
\* What Sync, the network and the hub do by themselves when nothing fails.
SyncStep ==
    \/ OpenStream \/ Waited \/ Interrupted
    \/ RefuseCursor \/ CursorUnavailable \/ Resumed
    \/ SnapshotBegin \/ SnapshotRows \/ SnapshotEnd \/ Batch \/ Progress

Next ==
    \/ Commit \/ HubAccepts \/ HubEvicts
    \/ Cancel \/ Crash \/ SyncAgain
    \/ Resync \/ WatchFails \/ Broken \/ StoreFails
    \/ SyncStep

Spec == Init /\ [][Next]_vars

\* Sync's goroutine runs, its timer fires, and an unbroken stream delivers.
LiveSpec == Spec /\ WF_vars(SyncStep)

--------------------------------------------------------------------------------
(* Properties                                                                  *)

Row == [small : -1..MaxTx, big : -1..MaxTx]

\* Types of Sync's locals, of the stream and of the store; a SnapshotWriter is open exactly
\* between SnapshotBegin and SnapshotEnd, so stream's checks for an event outside or inside
\* a snapshot never fail.
TypeOK ==
    /\ log \in Seq(Changes) /\ accepted \in 0..Len(log) /\ floor \in 0..accepted
    /\ phase \in {"closed", "opened", "rows", "live"}
    /\ base \in -2..MaxTx /\ baseSafe \in BOOLEAN /\ sent \in 0..MaxTx
    /\ pending \subseteq Keys /\ confirmed \in -1..MaxTx
    /\ pc \in {"returned", "loop", "streaming", "waiting"}
    /\ cancelled \in BOOLEAN /\ snapshot \in BOOLEAN /\ resyncs \in 0..3
    /\ progressed \in BOOLEAN /\ fresh \in BOOLEAN /\ stateCursor \in -1..MaxTx
    /\ IF phase = "rows" THEN writer \in [Keys -> Row] ELSE writer = NoWriter
    /\ rows \in [Keys -> Row] /\ cursor \in -2..MaxTx
    /\ faults \in 0..MaxFaults /\ syncs \in 1..MaxSyncs /\ spins \in 0..3 /\ revoked \in BOOLEAN

\* Store and Sync together: whenever the process stops, breaks or goes on, applying
\* what the source committed after the stored cursor, or after the cursor reported as
\* fresh, turns the rows into the source's, unchanged columns and replays included.
Recoverable ==
    \A c \in {cursor} \cup (IF fresh THEN {stateCursor} ELSE {}) :
        c >= 0 => Replay(rows, c + 1, Len(log)) = Source(Len(log))

\* "readers never see a half-installed snapshot": the rows only ever change by one
\* transaction or to a whole state of the source.
NoHalfSnapshot ==
    [][rows' # rows =>
          \/ \E n \in 1..Len(log) : rows' = Applied(rows, n)
          \/ \E n \in 0..Len(log) : rows' = Source(n)]_vars

\* "A server that keeps asking without ever confirming progress is retried with
\* backoff": one refused cursor and one resync at most are retried at once in a row.
NoSpin == spins <= 2

\* semantics.md on Resync: the scope "is stale until a replacement snapshot is
\* installed and progress is observed".
ResyncRevokes == fresh => ~revoked

\* Sync gets there: with finitely many faults, a projection that is being synced
\* becomes fresh, whatever its stored cursor was, or Sync returns.
BecomesFresh == pc # "returned" ~> fresh \/ pc = "returned"
================================================================================
