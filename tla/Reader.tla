--------------------------------- MODULE Reader --------------------------------
(*******************************************************************************)
(* internal/cdc: one Run of a Reader.  It reads the slot's stream over one     *)
(* replication connection after another (stream.go), decodes it (decoder.go)   *)
(* while watchers re-validate the projected table (relation.go), hands each    *)
(* transaction to its sink, acknowledges it, and watches the WAL the slot      *)
(* retains (retention.go, retention_policy.go).                                *)
(*                                                                             *)
(* One projected table.  Transactions are numbered in commit order and a WAL   *)
(* position is given by the number of transactions that commit before it.  The *)
(* table's versions, one more with each ALTER TABLE, are numbered and each has *)
(* a shape; a transaction is the versions its row changes are of, in order.    *)
(* One watcher is followed; the others act on it only by validating the table. *)
(*******************************************************************************)
EXTENDS Integers, Sequences, RetentionPolicy

CONSTANTS
    Shapes,       \* the shapes the table can take
    FirstShape,
    NoShape,      \* no relation message, or no baseline, yet
    BadRows,      \* the errors a row change can raise in the decoder
    MaxTx, MaxAlters, MaxFaults,             \* bounds of an instance
    MaxMoves,     \* ... and on how often the baseline changes
    MaxAttempts,  \* RetryPolicy.MaxAttempts
    Budget, WarnFraction, DegradeFraction    \* the retention policy, in transactions

ASSUME ReaderAssumption ==
    /\ FirstShape \in Shapes /\ NoShape \notin Shapes
    /\ MaxTx \in Nat /\ MaxAlters \in Nat /\ MaxFaults \in Nat /\ MaxMoves \in Nat
    /\ MaxAttempts \in Nat /\ Budget \in Nat
    /\ WarnFraction \in Nat /\ DegradeFraction \in Nat

VARIABLES
    \* PostgreSQL
    log,        \* the committed transactions
    versions,   \* the shape of each version of the table; the last is the catalog's
    slot,       \* "present", "lost" or "dropped"
    confirmed,  \* the slot's confirmed_flush_lsn
    \* the walsender of the current connection
    sending,    \* the transaction it is in the middle of, or 0
    row,        \* how many of its row changes it has sent
    sent,       \* its sent position
    status,     \* the position of the last status update sent to it
    \* Run
    pc,         \* where Run is
    err,        \* what read returned
    attempts,
    handed,     \* a bootstrap stream waits to be taken
    cancelled,  \* the caller's context is done
    stopped,    \* the retention policy has cancelled the stream's context
    \* one call of read
    safeLSN,
    pending,    \* the decoder's transaction: the shapes of the rows it keeps
    inTx,       \* pending # nil
    relation,   \* the decoder's relationInfo
    events,     \* an incompatible relation waits for the next COMMIT
    \* the rest of the Reader
    baseline, gen,  \* its shapes registry
    retention,      \* the retention policy's state
    \* the sink
    taken,      \* the last transaction the hub received
    watch,      \* a watcher: its snapshot, and whether it has been sent what it needs
    faults      \* how many faults have happened

postgresVars == <<log, versions, slot, confirmed>>
walsenderVars == <<sending, row, sent, status>>
runVars == <<pc, err, attempts, handed, cancelled, stopped>>
decoderVars == <<pending, inTx, relation, events>>
shapeVars == <<baseline, gen>>
sinkVars == <<taken, watch>>
vars == <<postgresVars, walsenderVars, runVars, safeLSN, decoderVars, shapeVars, retention,
          sinkVars, faults>>

\* Run has not returned; what happens after that is not followed.
Running == pc \notin {"stopped", "failed"}

catalog == versions[Len(versions)]
Published == {n \in 1..Len(log) : log[n].published}
NoRelation == [version |-> 0, checked |-> 0, incompatible |-> FALSE]
NoWatch == [phase |-> "out", at |-> 0, shape |-> NoShape, gen |-> 0, stale |-> FALSE,
            fits |-> TRUE, whole |-> TRUE]

Init ==
    /\ log = <<>> /\ versions = <<FirstShape>> /\ slot = "present" /\ confirmed = 0
    /\ sending = 0 /\ row = 0 /\ sent = 0 /\ status = 0
    /\ pc = "connect" /\ err = "none" /\ attempts = 0 /\ handed \in BOOLEAN
    /\ cancelled = FALSE /\ stopped = FALSE
    /\ safeLSN = 0
    /\ pending = <<>> /\ inTx = FALSE /\ relation = NoRelation /\ events = FALSE
    /\ baseline = NoShape /\ gen = 0 /\ retention = retentionOK
    /\ taken = 0 /\ watch = NoWatch
    /\ faults = 0

--------------------------------------------------------------------------------
(* PostgreSQL *)

AlterTable ==
    /\ Len(versions) <= MaxAlters
    /\ \E shape \in Shapes \ {catalog} : versions' = Append(versions, shape)

Tx(published, rows, bad) == [published |-> published, rows |-> rows, bad |-> bad]

\* A transaction changes other tables only, or the projected table: with a row
\* the decoder may refuse, or with rows before and after an ALTER TABLE of its own.
Commit ==
    /\ Running /\ Len(log) < MaxTx
    /\ \/ /\ \/ log' = Append(log, Tx(FALSE, <<>>, "none"))
             \/ \E bad \in BadRows \cup {"none"} :
                    log' = Append(log, Tx(TRUE, <<Len(versions)>>, bad))
          /\ UNCHANGED versions
       \/ /\ AlterTable
          /\ log' = Append(log, Tx(TRUE, <<Len(versions), Len(versions) + 1>>, "none"))
    /\ UNCHANGED <<slot, confirmed, walsenderVars, runVars, safeLSN, decoderVars, shapeVars,
                   retention, sinkVars, faults>>

\* ... or an ALTER TABLE alone, which is not published.
Alter ==
    /\ Running
    /\ AlterTable
    /\ UNCHANGED <<log, slot, confirmed, walsenderVars, runVars, safeLSN, decoderVars, shapeVars,
                   retention, sinkVars, faults>>

\* The walsender reads the last status update.
Confirm ==
    /\ Running /\ slot = "present"
    /\ status > confirmed
    /\ confirmed' = status
    /\ UNCHANGED <<log, versions, slot, walsenderVars, runVars, safeLSN, decoderVars, shapeVars,
                   retention, sinkVars, faults>>

--------------------------------------------------------------------------------
(* stream.go: Run and read *)

isRetryable(e) ==
    e \notin {"InsufficientPrivileges", "SlotInvalidated", "PostgresServer", "SinkRejected",
              "TransactionTooLarge"}

\* Mutant of streamDone: read is given the caller's context.
CallerDone == cancelled

\* The stream's context, a child of the caller's, is done.
streamDone == cancelled \/ stopped

\* read returns e: the connection and its decoder are gone.
ReadEnds(e) ==
    /\ pc' = "ended" /\ err' = e
    /\ sending' = 0 /\ row' = 0 /\ sent' = 0 /\ safeLSN' = 0
    /\ pending' = <<>> /\ inTx' = FALSE /\ relation' = NoRelation /\ events' = FALSE

\* A stream from position lsn begins, with a new decoder.
StreamFrom(lsn) ==
    /\ pc' = "receive"
    /\ sent' = lsn /\ safeLSN' = lsn /\ status' = 0
    /\ UNCHANGED <<sending, row, decoderVars>>

takeBootstrapStream ==
    /\ pc = "connect" /\ handed
    /\ handed' = FALSE
    /\ StreamFrom(confirmed)
    /\ UNCHANGED <<postgresVars, err, attempts, cancelled, stopped, shapeVars, retention,
                   sinkVars, faults>>

\* connectReplication, requireSlot and startReplication.
startReplication ==
    /\ pc = "connect" /\ ~handed
    /\ slot = "present"
    /\ StreamFrom(confirmed)
    /\ UNCHANGED <<postgresVars, err, attempts, handed, cancelled, stopped, shapeVars, retention,
                   sinkVars, faults>>

requireSlot ==
    /\ pc = "connect" /\ ~handed
    /\ slot # "present"
    /\ ReadEnds("SlotInvalidated")
    /\ UNCHANGED <<postgresVars, status, attempts, handed, cancelled, stopped, shapeVars,
                   retention, sinkVars, faults>>

\* The source cannot be reached, still holds the slot for the last connection, or
\* refuses the role.
ConnectFails ==
    /\ pc = "connect" /\ ~handed
    /\ faults < MaxFaults
    /\ faults' = faults + 1
    /\ \E e \in {"SourceUnavailable", "InsufficientPrivileges"} : ReadEnds(e)
    /\ UNCHANGED <<postgresVars, status, attempts, handed, cancelled, stopped, shapeVars,
                   retention, sinkVars>>

\* The connection breaks, or PostgreSQL ends the stream with an error.
StreamBreaks ==
    /\ pc = "receive"
    /\ faults < MaxFaults
    /\ faults' = faults + 1
    /\ \E e \in {"SourceUnavailable", "PostgresServer"} : ReadEnds(e)
    /\ UNCHANGED <<postgresVars, status, attempts, handed, cancelled, stopped, shapeVars,
                   retention, sinkVars>>

\* PostgreSQL restarts with the slot position it last saved.
PostgresRestarts ==
    /\ pc = "receive"
    /\ faults < MaxFaults
    /\ faults' = faults + 1
    /\ \E p \in 0..(confirmed - 1) : confirmed' = p
    /\ ReadEnds("SourceUnavailable")
    /\ status' = 0
    /\ UNCHANGED <<log, versions, slot, attempts, handed, cancelled, stopped, shapeVars, retention,
                   sinkVars>>

\* PostgreSQL invalidates the slot, or somebody drops it ...
SlotIsLost ==
    /\ Running /\ slot = "present"
    /\ faults < MaxFaults
    /\ faults' = faults + 1
    /\ slot' = "lost"
    /\ UNCHANGED <<log, versions, confirmed, walsenderVars, runVars, safeLSN, decoderVars,
                   shapeVars, retention, sinkVars>>

\* ... and ends the walsender that used it.
Disconnected ==
    /\ pc = "receive" /\ slot # "present"
    /\ ReadEnds("SourceUnavailable")
    /\ UNCHANGED <<postgresVars, status, attempts, handed, cancelled, stopped, shapeVars,
                   retention, sinkVars, faults>>

\* receive or a connection attempt notices that its context is done.
Interrupted ==
    /\ pc \in {"connect", "receive"} /\ ~(pc = "connect" /\ handed)
    /\ streamDone
    /\ ReadEnds("Canceled")
    /\ UNCHANGED <<postgresVars, status, attempts, handed, cancelled, stopped, shapeVars,
                   retention, sinkVars, faults>>

\* Run has looked at the caller's context, and only then looks at the stream's,
\* which the caller's also ends.
CheckCaller ==
    /\ pc = "ended"
    /\ pc' = IF cancelled THEN "stopped" ELSE "checked"
    /\ UNCHANGED <<postgresVars, walsenderVars, err, attempts, handed, cancelled, stopped,
                   safeLSN, decoderVars, shapeVars, retention, sinkVars, faults>>

\* Mutant of CheckStream: the attempts are not counted against the limit.
CheckStreamRetriesForever ==
    /\ pc = "checked"
    /\ LET retry == isRetryable(err)
       IN  /\ pc' = IF streamDone THEN "drop" ELSE IF retry THEN "backoff" ELSE "failed"
           /\ attempts' = IF ~streamDone /\ retry THEN attempts + 1 ELSE attempts
           /\ err' = IF ~streamDone /\ retry THEN "none" ELSE err
    /\ UNCHANGED <<postgresVars, walsenderVars, handed, cancelled, stopped, safeLSN,
                   decoderVars, shapeVars, retention, sinkVars, faults>>

\* Mutant of CheckStream: giving up drops the slot as well.
CheckStreamDropsOnFailure ==
    /\ pc = "checked"
    /\ LET retry == isRetryable(err) /\ attempts < MaxAttempts
       IN  /\ pc' = IF retry /\ ~streamDone THEN "backoff" ELSE "drop"
           /\ attempts' = IF ~streamDone /\ retry THEN attempts + 1 ELSE attempts
           /\ err' = IF ~streamDone /\ retry THEN "none" ELSE err
    /\ UNCHANGED <<postgresVars, walsenderVars, handed, cancelled, stopped, safeLSN,
                   decoderVars, shapeVars, retention, sinkVars, faults>>

CheckStream ==
    /\ pc = "checked"
    /\ LET retry == isRetryable(err) /\ attempts < MaxAttempts
       IN  /\ pc' = IF streamDone THEN "drop" ELSE IF retry THEN "backoff" ELSE "failed"
           /\ attempts' = IF ~streamDone /\ retry THEN attempts + 1 ELSE attempts
           /\ err' = IF ~streamDone /\ retry THEN "none" ELSE err
    /\ UNCHANGED <<postgresVars, walsenderVars, handed, cancelled, stopped, safeLSN,
                   decoderVars, shapeVars, retention, sinkVars, faults>>

\* Mutant of Backoff: the wait ends only with its context.
BackoffWithoutTimer ==
    /\ pc = "backoff"
    /\ \/ cancelled /\ pc' = "stopped"
       \/ stopped /\ ~cancelled /\ pc' = "drop"
    /\ UNCHANGED <<postgresVars, walsenderVars, err, attempts, handed, cancelled, stopped,
                   safeLSN, decoderVars, shapeVars, retention, sinkVars, faults>>

\* The retry delay passes, or the wait is cut short.
Backoff ==
    /\ pc = "backoff"
    /\ \/ pc' = "connect"
       \/ cancelled /\ pc' = "stopped"
       \/ stopped /\ ~cancelled /\ pc' = "drop"
    /\ UNCHANGED <<postgresVars, walsenderVars, err, attempts, handed, cancelled, stopped,
                   safeLSN, decoderVars, shapeVars, retention, sinkVars, faults>>

\* The slot is dropped, or is already gone, or the attempts end with an error.
dropSlotForBudget == slot' \in {slot, "dropped"}

budgetExceeded ==
    /\ pc = "drop"
    /\ pc' = "failed"
    /\ dropSlotForBudget
    /\ UNCHANGED <<log, versions, confirmed, walsenderVars, err, attempts, handed, cancelled,
                   stopped, safeLSN, decoderVars, shapeVars, retention, sinkVars, faults>>

Cancel ==
    /\ Running /\ ~cancelled
    /\ cancelled' = TRUE
    /\ UNCHANGED <<postgresVars, walsenderVars, pc, err, attempts, handed, stopped, safeLSN,
                   decoderVars, shapeVars, retention, sinkVars, faults>>

--------------------------------------------------------------------------------
(* relation.go, decoder.go and the messages consumeCopyData handles *)

\* check: the relation as the stream presents it, compared with its baseline.
Checked(version) ==
    [version |-> version, checked |-> gen,
     incompatible |-> baseline \notin {NoShape, versions[version]}]

\* The state of a transaction's row changes on the wire.
rowsLeft == sending # 0 /\ row < Len(log[sending].rows)

\* The next published transaction begins.
BeginMessage ==
    /\ pc = "receive" /\ sending = 0
    /\ \E n \in Published :
          /\ n > sent
          /\ \A m \in Published : m > sent => n <= m
          /\ sending' = n
    /\ row' = 0 /\ inTx' = TRUE /\ pending' = <<>>
    /\ UNCHANGED <<postgresVars, sent, status, runVars, safeLSN, relation, events, shapeVars,
                   retention, sinkVars, faults>>

\* pgoutput describes the table before its first row of the connection and before
\* the first row of a new version.
RelationMessage ==
    /\ pc = "receive" /\ rowsLeft
    /\ LET version == log[sending].rows[row + 1]
       IN  /\ relation.version # version
           /\ relation' = Checked(version)
    /\ events' = (events \/ relation'.incompatible)
    /\ UNCHANGED <<postgresVars, walsenderVars, runVars, safeLSN, pending, inTx, shapeVars,
                   retention, sinkVars, faults>>

\* Mutant of skip: a baseline that has moved is not taken into account.
SkipOfFirstCheck == relation

\* skip: the relation, checked again if a baseline has moved since.
skip == IF relation.checked # gen THEN Checked(relation.version) ELSE relation

\* An insert, update or delete: dropped, refused, or appended to pending.
RowMessage ==
    /\ pc = "receive" /\ rowsLeft
    /\ relation.version = log[sending].rows[row + 1]
    /\ \/ /\ skip.incompatible \/ log[sending].bad = "none"
          /\ relation' = skip
          /\ events' = (events \/ (skip # relation /\ skip.incompatible))
          /\ pending' = IF skip.incompatible THEN pending ELSE Append(pending, versions[relation.version])
          /\ row' = row + 1
          /\ UNCHANGED <<sending, sent, pc, err, safeLSN, inTx>>
       \/ /\ ~skip.incompatible /\ log[sending].bad # "none"
          /\ ReadEnds(log[sending].bad)
    /\ UNCHANGED <<postgresVars, status, attempts, handed, cancelled, stopped, shapeVars,
                   retention, sinkVars, faults>>

\* What the hub does with transaction n for the watcher: an incompatible table ends
\* the watch; otherwise a watcher past its snapshot gets the rows it kept.
Delivered(n) ==
    IF watch.phase = "out" \/ events THEN NoWatch
    ELSE IF watch.phase = "live" /\ n > watch.at
    THEN [watch EXCEPT !.fits = @ /\ \A i \in 1..Len(pending) : pending[i] = watch.shape,
                       !.whole = @ /\ Len(pending) = Len(log[n].rows)]
    ELSE watch

\* The sink, Hub.Accept: it ignores a transaction it has received.
Accept(n) ==
    \/ /\ n <= taken
       /\ UNCHANGED sinkVars
    \/ /\ n > taken
       /\ taken' = n
       /\ watch' = Delivered(n)

\* COMMIT: the sink takes the transaction, and its end is acknowledged.
CommitMessage ==
    /\ pc = "receive" /\ sending # 0 /\ ~rowsLeft
    /\ Accept(sending)
    /\ safeLSN' = sending /\ status' = sending /\ sent' = sending
    /\ sending' = 0 /\ row' = 0
    /\ pending' = <<>> /\ inTx' = FALSE /\ events' = FALSE
    /\ UNCHANGED <<postgresVars, runVars, relation, shapeVars, retention, faults>>

SinkRejects ==
    /\ pc = "receive" /\ sending # 0 /\ ~rowsLeft
    /\ faults < MaxFaults
    /\ faults' = faults + 1
    /\ ReadEnds("SinkRejected")
    /\ UNCHANGED <<postgresVars, status, attempts, handed, cancelled, stopped, shapeVars,
                   retention, sinkVars>>

\* Mutant of SafeAfterKeepalive: the position is taken inside a transaction too.
SafeAfterAnyKeepalive(p) == IF p > safeLSN THEN p ELSE safeLSN

\* Mutant of SafeAfterKeepalive: only a commit moves the position.
SafeOnlyAfterCommit(p) == safeLSN

SafeAfterKeepalive(p) == IF ~inTx /\ p > safeLSN THEN p ELSE safeLSN

\* A keepalive carries the walsender's sent position: between transactions the
\* unpublished ones are behind it, inside one it may reach that transaction's end.
KeepaliveMessage ==
    /\ pc = "receive"
    /\ \E p \in sent..Len(log), replyRequested \in BOOLEAN :
          /\ \A n \in Published : sent < n /\ n <= p => n = sending
          /\ sending # 0 => p <= sending
          /\ sent' = IF sending = 0 THEN p ELSE sent
          /\ safeLSN' = SafeAfterKeepalive(p)
          /\ status' = IF replyRequested THEN safeLSN' ELSE status
    /\ UNCHANGED <<postgresVars, sending, row, runVars, decoderVars, shapeVars, retention,
                   sinkVars, faults>>

\* receive: the status interval passes without a message.
StatusInterval ==
    /\ pc = "receive"
    /\ status' = safeLSN
    /\ UNCHANGED <<postgresVars, sending, row, sent, runVars, safeLSN, decoderVars, shapeVars,
                   retention, sinkVars, faults>>

--------------------------------------------------------------------------------
(* The retention monitor *)

\* The state moves; reaching the terminal one stops the stream.
applyRetentionPolicy(retained) ==
    /\ retention' = nextRetentionState(retention, retained, Budget, WarnFraction, DegradeFraction)
    /\ stopped' = (retention' = retentionTerminal /\ retention # retentionTerminal)

\* One sample of the WAL the slot retains; one that fails is skipped.
RetentionSample ==
    /\ Running /\ ~streamDone
    /\ slot = "present"
    /\ applyRetentionPolicy(Len(log) - confirmed)
    /\ UNCHANGED <<postgresVars, walsenderVars, pc, err, attempts, handed, cancelled, safeLSN,
                   decoderVars, shapeVars, sinkVars, faults>>

--------------------------------------------------------------------------------
(* Watchers *)

\* record makes shape the baseline.
record(shape) ==
    /\ baseline' = shape
    /\ gen' = IF baseline = shape THEN gen ELSE gen + 1
    /\ gen' <= MaxMoves

\* A snapshot of the watcher validates the table (validateProjectionSpec): it reads
\* the table's shape from the catalog ...
projectionShape ==
    /\ Running /\ watch.phase = "out"
    /\ watch' = [watch EXCEPT !.phase = "validating", !.shape = catalog]
    /\ UNCHANGED <<postgresVars, walsenderVars, runVars, safeLSN, decoderVars, shapeVars,
                   retention, taken, faults>>

\* ... and records it, which by then may not be the table's shape any more ...
Validate ==
    /\ Running /\ watch.phase = "validating"
    /\ record(watch.shape)
    /\ watch' = [watch EXCEPT !.phase = "validated", !.gen = gen', !.stale = watch.shape # catalog]
    /\ UNCHANGED <<postgresVars, walsenderVars, runVars, safeLSN, decoderVars, retention, taken,
                   faults>>

\* ... and reads its rows, in the shape they have by then.
ReadRows ==
    /\ Running /\ watch.phase = "validated"
    /\ watch' = [watch EXCEPT !.phase = "live", !.at = Len(log), !.shape = catalog]
    /\ UNCHANGED <<postgresVars, walsenderVars, runVars, safeLSN, decoderVars, shapeVars,
                   retention, taken, faults>>

\* Another watcher's snapshot validates the table: it records a shape it has read,
\* the one of now or of any time before.
OtherValidates ==
    /\ Running
    /\ \E v \in 1..Len(versions) : record(versions[v])
    /\ UNCHANGED <<postgresVars, walsenderVars, runVars, safeLSN, decoderVars, retention,
                   sinkVars, faults>>

Leave ==
    /\ Running /\ watch.phase # "out"
    /\ watch' = NoWatch
    /\ UNCHANGED <<postgresVars, walsenderVars, runVars, safeLSN, decoderVars, shapeVars,
                   retention, taken, faults>>

--------------------------------------------------------------------------------
Connecting == takeBootstrapStream \/ startReplication \/ requireSlot
Receiving == BeginMessage \/ RelationMessage \/ RowMessage \/ CommitMessage
Controlling == Disconnected \/ Interrupted \/ CheckCaller \/ CheckStream \/ Backoff \/ budgetExceeded
Faulting == ConnectFails \/ StreamBreaks \/ PostgresRestarts \/ SlotIsLost \/ SinkRejects

Next ==
    \/ Commit \/ Alter \/ Confirm \/ Faulting \/ Cancel
    \/ Connecting \/ Receiving \/ Controlling
    \/ KeepaliveMessage \/ StatusInterval \/ RetentionSample
    \/ projectionShape \/ Validate \/ ReadRows \/ OtherValidates \/ Leave

Spec == Init /\ [][Next]_vars

\* Run, its walsender and the timers of both go on; nothing makes a transaction
\* commit, a watcher come or a fault happen.
Fairness ==
    /\ WF_vars(Connecting \/ Controlling)
    /\ WF_vars(Receiving)
    /\ WF_vars(KeepaliveMessage)
    /\ WF_vars(StatusInterval)
    /\ WF_vars(Confirm)

LiveSpec == Spec /\ Fairness

--------------------------------------------------------------------------------
(* Properties *)

\* What read can return, and "none" while it has not.
Errors ==
    {"none", "SourceUnavailable", "InsufficientPrivileges", "SlotInvalidated", "PostgresServer",
     "SinkRejected", "Canceled"} \cup BadRows

\* Every variable has its type.
TypeOK ==
    /\ versions \in Seq(Shapes)
    /\ log \in Seq([published : BOOLEAN, rows : Seq(DOMAIN versions), bad : BadRows \cup {"none"}])
    /\ slot \in {"present", "lost", "dropped"} /\ confirmed \in Nat
    /\ sending \in 0..Len(log) /\ row \in Nat /\ sent \in Nat /\ status \in Nat
    /\ pc \in {"connect", "receive", "ended", "checked", "backoff", "drop", "stopped", "failed"}
    /\ err \in Errors /\ attempts \in 0..MaxAttempts
    /\ handed \in BOOLEAN /\ cancelled \in BOOLEAN /\ stopped \in BOOLEAN
    /\ safeLSN \in Nat /\ pending \in Seq(Shapes) /\ inTx \in BOOLEAN /\ events \in BOOLEAN
    /\ relation \in [version : 0..Len(versions), checked : Nat, incompatible : BOOLEAN]
    /\ baseline \in Shapes \cup {NoShape} /\ gen \in Nat
    /\ retention \in RetentionStates
    /\ taken \in Nat
    /\ watch \in [phase : {"out", "validating", "validated", "live"}, at : Nat, gen : Nat,
                  shape : Shapes \cup {NoShape}, stale : BOOLEAN, fits : BOOLEAN, whole : BOOLEAN]
    /\ faults \in Nat

\* The stream implements its contract: over connections that break, a PostgreSQL
\* that forgets, acknowledgements that are lost and transactions that are resent,
\* the sink takes every published transaction in order with none left out, and the
\* slot is never moved past one it has not taken (consumeCopyData's safeLSN).
Contract == INSTANCE Stream WITH
    committed <- Len(log), published <- Published, released <- confirmed
ImplementsStream == Contract!Spec

\* While no other snapshot has recorded a new shape of the table, a live watcher has
\* been sent every row change committed after its snapshot, all in the snapshot's
\* shape, if that is the shape it validated; if the table has changed in between, the
\* decoder still drops no row without an event that ends the watch, unless it had
\* changed before the watcher recorded what it had read.
ShapeGuard ==
    watch.phase = "live" /\ watch.gen = gen =>
        /\ watch.stale \/ watch.whole
        /\ watch.shape = baseline => watch.whole /\ watch.fits

\* The caller has asked Run to stop, not after Run last looked at the caller's context
\* (stream.go:30) and before it looks at the stream's (stream.go:34).
Leaving == cancelled /\ ~stopped /\ pc \notin {"checked", "drop", "failed"}

\* A slot is dropped at the retention budget, or because the caller's stop comes
\* between the two looks that Run takes at its contexts, which takes it for the budget:
\* no connection error costs the slot, and no stop that comes at any other time.
DropHasCause ==
    /\ [](slot = "dropped" => retention = retentionTerminal \/ cancelled)
    /\ [](Leaving => [](slot # "dropped"))

\* A graceful shutdown leaves the slot to a future runtime: it is dropped at the
\* retention budget alone.
ShutdownKeepsSlot == slot = "dropped" => retention = retentionTerminal

\* Over faults and retries the sink catches up with every published transaction, or
\* Run returns.
EveryTransactionTaken == []<>(\A n \in Published : taken >= n \/ ~Running)

\* PostgreSQL may in the end discard the WAL of every transaction, also of one that
\* changes no published table while the published ones are idle (the keepalive's
\* position), or Run returns.
WALIsReleased == []<>(confirmed = Len(log) \/ ~Running)

\* Once the retention budget is reached, Run returns: no retry, delay or traffic on
\* the stream keeps it going.
BudgetStopsRun == []<>(stopped => ~Running)
================================================================================
