--------------------------------- MODULE Source --------------------------------
(*******************************************************************************)
(* internal/cdc/source.go and bootstrap.go: the life of a source.  Its Run     *)
(* starts with a slot found at Start, or with the one the first Snapshot call  *)
(* creates while it holds the source's mutex and sends rows to its client.     *)
(* One action is one step between two waits: for the mutex, for PostgreSQL or  *)
(* for the client.  Run itself is module Reader.                               *)
(*******************************************************************************)
EXTENDS Integers

CONSTANTS
    Calls,      \* the Watch calls, each at most one Snapshot call at a time
    NoCall,
    MaxFaults   \* bound: how often PostgreSQL fails or somebody interferes

ASSUME SourceAssumption == NoCall \notin Calls /\ MaxFaults \in Nat

VARIABLES
    slot,       \* "none", "ours" (Bootstrap created it) or "found"
    orphan,     \* why a slot of ours was left behind, or "none"
    mu,         \* the call that holds the mutex across steps, or NoCall
    started, streaming, stopped,
    srcErr,     \* what Err returns: "none" or "failed"
    runCtx,     \* the source's context is done
    lifeline,   \* the goroutine that waits for it has not finished
    run,        \* the Run goroutine: "none", "running", "returned", "reported"
    runErr,
    handedOver, \* Reader.bootstrapStream is set
    call,       \* where each call is
    conn,       \* whether it has a replication connection open
    ctxDone,    \* whether its context is done
    faults

runnerVars == <<run, runErr, handedOver>>
lifeVars == <<started, stopped, srcErr, runCtx, lifeline>>
callVars == <<call, conn, ctxDone>>
sourceVars == <<slot, orphan, mu, streaming, lifeVars, runnerVars, callVars, faults>>

SourceInit ==
    /\ slot \in {"none", "found"} /\ orphan = "none"
    /\ mu = NoCall
    /\ started = FALSE /\ streaming = FALSE /\ stopped = FALSE
    /\ srcErr = "none" /\ runCtx = FALSE /\ lifeline = FALSE
    /\ run = "none" /\ runErr = "none" /\ handedOver = FALSE
    /\ call = [c \in Calls |-> "idle"]
    /\ conn = [c \in Calls |-> FALSE]
    /\ ctxDone = [c \in Calls |-> FALSE]
    /\ faults = 0

Fault ==
    /\ faults < MaxFaults
    /\ faults' = faults + 1

\* What c waits for fails, or its context is done first.
CallFails(c) ==
    \/ ctxDone[c] /\ UNCHANGED faults
    \/ ~ctxDone[c] /\ Fault

Goto(c, step) == call' = [call EXCEPT ![c] = step]

\* The Snapshot call of c returns; its deferred calls close the connection and
\* release the mutex if it holds it.
Returns(c, step) ==
    /\ Goto(c, step)
    /\ conn' = [conn EXCEPT ![c] = FALSE]
    /\ mu' = IF mu = c THEN NoCall ELSE mu
    /\ UNCHANGED ctxDone

startRunLocked ==
    /\ streaming' = TRUE
    /\ run' = IF streaming THEN run ELSE "running"
    /\ UNCHANGED runErr

\* The first reason to stop is the one that is kept.
stopLocked(reason) ==
    /\ stopped' = TRUE
    /\ srcErr' = IF stopped THEN srcErr ELSE reason

--------------------------------------------------------------------------------
(* Start *)

Start ==
    /\ ~started
    /\ started' = TRUE /\ lifeline' = TRUE
    /\ IF slot = "none" THEN UNCHANGED <<streaming, runnerVars>>
       ELSE startRunLocked /\ UNCHANGED handedOver
    /\ UNCHANGED <<slot, orphan, mu, stopped, srcErr, runCtx, callVars, faults>>

\* The goroutine Start leaves behind.
ContextEnds ==
    /\ lifeline /\ runCtx /\ mu = NoCall
    /\ lifeline' = FALSE
    /\ IF streaming THEN UNCHANGED <<stopped, srcErr>> ELSE stopLocked("none")
    /\ UNCHANGED <<slot, orphan, mu, streaming, started, runCtx, runnerVars, callVars, faults>>

--------------------------------------------------------------------------------
(* Snapshot *)

\* Mutant of Lock: the mutex is not held across Bootstrap.
LockReleasedEarly(c) ==
    /\ call[c] = "lock" /\ mu = NoCall
    /\ IF stopped THEN Returns(c, "idle")
       ELSE Goto(c, IF streaming THEN "snapshot" ELSE "connect") /\ UNCHANGED <<mu, conn, ctxDone>>
    /\ UNCHANGED <<slot, orphan, streaming, lifeVars, runnerVars, faults>>

\* readyLocked, then Bootstrap with the mutex held or Reader.Snapshot without it.
Lock(c) ==
    /\ call[c] = "lock" /\ mu = NoCall
    /\ IF stopped THEN Returns(c, "idle")
       ELSE IF streaming THEN Goto(c, "snapshot") /\ UNCHANGED <<mu, conn, ctxDone>>
       ELSE Goto(c, "connect") /\ mu' = c /\ UNCHANGED <<conn, ctxDone>>
    /\ UNCHANGED <<slot, orphan, streaming, lifeVars, runnerVars, faults>>

\* Bootstrap opens its connections and validates the publication and the table.
Connect(c) ==
    /\ call[c] = "connect"
    /\ \/ /\ conn' = [conn EXCEPT ![c] = TRUE]
          /\ Goto(c, "create")
          /\ UNCHANGED <<mu, ctxDone, faults>>
       \/ /\ CallFails(c)
          /\ Returns(c, "idle")
    /\ UNCHANGED <<slot, orphan, streaming, lifeVars, runnerVars>>

\* createBootstrapSlot finds or collides with a slot: Snapshot starts Run on it,
\* and reads against it with the mutex still held.
SlotExists(c) ==
    /\ call[c] = "create" /\ slot # "none"
    /\ Goto(c, "snapshot")
    /\ conn' = [conn EXCEPT ![c] = FALSE]
    /\ startRunLocked
    /\ UNCHANGED <<slot, orphan, mu, lifeVars, handedOver, ctxDone, faults>>

CreateSlot(c) ==
    /\ call[c] = "create" /\ slot = "none"
    /\ slot' = "ours" /\ orphan' = "none"
    /\ Goto(c, "rows")
    /\ UNCHANGED <<mu, streaming, lifeVars, runnerVars, conn, ctxDone, faults>>

\* The command fails, or its context is done while it is under way: PostgreSQL may
\* have created the slot, which nothing will drop.
CreateFails(c) ==
    /\ call[c] = "create"
    /\ CallFails(c)
    /\ \/ UNCHANGED <<slot, orphan>>
       \/ slot = "none" /\ slot' = "ours" /\ orphan' = "reply lost"
    /\ Returns(c, "idle")
    /\ UNCHANGED <<streaming, lifeVars, runnerVars>>

\* readSnapshot has read every row and the client has taken them.
RowsSent(c) ==
    /\ call[c] = "rows"
    /\ Goto(c, "start")
    /\ UNCHANGED <<slot, orphan, mu, streaming, lifeVars, runnerVars, conn, ctxDone, faults>>

\* Mutant of BootstrapFails: the slot is not dropped.
BootstrapJustFails(c) ==
    /\ call[c] \in {"rows", "start"}
    /\ CallFails(c)
    /\ Returns(c, "idle")
    /\ UNCHANGED <<slot, orphan, streaming, lifeVars, runnerVars>>

\* Reading, sending or startReplication fails: the slot has to go.
BootstrapFails(c) ==
    /\ call[c] \in {"rows", "start"}
    /\ CallFails(c)
    /\ Goto(c, "drop")
    /\ conn' = [conn EXCEPT ![c] = FALSE]
    /\ UNCHANGED <<slot, orphan, mu, streaming, lifeVars, runnerVars, ctxDone>>

\* Bootstrap keeps the started stream for Run, and Snapshot starts Run.
HandOver(c) ==
    /\ call[c] = "start"
    /\ handedOver' = TRUE
    /\ startRunLocked
    /\ Returns(c, "live")
    /\ UNCHANGED <<slot, orphan, lifeVars, faults>>

\* dropSlot, with a context and a connection of its own.
DropSlot(c) ==
    /\ call[c] = "drop"
    /\ \/ slot' = "none" /\ UNCHANGED <<orphan, faults>>
       \/ slot = "ours" /\ Fault /\ orphan' = "drop failed" /\ UNCHANGED slot
    /\ Returns(c, "idle")
    /\ UNCHANGED <<streaming, lifeVars, runnerVars>>

\* Reader.Snapshot: the rows have been read and taken, or the call fails.
SnapshotEnds(c) ==
    /\ call[c] = "snapshot"
    /\ \/ Returns(c, "live") /\ UNCHANGED faults
       \/ ~ctxDone[c] /\ Fault /\ Returns(c, "idle")
    /\ UNCHANGED <<slot, orphan, streaming, lifeVars, runnerVars>>

\* Mutant of SnapshotCancelled: the mutex is released only after a read that succeeds.
SnapshotCancelledLocked(c) ==
    /\ call[c] = "snapshot" /\ ctxDone[c]
    /\ Goto(c, "idle")
    /\ UNCHANGED <<slot, orphan, mu, streaming, lifeVars, runnerVars, conn, ctxDone, faults>>

SnapshotCancelled(c) ==
    /\ call[c] = "snapshot" /\ ctxDone[c]
    /\ Returns(c, "idle")
    /\ UNCHANGED <<slot, orphan, streaming, lifeVars, runnerVars, faults>>

--------------------------------------------------------------------------------
(* The Run goroutine *)

\* read takes the stream that was handed over.
TakeStream ==
    /\ run = "running" /\ handedOver
    /\ handedOver' = FALSE
    /\ UNCHANGED <<slot, orphan, mu, streaming, lifeVars, run, runErr, callVars, faults>>

RunStopped ==
    /\ run = "running" /\ ~handedOver /\ runCtx
    /\ run' = "returned"
    /\ UNCHANGED <<slot, orphan, mu, streaming, lifeVars, runErr, handedOver, callVars, faults>>

\* A terminal error; at the retention budget the slot has been dropped.
RunFails ==
    /\ run = "running" /\ ~handedOver
    /\ Fault
    /\ run' = "returned" /\ runErr' = "failed"
    /\ slot' \in {slot, "none"}
    /\ UNCHANGED <<orphan, mu, streaming, lifeVars, handedOver, callVars>>

\* Mutant of RunReports: Run's error is lost.
RunReportsNothing ==
    /\ run = "returned" /\ mu = NoCall
    /\ run' = "reported"
    /\ stopLocked("none")
    /\ UNCHANGED <<slot, orphan, mu, streaming, started, runCtx, lifeline, runErr, handedOver,
                   callVars, faults>>

RunReports ==
    /\ run = "returned" /\ mu = NoCall
    /\ run' = "reported"
    /\ stopLocked(runErr)
    /\ UNCHANGED <<slot, orphan, mu, streaming, started, runCtx, lifeline, runErr, handedOver,
                   callVars, faults>>

\* Another process creates the slot.
OtherCreatesSlot ==
    /\ slot = "none" /\ Fault
    /\ slot' = "found" /\ orphan' = "none"
    /\ UNCHANGED <<mu, streaming, lifeVars, runnerVars, callVars>>
================================================================================
