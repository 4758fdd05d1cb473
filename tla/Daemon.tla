--------------------------------- MODULE Daemon --------------------------------
(*******************************************************************************)
(* internal/daemon/daemon.go: Serve, with the source it owns, the gRPC server  *)
(* and hub whose Watch calls use that source, and the clients of those calls.  *)
(*******************************************************************************)
EXTENDS Source

VARIABLES
    serve,      \* where Serve is
    ctx,        \* Serve's context is done: the process was told to stop
    serving,    \* what health and /readyz report
    accepting,  \* the gRPC server takes new calls
    hubStopped,
    failure     \* what Serve returns

daemonVars == <<serve, ctx, serving, accepting, hubStopped, failure>>
vars == <<sourceVars, daemonVars>>

Init ==
    /\ SourceInit
    /\ serve = "starting" /\ ctx = FALSE
    /\ serving = FALSE /\ accepting = FALSE /\ hubStopped = FALSE
    /\ failure = "none"

--------------------------------------------------------------------------------
(* Serve *)

StartSource ==
    /\ serve = "starting"
    /\ Start
    /\ serve' = "listening" /\ accepting' = TRUE
    /\ UNCHANGED <<ctx, serving, hubStopped, failure>>

\* slotExists fails.
StartFails ==
    /\ serve = "starting"
    /\ Fault
    /\ serve' = "returned" /\ failure' = "start"
    /\ UNCHANGED <<slot, orphan, mu, streaming, lifeVars, runnerVars, callVars,
                   ctx, serving, accepting, hubStopped>>

SetServing ==
    /\ serve = "listening"
    /\ serve' = "serving" /\ serving' = TRUE
    /\ UNCHANGED <<sourceVars, ctx, accepting, hubStopped, failure>>

\* Mutant of Wakes: an ended source is not waited for.
WakesOnContext ==
    /\ serve = "serving" /\ ctx
    /\ serve' = "stopping" /\ serving' = FALSE
    /\ UNCHANGED <<sourceVars, ctx, accepting, hubStopped, failure>>

\* Mutant of Wakes: the end of the source is taken for a clean shutdown.
WakesWithoutFailure ==
    /\ serve = "serving"
    /\ ctx \/ stopped
    /\ serve' = "stopping" /\ serving' = FALSE
    /\ UNCHANGED <<sourceVars, ctx, accepting, hubStopped, failure>>

\* The select takes one of the cases that are ready.
Wakes ==
    /\ serve = "serving"
    /\ \/ ctx /\ UNCHANGED failure
       \/ stopped /\ failure' = "source"
    /\ serve' = "stopping" /\ serving' = FALSE
    /\ UNCHANGED <<sourceVars, ctx, accepting, hubStopped>>

\* ... or the server itself fails.
ServerFails ==
    /\ serve = "serving"
    /\ Fault
    /\ serve' = "stopping" /\ serving' = FALSE
    /\ accepting' = FALSE /\ failure' = "serve"
    /\ UNCHANGED <<slot, orphan, mu, streaming, lifeVars, runnerVars, callVars,
                   ctx, hubStopped>>

\* hub.Stop, then GracefulStop refuses new calls.
StopHub ==
    /\ serve = "stopping"
    /\ hubStopped' = TRUE /\ accepting' = FALSE
    /\ serve' = "draining"
    /\ UNCHANGED <<sourceVars, ctx, serving, failure>>

\* Mutant of Drained: Stop is not waited for.
DrainedOnceForced ==
    /\ \/ serve = "draining" /\ \A c \in Calls : call[c] = "idle"
       \/ serve = "forced"
    /\ serve' = "drained"
    /\ UNCHANGED <<sourceVars, ctx, serving, accepting, hubStopped, failure>>

\* GracefulStop has waited for every call to return.
Drained ==
    /\ serve \in {"draining", "forced"}
    /\ \A c \in Calls : call[c] = "idle"
    /\ serve' = "drained"
    /\ UNCHANGED <<sourceVars, ctx, serving, accepting, hubStopped, failure>>

\* Mutant of DrainTimeout: the calls' streams stay open.
DrainTimeoutOnlyWarns ==
    /\ serve = "draining"
    /\ serve' = "forced"
    /\ UNCHANGED <<sourceVars, ctx, serving, accepting, hubStopped, failure>>

\* Stop closes the connections, which ends every call's context.
DrainTimeout ==
    /\ serve = "draining"
    /\ serve' = "forced"
    /\ ctxDone' = [c \in Calls |-> TRUE]
    /\ UNCHANGED <<slot, orphan, mu, streaming, lifeVars, runnerVars, call, conn, faults,
                   ctx, serving, accepting, hubStopped, failure>>

StopSource ==
    /\ serve = "drained"
    /\ runCtx' = TRUE
    /\ serve' = "waiting"
    /\ UNCHANGED <<slot, orphan, mu, streaming, started, stopped, srcErr, lifeline, runnerVars,
                   callVars, faults, ctx, serving, accepting, hubStopped, failure>>

\* The source has stopped, or the timeout passes.
ServeReturns ==
    /\ serve = "waiting"
    /\ serve' = "returned"
    /\ UNCHANGED <<sourceVars, ctx, serving, accepting, hubStopped, failure>>

Terminate ==
    /\ ~ctx
    /\ ctx' = TRUE
    /\ UNCHANGED <<sourceVars, serve, serving, accepting, hubStopped, failure>>

--------------------------------------------------------------------------------
(* Watch calls and their clients *)

\* A call without a resume cursor takes a snapshot; one with a cursor is live.
WatchBegins(c) ==
    /\ accepting /\ call[c] = "idle"
    /\ \E step \in {"lock", "live"} : Goto(c, step)
    /\ ctxDone' = [ctxDone EXCEPT ![c] = FALSE]
    /\ UNCHANGED <<slot, orphan, mu, streaming, lifeVars, runnerVars, conn, faults, daemonVars>>

\* Mutant of WatchEnds: the call is not taken off the server's list.
WatchEndsUncounted(c) ==
    /\ call[c] = "live"
    /\ hubStopped \/ ctxDone[c]
    /\ Goto(c, "ended")
    /\ UNCHANGED <<slot, orphan, mu, streaming, lifeVars, runnerVars, conn, ctxDone, faults,
                   daemonVars>>

\* The hub ends a live call when it is stopped or when the call's context is done.
WatchEnds(c) ==
    /\ call[c] = "live"
    /\ hubStopped \/ ctxDone[c]
    /\ Goto(c, "idle")
    /\ UNCHANGED <<slot, orphan, mu, streaming, lifeVars, runnerVars, conn, ctxDone, faults,
                   daemonVars>>

ClientLeaves(c) ==
    /\ call[c] # "idle" /\ ~ctxDone[c]
    /\ ctxDone' = [ctxDone EXCEPT ![c] = TRUE]
    /\ UNCHANGED <<slot, orphan, mu, streaming, lifeVars, runnerVars, call, conn, faults,
                   daemonVars>>

--------------------------------------------------------------------------------
Main == StartSource \/ SetServing \/ Wakes \/ StopHub \/ Drained \/ DrainTimeout
            \/ StopSource \/ ServeReturns
MainFaults == StartFails \/ ServerFails \/ Terminate

\* The steps of a call that need only PostgreSQL, the mutex or the hub ...
CallStep(c) ==
    \/ (Connect(c) \/ SlotExists(c) \/ CreateSlot(c) \/ CreateFails(c) \/ BootstrapFails(c)
          \/ HandOver(c) \/ DropSlot(c) \/ SnapshotCancelled(c)) /\ UNCHANGED daemonVars
    \/ WatchEnds(c)
LockStep(c) == Lock(c) /\ UNCHANGED daemonVars
\* ... and the ones that wait for its client to take rows.
ClientStep(c) == (RowsSent(c) \/ SnapshotEnds(c)) /\ UNCHANGED daemonVars

SourceStep ==
    (ContextEnds \/ TakeStream \/ RunStopped \/ RunReports) /\ UNCHANGED daemonVars
SourceFaults == (RunFails \/ OtherCreatesSlot) /\ UNCHANGED daemonVars

\* The process lasts until Serve returns.
Next ==
    /\ serve # "returned"
    /\ \/ Main \/ MainFaults \/ SourceStep \/ SourceFaults
       \/ \E c \in Calls : CallStep(c) \/ LockStep(c) \/ ClientStep(c)
                              \/ WatchBegins(c) \/ ClientLeaves(c)

Spec == Init /\ [][Next]_vars

\* Serve, the source's goroutines and the calls go on, and the mutex is fair (a Go
\* mutex starves nobody); a client may never take a row and never leave, and no
\* fault has to happen.
Fairness ==
    /\ WF_vars(Main)
    /\ WF_vars(SourceStep)
    /\ \A c \in Calls : WF_vars(CallStep(c) /\ UNCHANGED faults) /\ SF_vars(LockStep(c))

LiveSpec == Spec /\ Fairness

--------------------------------------------------------------------------------
(* Properties *)

Slots == {"none", "ours", "found"}
Orphans == {"none", "reply lost", "drop failed"}
Verdicts == {"none", "failed"}
RunStates == {"none", "running", "returned", "reported"}
CallStates == {"idle", "lock", "connect", "create", "rows", "start", "drop", "snapshot", "live"}
ServeStates ==
    {"starting", "listening", "serving", "stopping", "draining", "forced", "drained", "waiting",
     "returned"}
FailureKinds == {"none", "start", "source", "serve"}

\* Every variable has its type.
TypeOK ==
    /\ slot \in Slots /\ orphan \in Orphans /\ mu \in Calls \cup {NoCall}
    /\ started \in BOOLEAN /\ streaming \in BOOLEAN /\ stopped \in BOOLEAN
    /\ srcErr \in Verdicts /\ runCtx \in BOOLEAN /\ lifeline \in BOOLEAN
    /\ run \in RunStates /\ runErr \in Verdicts /\ handedOver \in BOOLEAN
    /\ call \in [Calls -> CallStates] /\ conn \in [Calls -> BOOLEAN]
    /\ ctxDone \in [Calls -> BOOLEAN] /\ faults \in Nat
    /\ serve \in ServeStates /\ failure \in FailureKinds
    /\ ctx \in BOOLEAN /\ serving \in BOOLEAN /\ accepting \in BOOLEAN /\ hubStopped \in BOOLEAN

Bootstrapping(c) == call[c] \in {"connect", "create", "rows", "start", "drop"}

\* A source has one replication connection at a time: at most one call bootstraps,
\* it holds the mutex, and Run has not been started while it does.
OneStream ==
    \A c \in Calls : Bootstrapping(c) \/ conn[c] => mu = c /\ ~streaming

\* A slot Bootstrap created has somebody to consume or drop it, unless the answer to
\* its creation was lost or dropping it failed; and a stream that was handed over
\* has a Run that will take it.
SlotHasOwner ==
    /\ slot = "ours" /\ ~streaming =>
          (\E c \in Calls : call[c] \in {"rows", "start", "drop"}) \/ orphan # "none"
    /\ handedOver => run = "running"

\* When Serve returns, no call is left between creating its slot and dropping it or
\* handing it over, even if the calls' streams had to be closed.
ExitAfterCleanup ==
    serve = "returned" => mu = NoCall /\ \A c \in Calls : ~Bootstrapping(c)

\* Serve returns nil only after it was told to stop.
CleanExitWasAsked == serve = "returned" /\ failure = "none" => ctx

\* The source stops, and Serve reports why, only because of Run's error or because
\* Serve stopped it.
StopHasReason == stopped => srcErr = "failed" \/ runCtx

\* Told to stop once it serves, Serve returns, although a client that takes no rows
\* holds the source's mutex and others wait for it.
ShutdownCompletes == ctx ~> serve = "returned"

\* When the source's stream ends, Serve stops serving and returns.
SourceFailureEndsServe == stopped ~> serve = "returned"

\* A call waits for the mutex for ever only behind a call whose client never takes
\* its rows and never leaves.
WaitsOnlyForClient ==
    \A c \in Calls :
        <>[](call[c] = "lock" /\ serve # "returned") =>
            <>[](\E d \in Calls : mu = d /\ call[d] \in {"rows", "snapshot"})
================================================================================
