------------------------------ MODULE DaemonProofs -----------------------------
(*******************************************************************************)
(* The safety properties of module Daemon, for any set of Watch calls and any  *)
(* number of faults.  LifeInv is what the lifecycle of a call, of the source   *)
(* and of Serve have to say about each other for them to be inductive.         *)
(*******************************************************************************)
EXTENDS Daemon, TLAPS

\* A call holds the mutex only inside Bootstrap or a snapshot read that follows it.
Holding == \A c \in Calls : mu = c => Bootstrapping(c) \/ call[c] = "snapshot"

\* Before Start there are no calls, and nothing streams.
NothingBefore ==
    /\ serve = "starting" => ~started /\ ~accepting
    /\ ~started => /\ serve \in {"starting", "returned"}
                   /\ ~accepting /\ ~streaming /\ run = "none" /\ ~handedOver
                   /\ \A c \in Calls : call[c] = "idle"

StreamInv == OneStream /\ Holding /\ NothingBefore

\* Serve has drained the calls, and takes no new ones, before it stops the source.
DrainedBefore ==
    /\ serve \in {"draining", "forced", "drained", "waiting"} => ~accepting
    /\ serve \in {"drained", "waiting"} => \A c \in Calls : call[c] = "idle"

\* A shutdown without a failure was asked for.
AskedBefore ==
    serve \in {"stopping", "draining", "forced", "drained", "waiting", "returned"} =>
        failure # "none" \/ ctx

\* Run returns because of its error or because it was stopped.
RunHasReason == run = "returned" => runErr = "failed" \/ runCtx

ServeInv == DrainedBefore /\ ExitAfterCleanup /\ AskedBefore /\ RunHasReason /\ StopHasReason

\* The inductive invariant of the lifecycle.
LifeInv == TypeOK /\ StreamInv /\ SlotHasOwner /\ ServeInv

\* The names of the slot's states are among them ...
LEMMA SlotStatesHold ==
    /\ "none" \in Slots /\ "ours" \in Slots /\ "found" \in Slots
    /\ "none" \in Orphans /\ "reply lost" \in Orphans /\ "drop failed" \in Orphans
  BY Zenon DEF Slots, Orphans

\* ... of Run's states and of the errors,
LEMMA RunStatesHold ==
    /\ "none" \in Verdicts /\ "failed" \in Verdicts
    /\ "none" \in RunStates /\ "running" \in RunStates /\ "returned" \in RunStates
    /\ "reported" \in RunStates
  BY Zenon DEF Verdicts, RunStates

\* ... of the steps of a Snapshot call,
LEMMA CallStatesHold ==
    /\ "idle" \in CallStates /\ "lock" \in CallStates /\ "connect" \in CallStates
    /\ "create" \in CallStates /\ "rows" \in CallStates /\ "start" \in CallStates
    /\ "drop" \in CallStates /\ "snapshot" \in CallStates /\ "live" \in CallStates
  BY Zenon DEF CallStates

\* ... and of the steps of Serve.
LEMMA ServeStatesHold ==
    /\ "starting" \in ServeStates /\ "listening" \in ServeStates /\ "serving" \in ServeStates
    /\ "stopping" \in ServeStates /\ "draining" \in ServeStates /\ "forced" \in ServeStates
    /\ "drained" \in ServeStates /\ "waiting" \in ServeStates /\ "returned" \in ServeStates
    /\ "none" \in FailureKinds /\ "start" \in FailureKinds /\ "source" \in FailureKinds
    /\ "serve" \in FailureKinds
  BY Zenon DEF ServeStates, FailureKinds

\* A fault is counted.
LEMMA FaultCounted == faults \in Nat /\ Fault => faults' \in Nat
  BY DEF Fault

\* ... also one that makes a call of the source fail.
LEMMA CallFailsCounted == \A c \in Calls : faults \in Nat /\ CallFails(c) => faults' \in Nat
  BY FaultCounted, Zenon DEF CallFails

\* A call that moves keeps the calls' types.
LEMMA GotoTyped ==
    \A c \in Calls, step \in CallStates :
        call \in [Calls -> CallStates] /\ Goto(c, step) => call' \in [Calls -> CallStates]
  BY DEF Goto

\* A Snapshot call that returns keeps its types.
LEMMA ReturnsTyped ==
    \A c \in Calls, step \in CallStates :
        /\ call \in [Calls -> CallStates] /\ conn \in [Calls -> BOOLEAN]
        /\ ctxDone \in [Calls -> BOOLEAN] /\ mu \in Calls \cup {NoCall}
        /\ Returns(c, step)
        => /\ call' \in [Calls -> CallStates] /\ conn' \in [Calls -> BOOLEAN]
           /\ ctxDone' \in [Calls -> BOOLEAN] /\ mu' \in Calls \cup {NoCall}
<1> SUFFICES ASSUME NEW c \in Calls, NEW step \in CallStates,
                    call \in [Calls -> CallStates], conn \in [Calls -> BOOLEAN],
                    ctxDone \in [Calls -> BOOLEAN], mu \in Calls \cup {NoCall}, Returns(c, step)
             PROVE  /\ call' \in [Calls -> CallStates] /\ conn' \in [Calls -> BOOLEAN]
                    /\ ctxDone' \in [Calls -> BOOLEAN] /\ mu' \in Calls \cup {NoCall}
  BY Zenon
<1>1. call' \in [Calls -> CallStates]
  BY GotoTyped, Zenon DEF Returns
<1>2. conn' \in [Calls -> BOOLEAN]
  BY Zenon DEF Returns
<1>3. ctxDone' \in [Calls -> BOOLEAN] /\ mu' \in Calls \cup {NoCall}
  BY Zenon DEF Returns
<1> QED
  BY <1>1, <1>2, <1>3, Zenon

\* Every step keeps the types.
LEMMA TypeStep == TypeOK /\ [Next]_vars => TypeOK'
<1>0. SUFFICES ASSUME TypeOK, [Next]_vars PROVE TypeOK'
  BY Zenon
<1> USE DEF TypeOK, sourceVars, daemonVars, runnerVars, lifeVars, callVars
<1>1. CASE StartSource
  BY <1>0, <1>1, ServeStatesHold, RunStatesHold, Zenon DEF StartSource, Start, startRunLocked
<1>2. CASE SetServing
  <2>1. serve' \in ServeStates
    BY <1>2, ServeStatesHold, Zenon DEF SetServing
  <2> QED
    BY <1>0, <1>2, <2>1, Zenon DEF SetServing
<1>3. CASE Wakes
  BY <1>0, <1>3, ServeStatesHold, Zenon DEF Wakes
<1>4. CASE StopHub
  <2>1. serve' \in ServeStates
    BY <1>4, ServeStatesHold, Zenon DEF StopHub
  <2> QED
    BY <1>0, <1>4, <2>1, Zenon DEF StopHub
<1>5. CASE Drained
  <2>1. serve' \in ServeStates
    BY <1>5, ServeStatesHold, Zenon DEF Drained
  <2> QED
    BY <1>0, <1>5, <2>1, Zenon DEF Drained
<1>6. CASE DrainTimeout
  <2>1. serve' \in ServeStates /\ ctxDone' \in [Calls -> BOOLEAN]
    BY <1>6, ServeStatesHold, Zenon DEF DrainTimeout
  <2> QED
    BY <1>0, <1>6, <2>1, Zenon DEF DrainTimeout
<1>7. CASE StopSource
  <2>1. serve' \in ServeStates
    BY <1>7, ServeStatesHold, Zenon DEF StopSource
  <2> QED
    BY <1>0, <1>7, <2>1, Zenon DEF StopSource
<1>8. CASE ServeReturns
  <2>1. serve' \in ServeStates
    BY <1>8, ServeStatesHold, Zenon DEF ServeReturns
  <2> QED
    BY <1>0, <1>8, <2>1, Zenon DEF ServeReturns
<1>9. CASE StartFails
  <2>1. serve' \in ServeStates /\ failure' \in FailureKinds
    BY <1>9, ServeStatesHold, Zenon DEF StartFails
  <2>2. faults' \in Nat
    BY <1>0, <1>9, FaultCounted, Zenon DEF StartFails
  <2> QED
    BY <1>0, <1>9, <2>1, <2>2, Zenon DEF StartFails
<1>10. CASE ServerFails
  <2>1. serve' \in ServeStates /\ failure' \in FailureKinds
    BY <1>10, ServeStatesHold, Zenon DEF ServerFails
  <2>2. faults' \in Nat
    BY <1>0, <1>10, FaultCounted, Zenon DEF ServerFails
  <2> QED
    BY <1>0, <1>10, <2>1, <2>2, Zenon DEF ServerFails
<1>11. CASE Terminate
  BY <1>0, <1>11, Zenon DEF Terminate
<1>12. CASE ContextEnds /\ UNCHANGED daemonVars
  BY <1>0, <1>12, RunStatesHold, Zenon DEF ContextEnds, stopLocked
<1>13. CASE TakeStream /\ UNCHANGED daemonVars
  BY <1>0, <1>13, Zenon DEF TakeStream
<1>14. CASE RunStopped /\ UNCHANGED daemonVars
  BY <1>0, <1>14, RunStatesHold, Zenon DEF RunStopped
<1>15. CASE RunReports /\ UNCHANGED daemonVars
  BY <1>0, <1>15, RunStatesHold, Zenon DEF RunReports, stopLocked
<1>16. CASE RunFails /\ UNCHANGED daemonVars
  <2>1. slot' \in Slots
    BY <1>0, <1>16, SlotStatesHold, Zenon DEF RunFails
  <2>2. faults' \in Nat /\ run' \in RunStates /\ runErr' \in Verdicts
    BY <1>0, <1>16, FaultCounted, RunStatesHold, Zenon DEF RunFails
  <2> QED
    BY <1>0, <1>16, <2>1, <2>2, Zenon DEF RunFails
<1>17. CASE OtherCreatesSlot /\ UNCHANGED daemonVars
  BY <1>0, <1>17, FaultCounted, SlotStatesHold, Zenon DEF OtherCreatesSlot
<1>18. ASSUME NEW c \in Calls, Connect(c), UNCHANGED daemonVars PROVE TypeOK'
  <2>1. CASE Goto(c, "create") /\ conn' = [conn EXCEPT ![c] = TRUE] /\ UNCHANGED <<mu, ctxDone, faults>>
    BY <1>0, <1>18, <2>1, CallStatesHold, GotoTyped, Zenon DEF Connect
  <2>2. CASE CallFails(c) /\ Returns(c, "idle")
    BY <1>0, <1>18, <2>2, CallStatesHold, ReturnsTyped, CallFailsCounted, Zenon DEF Connect
  <2> QED
    BY <1>18, <2>1, <2>2, Zenon DEF Connect
<1>19. ASSUME NEW c \in Calls, SlotExists(c), UNCHANGED daemonVars PROVE TypeOK'
  <2>1. call' \in [Calls -> CallStates] /\ conn' \in [Calls -> BOOLEAN]
    BY <1>0, <1>19, CallStatesHold, GotoTyped, Zenon DEF SlotExists
  <2>2. streaming' \in BOOLEAN /\ run' \in RunStates /\ runErr' \in Verdicts
    BY <1>0, <1>19, RunStatesHold, Zenon DEF SlotExists, startRunLocked
  <2> QED
    BY <1>0, <1>19, <2>1, <2>2, Zenon DEF SlotExists
<1>20. ASSUME NEW c \in Calls, CreateSlot(c), UNCHANGED daemonVars PROVE TypeOK'
  BY <1>0, <1>20, CallStatesHold, GotoTyped, SlotStatesHold, Zenon DEF CreateSlot
<1>21. ASSUME NEW c \in Calls, CreateFails(c), UNCHANGED daemonVars PROVE TypeOK'
  <2>1. slot' \in Slots /\ orphan' \in Orphans /\ faults' \in Nat
    BY <1>0, <1>21, SlotStatesHold, CallFailsCounted, Zenon DEF CreateFails
  <2>2. call' \in [Calls -> CallStates] /\ conn' \in [Calls -> BOOLEAN]
        /\ ctxDone' \in [Calls -> BOOLEAN] /\ mu' \in Calls \cup {NoCall}
    BY <1>0, <1>21, CallStatesHold, ReturnsTyped, Zenon DEF CreateFails
  <2> QED
    BY <1>0, <1>21, <2>1, <2>2, Zenon DEF CreateFails
<1>22. ASSUME NEW c \in Calls, BootstrapFails(c), UNCHANGED daemonVars PROVE TypeOK'
  <2>1. call' \in [Calls -> CallStates] /\ conn' \in [Calls -> BOOLEAN] /\ faults' \in Nat
    BY <1>0, <1>22, CallStatesHold, GotoTyped, CallFailsCounted, Zenon DEF BootstrapFails
  <2> QED
    BY <1>0, <1>22, <2>1, Zenon DEF BootstrapFails
<1>23. ASSUME NEW c \in Calls, HandOver(c), UNCHANGED daemonVars PROVE TypeOK'
  <2>1. call' \in [Calls -> CallStates] /\ conn' \in [Calls -> BOOLEAN]
        /\ ctxDone' \in [Calls -> BOOLEAN] /\ mu' \in Calls \cup {NoCall}
    BY <1>0, <1>23, CallStatesHold, ReturnsTyped, Zenon DEF HandOver
  <2>2. streaming' \in BOOLEAN /\ run' \in RunStates /\ runErr' \in Verdicts
    BY <1>0, <1>23, RunStatesHold, Zenon DEF HandOver, startRunLocked
  <2> QED
    BY <1>0, <1>23, <2>1, <2>2, Zenon DEF HandOver
<1>24. ASSUME NEW c \in Calls, DropSlot(c), UNCHANGED daemonVars PROVE TypeOK'
  <2>1. slot' \in Slots /\ orphan' \in Orphans /\ faults' \in Nat
    BY <1>0, <1>24, SlotStatesHold, FaultCounted, Zenon DEF DropSlot
  <2>2. call' \in [Calls -> CallStates] /\ conn' \in [Calls -> BOOLEAN]
        /\ ctxDone' \in [Calls -> BOOLEAN] /\ mu' \in Calls \cup {NoCall}
    BY <1>0, <1>24, CallStatesHold, ReturnsTyped, Zenon DEF DropSlot
  <2> QED
    BY <1>0, <1>24, <2>1, <2>2, Zenon DEF DropSlot
<1>25. ASSUME NEW c \in Calls, SnapshotCancelled(c), UNCHANGED daemonVars PROVE TypeOK'
  <2>1. call' \in [Calls -> CallStates] /\ conn' \in [Calls -> BOOLEAN]
        /\ ctxDone' \in [Calls -> BOOLEAN] /\ mu' \in Calls \cup {NoCall}
    BY <1>0, <1>25, CallStatesHold, ReturnsTyped, Zenon DEF SnapshotCancelled
  <2> QED
    BY <1>0, <1>25, <2>1, Zenon DEF SnapshotCancelled
<1>26. ASSUME NEW c \in Calls, Lock(c), UNCHANGED daemonVars PROVE TypeOK'
  <2>1. call' \in [Calls -> CallStates] /\ conn' \in [Calls -> BOOLEAN]
        /\ ctxDone' \in [Calls -> BOOLEAN] /\ mu' \in Calls \cup {NoCall}
    BY <1>0, <1>26, CallStatesHold, ReturnsTyped, GotoTyped, Zenon DEF Lock
  <2> QED
    BY <1>0, <1>26, <2>1, Zenon DEF Lock
<1>27. ASSUME NEW c \in Calls, RowsSent(c), UNCHANGED daemonVars PROVE TypeOK'
  <2>1. call' \in [Calls -> CallStates]
    BY <1>0, <1>27, CallStatesHold, GotoTyped, Zenon DEF RowsSent
  <2> QED
    BY <1>0, <1>27, <2>1, Zenon DEF RowsSent
<1>28. ASSUME NEW c \in Calls, SnapshotEnds(c), UNCHANGED daemonVars PROVE TypeOK'
  <2>1. faults' \in Nat
    BY <1>0, <1>28, FaultCounted, Zenon DEF SnapshotEnds
  <2>2. call' \in [Calls -> CallStates] /\ conn' \in [Calls -> BOOLEAN]
        /\ ctxDone' \in [Calls -> BOOLEAN] /\ mu' \in Calls \cup {NoCall}
    BY <1>0, <1>28, CallStatesHold, ReturnsTyped, Zenon DEF SnapshotEnds
  <2> QED
    BY <1>0, <1>28, <2>1, <2>2, Zenon DEF SnapshotEnds
<1>29. ASSUME NEW c \in Calls, WatchEnds(c) PROVE TypeOK'
  <2>1. call' \in [Calls -> CallStates]
    BY <1>0, <1>29, CallStatesHold, GotoTyped, Zenon DEF WatchEnds
  <2> QED
    BY <1>0, <1>29, <2>1, Zenon DEF WatchEnds
<1>30. ASSUME NEW c \in Calls, WatchBegins(c) PROVE TypeOK'
  <2>1. call' \in [Calls -> CallStates] /\ ctxDone' \in [Calls -> BOOLEAN]
    BY <1>0, <1>30, CallStatesHold, GotoTyped, Zenon DEF WatchBegins
  <2> QED
    BY <1>0, <1>30, <2>1, Zenon DEF WatchBegins
<1>31. ASSUME NEW c \in Calls, ClientLeaves(c) PROVE TypeOK'
  BY <1>0, <1>31, Zenon DEF ClientLeaves
<1>32. CASE UNCHANGED vars
  <2>1. /\ slot' = slot /\ orphan' = orphan /\ mu' = mu /\ streaming' = streaming
        /\ started' = started /\ stopped' = stopped /\ srcErr' = srcErr /\ runCtx' = runCtx
        /\ lifeline' = lifeline /\ run' = run /\ runErr' = runErr /\ handedOver' = handedOver
        /\ call' = call /\ conn' = conn /\ ctxDone' = ctxDone /\ faults' = faults
    BY <1>32 DEF vars, sourceVars, lifeVars, runnerVars, callVars
  <2>2. /\ serve' = serve /\ ctx' = ctx /\ serving' = serving /\ accepting' = accepting
        /\ hubStopped' = hubStopped /\ failure' = failure
    BY <1>32 DEF vars, daemonVars
  <2> QED
    BY <1>0, <2>1, <2>2, Zenon
<1> QED
  BY <1>0, <1>1, <1>2, <1>3, <1>4, <1>5, <1>6, <1>7, <1>8, <1>9, <1>10, <1>11, <1>12,
     <1>13, <1>14, <1>15, <1>16, <1>17, <1>18, <1>19, <1>20, <1>21, <1>22, <1>23, <1>24,
     <1>25, <1>26, <1>27, <1>28, <1>29, <1>30, <1>31, <1>32, Zenon
     DEF Next, Main, MainFaults, SourceStep, SourceFaults, CallStep, LockStep, ClientStep

\* Where the calls are after one of them has moved.
LEMMA GotoAt ==
    \A c \in Calls : \A step : call \in [Calls -> CallStates] /\ Goto(c, step) =>
        call'[c] = step /\ \A d \in Calls \ {c} : call'[d] = call[d]
  BY DEF Goto

\* ... and after its Snapshot call has returned.
LEMMA ReturnsAt ==
    \A c \in Calls : \A step :
        TypeOK /\ Returns(c, step) =>
            /\ call'[c] = step /\ ~conn'[c] /\ mu' # c
            /\ \A d \in Calls \ {c} : call'[d] = call[d] /\ conn'[d] = conn[d]
            /\ mu = c \/ mu' = mu
            /\ mu' \in {mu, NoCall}
<1> SUFFICES ASSUME NEW c \in Calls, NEW step, TypeOK, Returns(c, step)
             PROVE  /\ call'[c] = step /\ ~conn'[c] /\ mu' # c
                    /\ \A d \in Calls \ {c} : call'[d] = call[d] /\ conn'[d] = conn[d]
                    /\ mu = c \/ mu' = mu
                    /\ mu' \in {mu, NoCall}
  BY Zenon
<1>1. call'[c] = step /\ \A d \in Calls \ {c} : call'[d] = call[d]
  BY GotoAt, Zenon DEF Returns, TypeOK
<1>2. conn' = [conn EXCEPT ![c] = FALSE] /\ conn \in [Calls -> BOOLEAN]
  BY Zenon DEF Returns, TypeOK
<1>3. ~conn'[c] /\ \A d \in Calls \ {c} : conn'[d] = conn[d]
  BY <1>2, Zenon
<1>4. mu' # c /\ (mu = c \/ mu' = mu) /\ mu' \in {mu, NoCall}
  BY SourceAssumption, Zenon DEF Returns
<1> QED
  BY <1>1, <1>3, <1>4, Zenon

\* A Snapshot call that returns leaves one stream and the mutex to its holder.
LEMMA ReturnsStream ==
    \A c \in Calls : \A step \in {"idle", "live"} :
        TypeOK /\ OneStream /\ Holding /\ Returns(c, step) /\ UNCHANGED streaming =>
            OneStream' /\ Holding'
<1> SUFFICES ASSUME NEW c \in Calls, NEW step \in {"idle", "live"},
                    TypeOK, OneStream, Holding, Returns(c, step), UNCHANGED streaming
             PROVE  OneStream' /\ Holding'
  BY Zenon
<1>1. /\ call'[c] = step /\ ~conn'[c] /\ mu' # c
      /\ \A d \in Calls \ {c} : call'[d] = call[d] /\ conn'[d] = conn[d]
      /\ mu = c \/ mu' = mu
      /\ mu' \in {mu, NoCall}
  BY ReturnsAt, Zenon
<1>2. ~Bootstrapping(c)'
  BY <1>1, Zenon DEF Bootstrapping
<1>3. ASSUME NEW d \in Calls, Bootstrapping(d)' \/ conn'[d] PROVE mu' = d /\ ~streaming'
  BY <1>1, <1>2, <1>3, Zenon DEF OneStream, Bootstrapping
<1>4. ASSUME NEW d \in Calls, mu' = d PROVE Bootstrapping(d)' \/ call'[d] = "snapshot"
  BY <1>1, <1>4, SourceAssumption, Zenon DEF Holding, Bootstrapping
<1> QED
  BY <1>3, <1>4, Zenon DEF OneStream, Holding

\* Every step keeps the calls to one stream.
LEMMA StreamStep == TypeOK /\ StreamInv /\ [Next]_vars => StreamInv'
<1>0. SUFFICES ASSUME TypeOK, StreamInv, [Next]_vars PROVE StreamInv'
  BY Zenon
<1> USE DEF sourceVars, daemonVars, runnerVars, lifeVars, callVars
<1>1. CASE StartSource
  BY <1>0, <1>1, SourceAssumption, Zenon
     DEF StartSource, Start, startRunLocked, TypeOK, StreamInv, OneStream, Holding,
         NothingBefore, Bootstrapping
<1>2. CASE SetServing
  BY <1>0, <1>2, SourceAssumption, Zenon
     DEF SetServing, TypeOK, StreamInv, OneStream, Holding, NothingBefore, Bootstrapping
<1>3. CASE Wakes
  BY <1>0, <1>3, SourceAssumption, Zenon
     DEF Wakes, TypeOK, StreamInv, OneStream, Holding, NothingBefore, Bootstrapping
<1>4. CASE StopHub
  BY <1>0, <1>4, SourceAssumption, Zenon
     DEF StopHub, TypeOK, StreamInv, OneStream, Holding, NothingBefore, Bootstrapping
<1>5. CASE Drained
  BY <1>0, <1>5, SourceAssumption, Zenon
     DEF Drained, TypeOK, StreamInv, OneStream, Holding, NothingBefore, Bootstrapping
<1>6. CASE DrainTimeout
  BY <1>0, <1>6, SourceAssumption, Zenon
     DEF DrainTimeout, TypeOK, StreamInv, OneStream, Holding, NothingBefore, Bootstrapping
<1>7. CASE StopSource
  BY <1>0, <1>7, SourceAssumption, Zenon
     DEF StopSource, TypeOK, StreamInv, OneStream, Holding, NothingBefore, Bootstrapping
<1>8. CASE ServeReturns
  BY <1>0, <1>8, SourceAssumption, Zenon
     DEF ServeReturns, TypeOK, StreamInv, OneStream, Holding, NothingBefore, Bootstrapping
<1>9. CASE StartFails
  BY <1>0, <1>9, SourceAssumption, Zenon
     DEF StartFails, TypeOK, StreamInv, OneStream, Holding, NothingBefore, Bootstrapping
<1>10. CASE ServerFails
  BY <1>0, <1>10, SourceAssumption, Zenon
     DEF ServerFails, TypeOK, StreamInv, OneStream, Holding, NothingBefore, Bootstrapping
<1>11. CASE Terminate
  BY <1>0, <1>11, SourceAssumption, Zenon
     DEF Terminate, TypeOK, StreamInv, OneStream, Holding, NothingBefore, Bootstrapping
<1>12. CASE ContextEnds /\ UNCHANGED daemonVars
  BY <1>0, <1>12, SourceAssumption, Zenon
     DEF ContextEnds, stopLocked, TypeOK, StreamInv, OneStream, Holding, NothingBefore,
         Bootstrapping
<1>13. CASE TakeStream /\ UNCHANGED daemonVars
  BY <1>0, <1>13, SourceAssumption, Zenon
     DEF TakeStream, TypeOK, StreamInv, OneStream, Holding, NothingBefore, Bootstrapping
<1>14. CASE RunStopped /\ UNCHANGED daemonVars
  BY <1>0, <1>14, SourceAssumption, Zenon
     DEF RunStopped, TypeOK, StreamInv, OneStream, Holding, NothingBefore, Bootstrapping
<1>15. CASE RunReports /\ UNCHANGED daemonVars
  BY <1>0, <1>15, SourceAssumption, Zenon
     DEF RunReports, stopLocked, TypeOK, StreamInv, OneStream, Holding, NothingBefore,
         Bootstrapping
<1>16. CASE RunFails /\ UNCHANGED daemonVars
  BY <1>0, <1>16, SourceAssumption, Zenon
     DEF RunFails, TypeOK, StreamInv, OneStream, Holding, NothingBefore, Bootstrapping
<1>17. CASE OtherCreatesSlot /\ UNCHANGED daemonVars
  BY <1>0, <1>17, SourceAssumption, Zenon
     DEF OtherCreatesSlot, TypeOK, StreamInv, OneStream, Holding, NothingBefore, Bootstrapping
<1>18. ASSUME NEW c \in Calls, Connect(c), UNCHANGED daemonVars PROVE StreamInv'
  <2>1. CASE CallFails(c) /\ Returns(c, "idle")
    BY <1>0, <1>18, <2>1, ReturnsStream, Zenon DEF Connect, StreamInv, NothingBefore
  <2>2. CASE Goto(c, "create") /\ conn' = [conn EXCEPT ![c] = TRUE] /\ UNCHANGED <<mu, ctxDone, faults>>
    <3>1. \A d \in Calls \ {c} : call'[d] = call[d] /\ conn'[d] = conn[d]
      BY <1>0, <2>2, GotoAt, Zenon DEF TypeOK
    <3>2. call'[c] = "create" /\ call[c] = "connect"
      BY <1>0, <1>18, <2>2, GotoAt, Zenon DEF TypeOK, Connect
    <3> QED
      BY <1>0, <1>18, <2>2, <3>1, <3>2, Zenon
         DEF Connect, StreamInv, OneStream, Holding, NothingBefore, Bootstrapping
  <2> QED
    BY <1>18, <2>1, <2>2, Zenon DEF Connect
<1>19. ASSUME NEW c \in Calls, SlotExists(c), UNCHANGED daemonVars PROVE StreamInv'
  BY <1>0, <1>19, GotoAt, SourceAssumption, Zenon
     DEF SlotExists, startRunLocked, TypeOK, StreamInv, OneStream, Holding, NothingBefore,
         Bootstrapping
<1>20. ASSUME NEW c \in Calls, CreateSlot(c), UNCHANGED daemonVars PROVE StreamInv'
  BY <1>0, <1>20, GotoAt, SourceAssumption, Zenon
     DEF CreateSlot, TypeOK, StreamInv, OneStream, Holding, NothingBefore, Bootstrapping
<1>21. ASSUME NEW c \in Calls, CreateFails(c), UNCHANGED daemonVars PROVE StreamInv'
  <2>1. OneStream' /\ Holding'
    BY <1>0, <1>21, ReturnsStream, Zenon DEF CreateFails, StreamInv
  <2>2. NothingBefore'
    BY <1>0, <1>21, Zenon DEF CreateFails, StreamInv, NothingBefore
  <2> QED
    BY <2>1, <2>2, Zenon DEF StreamInv
<1>22. ASSUME NEW c \in Calls, BootstrapFails(c), UNCHANGED daemonVars PROVE StreamInv'
  BY <1>0, <1>22, GotoAt, SourceAssumption, Zenon
     DEF BootstrapFails, TypeOK, StreamInv, OneStream, Holding, NothingBefore, Bootstrapping
<1>23. ASSUME NEW c \in Calls, HandOver(c), UNCHANGED daemonVars PROVE StreamInv'
  <2>1. mu = c /\ ~streaming /\ \A d \in Calls \ {c} : ~Bootstrapping(d) /\ ~conn[d]
    BY <1>0, <1>23, Zenon DEF HandOver, StreamInv, OneStream, Bootstrapping
  <2>2. /\ call'[c] = "live" /\ ~conn'[c] /\ mu' = NoCall
        /\ \A d \in Calls \ {c} : call'[d] = call[d] /\ conn'[d] = conn[d]
    BY <1>0, <1>23, <2>1, ReturnsAt, Zenon DEF HandOver, Returns
  <2>3. \A d \in Calls : ~Bootstrapping(d)' /\ ~conn'[d]
    BY <2>1, <2>2, Zenon DEF Bootstrapping
  <2>4. NothingBefore'
    BY <1>0, <1>23, Zenon DEF HandOver, StreamInv, NothingBefore
  <2> QED
    BY <2>2, <2>3, <2>4, SourceAssumption, Zenon DEF StreamInv, OneStream, Holding
<1>24. ASSUME NEW c \in Calls, DropSlot(c), UNCHANGED daemonVars PROVE StreamInv'
  <2>1. OneStream' /\ Holding'
    BY <1>0, <1>24, ReturnsStream, Zenon DEF DropSlot, StreamInv
  <2>2. NothingBefore'
    BY <1>0, <1>24, Zenon DEF DropSlot, StreamInv, NothingBefore
  <2> QED
    BY <2>1, <2>2, Zenon DEF StreamInv
<1>25. ASSUME NEW c \in Calls, SnapshotCancelled(c), UNCHANGED daemonVars PROVE StreamInv'
  <2>1. OneStream' /\ Holding'
    BY <1>0, <1>25, ReturnsStream, Zenon DEF SnapshotCancelled, StreamInv
  <2>2. NothingBefore'
    BY <1>0, <1>25, Zenon DEF SnapshotCancelled, StreamInv, NothingBefore
  <2> QED
    BY <2>1, <2>2, Zenon DEF StreamInv
<1>26. ASSUME NEW c \in Calls, Lock(c), UNCHANGED daemonVars PROVE StreamInv'
  <2>1. CASE stopped
    BY <1>0, <1>26, <2>1, ReturnsStream, Zenon DEF Lock, StreamInv, NothingBefore
  <2>2. CASE ~stopped /\ streaming
    <3>1. call'[c] = "snapshot" /\ (\A d \in Calls \ {c} : call'[d] = call[d]) /\ UNCHANGED <<mu, conn>>
      BY <1>0, <1>26, <2>2, GotoAt, Zenon DEF Lock, TypeOK
    <3> QED
      BY <1>0, <1>26, <2>2, <3>1, Zenon
         DEF Lock, StreamInv, OneStream, Holding, NothingBefore, Bootstrapping
  <2>3. CASE ~stopped /\ ~streaming
    <3>1. /\ call'[c] = "connect" /\ \A d \in Calls \ {c} : call'[d] = call[d]
          /\ call[c] = "lock" /\ mu = NoCall /\ mu' = c /\ UNCHANGED conn
      BY <1>0, <1>26, <2>3, GotoAt, Zenon DEF Lock, TypeOK
    <3>2. \A d \in Calls : ~Bootstrapping(d) /\ ~conn[d]
      BY <1>0, <3>1, SourceAssumption, Zenon DEF StreamInv, OneStream
    <3>3. OneStream' /\ Holding'
      BY <1>0, <1>26, <2>3, <3>1, <3>2, Zenon DEF Lock, OneStream, Holding, Bootstrapping
    <3>4. NothingBefore'
      BY <1>0, <1>26, Zenon DEF Lock, StreamInv, NothingBefore
    <3> QED
      BY <3>3, <3>4, Zenon DEF StreamInv
  <2> QED
    BY <2>1, <2>2, <2>3, Zenon
<1>27. ASSUME NEW c \in Calls, RowsSent(c), UNCHANGED daemonVars PROVE StreamInv'
  BY <1>0, <1>27, GotoAt, SourceAssumption, Zenon
     DEF RowsSent, TypeOK, StreamInv, OneStream, Holding, NothingBefore, Bootstrapping
<1>28. ASSUME NEW c \in Calls, SnapshotEnds(c), UNCHANGED daemonVars PROVE StreamInv'
  <2>1. OneStream' /\ Holding'
    BY <1>0, <1>28, ReturnsStream, Zenon DEF SnapshotEnds, StreamInv
  <2>2. NothingBefore'
    BY <1>0, <1>28, Zenon DEF SnapshotEnds, StreamInv, NothingBefore
  <2> QED
    BY <2>1, <2>2, Zenon DEF StreamInv
<1>29. ASSUME NEW c \in Calls, WatchEnds(c) PROVE StreamInv'
  BY <1>0, <1>29, GotoAt, SourceAssumption, Zenon
     DEF WatchEnds, TypeOK, StreamInv, OneStream, Holding, NothingBefore, Bootstrapping
<1>30. ASSUME NEW c \in Calls, WatchBegins(c) PROVE StreamInv'
  BY <1>0, <1>30, GotoAt, SourceAssumption, Zenon
     DEF WatchBegins, TypeOK, StreamInv, OneStream, Holding, NothingBefore, Bootstrapping
<1>31. ASSUME NEW c \in Calls, ClientLeaves(c) PROVE StreamInv'
  BY <1>0, <1>31, SourceAssumption, Zenon
     DEF ClientLeaves, TypeOK, StreamInv, OneStream, Holding, NothingBefore, Bootstrapping
<1>32. CASE UNCHANGED vars
  BY <1>0, <1>32, SourceAssumption, Zenon
     DEF StreamInv, OneStream, Holding, NothingBefore, Bootstrapping, vars
<1> QED
  BY <1>0, <1>1, <1>2, <1>3, <1>4, <1>5, <1>6, <1>7, <1>8, <1>9, <1>10, <1>11, <1>12,
     <1>13, <1>14, <1>15, <1>16, <1>17, <1>18, <1>19, <1>20, <1>21, <1>22, <1>23, <1>24,
     <1>25, <1>26, <1>27, <1>28, <1>29, <1>30, <1>31, <1>32, Zenon
     DEF Next, Main, MainFaults, SourceStep, SourceFaults, CallStep, LockStep, ClientStep

\* Every step leaves a created slot an owner.
LEMMA OwnerStep == TypeOK /\ StreamInv /\ SlotHasOwner /\ [Next]_vars => SlotHasOwner'
<1>0. SUFFICES ASSUME TypeOK, StreamInv, SlotHasOwner, [Next]_vars PROVE SlotHasOwner'
  BY Zenon
<1> USE DEF TypeOK, StreamInv, OneStream, NothingBefore, Bootstrapping, SlotHasOwner,
            sourceVars, daemonVars, runnerVars, lifeVars, callVars
<1>1. CASE StartSource
  BY <1>0, <1>1, Zenon DEF StartSource, Start, startRunLocked
<1>2. CASE SetServing
  BY <1>0, <1>2, Zenon DEF SetServing
<1>3. CASE Wakes
  BY <1>0, <1>3, Zenon DEF Wakes
<1>4. CASE StopHub
  BY <1>0, <1>4, Zenon DEF StopHub
<1>5. CASE Drained
  BY <1>0, <1>5, Zenon DEF Drained
<1>6. CASE DrainTimeout
  BY <1>0, <1>6, Zenon DEF DrainTimeout
<1>7. CASE StopSource
  BY <1>0, <1>7, Zenon DEF StopSource
<1>8. CASE ServeReturns
  BY <1>0, <1>8, Zenon DEF ServeReturns
<1>9. CASE StartFails
  BY <1>0, <1>9, Zenon DEF StartFails
<1>10. CASE ServerFails
  BY <1>0, <1>10, Zenon DEF ServerFails
<1>11. CASE Terminate
  BY <1>0, <1>11, Zenon DEF Terminate
<1>12. CASE ContextEnds /\ UNCHANGED daemonVars
  BY <1>0, <1>12, Zenon DEF ContextEnds, stopLocked
<1>13. CASE TakeStream /\ UNCHANGED daemonVars
  BY <1>0, <1>13, Zenon DEF TakeStream
<1>14. CASE RunStopped /\ UNCHANGED daemonVars
  BY <1>0, <1>14, Zenon DEF RunStopped
<1>15. CASE RunReports /\ UNCHANGED daemonVars
  BY <1>0, <1>15, Zenon DEF RunReports, stopLocked
<1>16. CASE RunFails /\ UNCHANGED daemonVars
  BY <1>0, <1>16, Zenon DEF RunFails
<1>17. CASE OtherCreatesSlot /\ UNCHANGED daemonVars
  BY <1>0, <1>17, Zenon DEF OtherCreatesSlot
<1>18. ASSUME NEW c \in Calls, Connect(c), UNCHANGED daemonVars PROVE SlotHasOwner'
  BY <1>0, <1>18, ReturnsAt, GotoAt, Zenon DEF Connect
<1>19. ASSUME NEW c \in Calls, SlotExists(c), UNCHANGED daemonVars PROVE SlotHasOwner'
  BY <1>0, <1>19, GotoAt, Zenon DEF SlotExists, startRunLocked
<1>20. ASSUME NEW c \in Calls, CreateSlot(c), UNCHANGED daemonVars PROVE SlotHasOwner'
  BY <1>0, <1>20, GotoAt, Zenon DEF CreateSlot
<1>21. ASSUME NEW c \in Calls, CreateFails(c), UNCHANGED daemonVars PROVE SlotHasOwner'
  BY <1>0, <1>21, ReturnsAt, GotoAt, Zenon DEF CreateFails
<1>22. ASSUME NEW c \in Calls, BootstrapFails(c), UNCHANGED daemonVars PROVE SlotHasOwner'
  BY <1>0, <1>22, GotoAt, Zenon DEF BootstrapFails
<1>23. ASSUME NEW c \in Calls, HandOver(c), UNCHANGED daemonVars PROVE SlotHasOwner'
  BY <1>0, <1>23, ReturnsAt, GotoAt, Zenon DEF HandOver, startRunLocked
<1>24. ASSUME NEW c \in Calls, DropSlot(c), UNCHANGED daemonVars PROVE SlotHasOwner'
  BY <1>0, <1>24, ReturnsAt, GotoAt, Zenon DEF DropSlot
<1>25. ASSUME NEW c \in Calls, SnapshotCancelled(c), UNCHANGED daemonVars PROVE SlotHasOwner'
  BY <1>0, <1>25, ReturnsAt, GotoAt, Zenon DEF SnapshotCancelled
<1>26. ASSUME NEW c \in Calls, Lock(c), UNCHANGED daemonVars PROVE SlotHasOwner'
  BY <1>0, <1>26, ReturnsAt, GotoAt, Zenon DEF Lock
<1>27. ASSUME NEW c \in Calls, RowsSent(c), UNCHANGED daemonVars PROVE SlotHasOwner'
  BY <1>0, <1>27, GotoAt, Zenon DEF RowsSent
<1>28. ASSUME NEW c \in Calls, SnapshotEnds(c), UNCHANGED daemonVars PROVE SlotHasOwner'
  BY <1>0, <1>28, ReturnsAt, GotoAt, Zenon DEF SnapshotEnds
<1>29. ASSUME NEW c \in Calls, WatchEnds(c) PROVE SlotHasOwner'
  BY <1>0, <1>29, GotoAt, Zenon DEF WatchEnds
<1>30. ASSUME NEW c \in Calls, WatchBegins(c) PROVE SlotHasOwner'
  BY <1>0, <1>30, GotoAt, Zenon DEF WatchBegins
<1>31. ASSUME NEW c \in Calls, ClientLeaves(c) PROVE SlotHasOwner'
  BY <1>0, <1>31, Zenon DEF ClientLeaves
<1>32. CASE UNCHANGED vars
  BY <1>0, <1>32, Zenon DEF vars
<1> QED
  BY <1>0, <1>1, <1>2, <1>3, <1>4, <1>5, <1>6, <1>7, <1>8, <1>9, <1>10, <1>11, <1>12,
     <1>13, <1>14, <1>15, <1>16, <1>17, <1>18, <1>19, <1>20, <1>21, <1>22, <1>23, <1>24,
     <1>25, <1>26, <1>27, <1>28, <1>29, <1>30, <1>31, <1>32, Zenon
     DEF Next, Main, MainFaults, SourceStep, SourceFaults, CallStep, LockStep, ClientStep

\* Every step keeps Serve's order and its reasons.
LEMMA ServeStep == TypeOK /\ StreamInv /\ ServeInv /\ [Next]_vars => ServeInv'
<1>0. SUFFICES ASSUME TypeOK, StreamInv, ServeInv, [Next]_vars PROVE ServeInv'
  BY Zenon
<1> USE DEF TypeOK, StreamInv, Holding, NothingBefore, Bootstrapping, ServeInv,
            DrainedBefore, ExitAfterCleanup, AskedBefore, RunHasReason, StopHasReason, sourceVars,
            daemonVars, runnerVars, lifeVars, callVars
<1>1. CASE StartSource
  BY <1>0, <1>1, Zenon DEF StartSource, Start, startRunLocked
<1>2. CASE SetServing
  BY <1>0, <1>2, Zenon DEF SetServing
<1>3. CASE Wakes
  BY <1>0, <1>3, Zenon DEF Wakes
<1>4. CASE StopHub
  BY <1>0, <1>4, Zenon DEF StopHub
<1>5. CASE Drained
  BY <1>0, <1>5, Zenon DEF Drained
<1>6. CASE DrainTimeout
  BY <1>0, <1>6, Zenon DEF DrainTimeout
<1>7. CASE StopSource
  BY <1>0, <1>7, Zenon DEF StopSource
<1>8. CASE ServeReturns
  BY <1>0, <1>8, Zenon DEF ServeReturns
<1>9. CASE StartFails
  BY <1>0, <1>9, Zenon DEF StartFails
<1>10. CASE ServerFails
  BY <1>0, <1>10, Zenon DEF ServerFails
<1>11. CASE Terminate
  BY <1>0, <1>11, Zenon DEF Terminate
<1>12. CASE ContextEnds /\ UNCHANGED daemonVars
  BY <1>0, <1>12, Zenon DEF ContextEnds, stopLocked
<1>13. CASE TakeStream /\ UNCHANGED daemonVars
  BY <1>0, <1>13, Zenon DEF TakeStream
<1>14. CASE RunStopped /\ UNCHANGED daemonVars
  BY <1>0, <1>14, Zenon DEF RunStopped
<1>15. CASE RunReports /\ UNCHANGED daemonVars
  BY <1>0, <1>15, Zenon DEF RunReports, stopLocked
<1>16. CASE RunFails /\ UNCHANGED daemonVars
  BY <1>0, <1>16, Zenon DEF RunFails
<1>17. CASE OtherCreatesSlot /\ UNCHANGED daemonVars
  BY <1>0, <1>17, Zenon DEF OtherCreatesSlot
<1>18. ASSUME NEW c \in Calls, Connect(c), UNCHANGED daemonVars PROVE ServeInv'
  BY <1>0, <1>18, ReturnsAt, GotoAt, Zenon DEF Connect
<1>19. ASSUME NEW c \in Calls, SlotExists(c), UNCHANGED daemonVars PROVE ServeInv'
  BY <1>0, <1>19, GotoAt, Zenon DEF SlotExists, startRunLocked
<1>20. ASSUME NEW c \in Calls, CreateSlot(c), UNCHANGED daemonVars PROVE ServeInv'
  BY <1>0, <1>20, GotoAt, Zenon DEF CreateSlot
<1>21. ASSUME NEW c \in Calls, CreateFails(c), UNCHANGED daemonVars PROVE ServeInv'
  BY <1>0, <1>21, ReturnsAt, GotoAt, Zenon DEF CreateFails
<1>22. ASSUME NEW c \in Calls, BootstrapFails(c), UNCHANGED daemonVars PROVE ServeInv'
  BY <1>0, <1>22, GotoAt, Zenon DEF BootstrapFails
<1>23. ASSUME NEW c \in Calls, HandOver(c), UNCHANGED daemonVars PROVE ServeInv'
  BY <1>0, <1>23, ReturnsAt, GotoAt, Zenon DEF HandOver, startRunLocked
<1>24. ASSUME NEW c \in Calls, DropSlot(c), UNCHANGED daemonVars PROVE ServeInv'
  BY <1>0, <1>24, ReturnsAt, GotoAt, Zenon DEF DropSlot
<1>25. ASSUME NEW c \in Calls, SnapshotCancelled(c), UNCHANGED daemonVars, serve # "returned"
       PROVE ServeInv'
  <2>1. call[c] # "idle"
    BY <1>25, Zenon DEF SnapshotCancelled
  <2>2. serve \notin {"drained", "waiting"}
    BY <1>0, <2>1, Zenon
  <2> QED
    BY <1>0, <1>25, <2>2, Zenon DEF SnapshotCancelled
<1>26. ASSUME NEW c \in Calls, Lock(c), UNCHANGED daemonVars, serve # "returned" PROVE ServeInv'
  <2>1. call[c] # "idle"
    BY <1>26, Zenon DEF Lock
  <2>2. serve \notin {"drained", "waiting"}
    BY <1>0, <2>1, Zenon
  <2> QED
    BY <1>0, <1>26, <2>2, Zenon DEF Lock
<1>27. ASSUME NEW c \in Calls, RowsSent(c), UNCHANGED daemonVars PROVE ServeInv'
  BY <1>0, <1>27, GotoAt, Zenon DEF RowsSent
<1>28. ASSUME NEW c \in Calls, SnapshotEnds(c), UNCHANGED daemonVars, serve # "returned"
       PROVE ServeInv'
  <2>1. call[c] # "idle"
    BY <1>28, Zenon DEF SnapshotEnds
  <2>2. serve \notin {"drained", "waiting"}
    BY <1>0, <2>1, Zenon
  <2> QED
    BY <1>0, <1>28, <2>2, Zenon DEF SnapshotEnds
<1>29. ASSUME NEW c \in Calls, WatchEnds(c) PROVE ServeInv'
  BY <1>0, <1>29, GotoAt, Zenon DEF WatchEnds
<1>30. ASSUME NEW c \in Calls, WatchBegins(c) PROVE ServeInv'
  BY <1>0, <1>30, GotoAt, Zenon DEF WatchBegins
<1>31. ASSUME NEW c \in Calls, ClientLeaves(c) PROVE ServeInv'
  BY <1>0, <1>31, Zenon DEF ClientLeaves
<1>32. CASE UNCHANGED vars
  BY <1>0, <1>32, Zenon DEF vars
<1> QED
  BY <1>0, <1>1, <1>2, <1>3, <1>4, <1>5, <1>6, <1>7, <1>8, <1>9, <1>10, <1>11, <1>12,
     <1>13, <1>14, <1>15, <1>16, <1>17, <1>18, <1>19, <1>20, <1>21, <1>22, <1>23, <1>24,
     <1>25, <1>26, <1>27, <1>28, <1>29, <1>30, <1>31, <1>32, Zenon
     DEF Next, Main, MainFaults, SourceStep, SourceFaults, CallStep, LockStep, ClientStep

\* The source and Serve as New leaves them.
LEMMA LifeInit == Init => LifeInv
<1> SUFFICES ASSUME Init PROVE LifeInv
  BY Zenon
<1> USE DEF Init, SourceInit
<1>1. TypeOK
  <2>1. slot \in Slots /\ orphan \in Orphans /\ srcErr \in Verdicts /\ run \in RunStates
        /\ runErr \in Verdicts
    BY SlotStatesHold, RunStatesHold, Zenon
  <2>2. call \in [Calls -> CallStates]
    BY CallStatesHold, Zenon
  <2>3. serve \in ServeStates /\ failure \in FailureKinds
    BY ServeStatesHold, Zenon
  <2>4. conn \in [Calls -> BOOLEAN] /\ ctxDone \in [Calls -> BOOLEAN]
    BY Zenon
  <2>5. faults \in Nat
    OBVIOUS
  <2> QED
    BY <2>1, <2>2, <2>3, <2>4, <2>5, Zenon DEF TypeOK
<1>2. StreamInv
  BY SourceAssumption, Zenon DEF StreamInv, OneStream, Holding, NothingBefore, Bootstrapping
<1>3. SlotHasOwner
  BY Zenon DEF SlotHasOwner
<1>4. ServeInv
  BY Zenon
     DEF ServeInv, DrainedBefore, ExitAfterCleanup, AskedBefore, RunHasReason, StopHasReason
<1> QED
  BY <1>1, <1>2, <1>3, <1>4, Zenon DEF LifeInv

\* LifeInv is inductive: it holds whatever the calls, the source's goroutines and
\* Serve do, in any order.
THEOREM LifeInvAlways == Spec => []LifeInv
<1>1. LifeInv /\ [Next]_vars => LifeInv'
  BY TypeStep, StreamStep, OwnerStep, ServeStep, Zenon DEF LifeInv
<1> QED
  BY <1>1, LifeInit, PTL DEF Spec

\* The variables of the source and of Serve keep their types.
THEOREM LifecycleTyped == Spec => []TypeOK
  BY LifeInvAlways, PTL DEF LifeInv

\* However many calls race to bootstrap (source.go's mutex), one at most holds a
\* replication connection, and none does once Run streams.
THEOREM OneStreamAlways == Spec => []OneStream
<1>1. LifeInv => OneStream
  BY Zenon DEF LifeInv, StreamInv
<1> QED
  BY <1>1, LifeInvAlways, PTL

\* A slot Bootstrap created is never left without a call or a Run that owns it, but
\* for the two ways bootstrap.go cannot prevent.
THEOREM SlotHasOwnerAlways == Spec => []SlotHasOwner
  BY LifeInvAlways, PTL DEF LifeInv

\* Serve returns only after every call has finished its bootstrap, its cleanup included.
THEOREM ExitAfterCleanupAlways == Spec => []ExitAfterCleanup
<1>1. LifeInv => ExitAfterCleanup
  BY Zenon DEF LifeInv, ServeInv
<1> QED
  BY <1>1, LifeInvAlways, PTL

\* Serve returns nil only if its context was done.
THEOREM CleanExitWasAskedAlways == Spec => []CleanExitWasAsked
<1>1. LifeInv => CleanExitWasAsked
  BY Zenon DEF LifeInv, ServeInv, AskedBefore, CleanExitWasAsked
<1> QED
  BY <1>1, LifeInvAlways, PTL

\* The source reports that it stopped only with Run's error or after Serve stopped it.
THEOREM StopHasReasonAlways == Spec => []StopHasReason
<1>1. LifeInv => StopHasReason
  BY Zenon DEF LifeInv, ServeInv
<1> QED
  BY <1>1, LifeInvAlways, PTL
================================================================================
