----------------------------- MODULE RetentionPolicy ---------------------------
(*******************************************************************************)
(* internal/cdc/retention_policy.go and retention.go: the stage of the policy  *)
(* that bounds the WAL PostgreSQL retains for the slot.  Fractions of the      *)
(* budget are in hundredths.                                                   *)
(*******************************************************************************)
EXTENDS Integers

retentionOK == 0
retentionWarn == 1
retentionDegrade == 2
retentionTerminal == 3
RetentionStates == retentionOK..retentionTerminal
retentionHysteresis == 5

\* ratio >= fraction
Reaches(retained, budget, fraction) == 100 * retained >= fraction * budget

Threshold(state, warn, degrade) == IF state = retentionDegrade THEN degrade ELSE warn

\* The highest state whose threshold the sample reaches, short of the budget.
TargetState(retained, budget, warn, degrade) ==
    IF Reaches(retained, budget, degrade) THEN retentionDegrade
    ELSE IF Reaches(retained, budget, warn) THEN retentionWarn
    ELSE retentionOK

\* The sample is not far enough below the state's threshold to leave it.
Kept(state, retained, budget, warn, degrade) ==
    Reaches(retained, budget, Threshold(state, warn, degrade) - retentionHysteresis)

\* Mutant of Ignored: the terminal state can be left.
IgnoredUnlessSampled(current, retained, budget) == budget <= 0 \/ retained < 0

\* There is no budget or no sample, or the state is final.
Ignored(current, retained, budget) ==
    budget <= 0 \/ retained < 0 \/ current = retentionTerminal

\* The loop that lowers current one state at a time stops at the first state that
\* is kept or is the target.
nextRetentionState(current, retained, budget, warn, degrade) ==
    LET target == TargetState(retained, budget, warn, degrade)
        Stays(s) == s <= target \/ Kept(s, retained, budget, warn, degrade)
        fallen == CHOOSE s \in RetentionStates :
                      /\ s <= current /\ Stays(s)
                      /\ \A t \in RetentionStates : t <= current /\ Stays(t) => t <= s
    IN  IF Ignored(current, retained, budget) THEN current
        ELSE IF Reaches(retained, budget, 100) THEN retentionTerminal
        ELSE IF fallen > target THEN fallen ELSE target

\* The stricter of the configured budget and max_slot_wal_keep_size.
effectiveRetentionBudget(configured, server, unbounded) ==
    IF unbounded \/ server >= configured THEN configured ELSE server
================================================================================
