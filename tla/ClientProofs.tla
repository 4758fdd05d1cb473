------------------------------ MODULE ClientProofs -----------------------------
(*******************************************************************************)
(* Properties of module Client, for any keys and bounds: Sync does not retry   *)
(* in a loop without waiting, a snapshot is never half visible, the store can  *)
(* always be continued from its cursor, and the types hold.                    *)
(*******************************************************************************)
EXTENDS Client, WellFoundedInduction, TLAPS

\* Why a third retry cannot be immediate: an immediate retry forces a snapshot, with
\* which a refused cursor is final, and a second one has counted its resync.  A wait
\* and a return begin a new count.
SpinInv ==
    /\ spins \in 0..2 /\ resyncs \in 0..3
    /\ snapshot \in BOOLEAN /\ progressed \in BOOLEAN
    /\ pc \in {"waiting", "returned"} => spins = 0
    /\ spins >= 1 => snapshot
    /\ spins = 2 => resyncs >= 1

\* The end of a stream, whatever its error, keeps the count of immediate retries.
LEMMA EndsSpin == ASSUME NEW err PROVE SpinInv /\ Ends(err) => SpinInv'
<1> SUFFICES ASSUME SpinInv, Ends(err) PROVE SpinInv'
  OBVIOUS
<1>1. progressed' = progressed
  BY DEF Ends
<1>2. CASE cancelled \/ Terminal(err)
  BY <1>1, <1>2 DEF SpinInv, Ends
<1>3. CASE ~(cancelled \/ Terminal(err)) /\ ~RetryNow(err)
  <2>1. spins' = 0 /\ pc' = "waiting" /\ snapshot' \in BOOLEAN
    BY <1>3 DEF Ends, ForcesSnapshot
  <2>2. resyncs' \in 0..3
    BY <1>3 DEF Ends, SpinInv, Counted
  <2> QED
    BY <1>1, <2>1, <2>2 DEF SpinInv
<1>4. CASE ~(cancelled \/ Terminal(err)) /\ RetryNow(err)
  <2>1. pc' = "loop" /\ snapshot' = TRUE
    BY <1>4 DEF Ends, RetryNow, ForcesSnapshot
  <2>2. resyncs' \in 0..3
    BY <1>4 DEF Ends, SpinInv, Counted
  <2>3. CASE progressed
    BY <1>1, <1>4, <2>1, <2>2, <2>3 DEF Ends, SpinInv
  <2>4. CASE ~progressed /\ err = "InvalidArgument"
    <3>1. ~snapshot
      BY <1>4, <2>4 DEF Terminal, IsPermanent
    <3>2. spins = 0
      BY <3>1 DEF SpinInv
    <3>3. spins' = Counted(spins)
      BY <1>4, <2>4 DEF Ends
    <3>4. spins' = 1
      BY <3>2, <3>3 DEF Counted
    <3> QED
      BY <1>1, <2>1, <2>2, <3>4 DEF SpinInv
  <2>5. CASE ~progressed /\ err = "resync" /\ Counted(resyncs) = 1
    <3>1. resyncs = 0 /\ spins # 2
      BY <2>5 DEF SpinInv, Counted
    <3>2. resyncs' = 1 /\ spins' \in 1..2
      BY <1>4, <2>5, <3>1 DEF Ends, SpinInv, Counted
    <3> QED
      BY <1>1, <2>1, <3>2 DEF SpinInv
  <2> QED
    BY <1>4, <2>3, <2>4, <2>5 DEF RetryNow, SpinInv
<1> QED
  BY <1>2, <1>3, <1>4

\* Every step of the client keeps the count of immediate retries.
LEMMA SpinStep == SpinInv /\ [Next]_vars => SpinInv'
<1> SUFFICES ASSUME SpinInv, [Next]_vars PROVE SpinInv'
  OBVIOUS
<1>1. CASE UNCHANGED <<spins, resyncs, snapshot, progressed, pc>>
  BY <1>1 DEF SpinInv
<1>2. CASE \E err : Ends(err)
  BY <1>2, EndsSpin
<1>3. CASE OpenStream \/ Waited
  <2>1. UNCHANGED <<spins, resyncs, snapshot>>
    BY <1>3 DEF OpenStream, Waited, ghostVars
  <2>2. progressed' \in BOOLEAN
    BY <1>3 DEF OpenStream, Waited, SpinInv
  <2>3. pc' \in {"waiting", "returned"} => pc = "waiting"
    BY <1>3 DEF OpenStream, Waited
  <2> QED
    BY <2>1, <2>2, <2>3 DEF SpinInv
<1>4. CASE Crash \/ SyncAgain
  <2>1. spins' = 0
    BY <1>4 DEF Crash, SyncAgain, SpinInv
  <2>2. resyncs' \in 0..3
    BY <1>4 DEF Crash, SyncAgain, SpinInv
  <2>3. snapshot' \in BOOLEAN /\ progressed' \in BOOLEAN
    BY <1>4, Zenon DEF Crash, SyncAgain, SpinInv
  <2> QED
    BY <2>1, <2>2, <2>3 DEF SpinInv
<1>5. CASE Progress
  BY <1>5 DEF Progress, SpinInv, ghostVars
<1>6. CASE UNCHANGED vars
  BY <1>1, <1>6 DEF vars, syncVars, ghostVars
<1>7. CASE Commit \/ HubAccepts \/ HubEvicts \/ Cancel
  BY <1>1, <1>7 DEF Commit, HubAccepts, HubEvicts, Cancel, syncVars, ghostVars
<1>8. CASE Resumed \/ SnapshotBegin \/ SnapshotRows \/ SnapshotEnd \/ Batch
  BY <1>1, <1>8 DEF Resumed, SnapshotBegin, SnapshotRows, SnapshotEnd, Batch, syncVars, ghostVars
<1>9. CASE Resync \/ WatchFails \/ Broken \/ StoreFails
  BY <1>2, <1>9 DEF Resync, WatchFails, Broken, StoreFails
<1>10. CASE Interrupted \/ RefuseCursor \/ CursorUnavailable
  BY <1>2, <1>10 DEF Interrupted, RefuseCursor, CursorUnavailable
<1> QED
  BY <1>3, <1>4, <1>5, <1>6, <1>7, <1>8, <1>9, <1>10, Zenon DEF Next, SyncStep

\* Sync never retries more than twice in a row without a wait, progress or return
\* between, whatever the server answers (retryNow in Sync).
THEOREM NoSpinAlways == Spec => []NoSpin
<1>1. Init => SpinInv
  <2> SUFFICES ASSUME Init PROVE SpinInv
    OBVIOUS
  <2>1. spins = 0 /\ resyncs = 0
    BY DEF Init
  <2>2. snapshot \in BOOLEAN /\ progressed \in BOOLEAN
    BY Zenon DEF Init
  <2> QED
    BY <2>1, <2>2 DEF SpinInv
<1>2. SpinInv => NoSpin
  BY DEF SpinInv, NoSpin
<1> QED
  BY <1>1, <1>2, SpinStep, PTL DEF Spec

--------------------------------------------------------------------------------
\* The writer of an open snapshot holds the source's rows at the snapshot's position,
\* except the ones still to come; and positions are in the log.
SnapshotInv ==
    /\ log \in Seq(Changes) /\ accepted \in 0..Len(log)
    /\ base \in Int /\ cursor \in Int /\ sent \in Nat
    /\ phase = "rows" =>
          /\ base \in 0..Len(log) /\ pending \subseteq Keys
          /\ writer = [k \in Keys |-> IF k \in pending THEN NoRow ELSE Source(base)[k]]

\* A step that changes the rows, allowed by NoHalfSnapshot.
WholeRows ==
    \/ \E n \in 1..Len(log) : rows' = Applied(rows, n)
    \/ \E n \in 0..Len(log) : rows' = Source(n)

\* A set of transactions of the log has a last one.
LEMMA LatestIn ==
    ASSUME NEW n \in Nat, NEW S, S \subseteq 1..n, S # {}
    PROVE  Latest(S) \in S /\ \A l \in S : l <= Latest(S)
<1> DEFINE R == OpToRel(<, Nat)
           T == {n - m : m \in S}
<1>1. IsWellFoundedOn(R, Nat)
  BY NatLessThanWellFounded
<1>2. T \subseteq Nat /\ T # {}
  <2>1. ASSUME NEW m \in S PROVE n - m \in Nat
    <3>1. m \in 1..n
      OBVIOUS
    <3> QED
      BY <3>1
  <2>2. T \subseteq Nat
    BY <2>1
  <2>3. PICK m : m \in S
    OBVIOUS
  <2>4. n - m \in T
    BY <2>3
  <2> QED
    BY <2>2, <2>4
<1>3. PICK x \in T : \A y \in T : <<y, x>> \notin R
  <2> HIDE DEF R, T
  <2> QED
    BY <1>1, <1>2, WFMin
<1>4. PICK m \in S : x = n - m
  OBVIOUS
<1>5. \A y \in T : ~(y < x)
  BY <1>2, <1>3 DEF OpToRel
<1>6. ASSUME NEW l \in S PROVE l <= m
  <2>1. n - l \in T
    OBVIOUS
  <2>2. ~(n - l < n - m)
    BY <1>4, <1>5, <2>1
  <2> QED
    BY <2>2
<1> QED
  BY <1>6 DEF Latest

\* A commit does not change what the rows were at an earlier position.
LEMMA SourceKept ==
    ASSUME NEW change \in Changes, log \in Seq(Changes), log' = Append(log, change),
           NEW n \in 0..Len(log)
    PROVE  Source(n)' = Source(n)
<1>1. \A m \in 1..n : log'[m] = log[m]
  OBVIOUS
<1>2. ASSUME NEW k \in Keys
      PROVE  {m \in 1..n : log'[m].key = k} = {m \in 1..n : log[m].key = k}
  BY <1>1, Zenon
<1>3. ASSUME NEW k \in Keys PROVE Written(k, n)' = Written(k, n)
  BY <1>1, Zenon DEF Written
<1>4. ASSUME NEW k \in Keys PROVE Source(n)'[k] = Source(n)[k]
  <2> DEFINE touched == {m \in 1..n : log[m].key = k}
             now == {m \in 1..n : log'[m].key = k}
  <2>1. now = touched
    BY <1>2
  <2>2. CASE touched = {}
    BY <2>1, <2>2, Zenon DEF Source
  <2>3. CASE touched # {}
    <3>1. Latest(touched) \in touched
      BY <2>3, LatestIn, n \in Nat
    <3>2. log'[Latest(now)] = log[Latest(touched)]
      BY <1>1, <2>1, <3>1
    <3> QED
      BY <1>3, <2>1, <3>2, Zenon DEF Source
  <2> QED
    BY <2>2, <2>3
<1> QED
  BY <1>4, Zenon DEF Source

\* A session that ends, by an error or with its process, leaves no snapshot open.
LEMMA EndsSnapshot ==
    ASSUME SnapshotInv, phase' = "closed", base' = NoCursor, sent' = 0, sourceVars' = sourceVars,
           cursor' = cursor
    PROVE  SnapshotInv'
BY DEF SnapshotInv, NoCursor, sourceVars

\* A step that leaves the source's past and the open snapshot alone.
LEMMA SameSnapshot ==
    ASSUME SnapshotInv, sourceVars' = sourceVars, sessionVars' = sessionVars, writer' = writer,
           cursor' = cursor
    PROVE  SnapshotInv'
<1>1. UNCHANGED <<log, accepted, phase, base, sent, pending, writer, cursor>>
  BY DEF sourceVars, sessionVars
<1>2. Source(base)' = Source(base)
  BY <1>1, Zenon DEF Source, Written
<1> QED
  BY <1>1, <1>2 DEF SnapshotInv

\* SnapshotInv is inductive.
LEMMA SnapshotStep == SnapshotInv /\ [Next]_vars => SnapshotInv'
<1> SUFFICES ASSUME SnapshotInv, [Next]_vars PROVE SnapshotInv'
  OBVIOUS
<1>1. CASE UNCHANGED vars
  BY <1>1, SameSnapshot DEF vars, storeVars
<1>2. CASE Commit
  <2>1. PICK change \in Changes : log' = Append(log, change)
    BY <1>2 DEF Commit
  <2>2. UNCHANGED <<accepted, phase, base, sent, pending, writer, cursor>>
    BY <1>2 DEF Commit, sessionVars, storeVars
  <2>3. log' \in Seq(Changes) /\ Len(log') = Len(log) + 1
    BY <2>1 DEF SnapshotInv
  <2>4. phase = "rows" => Source(base)' = Source(base)
    <3> SUFFICES ASSUME phase = "rows" PROVE Source(base)' = Source(base)
      OBVIOUS
    <3>1. base \in 0..Len(log) /\ log \in Seq(Changes) /\ base' = base
      BY <2>2 DEF SnapshotInv
    <3> QED
      BY <2>1, <3>1, SourceKept
  <2> QED
    BY <2>2, <2>3, <2>4 DEF SnapshotInv
<1>3. CASE HubAccepts
  <2>1. UNCHANGED <<log, phase, base, sent, pending, writer, cursor>>
    BY <1>3 DEF HubAccepts, sessionVars, storeVars
  <2>2. accepted' \in 0..Len(log)
    BY <1>3 DEF HubAccepts, SnapshotInv
  <2>3. Source(base)' = Source(base)
    BY <2>1, Zenon DEF Source, Written
  <2> QED
    BY <2>1, <2>2, <2>3 DEF SnapshotInv
<1>4. CASE HubEvicts
  BY <1>4 DEF HubEvicts, SnapshotInv, sessionVars, storeVars, Source, Written
<1>5. CASE Cancel \/ SyncAgain \/ Waited
  BY <1>5, SameSnapshot DEF Cancel, SyncAgain, Waited, storeVars
<1>6. CASE Crash
  BY <1>6, EndsSnapshot DEF Crash, storeVars
<1>7. CASE Resync \/ WatchFails \/ Broken \/ StoreFails
  BY <1>7, EndsSnapshot DEF Resync, WatchFails, Broken, StoreFails, Ends, storeVars
<1>8. CASE Interrupted \/ RefuseCursor \/ CursorUnavailable
  BY <1>8, EndsSnapshot DEF Interrupted, RefuseCursor, CursorUnavailable, Ends, storeVars
<1>9. CASE OpenStream
  BY <1>9 DEF OpenStream, SnapshotInv, sourceVars, storeVars, NoCursor
<1>10. CASE Resumed
  BY <1>10 DEF Resumed, SnapshotInv, sourceVars, storeVars
<1>11. CASE SnapshotBegin
  <2>1. UNCHANGED <<log, accepted, cursor>> /\ base' = Len(log) /\ sent' = Len(log)
    BY <1>11 DEF SnapshotBegin, sourceVars, storeVars
  <2>2. Source(base)' = Source(Len(log))
    BY <2>1 DEF Source, Written
  <2>3. pending' = {k \in Keys : Source(Len(log))[k] # NoRow} /\ writer' = NoRows
    BY <1>11 DEF SnapshotBegin
  <2>4. writer' = [k \in Keys |-> IF k \in pending' THEN NoRow ELSE Source(base)'[k]]
    BY <2>2, <2>3, Zenon DEF NoRows
  <2> QED
    BY <2>1, <2>3, <2>4 DEF SnapshotInv
<1>12. CASE SnapshotRows
  <2>1. phase = "rows" /\ UNCHANGED <<log, accepted, phase, base, sent, cursor>>
    BY <1>12 DEF SnapshotRows, sourceVars, storeVars
  <2>2. Source(base)' = Source(base)
    BY <2>1 DEF Source, Written
  <2>3. PICK k \in pending : /\ pending' = pending \ {k}
                             /\ writer' = [writer EXCEPT ![k] = Source(base)[k]]
    BY <1>12 DEF SnapshotRows
  <2>4. writer = [j \in Keys |-> IF j \in pending THEN NoRow ELSE Source(base)[j]]
    BY <2>1 DEF SnapshotInv
  <2>5. k \in Keys
    BY <2>1 DEF SnapshotInv
  <2>6. writer' = [j \in Keys |-> IF j \in pending' THEN NoRow ELSE Source(base)[j]]
    BY <2>3, <2>4, <2>5
  <2> QED
    BY <2>1, <2>2, <2>3, <2>6 DEF SnapshotInv
<1>13. CASE SnapshotEnd
  BY <1>13 DEF SnapshotEnd, SnapshotInv, sourceVars, NoCursor
<1>14. CASE Batch
  BY <1>14 DEF Batch, SnapshotInv, sourceVars
<1>15. CASE Progress
  BY <1>15 DEF Progress, SnapshotInv, sourceVars, LivePosition
<1> QED
  BY <1>1, <1>2, <1>3, <1>4, <1>5, <1>6, <1>7, <1>8, <1>9, <1>10, <1>11, <1>12, <1>13, <1>14,
     <1>15, Zenon DEF Next, SyncStep

\* Only a committed snapshot and an applied batch change the rows, and each to rows the
\* source justifies.
LEMMA RowsStep == SnapshotInv /\ [Next]_vars => (rows' # rows => WholeRows)
<1> SUFFICES ASSUME SnapshotInv, Next, rows' # rows PROVE WholeRows
  BY DEF vars, storeVars
<1>1. CASE SnapshotEnd
  <2>1. rows' = writer /\ base \in 0..Len(log) /\ pending = {}
    BY <1>1 DEF SnapshotEnd, SnapshotInv
  <2>2. writer = [k \in Keys |-> Source(base)[k]]
    BY <1>1 DEF SnapshotEnd, SnapshotInv
  <2>3. writer = Source(base)
    BY <2>2 DEF Source
  <2> QED
    BY <2>1, <2>3 DEF WholeRows
<1>2. CASE Batch
  <2>1. rows' = Applied(rows, sent + 1) /\ sent + 1 \in 1..Len(log)
    BY <1>2 DEF Batch, SnapshotInv
  <2> QED
    BY <2>1 DEF WholeRows
<1>3. CASE Commit \/ HubAccepts \/ HubEvicts \/ Cancel \/ Crash \/ SyncAgain
  BY <1>3 DEF Commit, HubAccepts, HubEvicts, Cancel, Crash, SyncAgain, storeVars
<1>4. CASE Resync \/ WatchFails \/ Broken \/ StoreFails
  BY <1>4 DEF Resync, WatchFails, Broken, StoreFails, storeVars
<1>5. CASE Interrupted \/ RefuseCursor \/ CursorUnavailable \/ OpenStream \/ Waited
  BY <1>5 DEF Interrupted, RefuseCursor, CursorUnavailable, OpenStream, Waited, storeVars
<1>6. CASE Resumed \/ SnapshotBegin \/ SnapshotRows \/ Progress
  BY <1>6 DEF Resumed, SnapshotBegin, SnapshotRows, Progress, storeVars
<1> QED
  BY <1>1, <1>2, <1>3, <1>4, <1>5, <1>6, Zenon DEF Next, SyncStep

\* A reader of the store never sees a half-installed snapshot: rows change by one committed
\* transaction or to the source's rows at one position, however streams break, the process
\* dies or the hub asks for another snapshot midway (SnapshotWriter and Store.Apply).
THEOREM NoHalfSnapshotAlways == Spec => NoHalfSnapshot
<1>1. Init => SnapshotInv
  BY DEF Init, SnapshotInv, NoCursor, Foreign
<1>2. SnapshotInv /\ [Next]_vars => [rows' # rows => WholeRows]_vars
  BY RowsStep
<1> QED
  BY <1>1, <1>2, SnapshotStep, PTL DEF Spec, NoHalfSnapshot, WholeRows

--------------------------------------------------------------------------------
(* Recoverable: what is stored can be continued from                           *)

\* The transactions after a, up to b, that touch a row.
Touched(k, a, b) == {m \in (a + 1)..b : log[m].key = k}
\* Those of them that write its second column.
Wrote(k, a, b) == {m \in (a + 1)..b : log[m].key = k /\ ~log[m].unchanged}

\* Rows that become the source's when the transactions after c are applied: a row that
\* none of them touches is the source's already, and a column that none of the ones
\* that touch the row writes has the value the source kept.  The rest is overwritten,
\* so rows later than c qualify too: that is why replaying a transaction is harmless.
Good(rs, c) ==
    /\ c \in 0..Len(log)
    /\ rs = [k \in Keys |-> rs[k]]
    /\ \A k \in Keys :
          /\ Touched(k, c, Len(log)) = {} => rs[k] = Source(Len(log))[k]
          /\ Touched(k, c, Len(log)) # {} /\ Wrote(k, c, Len(log)) = {} =>
                rs[k].big = Latest(Written(k, Len(log)))

\* What the producers checked for every transaction when they committed it.
LogOK ==
    /\ log \in Seq(Changes)
    /\ \A n \in 1..Len(log) :
         /\ log[n].op = "insert" <=> Source(n - 1)[log[n].key] = NoRow
         /\ log[n].unchanged => log[n].op = "update"

\* A set of transactions of the log has a first one.
LEMMA EarliestIn ==
    ASSUME NEW S, S \subseteq Nat, S # {}
    PROVE  \E m \in S : \A l \in S : m <= l
<1> DEFINE R == OpToRel(<, Nat)
<1>1. IsWellFoundedOn(R, Nat)
  BY NatLessThanWellFounded
<1>2. PICK x \in S : \A y \in S : <<y, x>> \notin R
  <2> HIDE DEF R
  <2> QED
    BY <1>1, WFMin
<1>3. \A y \in S : ~(y < x)
  BY <1>2 DEF OpToRel
<1> QED
  BY <1>3

\* The last of a set is its greatest.
LEMMA LatestIs ==
    ASSUME NEW S, S \subseteq Nat, NEW m \in S, \A l \in S : l <= m
    PROVE  Latest(S) = m
<1>1. Latest(S) \in S /\ \A l \in S : l <= Latest(S)
  BY DEF Latest
<1>2. Latest(S) <= m /\ m <= Latest(S) /\ Latest(S) \in Nat /\ m \in Nat
  BY <1>1
<1> QED
  BY <1>2

\* The row a key has after n transactions, by whether and how they touch it.
LEMMA SourceIs ==
    ASSUME NEW k \in Keys, NEW n \in Nat
    PROVE  /\ Touched(k, 0, n) = {} => Source(n)[k] = NoRow
           /\ Touched(k, 0, n) # {} /\ log[Latest(Touched(k, 0, n))].op = "delete" => Source(n)[k] = NoRow
           /\ Touched(k, 0, n) # {} /\ log[Latest(Touched(k, 0, n))].op # "delete" =>
                Source(n)[k] = [small |-> Latest(Touched(k, 0, n)), big |-> Latest(Written(k, n))]
<1>1. Touched(k, 0, n) = {m \in 1..n : log[m].key = k}
  BY DEF Touched
<1> QED
  BY <1>1, Zenon DEF Source

\* Transactions that do not touch a key, or do not write its second column.
LEMMA Untouched ==
    ASSUME NEW k \in Keys, NEW a \in Nat, NEW b \in Nat, a <= b
    PROVE  /\ Touched(k, a, b) = {} => Touched(k, 0, b) = Touched(k, 0, a) /\ Wrote(k, a, b) = {}
           /\ Wrote(k, a, b) = {} => Written(k, b) = Written(k, a)
           /\ Touched(k, a, b) = {} => Source(b)[k] = Source(a)[k]
<1>1. Touched(k, a, b) = {} => Touched(k, 0, b) = Touched(k, 0, a) /\ Wrote(k, a, b) = {}
  BY DEF Touched, Wrote
<1>2. Wrote(k, a, b) = {} => Written(k, b) = Written(k, a)
  BY DEF Wrote, Written
<1>3. Touched(k, a, b) = {} => Source(b)[k] = Source(a)[k]
  <2>1. /\ Touched(k, 0, a) = {m \in 1..a : log[m].key = k}
        /\ Touched(k, 0, b) = {m \in 1..b : log[m].key = k}
    BY DEF Touched
  <2> QED
    BY <1>1, <1>2, <2>1, Zenon DEF Source
<1> QED
  BY <1>1, <1>2, <1>3

\* What one change does to a row; a row that is missing has nothing to keep.
LEMMA AppliedIs ==
    ASSUME LogOK, NEW rs, rs = [k \in Keys |-> rs[k]], NEW n \in 1..Len(log)
    PROVE  /\ Applied(rs, n) = [k \in Keys |-> Applied(rs, n)[k]]
           /\ log[n].key \in Keys
           /\ \A k \in Keys \ {log[n].key} : Applied(rs, n)[k] = rs[k]
           /\ log[n].op = "delete" => Applied(rs, n)[log[n].key] = NoRow
           /\ log[n].op # "delete" =>
                /\ Applied(rs, n)[log[n].key].small = n
                /\ Applied(rs, n)[log[n].key] =
                      [small |-> n, big |-> IF log[n].unchanged THEN rs[log[n].key].big ELSE n]
<1> DEFINE k == log[n].key
           row == IF log[n].op = "delete" THEN NoRow
                  ELSE [small |-> n, big |-> IF log[n].unchanged THEN Kept(rs[k]) ELSE n]
<1>1. k \in Keys
  <2>1. log[n] \in Changes
    BY DEF LogOK
  <2> QED
    BY <2>1 DEF Changes
<1>2. Applied(rs, n) = [rs EXCEPT ![k] = row]
  BY DEF Applied
<1>3. Kept(rs[k]) = rs[k].big
  BY DEF Kept, NoRow, Missing
<1>4. row = IF log[n].op = "delete" THEN NoRow
            ELSE [small |-> n, big |-> IF log[n].unchanged THEN rs[k].big ELSE n]
  BY <1>3
<1>5. Applied(rs, n)[k] = row /\ \A j \in Keys \ {k} : Applied(rs, n)[j] = rs[j]
  <2> HIDE DEF row
  <2> QED
    BY <1>1, <1>2
<1>6. Applied(rs, n) = [j \in Keys |-> Applied(rs, n)[j]]
  <2> HIDE DEF row
  <2> QED
    BY <1>1, <1>2
<1>7. log[n].op # "delete" => Applied(rs, n)[k] = [small |-> n, big |-> IF log[n].unchanged THEN rs[k].big ELSE n]
  BY <1>4, <1>5, Zenon
<1>8. log[n].op = "delete" => Applied(rs, n)[k] = NoRow
  BY <1>4, <1>5, Zenon
<1>9. log[n].op # "delete" => Applied(rs, n)[k].small = n
  BY <1>7
<1> QED
  BY <1>1, <1>5, <1>6, <1>7, <1>8, <1>9, Zenon

\* A key's last transaction is among the ones after a, if there are any.
LEMMA LatestTouched ==
    ASSUME NEW k \in Keys, NEW a \in Nat, NEW b \in Nat, Touched(k, a, b) # {}
    PROVE  Latest(Touched(k, 0, b)) \in Touched(k, a, b)
<1>1. Touched(k, a, b) \subseteq Touched(k, 0, b) /\ Touched(k, 0, b) \subseteq 1..b
  BY DEF Touched
<1>2. Latest(Touched(k, 0, b)) \in Touched(k, 0, b)
  BY <1>1, LatestIn
<1>3. PICK m \in Touched(k, a, b) : TRUE
  OBVIOUS
<1>4. \A l \in Touched(k, 0, b) : l <= Latest(Touched(k, 0, b))
  BY <1>1, LatestIn
<1>5. m <= Latest(Touched(k, 0, b))
  BY <1>1, <1>4
<1> QED
  BY <1>2, <1>5 DEF Touched

\* A key that is only updated without its second column has a row, before and after.
LEMMA OnlyUpdates ==
    ASSUME LogOK, NEW k \in Keys, NEW a \in Nat, NEW b \in 0..Len(log), a <= b,
           Touched(k, a, b) # {}, Wrote(k, a, b) = {}
    PROVE  /\ Source(a)[k] # NoRow
           /\ Source(b)[k].big = Latest(Written(k, b))
<1>1. \A m \in Touched(k, a, b) : m \in 1..Len(log) /\ log[m].key = k /\ log[m].op = "update"
  <2> SUFFICES ASSUME NEW m \in Touched(k, a, b)
               PROVE  m \in 1..Len(log) /\ log[m].key = k /\ log[m].op = "update"
    OBVIOUS
  <2>1. m \in (a + 1)..b /\ log[m].key = k
    BY DEF Touched
  <2>2. Len(log) \in Nat
    BY DEF LogOK
  <2>3. m \in 1..Len(log)
    BY <2>1, <2>2
  <2>4. log[m].unchanged
    BY <2>1, Zenon DEF Wrote
  <2>5. log[m].op = "update"
    BY <2>3, <2>4, Zenon DEF LogOK
  <2> QED
    BY <2>1, <2>3, <2>5
<1>2. Source(a)[k] # NoRow
  <2>1. Touched(k, a, b) \subseteq Nat
    BY DEF Touched
  <2>2. PICK m \in Touched(k, a, b) : \A l \in Touched(k, a, b) : m <= l
    BY <2>1, EarliestIn
  <2>3. m \in (a + 1)..b
    BY DEF Touched
  <2>4. Touched(k, a, m - 1) = {}
    BY <2>2, <2>3 DEF Touched
  <2>5. Source(m - 1)[k] = Source(a)[k]
    BY <2>3, <2>4, Untouched
  <2>6. log[m].op # "insert"
    BY <1>1
  <2>7. Source(m - 1)[k] # NoRow
    BY <1>1, <2>6 DEF LogOK
  <2> QED
    BY <2>5, <2>7
<1>3. Source(b)[k].big = Latest(Written(k, b))
  <2>1. Touched(k, 0, b) # {} /\ log[Latest(Touched(k, 0, b))].op = "update"
    BY <1>1, LatestTouched DEF Touched
  <2>2. Source(b)[k] = [small |-> Latest(Touched(k, 0, b)), big |-> Latest(Written(k, b))]
    BY <2>1, SourceIs
  <2> QED
    BY <2>2
<1> QED
  BY <1>2, <1>3

\* Rows that can be continued from a position can be continued from an earlier one.
LEMMA GoodEarlier ==
    ASSUME LogOK, NEW rs, NEW d, Good(rs, d), NEW c \in 0..d
    PROVE  Good(rs, c)
<1> DEFINE L == Len(log)
<1>1. L \in Nat /\ d \in 0..L /\ c \in 0..L /\ c <= d
  BY DEF LogOK, Good
<1>2. ASSUME NEW k \in Keys PROVE Touched(k, d, L) \subseteq Touched(k, c, L) /\ Wrote(k, d, L) \subseteq Wrote(k, c, L)
  BY <1>1 DEF Touched, Wrote
<1>3. ASSUME NEW k \in Keys, Touched(k, c, L) = {} PROVE rs[k] = Source(L)[k]
  BY <1>2, <1>3 DEF Good
<1>4. ASSUME NEW k \in Keys, Touched(k, c, L) # {}, Wrote(k, c, L) = {}
      PROVE  rs[k].big = Latest(Written(k, L))
  <2>1. CASE Touched(k, d, L) = {}
    <3>1. rs[k] = Source(L)[k]
      BY <2>1 DEF Good
    <3>2. Source(L)[k].big = Latest(Written(k, L))
      BY <1>1, <1>4, OnlyUpdates
    <3> QED
      BY <3>1, <3>2
  <2>2. CASE Touched(k, d, L) # {}
    BY <1>2, <1>4, <2>2 DEF Good
  <2> QED
    BY <2>1, <2>2
<1> QED
  BY <1>1, <1>3, <1>4 DEF Good

\* The source's rows can be continued from their position.
LEMMA SourceGood ==
    ASSUME LogOK, NEW b \in 0..Len(log)
    PROVE  Good(Source(b), b)
<1> DEFINE L == Len(log)
<1>1. L \in Nat /\ b \in Nat /\ b <= L
  BY DEF LogOK
<1>2. ASSUME NEW k \in Keys, Touched(k, b, L) = {} PROVE Source(b)[k] = Source(L)[k]
  BY <1>1, <1>2, Untouched
<1>3. ASSUME NEW k \in Keys, Touched(k, b, L) # {}, Wrote(k, b, L) = {}
      PROVE  Source(b)[k].big = Latest(Written(k, L))
  <2>1. Source(b)[k] # NoRow
    BY <1>1, <1>3, OnlyUpdates
  <2>2. Source(b)[k] = [small |-> Latest(Touched(k, 0, b)), big |-> Latest(Written(k, b))]
    BY <1>1, <2>1, SourceIs
  <2>3. Written(k, L) = Written(k, b)
    BY <1>1, <1>3, Untouched
  <2> QED
    BY <2>2, <2>3
<1>4. Source(b) = [k \in Keys |-> Source(b)[k]]
  BY Zenon DEF Source
<1> QED
  BY <1>2, <1>3, <1>4 DEF Good

\* The next change moves the position by one.
LEMMA AppliedGood ==
    ASSUME LogOK, NEW rs, NEW n \in 1..Len(log), Good(rs, n - 1)
    PROVE  Good(Applied(rs, n), n)
<1> DEFINE L == Len(log)
           k == log[n].key
           rn == Applied(rs, n)
<1>1. L \in Nat /\ n \in Nat /\ n <= L /\ n - 1 \in Nat /\ k \in Keys
  <2>1. L \in Nat /\ n \in Nat /\ n <= L /\ n - 1 \in Nat
    BY DEF LogOK
  <2>2. k \in Keys
    BY AppliedIs DEF Good
  <2> QED
    BY <2>1, <2>2
<1>2. rn = [j \in Keys |-> rn[j]]
  BY AppliedIs DEF Good
<1>3. ASSUME NEW j \in Keys, j # k
      PROVE  /\ Touched(j, n, L) = {} => rn[j] = Source(L)[j]
             /\ Touched(j, n, L) # {} /\ Wrote(j, n, L) = {} => rn[j].big = Latest(Written(j, L))
  <2>1. Touched(j, n, L) = Touched(j, n - 1, L) /\ Wrote(j, n, L) = Wrote(j, n - 1, L)
    BY <1>1, <1>3 DEF Touched, Wrote
  <2>2. rn[j] = rs[j]
    <3>1. j \in Keys \ {k}
      BY <1>3
    <3> QED
      BY <3>1, AppliedIs, ZenonT(30) DEF Good
  <2> QED
    BY <2>1, <2>2 DEF Good
<1>4. Latest(Touched(k, 0, n)) = n
  <2>1. n \in Touched(k, 0, n) /\ Touched(k, 0, n) \subseteq Nat /\ \A l \in Touched(k, 0, n) : l <= n
    BY <1>1 DEF Touched
  <2> QED
    BY <2>1, LatestIs
<1>5. ~log[n].unchanged => Latest(Written(k, n)) = n
  <2> SUFFICES ASSUME ~log[n].unchanged PROVE Latest(Written(k, n)) = n
    OBVIOUS
  <2>1. n \in Written(k, n) /\ Written(k, n) \subseteq Nat /\ \A l \in Written(k, n) : l <= n
    BY <1>1 DEF Written
  <2> QED
    BY <2>1, LatestIs
<1>6. ASSUME Wrote(k, n, L) = {}, log[n].op # "delete" PROVE rn[k].big = Latest(Written(k, L))
  <2>1. Written(k, L) = Written(k, n)
    BY <1>1, <1>6, Untouched
  <2>2. CASE log[n].unchanged
    <3>1. n \in Touched(k, n - 1, L) /\ Wrote(k, n - 1, L) = {}
      BY <1>1, <1>6, <2>2 DEF Touched, Wrote
    <3>2. rs[k].big = Latest(Written(k, L))
      BY <1>1, <3>1 DEF Good
    <3>3. rn[k] = [small |-> n, big |-> rs[k].big]
      BY <1>6, <2>2, AppliedIs DEF Good
    <3> QED
      BY <3>2, <3>3
  <2>3. CASE ~log[n].unchanged
    <3>1. rn[k] = [small |-> n, big |-> n]
      BY <1>6, <2>3, AppliedIs DEF Good
    <3> QED
      BY <1>5, <2>1, <2>3, <3>1
  <2> QED
    BY <2>2, <2>3
<1>7. ASSUME Touched(k, n, L) = {} PROVE rn[k] = Source(L)[k]
  <2>1. Source(L)[k] = Source(n)[k] /\ Wrote(k, n, L) = {} /\ Written(k, L) = Written(k, n)
    BY <1>1, <1>7, Untouched
  <2>2. n \in Touched(k, 0, n)
    BY <1>1 DEF Touched
  <2>3. CASE log[n].op = "delete"
    <3>1. Source(n)[k] = NoRow
      BY <1>1, <1>4, <2>2, <2>3, SourceIs
    <3> QED
      BY <2>1, <2>3, <3>1, AppliedIs, ZenonT(30) DEF Good
  <2>4. CASE log[n].op # "delete"
    <3>1. Source(n)[k] = [small |-> n, big |-> Latest(Written(k, n))]
      BY <1>1, <1>4, <2>2, <2>4, SourceIs
    <3>2. rn[k] = [small |-> n, big |-> IF log[n].unchanged THEN rs[k].big ELSE n]
      BY <2>4, AppliedIs DEF Good
    <3>3. rn[k].big = Latest(Written(k, n))
      BY <1>6, <2>1, <2>4
    <3>4. rn[k] = [small |-> n, big |-> rn[k].big]
      BY <3>2
    <3> QED
      BY <2>1, <3>1, <3>3, <3>4
  <2> QED
    BY <2>3, <2>4
<1>8. ASSUME Touched(k, n, L) # {}, Wrote(k, n, L) = {} PROVE log[n].op # "delete"
  <2> SUFFICES ASSUME log[n].op = "delete" PROVE FALSE
    OBVIOUS
  <2>1. n \in Touched(k, 0, n)
    BY <1>1 DEF Touched
  <2>2. Source(n)[k] = NoRow
    BY <1>1, <1>4, <2>1, SourceIs
  <2>3. Source(n)[k] # NoRow
    BY <1>1, <1>8, OnlyUpdates
  <2> QED
    BY <2>2, <2>3
<1> QED
  <2>1. ASSUME NEW j \in Keys
        PROVE  /\ Touched(j, n, L) = {} => rn[j] = Source(L)[j]
               /\ Touched(j, n, L) # {} /\ Wrote(j, n, L) = {} => rn[j].big = Latest(Written(j, L))
    <3>1. CASE j # k
      BY <1>3, <3>1
    <3>2. CASE j = k
      <4> HIDE DEF k
      <4> QED
        BY <1>6, <1>7, <1>8, <3>2
    <3> QED
      BY <3>1, <3>2
  <2>2. n \in 0..Len(log)
    BY <1>1
  <2> QED
    BY <1>2, <2>1, <2>2 DEF Good

\* The recursion of Replay defines a function: the rows after each position.
LEMMA ReplayDefined ==
    ASSUME NEW rs, NEW from \in Nat \ {0}, NEW to \in Nat, from <= to + 1
    PROVE  \E f : /\ f = [n \in (from - 1)..to |-> IF n < from THEN rs ELSE Applied(f[n - 1], n)]
                  /\ Replay(rs, from, to) = f[to]
<1> DEFINE Rows(f, t) == f = [n \in (from - 1)..t |-> IF n < from THEN rs ELSE Applied(f[n - 1], n)]
           Undefined == {t \in (from - 1)..to : ~\E f : Rows(f, t)}
<1>1. Undefined = {}
  <2> SUFFICES ASSUME Undefined # {} PROVE FALSE
    OBVIOUS
  <2>1. Undefined \subseteq Nat
    OBVIOUS
  <2>2. PICK t \in Undefined : \A u \in Undefined : t <= u
    <3> HIDE DEF Undefined
    <3> QED
      BY <2>1, EarliestIn
  <2>3. t \in (from - 1)..to /\ ~\E f : Rows(f, t)
    OBVIOUS
  <2>4. CASE t = from - 1
    <3> DEFINE f == [n \in (from - 1)..t |-> rs]
    <3>1. Rows(f, t)
      BY <2>4
    <3> QED
      BY <2>3, <3>1, Zenon
  <2>5. CASE t # from - 1
    <3>1. t - 1 \in (from - 1)..to /\ t - 1 \notin Undefined
      BY <2>2, <2>3, <2>5
    <3>2. PICK f : Rows(f, t - 1)
      BY <3>1
    <3> DEFINE g == [n \in (from - 1)..t |-> IF n = t THEN Applied(f[t - 1], t) ELSE f[n]]
    <3>3. ASSUME NEW n \in (from - 1)..t
          PROVE  g[n] = IF n < from THEN rs ELSE Applied(g[n - 1], n)
      <4>1. CASE n = t
        <5>1. g[n] = Applied(f[t - 1], t) /\ g[t - 1] = f[t - 1] /\ ~(n < from)
          BY <2>3, <2>5, <4>1
        <5> QED
          BY <4>1, <5>1
      <4>2. CASE n # t
        <5>1. n \in (from - 1)..(t - 1) /\ g[n] = f[n]
          BY <2>3, <4>2
        <5>2. f[n] = IF n < from THEN rs ELSE Applied(f[n - 1], n)
          BY <3>2, <5>1
        <5>3. ~(n < from) => g[n - 1] = f[n - 1]
          BY <2>3, <4>2, <5>1
        <5> QED
          BY <5>1, <5>2, <5>3
      <4> QED
        BY <4>1, <4>2
    <3>4. g = [n \in (from - 1)..t |-> g[n]]
      OBVIOUS
    <3>5. Rows(g, t)
      <4> HIDE DEF g
      <4> QED
        BY <3>3, <3>4
    <3> QED
      BY <2>3, <3>5, Zenon
  <2> QED
    BY <2>4, <2>5
<1>2. \E f : Rows(f, to)
  BY <1>1
<1>3. Rows(CHOOSE f : Rows(f, to), to)
  BY <1>2, Zenon
<1>4. Replay(rs, from, to) = (CHOOSE f : Rows(f, to))[to]
  BY DEF Replay
<1> QED
  BY <1>3, <1>4, Zenon

\* Rows that can be continued from c become the source's.
LEMMA ReplayGood ==
    ASSUME LogOK, NEW rs, NEW c, Good(rs, c)
    PROVE  Replay(rs, c + 1, Len(log)) = Source(Len(log))
<1> DEFINE L == Len(log)
<1>1. L \in Nat /\ c \in 0..L
  BY DEF LogOK, Good
<1>2. PICK f : /\ f = [n \in c..L |-> IF n < c + 1 THEN rs ELSE Applied(f[n - 1], n)]
               /\ Replay(rs, c + 1, L) = f[L]
  <2>1. c + 1 \in Nat \ {0} /\ c + 1 <= L + 1 /\ (c + 1) - 1 = c
    BY <1>1
  <2>2. \E f : /\ f = [n \in ((c + 1) - 1)..L |-> IF n < c + 1 THEN rs ELSE Applied(f[n - 1], n)]
               /\ Replay(rs, c + 1, L) = f[L]
    BY <1>1, <2>1, ReplayDefined, Zenon
  <2> QED
    BY <2>1, <2>2, Zenon
<1> DEFINE Bad == {n \in c..L : ~Good(f[n], n)}
<1>3. Bad = {}
  <2> SUFFICES ASSUME Bad # {} PROVE FALSE
    OBVIOUS
  <2>1. Bad \subseteq Nat
    BY <1>1
  <2>2. PICK n \in Bad : \A u \in Bad : n <= u
    <3> HIDE DEF Bad
    <3> QED
      BY <2>1, EarliestIn
  <2>3. n \in c..L /\ ~Good(f[n], n)
    OBVIOUS
  <2>4. CASE n = c
    <3>1. f[c] = rs
      BY <1>1, <1>2
    <3> QED
      BY <2>3, <2>4, <3>1
  <2>5. CASE n # c
    <3>1. n - 1 \in c..L /\ n - 1 \notin Bad /\ n \in 1..L
      BY <1>1, <2>2, <2>3, <2>5
    <3>2. Good(f[n - 1], n - 1)
      BY <3>1
    <3>3. f[n] = Applied(f[n - 1], n)
      BY <1>1, <1>2, <2>3, <2>5
    <3>4. Good(Applied(f[n - 1], n), n)
      BY <3>1, <3>2, AppliedGood
    <3> QED
      BY <2>3, <3>3, <3>4
  <2> QED
    BY <2>4, <2>5
<1>4. Good(f[L], L)
  BY <1>1, <1>3
<1>5. ASSUME NEW k \in Keys PROVE f[L][k] = Source(L)[k]
  <2>1. Touched(k, L, L) = {}
    BY <1>1 DEF Touched
  <2> QED
    BY <1>4, <2>1 DEF Good
<1>6. f[L] = [k \in Keys |-> f[L][k]] /\ Source(L) = [k \in Keys |-> Source(L)[k]]
  <2>1. f[L] = [k \in Keys |-> f[L][k]]
    BY <1>4 DEF Good
  <2>2. Source(L) = [k \in Keys |-> Source(L)[k]]
    BY Zenon DEF Source
  <2> QED
    BY <2>1, <2>2
<1>7. f[L] = Source(L)
  BY <1>5, <1>6, Zenon
<1> QED
  BY <1>2, <1>7

\* A commit leaves every position the rows can be continued from.
LEMMA CommitGood ==
    ASSUME LogOK, LogOK', NEW change \in Changes, log' = Append(log, change),
           (change.op = "insert") <=> (Source(Len(log))[change.key] = NoRow),
           change.unchanged => change.op = "update",
           NEW rs, NEW c, Good(rs, c)
    PROVE  Good(rs, c)'
<1>0. PICK L \in Nat : L = Len(log)
  BY SMTT(15) DEF LogOK
<1> DEFINE j == change.key
<1>1. L \in Nat /\ c \in 0..L /\ Len(log') = L + 1 /\ j \in Keys /\ c \in 0..(L + 1)
  BY <1>0 DEF LogOK, Good, Changes
<1>2. log'[L + 1] = change /\ \A m \in 1..L : log'[m] = log[m]
  BY <1>0 DEF LogOK
<1>3. ASSUME NEW k \in Keys, NEW a \in 0..L
      PROVE  /\ IF k = j THEN L + 1 \in Touched(k, a, L + 1)' ELSE Touched(k, a, L + 1)' = Touched(k, a, L)
             /\ IF k = j /\ ~change.unchanged THEN L + 1 \in Wrote(k, a, L + 1)'
                ELSE Wrote(k, a, L + 1)' = Wrote(k, a, L)
  BY <1>1, <1>2 DEF Touched, Wrote
<1>4. ASSUME NEW k \in Keys
      PROVE  /\ Wrote(k, 0, L + 1)' = Written(k, L + 1)' /\ Wrote(k, 0, L) = Written(k, L)
             /\ k # j => Written(k, L + 1)' = Written(k, L)
             /\ k = j /\ change.unchanged => Written(k, L + 1)' = Written(k, L)
  <2>1. Wrote(k, 0, L + 1)' = Written(k, L + 1)' /\ Wrote(k, 0, L) = Written(k, L)
    BY DEF Wrote, Written
  <2> QED
    BY <1>1, <1>3, <2>1
<1>5. ASSUME NEW k \in Keys, k # j PROVE Source(L + 1)'[k] = Source(L)[k]
  <2>1. Touched(k, 0, L + 1)' = Touched(k, 0, L) /\ Written(k, L + 1)' = Written(k, L)
    BY <1>1, <1>3, <1>4, <1>5
  <2>2. /\ Touched(k, 0, L + 1)' = {m \in 1..(L + 1) : log'[m].key = k}
        /\ Touched(k, 0, L) = {m \in 1..L : log[m].key = k}
    BY DEF Touched
  <2>3. CASE Touched(k, 0, L) = {}
    BY <2>1, <2>2, <2>3, Zenon DEF Source
  <2>4. CASE Touched(k, 0, L) # {}
    <3>1. Touched(k, 0, L) \subseteq 1..L
      BY DEF Touched
    <3>2. log'[Latest(Touched(k, 0, L))] = log[Latest(Touched(k, 0, L))]
      BY <1>1, <1>2, <2>4, <3>1, LatestIn
    <3> QED
      BY <2>1, <2>2, <3>2, Zenon DEF Source
  <2> QED
    BY <2>3, <2>4
<1>6. ASSUME NEW k \in Keys, k # j
      PROVE  /\ Touched(k, c, L + 1)' = {} => rs[k] = Source(L + 1)'[k]
             /\ Touched(k, c, L + 1)' # {} /\ Wrote(k, c, L + 1)' = {} =>
                   rs[k].big = Latest(Written(k, L + 1)')
  <2>1. Touched(k, c, L + 1)' = Touched(k, c, L) /\ Wrote(k, c, L + 1)' = Wrote(k, c, L)
    BY <1>1, <1>3, <1>6
  <2> QED
    BY <1>0, <1>4, <1>5, <1>6, <2>1 DEF Good
<1>7. ASSUME Wrote(j, c, L + 1)' = {} PROVE rs[j].big = Latest(Written(j, L + 1)')
  <2>1. change.unchanged /\ Wrote(j, c, L) = {}
    BY <1>1, <1>3, <1>7
  <2>2. Written(j, L + 1)' = Written(j, L)
    BY <1>1, <1>4, <2>1
  <2>3. CASE Touched(j, c, L) # {}
    BY <1>0, <1>1, <2>1, <2>2, <2>3 DEF Good
  <2>4. CASE Touched(j, c, L) = {}
    <3>1. rs[j] = Source(L)[j]
      BY <1>0, <1>1, <2>4 DEF Good
    <3>2. Source(L)[j] # NoRow
      BY <1>0, <2>1
    <3>3. Source(L)[j] = [small |-> Latest(Touched(j, 0, L)), big |-> Latest(Written(j, L))]
      BY <1>1, <3>2, SourceIs
    <3> QED
      BY <2>2, <3>1, <3>3
  <2> QED
    BY <2>3, <2>4
<1>8. Touched(j, c, L + 1)' # {}
  BY <1>1, <1>3
<1> QED
  <2>1. ASSUME NEW k \in Keys
        PROVE  /\ Touched(k, c, L + 1)' = {} => rs[k] = Source(L + 1)'[k]
               /\ Touched(k, c, L + 1)' # {} /\ Wrote(k, c, L + 1)' = {} =>
                     rs[k].big = Latest(Written(k, L + 1)')
    <3>1. CASE k = j
      <4> HIDE DEF j
      <4> QED
        BY <1>7, <1>8, <3>1
    <3>2. CASE k # j
      BY <1>6, <3>2
    <3> QED
      BY <3>1, <3>2
  <2>2. rs = [k \in Keys |-> rs[k]]
    BY DEF Good
  <2> QED
    BY <1>1, <2>1, <2>2 DEF Good

\* Where the rows can be continued from: the stored cursor, and a live stream's position,
\* which the cursor reported as fresh is not after.
StoreInv ==
    /\ LogOK /\ stateCursor \in Int
    /\ cursor >= 0 => Good(rows, cursor)
    /\ phase = "opened" /\ base >= 0 => base = cursor
    /\ phase = "rows" => sent = base
    /\ phase = "live" => Good(rows, sent) /\ base \in 0..sent
    /\ fresh => phase = "live" /\ stateCursor <= sent
    /\ phase # "closed" => pc = "streaming"

\* The producer's checks hold of a longer log.
LEMMA CommitLog ==
    ASSUME LogOK, NEW change \in Changes, log' = Append(log, change),
           (change.op = "insert") <=> (Source(Len(log))[change.key] = NoRow),
           change.unchanged => change.op = "update"
    PROVE  LogOK'
<1>0. PICK L \in Nat : L = Len(log)
  BY DEF LogOK
<1>1. log \in Seq(Changes) /\ log' \in Seq(Changes) /\ Len(log') = L + 1
  BY <1>0 DEF LogOK
<1>2. \A n \in 0..L : Source(n)' = Source(n)
  BY <1>0, <1>1, SourceKept
<1>3. ASSUME NEW n \in 1..(L + 1)
      PROVE  /\ log'[n].op = "insert" <=> Source(n - 1)'[log'[n].key] = NoRow
             /\ log'[n].unchanged => log'[n].op = "update"
  <2>1. Source(n - 1)' = Source(n - 1)
    <3>1. n - 1 \in 0..L
      BY <1>0
    <3> QED
      BY <1>2, <3>1
  <2>2. CASE n = L + 1
    <3>1. log'[n] = change /\ n - 1 = Len(log)
      BY <1>0, <1>1, <2>2
    <3> QED
      BY <2>1, <3>1
  <2>3. CASE n # L + 1
    <3>1. log'[n] = log[n] /\ n \in 1..Len(log)
      BY <1>0, <1>1, <2>3
    <3> QED
      BY <2>1, <3>1 DEF LogOK
  <2> QED
    BY <2>2, <2>3
<1> QED
  BY <1>1, <1>3 DEF LogOK

\* A step that leaves the source alone leaves what rows can be continued from.
LEMMA SameLog ==
    ASSUME log' = log
    PROVE  /\ LogOK => LogOK'
           /\ \A rs, c : Good(rs, c) => Good(rs, c)'
           /\ \A n : Source(n)' = Source(n)
<1>1. ASSUME NEW n PROVE Source(n)' = Source(n)
  BY Zenon DEF Source, Written
<1>2. LogOK => LogOK'
  BY <1>1, Zenon DEF LogOK
<1>3. PICK L : L = Len(log)
  OBVIOUS
<1>4. ASSUME NEW k, NEW a
      PROVE  /\ Touched(k, a, L)' = Touched(k, a, L) /\ Wrote(k, a, L)' = Wrote(k, a, L)
             /\ Written(k, L)' = Written(k, L)
  BY Zenon DEF Touched, Wrote, Written
<1>5. Len(log') = L /\ Len(log) = L
  BY <1>3
<1>6. ASSUME NEW rs, NEW c PROVE Good(rs, c) => Good(rs, c)'
  BY <1>1, <1>4, <1>5, Zenon DEF Good
<1> QED
  BY <1>1, <1>2, <1>6

\* A session that ends keeps what the store holds.
LEMMA EndsStore ==
    ASSUME StoreInv, log' = log, rows' = rows, cursor' = cursor, stateCursor' \in Int,
           phase' = "closed", fresh' = FALSE
    PROVE  StoreInv'
<1>1. LogOK' /\ (cursor' >= 0 => Good(rows, cursor)')
  BY SameLog DEF StoreInv
<1> QED
  BY <1>1 DEF StoreInv

\* A step that leaves the store, the stream and what is reported alone.
LEMMA SameStore ==
    ASSUME StoreInv, log' = log, storeVars' = storeVars, sessionVars' = sessionVars,
           fresh' = fresh,
           \/ pc' = pc /\ stateCursor' = stateCursor
           \/ pc # "streaming" /\ stateCursor' \in Int
    PROVE  StoreInv'
<1>1. UNCHANGED <<rows, cursor, phase, base, sent>>
  BY DEF storeVars, sessionVars
<1>2. LogOK' /\ (cursor' >= 0 => Good(rows, cursor)') /\ (phase' = "live" => Good(rows, sent)')
  BY <1>1, SameLog DEF StoreInv
<1> QED
  BY <1>1, <1>2 DEF StoreInv

\* StoreInv is inductive.
LEMMA StoreStep == SnapshotInv /\ StoreInv /\ [Next]_vars => StoreInv'
<1> SUFFICES ASSUME SnapshotInv, StoreInv, [Next]_vars PROVE StoreInv'
  OBVIOUS
<1>1. CASE UNCHANGED vars
  <2>1. log' = log /\ storeVars' = storeVars /\ sessionVars' = sessionVars /\ fresh' = fresh /\ pc' = pc
        /\ stateCursor' = stateCursor
    BY <1>1 DEF vars, sourceVars, syncVars
  <2> QED
    BY <2>1, SameStore, Zenon
<1>2. CASE Commit
  <2>1. PICK change \in Changes :
          /\ (change.op = "insert") <=> (Source(Len(log))[change.key] = NoRow)
          /\ change.unchanged => change.op = "update"
          /\ log' = Append(log, change)
    BY <1>2 DEF Commit
  <2>2. UNCHANGED <<rows, cursor, phase, base, sent, fresh, stateCursor, pc>>
    BY <1>2 DEF Commit, sessionVars, storeVars, syncVars
  <2>3. LogOK /\ LogOK'
    BY <2>1, CommitLog DEF StoreInv
  <2>4. \A rs, c : Good(rs, c) => Good(rs, c)'
    BY <2>1, <2>3, CommitGood
  <2>5. (cursor' >= 0 => Good(rows, cursor)') /\ (phase' = "live" => Good(rows, sent)')
    BY <2>2, <2>4 DEF StoreInv
  <2> QED
    BY <2>2, <2>3, <2>5 DEF StoreInv
<1>3. CASE HubAccepts \/ HubEvicts
  <2>1. log' = log /\ storeVars' = storeVars /\ sessionVars' = sessionVars /\ fresh' = fresh /\ pc' = pc
        /\ stateCursor' = stateCursor
    BY <1>3 DEF HubAccepts, HubEvicts, syncVars
  <2> QED
    BY <2>1, SameStore, Zenon
<1>4. CASE Cancel \/ SyncAgain \/ Waited
  <2>1. CASE Cancel
    <3>1. log' = log /\ storeVars' = storeVars /\ sessionVars' = sessionVars /\ fresh' = fresh /\ pc' = pc
          /\ stateCursor' = stateCursor
      BY <2>1 DEF Cancel, sourceVars
    <3> QED
      BY <3>1, SameStore, Zenon
  <2>2. CASE SyncAgain
    BY <2>2, SameStore DEF SyncAgain, sourceVars, NoCursor
  <2>3. CASE Waited
    <3>1. stateCursor' \in Int
      BY <2>3 DEF Waited, StoreInv
    <3> QED
      BY <2>3, <3>1, SameStore DEF Waited, sourceVars
  <2> QED
    BY <1>4, <2>1, <2>2, <2>3
<1>5. CASE Crash
  BY <1>5, EndsStore DEF Crash, sourceVars, storeVars, StoreInv
<1>6. ASSUME NEW err, Ends(err), stateCursor' \in {stateCursor, NoCursor}, UNCHANGED storeVars PROVE StoreInv'
  <2>1. stateCursor' \in Int
    BY <1>6 DEF StoreInv, NoCursor
  <2> QED
    BY <1>6, <2>1, EndsStore DEF Ends, sourceVars, storeVars
<1>7. CASE Resync \/ WatchFails \/ Broken \/ StoreFails
  <2>1. CASE StoreFails
    BY <1>6, <2>1 DEF StoreFails
  <2> QED
    BY <1>6, <1>7, <2>1 DEF Resync, WatchFails, Broken
<1>8. CASE Interrupted \/ RefuseCursor \/ CursorUnavailable
  BY <1>6, <1>8 DEF Interrupted, RefuseCursor, CursorUnavailable
<1>9. CASE OpenStream
  <2>1. UNCHANGED <<log, rows, cursor, stateCursor, fresh>> /\ phase' = "opened" /\ base' \in {NoCursor, cursor}
    BY <1>9 DEF OpenStream, sourceVars, storeVars
  <2>2. ~fresh /\ pc' = "streaming"
    BY <1>9 DEF OpenStream, StoreInv
  <2>3. LogOK' /\ (cursor' >= 0 => Good(rows, cursor)')
    BY <2>1, SameLog DEF StoreInv
  <2> QED
    BY <2>1, <2>2, <2>3 DEF StoreInv, NoCursor
<1>10. CASE Resumed
  <2>1. UNCHANGED <<log, rows, cursor, stateCursor, fresh, base, pc>> /\ phase' = "live" /\ sent' = base
    BY <1>10 DEF Resumed, sourceVars, storeVars, syncVars
  <2>2. base >= 0 /\ base = cursor /\ ~fresh /\ base \in Int
    BY <1>10 DEF Resumed, StoreInv, SnapshotInv
  <2>3. LogOK' /\ Good(rows, cursor)'
    BY <2>1, <2>2, SameLog DEF StoreInv
  <2>4. Good(rows, sent)'
    BY <2>1, <2>2, <2>3
  <2> QED
    BY <1>10, <2>1, <2>2, <2>3, <2>4 DEF StoreInv, Resumed
<1>11. CASE SnapshotBegin
  <2>1. UNCHANGED <<log, rows, cursor, pc>> /\ phase' = "rows" /\ sent' = base' /\ ~fresh' /\ stateCursor' = NoCursor
    BY <1>11 DEF SnapshotBegin, sourceVars, storeVars
  <2>2. LogOK' /\ (cursor' >= 0 => Good(rows, cursor)')
    BY <2>1, SameLog DEF StoreInv
  <2>3. pc = "streaming"
    BY <1>11 DEF SnapshotBegin, StoreInv
  <2> QED
    BY <2>1, <2>2, <2>3 DEF StoreInv, NoCursor
<1>12. CASE SnapshotRows
  <2>1. UNCHANGED <<log, rows, cursor, stateCursor, fresh, base, pc, phase, sent>> /\ phase = "rows"
    BY <1>12 DEF SnapshotRows, sourceVars, storeVars, syncVars
  <2>2. LogOK' /\ (cursor' >= 0 => Good(rows, cursor)')
    BY <2>1, SameLog DEF StoreInv
  <2> QED
    BY <2>1, <2>2 DEF StoreInv
<1>13. CASE SnapshotEnd
  <2>1. /\ UNCHANGED <<log, stateCursor, fresh, base, pc, sent>>
        /\ phase = "rows" /\ phase' = "live" /\ rows' = writer /\ cursor' = NoCursor
    BY <1>13 DEF SnapshotEnd, sourceVars, syncVars
  <2>2. base \in 0..Len(log) /\ sent = base /\ ~fresh /\ LogOK /\ pc = "streaming"
    BY <2>1 DEF StoreInv, SnapshotInv
  <2>3. writer = Source(base)
    <3>1. writer = [k \in Keys |-> Source(base)[k]]
      BY <1>13 DEF SnapshotEnd, SnapshotInv
    <3> QED
      BY <3>1 DEF Source
  <2>4. Good(rows', base)
    BY <2>1, <2>2, <2>3, SourceGood
  <2>5. LogOK' /\ Good(rows, base)'
    BY <2>1, <2>2, <2>4, SameLog
  <2>6. Good(rows, sent)'
    BY <2>1, <2>2, <2>5
  <2> QED
    BY <2>1, <2>2, <2>5, <2>6 DEF StoreInv, NoCursor
<1>14. CASE Batch
  <2>1. /\ UNCHANGED <<log, stateCursor, fresh, base, pc, phase>> /\ phase = "live"
        /\ rows' = Applied(rows, sent + 1) /\ cursor' = sent + 1 /\ sent' = sent + 1
    BY <1>14 DEF Batch, sourceVars, syncVars
  <2>2. sent + 1 \in 1..Len(log) /\ (sent + 1) - 1 = sent /\ sent \in Nat
    BY <1>14 DEF Batch, SnapshotInv
  <2>3. LogOK /\ Good(rows, sent)
    BY <2>1 DEF StoreInv
  <2>4. Good(rows', sent + 1)
    BY <2>1, <2>2, <2>3, AppliedGood
  <2>5. LogOK'
    BY <2>1, <2>3, SameLog
  <2>6. Good(rows, sent)' /\ Good(rows, cursor)'
    BY <2>1, <2>4, SameLog
  <2> QED
    BY <2>1, <2>2, <2>5, <2>6 DEF StoreInv
<1>15. CASE Progress
  <2>1. /\ UNCHANGED <<log, rows, base, pc, phase, sent>> /\ phase = "live"
        /\ cursor' = LivePosition /\ stateCursor' = LivePosition
    BY <1>15 DEF Progress, sourceVars
  <2>2. LogOK /\ Good(rows, sent) /\ base \in 0..sent /\ pc = "streaming"
    BY <2>1 DEF StoreInv
  <2>3. LivePosition \in 0..sent
    BY <1>15, <2>2 DEF Progress, LivePosition, SnapshotInv
  <2>4. Good(rows, LivePosition)
    BY <2>2, <2>3, GoodEarlier
  <2>5. LogOK' /\ Good(rows, sent)' /\ Good(rows, cursor)'
    BY <2>1, <2>2, <2>4, SameLog
  <2> QED
    BY <2>1, <2>2, <2>3, <2>5 DEF StoreInv
<1> QED
  BY <1>1, <1>2, <1>3, <1>4, <1>5, <1>7, <1>8, <1>9, <1>10, <1>11, <1>12, <1>13, <1>14, <1>15, Zenon
     DEF Next, SyncStep

\* A store that is empty, or another source's, satisfies both.
LEMMA InitStore == Init => SnapshotInv /\ StoreInv
<1> SUFFICES ASSUME Init PROVE SnapshotInv /\ StoreInv
  OBVIOUS
<1>1. SnapshotInv
  BY DEF Init, SnapshotInv, NoCursor, Foreign
<1>2. LogOK
  BY DEF Init, LogOK
<1> QED
  BY <1>1, <1>2 DEF Init, StoreInv, NoCursor, Foreign

\* The rows and cursor stored, and the cursor reported as fresh, always lead back to the source.
THEOREM RecoverableAlways == Spec => []Recoverable
<1>1. Init => SnapshotInv /\ StoreInv
  BY InitStore
<1>2. SnapshotInv /\ StoreInv => Recoverable
  <2> SUFFICES ASSUME SnapshotInv, StoreInv, NEW c \in {cursor} \cup (IF fresh THEN {stateCursor} ELSE {}), c >= 0
               PROVE  Replay(rows, c + 1, Len(log)) = Source(Len(log))
    BY DEF Recoverable
  <2>1. Good(rows, c)
    <3>1. CASE c = cursor
      BY <3>1 DEF StoreInv
    <3>2. CASE fresh /\ c = stateCursor
      <4>1. Good(rows, sent) /\ c \in 0..sent /\ LogOK
        BY <3>2 DEF StoreInv, SnapshotInv
      <4> QED
        BY <4>1, GoodEarlier
    <3> QED
      BY <3>1, <3>2
  <2> QED
    BY <2>1, ReplayGood DEF StoreInv
<1> QED
  BY <1>1, <1>2, SnapshotStep, StoreStep, PTL DEF Spec

--------------------------------------------------------------------------------
(* TypeOK                                                                      *)

\* The types hold with the bound on the log.
TypeInv == TypeOK /\ Len(log) <= MaxTx

\* The source's rows are rows: a row that is there was inserted, so its column was written.
LEMMA SourceType ==
    ASSUME LogOK, Len(log) <= MaxTx, NEW n \in 0..Len(log), NEW k \in Keys
    PROVE  Source(n)[k] \in Row
<1>0. MaxTx \in Nat /\ n \in Nat /\ n <= MaxTx /\ Len(log) \in Nat
  BY ClientAssumption DEF LogOK
<1>1. CASE Source(n)[k] = NoRow
  BY <1>0, <1>1 DEF NoRow, Row
<1>2. CASE Source(n)[k] # NoRow
  <2>0. Touched(k, 0, n) # {}
    BY <1>0, <1>2, SourceIs
  <2>1. Touched(k, 0, n) # {} /\ Touched(k, 0, n) \subseteq 1..n
    BY <1>0, <2>0 DEF Touched
  <2>2. Source(n)[k] = [small |-> Latest(Touched(k, 0, n)), big |-> Latest(Written(k, n))]
    BY <1>0, <1>2, <2>1, SourceIs
  <2>3. PICK m \in Touched(k, 0, n) : \A l \in Touched(k, 0, n) : m <= l
    <3>1. Touched(k, 0, n) \subseteq Nat
      BY <2>1
    <3> QED
      BY <2>1, <3>1, EarliestIn
  <2>4. m \in 1..n /\ m \in 1..Len(log) /\ m - 1 \in Nat /\ log[m].key = k
    BY <1>0, <2>1, <2>3 DEF Touched
  <2>5. Touched(k, 0, m - 1) = {}
    BY <2>3, <2>4 DEF Touched
  <2>6. Source(m - 1)[k] = NoRow
    BY <2>4, <2>5, SourceIs
  <2>7. log[m].op = "insert" /\ (log[m].unchanged => log[m].op = "update")
    BY <2>4, <2>6 DEF LogOK
  <2>8. Written(k, n) # {} /\ Written(k, n) \subseteq 1..n
    BY <2>4, <2>7 DEF Written
  <2>9. Latest(Written(k, n)) \in 1..n /\ Latest(Touched(k, 0, n)) \in 1..n
    BY <1>0, <2>1, <2>8, LatestIn
  <2> QED
    BY <1>0, <2>2, <2>9 DEF Row
<1> QED
  BY <1>1, <1>2

\* A batch leaves rows.
LEMMA AppliedType ==
    ASSUME NEW rs \in [Keys -> Row], log \in Seq(Changes), NEW n \in 1..Len(log), Len(log) <= MaxTx
    PROVE  Applied(rs, n) \in [Keys -> Row]
<1>1. log[n] \in Changes
  OBVIOUS
<1>2. log[n].key \in Keys /\ MaxTx \in Nat /\ n \in -1..MaxTx
  BY <1>1, ClientAssumption DEF Changes
<1>3. rs[log[n].key] \in Row /\ NoRow \in Row
  BY <1>2 DEF NoRow, Row
<1>4. Kept(rs[log[n].key]) \in -1..MaxTx
  BY <1>2, <1>3 DEF Kept, Row, Missing
<1>5. [small |-> n, big |-> IF log[n].unchanged THEN Kept(rs[log[n].key]) ELSE n] \in Row
  BY <1>2, <1>4 DEF Row
<1> QED
  BY <1>2, <1>3, <1>5 DEF Applied

\* The end of a stream keeps the types.
LEMMA EndsType ==
    ASSUME TypeInv, NEW err, Ends(err), stateCursor' \in {stateCursor, NoCursor}, UNCHANGED storeVars,
           faults' \in 0..MaxFaults
    PROVE  TypeInv'
<1>N. NoCursor \in -1..MaxTx /\ NoCursor \in -2..MaxTx /\ 0 \in 0..MaxTx
  BY ClientAssumption DEF NoCursor
<1>1. /\ UNCHANGED <<log, accepted, floor, cancelled, progressed, syncs, rows, cursor>>
      /\ phase' = "closed" /\ base' = NoCursor /\ baseSafe' = FALSE
      /\ sent' = 0 /\ pending' = {} /\ confirmed' = NoCursor
      /\ writer' = NoWriter /\ fresh' = FALSE
  BY DEF Ends, sourceVars, storeVars
<1>2. revoked' \in BOOLEAN
  BY DEF Ends
<1>3. pc' \in {"returned", "loop", "waiting"} /\ spins' \in 0..3 /\ snapshot' \in BOOLEAN /\ resyncs' \in 0..3
  <2>1. CASE cancelled \/ Terminal(err)
    BY <2>1 DEF Ends, TypeInv, TypeOK
  <2>2. CASE ~(cancelled \/ Terminal(err))
    <3>1. snapshot' \in BOOLEAN
      BY <2>2 DEF Ends, ForcesSnapshot
    <3>2. pc' \in {"loop", "waiting"}
      BY <2>2 DEF Ends
    <3>3. Counted(spins) \in 0..3 /\ Counted(resyncs) \in 0..3
      BY DEF Counted, TypeInv, TypeOK
    <3>4. spins' \in 0..3 /\ resyncs' \in 0..3
      BY <2>2, <3>3 DEF Ends, TypeInv, TypeOK
    <3> QED
      BY <3>1, <3>2, <3>4
  <2> QED
    BY <2>1, <2>2
<1> QED
  BY <1>N, <1>1, <1>2, <1>3 DEF TypeInv, TypeOK

\* TypeInv is inductive with StoreInv.
LEMMA TypeStep == SnapshotInv /\ StoreInv /\ TypeInv /\ [Next]_vars => TypeInv'
<1> SUFFICES ASSUME SnapshotInv, StoreInv, TypeInv, [Next]_vars PROVE TypeInv'
  OBVIOUS
<1> USE ClientAssumption
<1>0. Len(log) \in Nat /\ accepted \in Nat
  BY DEF TypeInv, TypeOK
<1>N. NoCursor \in -1..MaxTx /\ NoCursor \in -2..MaxTx
  BY DEF NoCursor
<1>1. CASE UNCHANGED vars
  BY <1>1 DEF TypeInv, TypeOK, vars, sourceVars, sessionVars, syncVars, storeVars, ghostVars
<1>2. CASE Commit
  <2>1. PICK change \in Changes : log' = Append(log, change)
    BY <1>2 DEF Commit
  <2>2. log' \in Seq(Changes) /\ Len(log') = Len(log) + 1 /\ Len(log') <= MaxTx
    BY <1>0, <1>2, <2>1, SMTT(15) DEF Commit, TypeInv, TypeOK
  <2> QED
    BY <1>0, <1>2, <2>2, SMTT(15) DEF Commit, TypeInv, TypeOK, sessionVars, syncVars, storeVars, ghostVars
<1>3. CASE HubAccepts
  BY <1>0, <1>3 DEF HubAccepts, TypeInv, TypeOK, sessionVars, syncVars, storeVars, ghostVars
<1>4. CASE HubEvicts
  BY <1>0, <1>4 DEF HubEvicts, TypeInv, TypeOK, sessionVars, syncVars, storeVars, ghostVars
<1>5. CASE Cancel
  BY <1>5 DEF Cancel, Fault, TypeInv, TypeOK, sourceVars, sessionVars, storeVars
<1>6. CASE SyncAgain
  <2>1. cancelled' \in BOOLEAN /\ snapshot' \in BOOLEAN /\ progressed' \in BOOLEAN
    BY <1>6 DEF SyncAgain
  <2>2. resyncs' \in 0..3 /\ stateCursor' \in -1..MaxTx /\ syncs' \in 1..MaxSyncs
    BY <1>N, <1>6 DEF SyncAgain, TypeInv, TypeOK
  <2>3. pc' = "loop" /\ UNCHANGED <<sourceVars, sessionVars, fresh, writer, storeVars, faults, spins, revoked>>
    BY <1>6 DEF SyncAgain
  <2> QED
    BY <2>1, <2>2, <2>3 DEF TypeInv, TypeOK, sourceVars, sessionVars, storeVars
<1>7. CASE Waited
  BY <1>7 DEF Waited, TypeInv, TypeOK, sourceVars, sessionVars, storeVars, ghostVars
<1>8. CASE Crash
  <2>1. fresh' \in BOOLEAN /\ baseSafe' \in BOOLEAN /\ pending' \subseteq Keys
    BY <1>8 DEF Crash
  <2>2. base' \in -2..MaxTx /\ sent' \in 0..MaxTx /\ confirmed' \in -1..MaxTx /\ faults' \in 0..MaxFaults /\ spins' \in 0..3
    BY <1>N, <1>8 DEF Crash, Fault, TypeInv, TypeOK
  <2>3. /\ pc' = "returned" /\ phase' = "closed" /\ writer' = NoWriter
        /\ UNCHANGED <<sourceVars, cancelled, snapshot, resyncs, progressed, stateCursor, storeVars, syncs, revoked>>
    BY <1>8 DEF Crash
  <2> QED
    BY <2>1, <2>2, <2>3 DEF TypeInv, TypeOK, sourceVars, storeVars
<1>9. Fault \/ faults' = faults => faults' \in 0..MaxFaults
  BY DEF Fault, TypeInv, TypeOK
<1>10. CASE Resync \/ WatchFails \/ Broken \/ StoreFails
  <2>1. CASE StoreFails
    BY <1>9, <2>1, EndsType DEF StoreFails
  <2> QED
    BY <1>9, <1>10, <2>1, EndsType DEF Resync, WatchFails, Broken
<1>11. CASE Interrupted \/ RefuseCursor \/ CursorUnavailable
  BY <1>9, <1>11, EndsType DEF Interrupted, RefuseCursor, CursorUnavailable
<1>12. CASE OpenStream
  <2>1. phase = "closed"
    BY <1>12 DEF OpenStream, StoreInv
  <2> QED
    BY <1>N, <1>12, <2>1 DEF OpenStream, TypeInv, TypeOK, sourceVars, storeVars, ghostVars
<1>13. CASE Resumed
  BY <1>13 DEF Resumed, TypeInv, TypeOK, sourceVars, syncVars, storeVars, ghostVars
<1>14. CASE SnapshotBegin
  <2>1. writer' \in [Keys -> Row]
    BY <1>14 DEF SnapshotBegin, NoRows, NoRow, Row
  <2>2. pending' \subseteq Keys
    BY <1>14 DEF SnapshotBegin
  <2>3. fresh' \in BOOLEAN /\ phase' = "rows"
    BY <1>14 DEF SnapshotBegin
  <2>4. base' \in -2..MaxTx /\ sent' \in 0..MaxTx /\ stateCursor' \in -1..MaxTx
    BY <1>N, <1>0, <1>14 DEF SnapshotBegin, TypeInv
  <2>5. UNCHANGED <<sourceVars, baseSafe, confirmed, pc, cancelled, snapshot, resyncs, progressed, storeVars, ghostVars>>
    BY <1>14 DEF SnapshotBegin
  <2> QED
    BY <2>1, <2>2, <2>3, <2>4, <2>5 DEF TypeInv, TypeOK, sourceVars, storeVars, ghostVars
<1>15. CASE SnapshotRows
  <2>1. base \in 0..Len(log) /\ LogOK /\ Len(log) <= MaxTx
    BY <1>15 DEF SnapshotRows, SnapshotInv, StoreInv, TypeInv
  <2>2. pending' \subseteq Keys /\ writer' \in [Keys -> Row]
    <3>1. PICK k \in pending : pending' = pending \ {k} /\ writer' = [writer EXCEPT ![k] = Source(base)[k]]
      BY <1>15 DEF SnapshotRows
    <3>2. k \in Keys /\ pending \subseteq Keys /\ writer \in [Keys -> Row]
      BY <1>15 DEF SnapshotRows, TypeInv, TypeOK
    <3>3. Source(base)[k] \in Row
      BY <2>1, <3>2, SourceType
    <3> QED
      BY <3>1, <3>2, <3>3
  <2> QED
    BY <1>15, <2>2 DEF SnapshotRows, TypeInv, TypeOK, sourceVars, syncVars, storeVars, ghostVars
<1>16. CASE SnapshotEnd
  BY <1>N, <1>16 DEF SnapshotEnd, TypeInv, TypeOK, sourceVars, syncVars
<1>17. CASE Batch
  <2>1. sent + 1 \in 1..Len(log) /\ sent + 1 \in 0..MaxTx
    BY <1>0, <1>17 DEF Batch, TypeInv, TypeOK
  <2>2. rows' \in [Keys -> Row]
    BY <1>17, <2>1, AppliedType DEF Batch, TypeInv, TypeOK
  <2> QED
    BY <1>17, <2>1, <2>2 DEF Batch, TypeInv, TypeOK, sourceVars, syncVars, ghostVars
<1>18. CASE Progress
  <2>1. LivePosition \in 0..MaxTx
    BY <1>0, <1>18 DEF Progress, LivePosition, TypeInv, TypeOK
  <2> QED
    BY <1>18, <2>1 DEF Progress, TypeInv, TypeOK, sourceVars, ghostVars
<1> QED
  BY <1>1, <1>2, <1>3, <1>4, <1>5, <1>6, <1>7, <1>8, <1>10, <1>11, <1>12, <1>13, <1>14, <1>15,
     <1>16, <1>17, <1>18, Zenon DEF Next, SyncStep

\* Types always hold, and stream's checks on the writer never fail.
THEOREM TypeOKAlways == Spec => []TypeOK
<1>1. Init => SnapshotInv /\ StoreInv /\ TypeInv
  <2> SUFFICES ASSUME Init PROVE TypeInv
    BY InitStore
  <2>1. rows \in [Keys -> Row]
    BY ClientAssumption DEF Init, NoRows, NoRow, ForeignRows, Row
  <2>2. cursor \in -2..MaxTx
    BY ClientAssumption DEF Init, NoCursor, Foreign
  <2>3. NoCursor \in -1..MaxTx /\ NoCursor \in -2..MaxTx /\ 0 \in 0..MaxTx /\ 0 \in 0..MaxFaults /\ 1 \in 1..MaxSyncs
    BY ClientAssumption DEF NoCursor
  <2>4. log \in Seq(Changes) /\ Len(log) = 0
    BY DEF Init
  <2>5. /\ baseSafe \in BOOLEAN /\ cancelled \in BOOLEAN /\ snapshot \in BOOLEAN /\ progressed \in BOOLEAN
        /\ fresh \in BOOLEAN /\ revoked \in BOOLEAN /\ pending \subseteq Keys
    BY DEF Init
  <2>6. accepted \in 0..Len(log) /\ floor \in 0..accepted /\ Len(log) <= MaxTx
    BY <2>4, ClientAssumption DEF Init
  <2>7. /\ phase = "closed" /\ base = NoCursor /\ sent = 0 /\ confirmed = NoCursor /\ pc = "loop" /\ resyncs = 0
        /\ stateCursor = NoCursor /\ writer = NoWriter /\ faults = 0 /\ syncs = 1 /\ spins = 0
    BY DEF Init
  <2> QED
    BY <2>1, <2>2, <2>3, <2>4, <2>5, <2>6, <2>7 DEF TypeInv, TypeOK
<1>2. TypeInv => TypeOK
  BY DEF TypeInv
<1> QED
  BY <1>1, <1>2, SnapshotStep, StoreStep, TypeStep, PTL DEF Spec
================================================================================
