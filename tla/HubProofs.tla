------------------------------- MODULE HubProofs -------------------------------
(* The inductive invariant and the hub's safety theorems, and what a watch      *)
(* sends: nothing twice after a snapshot, and cursors in order.                 *)
EXTENDS HubSourceProofs

\* Client d's Watch call and store are as they were.
Same(d) ==
    /\ pc'[d] = pc[d] /\ queue'[d] = queue[d] /\ reason'[d] = reason[d] /\ todo'[d] = todo[d]
    /\ base'[d] = base[d] /\ baseSafe'[d] = baseSafe[d] /\ covered'[d] = covered[d]
    /\ pos'[d] = pos[d] /\ progressed'[d] = progressed[d] /\ tick'[d] = tick[d]
    /\ shaky'[d] = shaky[d]
    /\ have'[d] = have[d] /\ saved'[d] = saved[d] /\ tainted'[d] = tainted[d]

\* Twice a natural number is one.
LEMMA TwiceNat == \A n \in Nat : 2 * n \in Nat
  OBVIOUS

\* What is at most a received position is before the next one.
LEMMA UnderTwice == \A a \in Nat, b \in Int, n \in Nat : a <= b /\ b <= 2 * n => a <= 2 * n + 1
  OBVIOUS

\* A transaction not committed yet ends after every position.
LEMMA UnderEnd == \A n, l \in Nat, b \in Int : n >= l + 1 /\ b <= 2 * l + 1 => b <= End(n)
  BY DEF End

\* At most is transitive.
LEMMA Through == \A a, b, d \in Int : a <= b /\ b <= d => a <= d
  OBVIOUS

\* Transactions end in the order of their numbers.
LEMMA EndOrder ==
    \A a, b \in Nat : /\ a <= b => End(a) <= End(b)
                      /\ a < b => a # b /\ End(a) <= End(b) /\ ~(End(b) <= End(a))
  BY DEF End

\* What ends after a position does not end before it.
LEMMA AtMostEnd ==
    \A n \in Nat \ {0}, r \in Int : End(n) > r \/ After(n, r) \/ ~(End(n) <= r) => r <= End(n)
  BY DEF End, After, CommitLSN

\* Nothing is in an empty queue.
LEMMA EmptyRange == Range(<<>>) = {}
  BY EmptyIsSeq DEF Range

\* The later of a received position and a safe base is after both.
LEMMA LaterOfTwo ==
    ASSUME NEW b \in Int, NEW r \in Int, b >= -1, r >= -1, NEW safe
    PROVE  LET p == IF r = NoCursor \/ (safe /\ Later(b, r)) THEN b ELSE r
           IN  r <= p /\ (safe => b <= p) /\ p \in Int
  BY DEF Later, NoCursor

\* A step that leaves d alone, the log and what was received, keeps d's invariant if the
\* source is left alone too, or d has read nothing and sees all the stream left behind.
LEMMA ClientFrame ==
    ASSUME NEW d \in Clients, ClientInv(d), Same(d),
           log' = log, visible \subseteq visible', received' = received,
           tickTaken => tickTaken', closing' = closing,
           \/ source' = source /\ start' = start
           \/ pc[d] \in {"idle", "begin"} /\ \A n \in 1..Len(log) : Passed(n)' => n \in visible'
    PROVE  ClientInv(d)'
<1>. /\ HeldInv(d) /\ OrderInv(d) /\ PhaseInv(d) /\ TickInv(d) /\ KeptInv(d)
  BY Zenon DEF ClientInv
<1>1. \A n : (Due(d, n)' <=> Due(d, n)) /\ (Held(d, n) => Held(d, n)')
  BY Zenon DEF Same, Due, Relevant, Broken, Held
<1>2. \A cursor : (HeldThrough(d, cursor) => HeldThrough(d, cursor)')
  BY <1>1, Zenon DEF HeldThrough, End
<1>3. (Sound(d)' <=> Sound(d)) /\ (Registered(d)' <=> Registered(d))
  BY Zenon DEF Sound, Registered, Same
<1>4. HeldInv(d)'
  <2>1. ASSUME Sound(d), Registered(d), NEW n \in 1..Len(log), Due(d, n), Passed(n)'
        PROVE  Held(d, n)'
    <3>1. CASE source' = source /\ start' = start
      <4>1. Passed(n)
        BY <2>1, <3>1, Zenon DEF Passed, End
      <4>. QED
        BY <1>1, <2>1, <4>1, Zenon DEF HeldInv
    <3>2. CASE pc[d] \in {"idle", "begin"} /\ n \in visible'
      BY <2>1, <3>2, Zenon DEF Registered, Held, Reading, Same
    <3>. QED
      BY <2>1, <3>1, <3>2, Zenon
  <2>2. (Sound(d) => \A m \in todo[d] : HeldThrough(d, End(m)))'
    BY <1>2, <1>3, Zenon DEF HeldInv, Same, End
  <2>3. (Sound(d) => \A i \in 1..Len(queue[d]) : HeldThrough(d, End(queue[d][i])))'
    BY <1>2, <1>3, Zenon DEF HeldInv, Same, End
  <2>4. (Sound(d) /\ pc[d] = "drain" /\ ~shaky[d] => HeldThrough(d, pos[d]))'
    BY <1>2, <1>3, Zenon DEF HeldInv, Same
  <2>. QED
    BY <1>1, <1>3, <2>1, <2>2, <2>3, <2>4, Zenon DEF HeldInv
<1>5. OrderInv(d)'
  BY Zenon DEF OrderInv, Same, End
<1>6. \A cursor : Complete(d, cursor)' <=> Complete(d, cursor)
  BY Zenon DEF Complete, Same, Relevant, Broken, End
<1>7. PhaseInv(d)'
  BY <1>6, Zenon DEF PhaseInv, Same, Rows, Reading, Live
<1>8. TickInv(d)'
  BY <1>3, Zenon DEF TickInv, Same
<1>9. KeptInv(d)'
  BY <1>6, Zenon DEF KeptInv, Same
<1>. QED
  BY <1>4, <1>5, <1>7, <1>8, <1>9, Zenon DEF ClientInv

\* A step of c's Watch call leaves the other clients alone.
LEMMA OtherSame ==
    ASSUME TypeOK, NEW c \in Clients, NEW d \in Clients, d # c,
           QuietStep(c) \/ BootstrapSnapshot(c) \/ BootstrapDone(c) \/ RecordSnapshot(c) \/ Ending(c)
    PROVE  Same(d)
<1> USE DEF mailVars, snapVars, liveVars, watchVars, storeVars, Same, TypeOK
<1>1. CASE Refuse(c) \/ Resume(c) \/ StartSnapshot(c)
  BY <1>1, Zenon DEF Refuse, Resume, StartSnapshot
<1>2. CASE ReadCursor(c) \/ FixSnapshot(c) \/ (CheckOverflow(c) /\ ~Ended(c)) \/ ClearStale(c)
  BY <1>2, Zenon DEF ReadCursor, FixSnapshot, CheckOverflow, ClearStale
<1>3. CASE Install(c) \/ SendBacklog(c) \/ Position(c)
  BY <1>3 DEF Install, SendBacklog, Batch, Position
<1>4. CASE Drain(c)
  <2>1. CASE Need(c, Head(queue[c]))
    BY <1>4, <2>1, Zenon DEF Drain, Batch
  <2>2. CASE ~Need(c, Head(queue[c]))
    BY <1>4, <2>2, Zenon DEF Drain
  <2>. QED
    BY <2>1, <2>2, Zenon
<1>5. CASE Report(c)
  BY <1>5, Zenon DEF Report
<1>6. CASE BootstrapSnapshot(c) \/ BootstrapDone(c) \/ RecordSnapshot(c)
  BY <1>6, Zenon DEF BootstrapSnapshot, BootstrapDone, RecordSnapshot
<1>7. CASE Ending(c)
  BY <1>7 DEF Ending, Leave
<1>. QED
  BY <1>1, <1>2, <1>3, <1>4, <1>5, <1>6, <1>7, Zenon DEF QuietStep

\* HeldInv is kept by a step that loses nothing held, sends no more than was to be sent and
\* claims only a position held through.
LEMMA HeldFrame ==
    ASSUME NEW c \in Clients, HeldInv(c), log' = log, received' = received, start' = start,
           Sound(c)' => Sound(c) /\ \A n \in 1..Len(log) : Due(c, n) /\ Held(c, n) => Held(c, n)',
           Registered(c)' => Registered(c),
           todo'[c] \subseteq todo[c],
           \A i \in 1..Len(queue'[c]) : \E j \in 1..Len(queue[c]) : queue'[c][i] = queue[c][j],
           (Sound(c) /\ pc[c] = "drain" /\ ~shaky[c] => HeldThrough(c, pos[c]))'
    PROVE  HeldInv(c)'
<1>1. \A n : (Due(c, n)' <=> Due(c, n)) /\ (Passed(n)' <=> Passed(n))
  BY Zenon DEF Due, Relevant, Broken, Passed, End
<1>2. Sound(c)' => \A cursor : HeldThrough(c, cursor) => HeldThrough(c, cursor)'
  BY <1>1, Zenon DEF HeldThrough, End
<1>3. (Sound(c) /\ Registered(c) => \A n \in 1..Len(log) : Due(c, n) /\ Passed(n) => Held(c, n))'
  BY <1>1, Zenon DEF HeldInv
<1>4. (Sound(c) => \A m \in todo[c] : HeldThrough(c, End(m)))'
  BY <1>2, Zenon DEF HeldInv, End
<1>5. (Sound(c) => \A i \in 1..Len(queue[c]) : HeldThrough(c, End(queue[c][i])))'
  BY <1>2, Zenon DEF HeldInv, End
<1>. QED
  BY <1>3, <1>4, <1>5, Zenon DEF HeldInv

\* What the ring holds has been accepted.
LEMMA RingAccepted ==
    ASSUME TypeOK, SourceInv
    PROVE  \A n \in Range(ring) : n \in Nat /\ 1 <= n /\ End(n) <= received
<1>1. SUFFICES ASSUME NEW n \in Range(ring) PROVE n \in Nat /\ 1 <= n /\ 2 * n <= received
  BY Zenon DEF End
<1>2. n \in Nat /\ ring # <<>>
  BY EmptyIsSeq DEF Range, TypeOK
<1>3. PICK first \in Nat, last \in Nat : first = ring[1] /\ last = ring[Len(ring)]
  BY <1>2, RingRange, Zenon
<1>4. first <= n /\ n <= last
  <2>1. n \in Int
    BY <1>2
  <2>. QED
    BY <1>1, <1>2, <1>3, <2>1, RingRange, Zenon
<1>5. received = 2 * last /\ 1 <= first
  <2>1. received = 2 * last /\ 1 <= start /\ start <= first
    BY <1>2, <1>3, Zenon DEF SourceInv, End
  <2>2. start \in Nat
    BY Zenon DEF TypeOK
  <2>. QED
    BY <2>1, <2>2
<1>. QED
  BY <1>2, <1>4, <1>5

--------------------------------------------------------------------------------
(* One lemma per step of a Watch call, about the client that takes it          *)

\* A Watch call that returns (Resync or error) and unregisters.
LEMMA EndingKeeps ==
    ASSUME Inv, NEW c \in Clients, Ending(c)
    PROVE  ClientInv(c)'
<1>1. TypeOK /\ ClientInv(c)
  BY Zenon DEF Inv
<1>2. /\ pc'[c] = "idle" /\ queue'[c] = <<>> /\ reason'[c] = "none" /\ todo'[c] = {}
      /\ base'[c] = NoCursor /\ baseSafe'[c] = FALSE /\ covered'[c] = {} /\ pos'[c] = NoCursor
      /\ tick'[c] = "none"
      /\ UNCHANGED <<log, received, have, saved, tainted, tickTaken, closing>>
  BY <1>1 DEF Ending, Leave, TypeOK, hubVars, ringVars, storeVars
<1>3. HeldInv(c)'
  BY <1>2, Zenon DEF HeldInv, Sound
<1>4. OrderInv(c)'
  BY <1>2, EmptyIsSeq DEF OrderInv
<1>5. PhaseInv(c)'
  <2>1. Len(log) \in Nat /\ saved[c] <= 2 * Len(log) + 1
    BY <1>1 DEF TypeOK, ClientInv, PhaseInv
  <2>. QED
    BY <1>2, <2>1 DEF PhaseInv, NoCursor, Rows, Reading, Live
<1>6. TickInv(c)'
  BY <1>2, Zenon DEF TickInv
<1>7. KeptInv(c)'
  BY <1>1, <1>2, Zenon DEF ClientInv, KeptInv, Complete, Relevant, Broken, End
<1>. QED
  BY <1>3, <1>4, <1>5, <1>6, <1>7, Zenon DEF ClientInv

\* snapshot registers its watcher and keeps the ring's transactions.
LEMMA StartSnapshotKeeps ==
    ASSUME Inv, NEW c \in Clients, StartSnapshot(c)
    PROVE  ClientInv(c)'
<1>1. TypeOK /\ SourceInv /\ VisibilityInv /\ ClientInv(c)
  BY Zenon DEF Inv
<1>2. /\ pc[c] = "idle" /\ pc'[c] = "begin" /\ queue'[c] = <<>> /\ reason'[c] = "none"
      /\ todo'[c] = {n \in Range(ring) : Relevant(c, n)} /\ baseSafe'[c] = FALSE
      /\ base'[c] = base[c] /\ covered'[c] = covered[c] /\ pos'[c] = pos[c] /\ tick'[c] = tick[c]
      /\ UNCHANGED <<log, visible, source, start, received, have, saved, tainted, tickTaken, closing>>
  BY <1>1, Zenon DEF StartSnapshot, TypeOK, srcVars, hubVars, ringVars, storeVars, mailVars, snapVars,
     liveVars, ClientInv, PhaseInv
<1>3. \A n \in Range(ring) : n \in Nat /\ 1 <= n /\ End(n) <= received
  BY <1>1, RingAccepted, Zenon
<1>4. ASSUME NEW n \in 1..Len(log), Due(c, n), Passed(n) PROVE Held(c, n)'
  <2>1. CASE n \in visible
    BY <1>2, <2>1, Zenon DEF Held, Reading
  <2>2. CASE n \notin visible
    <3>1. n \in Range(ring) /\ log[n].incompatible = {}
      BY <1>1, <1>4, <2>2, Zenon DEF VisibilityInv
    <3>2. Relevant(c, n)
      BY <1>4, <3>1, Zenon DEF Due, Broken
    <3>. QED
      BY <1>2, <3>1, <3>2, Zenon DEF Held
  <2>. QED
    BY <2>1, <2>2, Zenon
<1>5. \A n : (Due(c, n)' <=> Due(c, n)) /\ (Passed(n)' <=> Passed(n))
  BY <1>2, Zenon DEF Due, Relevant, Broken, Passed, End
<1>6. HeldInv(c)'
  <2>1. ASSUME NEW m \in todo'[c] PROVE HeldThrough(c, End(m))'
    <3>1. m \in Nat /\ End(m) <= received
      BY <1>2, <1>3, Zenon
    <3>2. \A n \in 1..Len(log) : End(n) <= End(m) => Passed(n)
      BY <1>1, <3>1 DEF Passed, End, TypeOK, Cursors, NoCursor
    <3>. QED
      BY <1>2, <1>4, <1>5, <3>2, Zenon DEF HeldThrough, End
  <2>. QED
    BY <1>2, <1>4, <1>5, <2>1, EmptyIsSeq DEF HeldInv, End
<1>7. OrderInv(c)'
  BY <1>2, <1>3, EmptyIsSeq DEF OrderInv, End
<1>8. PhaseInv(c)'
  BY <1>1, <1>2, Zenon DEF ClientInv, PhaseInv, Rows, Reading, Live
<1>9. TickInv(c)'
  BY <1>1, <1>2, Zenon DEF ClientInv, TickInv, Registered
<1>10. KeptInv(c)'
  BY <1>1, <1>2, Zenon DEF ClientInv, KeptInv, Complete, Relevant, Broken, End
<1>. QED
  BY <1>6, <1>7, <1>8, <1>9, <1>10, Zenon DEF ClientInv

\* resume copies the backlog and registers in one critical section.
LEMMA ResumeKeeps ==
    ASSUME Inv, NEW c \in Clients, Resume(c)
    PROVE  ClientInv(c)'
<1>1. TypeOK /\ SourceInv /\ ReplayWindow /\ ClientInv(c)
  BY Zenon DEF Inv
<1>2. /\ pc[c] = "idle" /\ pc'[c] = "backlog" /\ queue'[c] = <<>> /\ reason'[c] = "none"
      /\ todo'[c] = {n \in Range(ring) : Relevant(c, n) /\ After(n, saved[c])}
      /\ baseSafe'[c] = TRUE /\ base'[c] = saved[c] /\ saved[c] # NoCursor
      /\ covered'[c] = covered[c] /\ pos'[c] = pos[c] /\ tick'[c] = tick[c]
      /\ UNCHANGED <<log, visible, source, start, received, have, saved, tickTaken, closing>>
  BY <1>1, Zenon DEF Resume, TypeOK, srcVars, hubVars, ringVars, mailVars, liveVars, ClientInv, PhaseInv
<1>3. tainted'[c] <=> tainted[c] \/ \E n \in 1..Len(log) :
                        Broken(c, n) /\ End(n) <= received /\ After(n, saved[c])
  BY <1>1, Zenon DEF Resume, TypeOK
<1>4. floor # NoCursor /\ saved[c] >= floor
  BY Zenon DEF Resume, Refusal, Replayable
<1>5. floor \in Nat /\ saved[c] \in Nat /\ start \in Nat /\ received \in Int /\ 2 * (start - 1) <= floor
  BY <1>1, <1>2, <1>4 DEF TypeOK, Cursors, NoCursor, SourceInv
<1>6. source = "streaming"
  BY <1>1, <1>4, Zenon DEF SourceInv
<1>7. \A n : (Due(c, n)' <=> Due(c, n)) /\ (Passed(n)' <=> Passed(n))
  BY <1>2, Zenon DEF Due, Relevant, Broken, Passed, End
<1>8. ASSUME NEW n \in 1..Len(log), Due(c, n), Passed(n), ~tainted'[c] PROVE Held(c, n)'
  <2>1. CASE End(n) <= saved[c]
    <3>1. n \in have[c]
      BY <1>1, <1>2, <1>3, <1>8, <2>1, Zenon DEF ClientInv, KeptInv, Complete, Due
    <3>. QED
      BY <1>2, <3>1, Zenon DEF Held, Live
  <2>2. CASE ~(End(n) <= saved[c])
    <3>1. After(n, saved[c])
      BY <1>5, <2>2 DEF After, CommitLSN, End
    <3>2. End(n) <= received /\ floor < End(n)
      BY <1>4, <1>5, <1>8, <2>2 DEF Passed, End
    <3>3. Relevant(c, n)
      BY <1>3, <1>8, <3>1, <3>2, Zenon DEF Due
    <3>4. n \in Range(ring)
      BY <1>1, <1>4, <3>2, Zenon DEF ReplayWindow
    <3>. QED
      BY <1>2, <3>1, <3>3, <3>4, Zenon DEF Held
  <2>. QED
    BY <2>1, <2>2, Zenon
<1>9. \A n \in Range(ring) : n \in Nat /\ 1 <= n /\ End(n) <= received
  BY <1>1, RingAccepted, Zenon
<1>10. HeldInv(c)'
  <2>1. Sound(c)' => ~tainted'[c]
    BY <1>2, Zenon DEF Sound
  <2>2. ASSUME ~tainted'[c], NEW m \in todo'[c] PROVE HeldThrough(c, End(m))'
    <3>1. m \in Nat /\ End(m) <= received
      BY <1>2, <1>9, Zenon
    <3>2. \A n \in 1..Len(log) : End(n) <= End(m) => Passed(n)
      BY <1>5, <3>1 DEF Passed, End
    <3>. QED
      BY <1>2, <1>7, <1>8, <2>2, <3>2, Zenon DEF HeldThrough, End
  <2>. QED
    BY <1>2, <1>7, <1>8, <2>1, <2>2, EmptyIsSeq DEF HeldInv, End
<1>11. OrderInv(c)'
  BY <1>2, <1>9, EmptyIsSeq DEF OrderInv, End
<1>12. \A cursor : Complete(c, cursor)' <=> Complete(c, cursor)
  BY <1>2, Zenon DEF Complete, Relevant, Broken, End
<1>13. PhaseInv(c)'
  BY <1>1, <1>2, <1>3, <1>6, <1>12, Zenon DEF ClientInv, PhaseInv, KeptInv, Rows, Reading, Live
<1>14. TickInv(c)'
  BY <1>1, <1>2, Zenon DEF ClientInv, TickInv, Registered
<1>15. KeptInv(c)'
  BY <1>1, <1>2, <1>3, <1>12, Zenon DEF ClientInv, KeptInv
<1>. QED
  BY <1>10, <1>11, <1>13, <1>14, <1>15, Zenon DEF ClientInv

\* The snapshot of a source with no slot starts a bootstrap.
LEMMA BootstrapSnapshotKeeps ==
    ASSUME Inv, NEW c \in Clients, BootstrapSnapshot(c)
    PROVE  ClientInv(c)'
<1>1. TypeOK /\ SourceInv /\ ClientInv(c)
  BY Zenon DEF Inv
<1>2. /\ pc[c] = "begin" /\ pc'[c] = "bootstrap" /\ queue'[c] = queue[c] /\ reason'[c] = reason[c]
      /\ todo'[c] = todo[c] /\ baseSafe'[c] = baseSafe[c] /\ covered'[c] = 1..Len(log)
      /\ pos'[c] = pos[c] /\ tick'[c] = tick[c] /\ source = "none" /\ source' = "bootstrap"
      /\ start' = Len(log) + 1
      /\ UNCHANGED <<log, visible, received, have, saved, tainted, tickTaken, closing>>
  BY <1>1, Zenon DEF BootstrapSnapshot, TypeOK, hubVars, ringVars, storeVars, mailVars, liveVars
<1>3. 2 * Len(log) <= base'[c] /\ base'[c] <= 2 * Len(log) + 1 /\ Len(log) \in Nat
  <2>1. PICK k \in WalSlack : base'[c] = 2 * Len(log) + k
    BY <1>1, Zenon DEF BootstrapSnapshot, InsertPositions, TypeOK
  <2>2. k \in {0, 1} /\ Len(log) \in Nat
    BY <1>1, LagAssumption DEF TypeOK
  <2>. QED
    BY <2>1, <2>2
<1>4. \A n \in 1..Len(log) : Held(c, n)'
  BY <1>2, Zenon DEF Held, Rows
<1>5. HeldInv(c)'
  BY <1>2, <1>4, Zenon DEF HeldInv, HeldThrough, End
<1>6. OrderInv(c)'
  BY <1>1, <1>2, Zenon DEF ClientInv, OrderInv, End
<1>7. PhaseInv(c)'
  BY <1>1, <1>2, <1>3 DEF ClientInv, PhaseInv, Rows, Reading, Live
<1>8. TickInv(c)'
  BY <1>1, <1>2, Zenon DEF ClientInv, TickInv, Registered
<1>9. KeptInv(c)'
  BY <1>1, <1>2, Zenon DEF ClientInv, KeptInv, Complete, Relevant, Broken, End
<1>. QED
  BY <1>5, <1>6, <1>7, <1>8, <1>9, Zenon DEF ClientInv

\* The steps between registration and SnapshotEnd that only move on.
LEMMA ReadingKeeps ==
    ASSUME Inv, NEW c \in Clients,
           BootstrapDone(c) \/ ReadCursor(c) \/ (CheckOverflow(c) /\ ~Ended(c)) \/ RecordSnapshot(c)
    PROVE  ClientInv(c)'
<1>1. TypeOK /\ SourceInv /\ ClientInv(c)
  BY Zenon DEF Inv
<1>2. /\ queue'[c] = queue[c] /\ reason'[c] = reason[c]
      /\ todo'[c] = todo[c] /\ baseSafe'[c] = baseSafe[c] /\ covered'[c] = covered[c]
      /\ pos'[c] = pos[c] /\ tick'[c] = tick[c] /\ shaky'[c] = shaky[c]
      /\ UNCHANGED <<log, visible, start, received, have, saved, tainted, tickTaken, closing>>
  BY <1>1, Zenon DEF BootstrapDone, ReadCursor, CheckOverflow, RecordSnapshot, TypeOK, srcVars, hubVars,
     ringVars, storeVars, mailVars, snapVars, liveVars
<1>3. /\ \/ pc[c] \in Reading /\ pc'[c] = "reading"
         \/ pc[c] \in Rows /\ pc'[c] \in Rows \ {"bootstrap"}
      /\ source' = "streaming"
  BY <1>1, Zenon DEF BootstrapDone, ReadCursor, CheckOverflow, RecordSnapshot, TypeOK, srcVars, Reading, Rows,
     ClientInv, PhaseInv
<1>4. 2 * (start - 1) <= base'[c] /\ base'[c] <= 2 * Len(log) + 1
  <2>1. CASE ReadCursor(c)
    <3>1. PICK k \in WalSlack : base'[c] = 2 * Len(log) + k
      BY <1>1, <2>1 DEF ReadCursor, InsertPositions, TypeOK
    <3>2. k \in {0, 1} /\ Len(log) \in Nat /\ start \in Nat /\ start <= Len(log) + 1
      BY <1>1, LagAssumption DEF TypeOK, SourceInv
    <3>. QED
      BY <3>1, <3>2
  <2>2. CASE ~ReadCursor(c)
    <3>1. base'[c] = base[c] /\ pc[c] \in Rows
      BY <1>1, <2>2, Zenon DEF BootstrapDone, CheckOverflow, RecordSnapshot, TypeOK, snapVars, Rows
    <3>. QED
      BY <1>1, <3>1, Zenon DEF ClientInv, PhaseInv
  <2>. QED
    BY <2>1, <2>2, Zenon
<1>5. HeldInv(c)'
  <2>1. \A n : Held(c, n) => Held(c, n)'
    BY <1>2, <1>3, Zenon DEF Held, Reading, Rows, Live
  <2>2. Sound(c)' => Sound(c)
    BY <1>2, <1>3, Zenon DEF Sound, Reading, Rows
  <2>3. Registered(c)' => Registered(c)
    BY <1>2, <1>3, Zenon DEF Registered, Reading, Rows
  <2>4. (Sound(c) /\ pc[c] = "drain" /\ ~shaky[c] => HeldThrough(c, pos[c]))'
    BY <1>3, Zenon DEF Rows
  <2>5. \A i \in 1..Len(queue'[c]) : \E j \in 1..Len(queue[c]) : queue'[c][i] = queue[c][j]
    BY <1>2, Zenon
  <2>6. HeldInv(c)
    BY <1>1, Zenon DEF ClientInv
  <2>. QED
    BY <1>2, <2>1, <2>2, <2>3, <2>4, <2>5, <2>6, HeldFrame, Zenon
<1>6. OrderInv(c)'
  BY <1>1, <1>2, <1>3, Zenon DEF ClientInv, OrderInv, End, Rows
<1>7. PhaseInv(c)'
  BY <1>1, <1>2, <1>3, <1>4, Zenon DEF ClientInv, PhaseInv, Rows, Reading, Live
<1>8. TickInv(c)'
  BY <1>1, <1>2, <1>3, Zenon DEF ClientInv, TickInv, Registered, Rows
<1>9. KeptInv(c)'
  BY <1>1, <1>2, Zenon DEF ClientInv, KeptInv, Complete, Relevant, Broken, End
<1>. QED
  BY <1>5, <1>6, <1>7, <1>8, <1>9, Zenon DEF ClientInv

\* The MVCC snapshot is fixed; the streamed transactions it covers are dropped; the rows
\* become the projection.
LEMMA RowsKeep ==
    ASSUME Inv, NEW c \in Clients, FixSnapshot(c) \/ ClearStale(c) \/ Install(c)
    PROVE  ClientInv(c)'
<1>1. TypeOK /\ SourceInv /\ ClientInv(c)
  BY Zenon DEF Inv
<1>2. /\ queue'[c] = queue[c] /\ reason'[c] = reason[c] /\ base'[c] = base[c]
      /\ baseSafe'[c] = baseSafe[c] /\ pos'[c] = pos[c] /\ tick'[c] = tick[c]
      /\ UNCHANGED <<log, visible, source, start, received, tickTaken, closing>>
  BY <1>1, Zenon DEF FixSnapshot, ClearStale, Install, TypeOK, srcVars, hubVars, ringVars, mailVars,
     snapVars, liveVars
<1>3. \/ /\ pc[c] = "reading" /\ pc'[c] = "read" /\ covered'[c] = visible /\ todo'[c] = todo[c]
         /\ UNCHANGED <<have, saved, tainted>>
      \/ /\ pc[c] = "clear" /\ pc'[c] = "record" /\ covered'[c] = covered[c]
         /\ todo'[c] = todo[c] \ covered[c] /\ UNCHANGED <<have, saved, tainted>>
      \/ /\ pc[c] = "install" /\ pc'[c] = "backlog" /\ covered'[c] = covered[c] /\ todo'[c] = todo[c]
         /\ have'[c] = covered[c] /\ saved'[c] = NoCursor
  BY <1>1 DEF FixSnapshot, ClearStale, Install, TypeOK, snapVars, storeVars
<1>4. ~baseSafe[c] /\ source = "streaming" /\ pc'[c] \in {"read", "record", "backlog"}
  BY <1>1, <1>3, Zenon DEF ClientInv, PhaseInv, Reading, Rows
<1>5. HeldInv(c)'
  <2>1. \A n : Held(c, n) => Held(c, n)'
    BY <1>2, <1>3, Zenon DEF Held, Reading, Rows, Live
  <2>2. Sound(c)' => Sound(c)
    BY <1>2, <1>3, <1>4, Zenon DEF Sound
  <2>3. Registered(c)' => Registered(c)
    BY <1>2, <1>3, Zenon DEF Registered
  <2>4. (Sound(c) /\ pc[c] = "drain" /\ ~shaky[c] => HeldThrough(c, pos[c]))'
    BY <1>4, Zenon
  <2>5. \A i \in 1..Len(queue'[c]) : \E j \in 1..Len(queue[c]) : queue'[c][i] = queue[c][j]
    BY <1>2, Zenon
  <2>6. HeldInv(c) /\ todo'[c] \subseteq todo[c]
    BY <1>1, <1>3, Zenon DEF ClientInv
  <2>. QED
    BY <1>2, <2>1, <2>2, <2>3, <2>4, <2>5, <2>6, HeldFrame, Zenon
<1>6. OrderInv(c)'
  BY <1>1, <1>2, <1>3, <1>4, Zenon DEF ClientInv, OrderInv, End
<1>7. PhaseInv(c)'
  <2>1. saved'[c] <= 2 * Len(log) + 1
    <3>1. saved[c] <= 2 * Len(log) + 1 /\ (saved'[c] = saved[c] \/ saved'[c] = -1)
      BY <1>1, <1>3, Zenon DEF ClientInv, PhaseInv, NoCursor
    <3>2. Len(log) \in Nat
      BY <1>1 DEF TypeOK
    <3>. QED
      BY <3>1, <3>2
  <2>2. covered'[c] \subseteq 1..Len(log)
    BY <1>1, <1>3, Zenon DEF ClientInv, PhaseInv, TypeOK
  <2>3. pc'[c] \in Live => covered'[c] \subseteq have'[c]
    BY <1>3, Zenon DEF Live
  <2>. QED
    BY <1>1, <1>2, <1>3, <1>4, <2>1, <2>2, <2>3, Zenon DEF ClientInv, PhaseInv, Rows, Reading, Live
<1>8. TickInv(c)'
  BY <1>1, <1>2, <1>4, Zenon DEF ClientInv, TickInv, Registered
<1>9. KeptInv(c)'
  BY <1>1, <1>2, <1>3, Zenon DEF ClientInv, KeptInv, Complete, Relevant, Broken, End
<1>. QED
  BY <1>5, <1>6, <1>7, <1>8, <1>9, Zenon DEF ClientInv

\* The oldest transaction of the backlog is sent.
LEMMA SendBacklogKeeps ==
    ASSUME Inv, NEW c \in Clients, SendBacklog(c)
    PROVE  ClientInv(c)'
<1>1. TypeOK /\ SourceInv /\ ClientInv(c)
  BY Zenon DEF Inv
<1>2. PICK n \in todo[c] : /\ \A m \in todo[c] : n <= m
                           /\ Batch(c, n) /\ todo' = [todo EXCEPT ![c] = @ \ {n}]
  BY Zenon DEF SendBacklog
<1>3. /\ pc[c] = "backlog" /\ pc'[c] = "backlog" /\ queue'[c] = queue[c] /\ reason'[c] = reason[c]
      /\ todo'[c] = todo[c] \ {n} /\ base'[c] = base[c] /\ baseSafe'[c] = baseSafe[c]
      /\ covered'[c] = covered[c] /\ pos'[c] = pos[c] /\ tick'[c] = tick[c]
      /\ have'[c] = have[c] \cup {n} /\ saved'[c] = End(n) /\ tainted'[c] = tainted[c]
      /\ UNCHANGED <<log, visible, source, start, received, tickTaken, closing>>
  BY <1>1, <1>2, Zenon DEF SendBacklog, Batch, TypeOK, srcVars, hubVars, ringVars, mailVars, snapVars, liveVars
<1>4. n \in Nat /\ End(n) <= received /\ todo[c] \subseteq Nat /\ queue[c] \in Seq(Nat)
  BY <1>1, Zenon DEF ClientInv, OrderInv, TypeOK
<1>5. HeldInv(c)'
  <2>1. \A m : Held(c, m) => Held(c, m)'
    BY <1>3, Zenon DEF Held, Reading, Rows, Live
  <2>2. (Sound(c)' => Sound(c)) /\ (Registered(c)' => Registered(c))
    BY <1>3, Zenon DEF Sound, Registered
  <2>3. (Sound(c) /\ pc[c] = "drain" /\ ~shaky[c] => HeldThrough(c, pos[c]))'
    BY <1>3, Zenon
  <2>4. \A i \in 1..Len(queue'[c]) : \E j \in 1..Len(queue[c]) : queue'[c][i] = queue[c][j]
    BY <1>3, Zenon
  <2>5. HeldInv(c) /\ todo'[c] \subseteq todo[c]
    BY <1>1, <1>3, Zenon DEF ClientInv
  <2>. QED
    BY <1>3, <2>1, <2>2, <2>3, <2>4, <2>5, HeldFrame, Zenon
<1>6. OrderInv(c)'
  BY <1>1, <1>3, Zenon DEF ClientInv, OrderInv, End
<1>7. \A cursor : Complete(c, cursor) => Complete(c, cursor)'
  BY <1>3, Zenon DEF Complete, Relevant, Broken, End
<1>8. PhaseInv(c)'
  <2>1. End(n) <= 2 * Len(log) + 1
    <3>1. received <= 2 * Len(log) /\ received \in Int /\ Len(log) \in Nat
      BY <1>1, NotYetPassed, Zenon
    <3>2. PICK end \in Nat : end = End(n)
      <4>1. n \in Nat
        BY <1>4, Zenon
      <4>2. 2 * n \in Nat
        BY <4>1, TwiceNat, Zenon
      <4>. QED
        BY <4>2, Zenon DEF End
    <3>3. end <= 2 * Len(log) + 1
      <4>1. end <= received
        BY <1>4, <3>2, Zenon
      <4>. QED
        BY <3>1, <4>1, UnderTwice, Zenon
    <3>. QED
      BY <3>2, <3>3, Zenon
  <2>. QED
    BY <1>1, <1>3, <1>7, <2>1, Zenon DEF ClientInv, PhaseInv, Rows, Reading, Live
<1>9. TickInv(c)'
  BY <1>1, <1>3, Zenon DEF ClientInv, TickInv, Registered
<1>10. KeptInv(c)'
  <2>1. SUFFICES ASSUME ~tainted[c], NEW m \in 1..Len(log), Due(c, m), End(m) <= End(n)
                 PROVE  m \in have[c] \cup {n}
    BY <1>3, Zenon DEF KeptInv, Complete, Due, Relevant, Broken, End
  <2>2. Held(c, m)
    BY <1>1, <1>3, <2>1, Zenon DEF ClientInv, HeldInv, HeldThrough, Sound
  <2>3. CASE m \in todo[c]
    BY <1>2, <1>4, <2>1, <2>3 DEF End
  <2>4. CASE m \in Range(queue[c])
    <3>1. PICK i \in 1..Len(queue[c]) : m = queue[c][i]
      BY <1>4, <2>4 DEF Range
    <3>2. n < m /\ n \in Nat /\ m \in Nat
      <4>1. m \in Nat
        BY <2>1
      <4>. QED
        BY <1>1, <1>2, <1>4, <3>1, <4>1, Zenon DEF ClientInv, OrderInv
    <3>. QED
      BY <2>1, <3>2, EndOrder, Zenon
  <2>. QED
    BY <1>3, <2>2, <2>3, <2>4, Zenon DEF Held, Reading, Rows
<1>. QED
  BY <1>5, <1>6, <1>8, <1>9, <1>10, Zenon DEF ClientInv

\* The position live is about to claim is held through, unless the claim is shaky.
LEMMA PositionKeeps ==
    ASSUME Inv, NEW c \in Clients, Position(c)
    PROVE  ClientInv(c)'
<1>1. TypeOK /\ SourceInv /\ ClientInv(c)
  BY Zenon DEF Inv
<1>2. /\ pc[c] \in {"backlog", "select"} /\ pc'[c] = "drain" /\ queue'[c] = queue[c]
      /\ reason'[c] = reason[c] /\ todo'[c] = todo[c] /\ base'[c] = base[c]
      /\ baseSafe'[c] = baseSafe[c] /\ covered'[c] = covered[c] /\ pos'[c] = LivePosition(c)
      /\ tick'[c] = "current" /\ tickTaken' /\ (shaky'[c] <=> Shaky(c))
      /\ UNCHANGED <<log, visible, source, start, received, have, saved, tainted, closing>>
  BY <1>1, Zenon DEF Position, TypeOK, srcVars, hubVars, ringVars, mailVars, snapVars, storeVars
<1>3. todo[c] = {}
  BY <1>1, Zenon DEF Position, ClientInv, OrderInv
<1>4. base[c] \in Int /\ received \in Int /\ received <= 2 * Len(log) /\ Len(log) \in Nat
  BY <1>1, NotYetPassed DEF TypeOK, Cursors, NoCursor
<1>5. \A n : Held(c, n)' <=> Held(c, n)
  BY <1>2, Zenon DEF Held, Reading, Rows, Live
<1>6. \A n : Due(c, n)' <=> Due(c, n)
  BY <1>2, Zenon DEF Due, Relevant, Broken
<1>7. (Sound(c) /\ pc[c] = "drain" /\ ~shaky[c] => HeldThrough(c, pos[c]))'
  <2>1. SUFFICES ASSUME Sound(c)', ~Shaky(c), NEW n \in 1..Len(log), Due(c, n), End(n) <= LivePosition(c)
                 PROVE  Held(c, n)
    BY <1>2, <1>5, <1>6, Zenon DEF HeldThrough, End
  <2>2. Sound(c) /\ Registered(c)
    BY <1>2, <2>1, Zenon DEF Sound, Shaky, Ended, Registered
  <2>3. CASE End(n) <= received
    BY <1>1, <2>1, <2>2, <2>3, Zenon DEF ClientInv, HeldInv, Passed
  <2>4. CASE ~(End(n) <= received) /\ baseSafe[c]
    <3>1. End(n) <= base[c]
      BY <2>1, <2>4, Zenon DEF LivePosition
    <3>2. n \in have[c]
      BY <1>1, <1>2, <2>1, <2>2, <2>4, <3>1, Zenon DEF ClientInv, PhaseInv, Live, Complete, Due, Sound
    <3>. QED
      BY <1>2, <3>2, Zenon DEF Held, Live
  <2>5. CASE ~(End(n) <= received) /\ ~baseSafe[c]
    <3>1. End(n) <= base[c] /\ received = NoCursor
      BY <2>1, <2>5, Zenon DEF LivePosition
    <3>2. n \in covered[c]
      BY <2>1, <2>5, <3>1, Zenon DEF Shaky
    <3>3. n \in have[c]
      BY <1>1, <1>2, <2>5, <3>2, Zenon DEF ClientInv, PhaseInv, Live
    <3>. QED
      BY <1>2, <3>3, Zenon DEF Held, Live
  <2>. QED
    BY <2>3, <2>4, <2>5, Zenon
<1>8. HeldInv(c)'
  <2>1. (Sound(c)' => Sound(c)) /\ (Registered(c)' => Registered(c))
    BY <1>2, Zenon DEF Sound, Registered
  <2>2. \A i \in 1..Len(queue'[c]) : \E j \in 1..Len(queue[c]) : queue'[c][i] = queue[c][j]
    BY <1>2, Zenon
  <2>3. HeldInv(c) /\ todo'[c] \subseteq todo[c]
    BY <1>1, <1>2, Zenon DEF ClientInv
  <2>. QED
    BY <1>2, <1>5, <1>7, <2>1, <2>2, <2>3, HeldFrame, Zenon
<1>9. OrderInv(c)'
  BY <1>1, <1>2, <1>3, Zenon DEF ClientInv, OrderInv, End
<1>10. PhaseInv(c)'
  <2>1. LivePosition(c) <= 2 * Len(log) + 1
    BY <1>1, <1>4 DEF LivePosition, ClientInv, PhaseInv
  <2>2. \A cursor : Complete(c, cursor) => Complete(c, cursor)'
    BY <1>2, Zenon DEF Complete, Relevant, Broken, End
  <2>. QED
    BY <1>1, <1>2, <2>1, <2>2, Zenon DEF ClientInv, PhaseInv, Rows, Reading, Live
<1>11. TickInv(c)'
  <2>1. received <= LivePosition(c)
    <3>1. base[c] \in Cursors
      BY <1>1, Zenon DEF TypeOK
    <3>2. received = NoCursor => received <= base[c]
      BY <3>1 DEF Cursors, NoCursor
    <3>. QED
      BY <1>4, <3>2 DEF LivePosition, Later
  <2>. QED
    BY <1>2, <2>1, Zenon DEF TickInv
<1>12. KeptInv(c)'
  BY <1>1, <1>2, Zenon DEF ClientInv, KeptInv, Complete, Relevant, Broken, End
<1>. QED
  BY <1>8, <1>9, <1>10, <1>11, <1>12, Zenon DEF ClientInv

\* A queued transaction is sent unless the projection has it.
LEMMA DrainKeeps ==
    ASSUME Inv, NEW c \in Clients, Drain(c)
    PROVE  ClientInv(c)'
<1>1. TypeOK /\ SourceInv /\ ClientInv(c)
  BY Zenon DEF Inv
<1>2. PICK q \in Seq(Nat), n \in Nat : q = queue[c] /\ n = Head(q) /\ q # <<>>
  BY <1>1, TailNat, Zenon DEF Drain, TypeOK
<1>3. /\ pc[c] = "drain" /\ pc'[c] = "drain" /\ queue'[c] = Tail(q) /\ reason'[c] = reason[c]
      /\ todo'[c] = todo[c] /\ base'[c] = base[c] /\ baseSafe'[c] = baseSafe[c]
      /\ covered'[c] = covered[c] /\ pos'[c] = MaxCursor(End(n), pos[c]) /\ tick'[c] = tick[c]
      /\ shaky'[c] = shaky[c]
      /\ UNCHANGED <<log, visible, source, start, received, tickTaken, closing>>
  BY <1>1, <1>2, Zenon DEF Drain, TypeOK, srcVars, hubVars, ringVars, snapVars
<1>4. /\ Need(c, n) => have'[c] = have[c] \cup {n} /\ saved'[c] = End(n) /\ tainted'[c] = tainted[c]
      /\ ~Need(c, n) => have'[c] = have[c] /\ saved'[c] = saved[c] /\ tainted'[c] = tainted[c]
  <2>1. CASE Need(c, n)
    <3>1. Batch(c, n)
      BY <1>2, <2>1, Zenon DEF Drain
    <3>. QED
      BY <1>1, <2>1, <3>1, Zenon DEF Batch, TypeOK
  <2>2. CASE ~Need(c, n)
    BY <1>2, <2>2, Zenon DEF Drain, storeVars
  <2>. QED
    BY <2>1, <2>2, Zenon
<1>5. /\ Len(q) \in Nat \ {0} /\ Tail(q) \in Seq(Nat) /\ Len(Tail(q)) = Len(q) - 1 /\ n = q[1]
      /\ \A i \in 1..(Len(q) - 1) : Tail(q)[i] = q[i + 1]
  BY <1>2, TailNat, Zenon
<1>6. /\ \A i \in 1..Len(q) : q[i] \in Nat /\ 1 <= q[i] /\ End(q[i]) <= received
      /\ \A i, j \in 1..Len(q) : i < j => q[i] < q[j]
      /\ todo[c] = {}
  <2>1. /\ \A i \in 1..Len(q) : 1 <= q[i] /\ End(q[i]) <= received
        /\ \A i, j \in 1..Len(q) : i < j => q[i] < q[j]
        /\ todo[c] = {}
    BY <1>1, <1>2, <1>3, Zenon DEF ClientInv, OrderInv
  <2>2. \A i \in 1..Len(q) : q[i] \in Nat
    OBVIOUS
  <2>. QED
    BY <2>1, <2>2, Zenon
<1>7. 1 <= n /\ End(n) <= received /\ received \in Int /\ pos[c] \in Int /\ saved[c] \in Int
  BY <1>1, <1>5, <1>6 DEF TypeOK, Cursors, NoCursor
<1>8. /\ 1 \in 1..Len(q)
      /\ \A i \in 1..Len(Tail(q)) : i \in Nat /\ i + 1 \in 1..Len(q) /\ i \in 1..(Len(q) - 1)
  BY <1>5
<1>9. Range(q) = {n} \cup Range(Tail(q))
  <2>1. Range(q) = {q[i] : i \in 1..Len(q)} /\ Range(Tail(q)) = {Tail(q)[i] : i \in 1..Len(Tail(q))}
    BY <1>5, RangeNat, Zenon
  <2>2. ASSUME NEW i \in 1..Len(q) PROVE i = 1 \/ (i - 1 \in 1..Len(Tail(q)) /\ Tail(q)[i - 1] = q[i])
    <3>1. i # 1 => i - 1 \in 1..(Len(q) - 1) /\ (i - 1) + 1 = i
      BY <1>5
    <3>. QED
      BY <1>5, <3>1, Zenon
  <2>3. ASSUME NEW i \in 1..Len(Tail(q)) PROVE i + 1 \in 1..Len(q) /\ Tail(q)[i] = q[i + 1]
    BY <1>5, <1>8, Zenon
  <2>4. Range(q) \subseteq {n} \cup Range(Tail(q))
    <3>1. SUFFICES ASSUME NEW m \in Range(q) PROVE m = n \/ m \in Range(Tail(q))
      BY Zenon
    <3>2. PICK i \in 1..Len(q) : m = q[i]
      BY <2>1, <3>1, Zenon
    <3>. QED
      BY <1>5, <2>1, <2>2, <3>2, Zenon
  <2>5. Range(Tail(q)) \subseteq Range(q)
    BY <2>1, <2>3, Zenon
  <2>6. n \in Range(q)
    BY <1>5, <1>8, <2>1, Zenon
  <2>. QED
    BY <2>4, <2>5, <2>6, Zenon
<1>10. Sound(c) /\ Due(c, n) => n \in have'[c]
  <2>1. n \in 1..Len(log)
    <3>1. received <= 2 * Len(log) /\ Len(log) \in Nat /\ 2 * n <= received
      BY <1>1, <1>7, NotYetPassed, Zenon DEF End
    <3>. QED
      BY <1>7, <3>1
  <2>2. CASE Need(c, n)
    BY <1>4, <2>2, Zenon
  <2>3. CASE ~Need(c, n) /\ ~baseSafe[c]
    BY <1>1, <1>3, <1>4, <2>3, Zenon DEF Need, ClientInv, PhaseInv, Live
  <2>4. CASE ~Need(c, n) /\ baseSafe[c]
    <3>1. End(n) <= base[c]
      <4>1. base[c] \in Int
        BY <1>1 DEF TypeOK, Cursors, NoCursor
      <4>2. ~(2 * n - 1 >= base[c])
        BY <2>4, Zenon DEF Need, After, CommitLSN
      <4>. QED
        BY <4>1, <4>2 DEF End
    <3>2. Sound(c) => Complete(c, base[c])
      BY <1>1, <1>3, <2>4, Zenon DEF ClientInv, PhaseInv, Live, Sound
    <3>. QED
      BY <1>4, <2>1, <2>4, <3>1, <3>2, Zenon DEF Complete, Due
  <2>. QED
    BY <2>2, <2>3, <2>4, Zenon
<1>11. have[c] \subseteq have'[c] /\ tainted'[c] = tainted[c]
  BY <1>4, Zenon
<1>12. Sound(c) => \A m \in 1..Len(log) : Due(c, m) /\ Held(c, m) => Held(c, m)'
  BY <1>2, <1>3, <1>9, <1>10, <1>11, Zenon DEF Held, Reading, Rows, Live
<1>13. \A i \in 1..Len(queue'[c]) : i + 1 \in 1..Len(q) /\ i \in Nat /\ queue'[c][i] = q[i + 1]
  BY <1>3, <1>5, <1>8, Zenon
<1>14. \A m : Due(c, m)' <=> Due(c, m)
  BY <1>3, Zenon DEF Due, Relevant, Broken
<1>15. HeldInv(c)'
  <2>1. (Sound(c)' => Sound(c)) /\ (Registered(c)' => Registered(c))
    BY <1>3, <1>11, Zenon DEF Sound, Registered
  <2>2. \A i \in 1..Len(queue'[c]) : \E j \in 1..Len(queue[c]) : queue'[c][i] = queue[c][j]
    BY <1>2, <1>13, Zenon
  <2>3. HeldInv(c) /\ todo'[c] \subseteq todo[c]
    BY <1>1, <1>3, Zenon DEF ClientInv
  <2>4. (Sound(c) /\ pc[c] = "drain" /\ ~shaky[c] => HeldThrough(c, pos[c]))'
    <3>1. SUFFICES ASSUME Sound(c), ~shaky[c], NEW m \in 1..Len(log), Due(c, m),
                          End(m) <= MaxCursor(End(n), pos[c])
                   PROVE  Held(c, m)
      BY <1>3, <1>12, <1>14, <2>1, Zenon DEF HeldThrough, End
    <3>2. HeldThrough(c, End(n)) /\ HeldThrough(c, pos[c])
      BY <1>2, <1>3, <1>5, <1>8, <2>3, <3>1, Zenon DEF HeldInv
    <3>3. End(m) <= End(n) \/ End(m) <= pos[c]
      BY <3>1, Zenon DEF MaxCursor
    <3>. QED
      BY <3>1, <3>2, <3>3, Zenon DEF HeldThrough
  <2>. QED
    BY <1>3, <1>12, <2>1, <2>2, <2>3, <2>4, HeldFrame, Zenon
<1>16. OrderInv(c)'
  <2>1. \A i \in 1..Len(queue'[c]) : 1 <= queue'[c][i] /\ End(queue'[c][i]) <= received
    BY <1>6, <1>13, Zenon
  <2>2. \A i, j \in 1..Len(queue'[c]) : i < j => queue'[c][i] < queue'[c][j]
    <3>1. SUFFICES ASSUME NEW i \in 1..Len(queue'[c]), NEW j \in 1..Len(queue'[c]), i < j
                   PROVE  queue'[c][i] < queue'[c][j]
      BY Zenon
    <3>2. i + 1 \in 1..Len(q) /\ j + 1 \in 1..Len(q) /\ i + 1 < j + 1
      BY <1>13, <3>1, SMTT(30)
    <3>3. q[i + 1] < q[j + 1]
      BY <1>6, <3>2, Zenon
    <3>. QED
      BY <1>13, <3>3, Zenon
  <2>. QED
    BY <1>3, <1>6, <2>1, <2>2, Zenon DEF OrderInv, End
<1>17. PhaseInv(c)'
  <2>1. End(n) <= 2 * Len(log) + 1 /\ End(n) \in Int
    <3>1. received <= 2 * Len(log) /\ Len(log) \in Nat /\ 2 * n <= received
      BY <1>1, <1>7, NotYetPassed, Zenon DEF End
    <3>. QED
      BY <1>7, <3>1 DEF End
  <2>2. pos'[c] <= 2 * Len(log) + 1
    BY <1>1, <1>3, <2>1, Zenon DEF ClientInv, PhaseInv, MaxCursor
  <2>3. saved'[c] <= 2 * Len(log) + 1
    BY <1>1, <1>4, <2>1, Zenon DEF ClientInv, PhaseInv
  <2>4. \A cursor : Complete(c, cursor) => Complete(c, cursor)'
    BY <1>3, <1>11, Zenon DEF Complete, Relevant, Broken, End
  <2>. QED
    BY <1>1, <1>3, <1>11, <2>2, <2>3, <2>4, Zenon DEF ClientInv, PhaseInv, Rows, Reading, Live
<1>18. TickInv(c)'
  <2>1. pos[c] <= pos'[c]
    <3>1. pos'[c] = MaxCursor(2 * n, pos[c])
      BY <1>3, Zenon DEF End
    <3>. QED
      BY <1>7, <3>1 DEF MaxCursor, Later
  <2>2. pos'[c] \in Int
    BY <1>3, <1>7 DEF MaxCursor, End
  <2>. QED
    <3>1. received <= pos[c] => received <= pos'[c]
      BY <1>7, <2>1, <2>2
    <3>. QED
      BY <1>1, <1>3, <3>1, Zenon DEF ClientInv, TickInv, Registered
<1>19. KeptInv(c)'
  <2>1. CASE ~Need(c, n)
    BY <1>1, <1>3, <1>4, <2>1, Zenon DEF ClientInv, KeptInv, Complete, Relevant, Broken, End
  <2>2. CASE Need(c, n)
    <3>1. SUFFICES ASSUME ~tainted[c], NEW m \in 1..Len(log), Due(c, m), End(m) <= End(n)
                   PROVE  m \in have[c] \cup {n}
      BY <1>3, <1>4, <2>2, Zenon DEF KeptInv, Complete, Due, Relevant, Broken, End
    <3>2. Held(c, m)
      BY <1>1, <1>2, <1>3, <1>5, <1>8, <3>1, Zenon DEF ClientInv, HeldInv, HeldThrough, Sound
    <3>3. CASE m \in Range(queue[c])
      <4>1. PICK i \in 1..Len(q) : m = q[i]
        BY <1>2, <3>3 DEF Range
      <4>2. i = 1 \/ q[1] < q[i]
        BY <1>5, <1>6, <1>8
      <4>. QED
        BY <1>5, <1>6, <3>1, <4>1, <4>2 DEF End
    <3>. QED
      BY <1>3, <1>6, <3>2, <3>3, Zenon DEF Held, Reading, Rows
  <2>. QED
    BY <2>1, <2>2, Zenon
<1>. QED
  BY <1>15, <1>16, <1>17, <1>18, <1>19, Zenon DEF ClientInv

\* Progress: the queue and the backlog are empty, so what is held is in the projection.
LEMMA ReportKeeps ==
    ASSUME Inv, NEW c \in Clients, Report(c)
    PROVE  ClientInv(c)'
<1>1. TypeOK /\ SourceInv /\ ClientInv(c)
  BY Zenon DEF Inv
<1>2. /\ pc[c] = "drain" /\ pc'[c] = "select" /\ queue[c] = <<>> /\ queue'[c] = <<>>
      /\ reason'[c] = reason[c] /\ todo'[c] = todo[c] /\ base'[c] = base[c]
      /\ baseSafe'[c] = baseSafe[c] /\ covered'[c] = covered[c] /\ pos'[c] = NoCursor
      /\ progressed'[c] = MaxCursor(pos[c], progressed[c]) /\ tick'[c] = tick[c]
      /\ have'[c] = have[c]
      /\ UNCHANGED <<log, visible, source, start, received, tickTaken, closing>>
  BY <1>1, Zenon DEF Report, TypeOK, srcVars, hubVars, ringVars, mailVars, snapVars
<1>3. \/ saved'[c] = pos[c] /\ (tainted'[c] <=> tainted[c] \/ shaky[c])
      \/ saved'[c] = saved[c] /\ tainted'[c] = tainted[c]
  BY <1>1, Zenon DEF Report, TypeOK
<1>4. todo[c] = {} /\ Range(queue[c]) = {}
  BY <1>1, <1>2, EmptyIsSeq DEF ClientInv, OrderInv, Range
<1>5. pos[c] \in Int /\ progressed[c] \in Int /\ received \in Int /\ Len(log) \in Nat
  BY <1>1 DEF TypeOK, Cursors, NoCursor
<1>6. HeldInv(c)'
  <2>1. \A n : Held(c, n) => Held(c, n)'
    BY <1>2, Zenon DEF Held, Reading, Rows, Live
  <2>2. (Sound(c)' => Sound(c)) /\ (Registered(c)' => Registered(c))
    BY <1>2, <1>3, Zenon DEF Sound, Registered
  <2>3. (Sound(c) /\ pc[c] = "drain" /\ ~shaky[c] => HeldThrough(c, pos[c]))'
    BY <1>2, Zenon
  <2>4. \A i \in 1..Len(queue'[c]) : \E j \in 1..Len(queue[c]) : queue'[c][i] = queue[c][j]
    BY <1>2, Zenon
  <2>5. HeldInv(c) /\ todo'[c] \subseteq todo[c]
    BY <1>1, <1>2, Zenon DEF ClientInv
  <2>. QED
    BY <1>2, <2>1, <2>2, <2>3, <2>4, <2>5, HeldFrame, Zenon
<1>7. OrderInv(c)'
  BY <1>1, <1>2, <1>4, EmptyIsSeq, Zenon DEF ClientInv, OrderInv, End
<1>8. \A cursor : Complete(c, cursor)' <=> Complete(c, cursor)
  BY <1>2, Zenon DEF Complete, Relevant, Broken, End
<1>9. PhaseInv(c)'
  <2>1. saved'[c] <= 2 * Len(log) + 1
    BY <1>1, <1>3, Zenon DEF ClientInv, PhaseInv
  <2>2. pos'[c] <= 2 * Len(log) + 1
    BY <1>2, <1>5 DEF NoCursor
  <2>3. ~tainted'[c] => ~tainted[c]
    BY <1>3, Zenon
  <2>. QED
    BY <1>1, <1>2, <1>8, <2>1, <2>2, <2>3, Zenon DEF ClientInv, PhaseInv, Rows, Reading, Live
<1>10. TickInv(c)'
  <2>1. pos[c] <= progressed'[c] /\ progressed'[c] \in Int
    <3>1. progressed'[c] = MaxCursor(pos[c], progressed[c])
      BY <1>2, Zenon
    <3>. QED
      BY <1>5, <3>1 DEF MaxCursor, Later
  <2>2. Registered(c)' => Registered(c)
    BY <1>2, Zenon DEF Registered
  <2>3. Registered(c) /\ tick[c] = "current" => received <= pos[c]
    BY <1>1, <1>2, Zenon DEF ClientInv, TickInv
  <2>4. Registered(c) /\ tick[c] = "current" => received <= progressed'[c]
    BY <1>5, <2>1, <2>3
  <2>. QED
    BY <1>1, <1>2, <2>2, <2>4, Zenon DEF ClientInv, TickInv
<1>11. KeptInv(c)'
  <2>1. CASE saved'[c] = saved[c] /\ tainted'[c] = tainted[c]
    BY <1>1, <1>8, <2>1, Zenon DEF ClientInv, KeptInv
  <2>2. CASE saved'[c] = pos[c] /\ (tainted'[c] <=> tainted[c] \/ shaky[c])
    <3>1. ~tainted'[c] => HeldThrough(c, pos[c])
      BY <1>1, <1>2, <2>2, Zenon DEF ClientInv, HeldInv, Sound
    <3>2. HeldThrough(c, pos[c]) => Complete(c, pos[c])
      BY <1>2, <1>4, Zenon DEF HeldThrough, Held, Complete, Due, Reading, Rows
    <3>. QED
      BY <1>8, <2>2, <3>1, <3>2, Zenon DEF KeptInv
  <2>. QED
    BY <1>3, <2>1, <2>2, Zenon
<1>. QED
  BY <1>6, <1>7, <1>9, <1>10, <1>11, Zenon DEF ClientInv

--------------------------------------------------------------------------------
(* The steps that concern every client                                         *)

\* A commit is later than every cursor, so no claim is about it yet.
LEMMA CommitKeeps ==
    ASSUME Inv, Commit, NEW c \in Clients
    PROVE  ClientInv(c)'
<1>1. TypeOK /\ SourceInv /\ ClientInv(c)
  BY Zenon DEF Inv
<1>2. PICK t : log' = Append(log, t)
  BY Zenon DEF Commit
<1>3. Len(log) \in Nat /\ Len(log') = Len(log) + 1 /\ \A n \in 1..Len(log) : log'[n] = log[n]
  BY <1>1, <1>2 DEF TypeOK
<1>4. /\ UNCHANGED <<source, start, received, tickTaken, closing, pc, queue, reason, todo, base,
                     baseSafe, covered, pos, progressed, tick, shaky, have, saved, tainted>>
      /\ visible \subseteq visible'
  BY Zenon DEF Commit, hubVars, ringVars, watchVars, mailVars, snapVars, liveVars, storeVars
<1>5. received \in Int /\ received <= 2 * Len(log) /\ ~Passed(Len(log) + 1)
  BY <1>1, NotYetPassed, Zenon
<1>6. \A n \in 1..Len(log) : (Due(c, n)' <=> Due(c, n)) /\ (Held(c, n) => Held(c, n)')
  BY <1>3, <1>4, Zenon DEF Due, Relevant, Broken, Held
<1>7. \A n \in 1..Len(log') : n \in 1..Len(log) \/ n = Len(log) + 1
  BY <1>3
<1>8. ASSUME NEW cursor \in Int, cursor <= 2 * Len(log) + 1
      PROVE  /\ HeldThrough(c, cursor) => HeldThrough(c, cursor)'
             /\ Complete(c, cursor) => Complete(c, cursor)'
  <2>1. \A n \in 1..Len(log') : End(n) <= cursor => n \in 1..Len(log)
    BY <1>3, <1>7, <1>8 DEF End
  <2>2. HeldThrough(c, cursor) => HeldThrough(c, cursor)'
    BY <1>6, <2>1, Zenon DEF HeldThrough, End
  <2>3. Complete(c, cursor) => Complete(c, cursor)'
    BY <1>3, <1>4, <2>1, Zenon DEF Complete, Relevant, Broken, End
  <2>. QED
    BY <2>2, <2>3, Zenon
<1>9. /\ \A m \in todo[c] : m \in Nat /\ End(m) \in Int /\ End(m) <= 2 * Len(log) + 1
      /\ \A i \in 1..Len(queue[c]) : End(queue[c][i]) \in Int /\ End(queue[c][i]) <= 2 * Len(log) + 1
  <2>1. \A m \in Nat : End(m) \in Int /\ (End(m) <= received => End(m) <= 2 * Len(log) + 1)
    BY <1>3, <1>5 DEF End
  <2>2. /\ \A m \in todo[c] : m \in Nat /\ End(m) <= received
        /\ \A i \in 1..Len(queue[c]) : queue[c][i] \in Nat /\ End(queue[c][i]) <= received
    BY <1>1 DEF ClientInv, OrderInv, TypeOK
  <2>. QED
    BY <2>1, <2>2, Zenon
<1>10. /\ pos[c] \in Int /\ saved[c] \in Int /\ base[c] \in Int
       /\ pos[c] <= 2 * Len(log) + 1 /\ saved[c] <= 2 * Len(log) + 1 /\ base[c] <= 2 * Len(log) + 1
  BY <1>1 DEF ClientInv, PhaseInv, TypeOK, Cursors, NoCursor
<1>11. (Sound(c)' <=> Sound(c)) /\ (Registered(c)' <=> Registered(c)) /\ HeldInv(c)
  BY <1>1, <1>4, Zenon DEF Sound, Registered, ClientInv
<1>12. HeldInv(c)'
  <2>1. (Sound(c) /\ Registered(c) => \A n \in 1..Len(log) : Due(c, n) /\ Passed(n) => Held(c, n))'
    <3>1. \A n : Passed(n)' <=> Passed(n)
      BY <1>4, Zenon DEF Passed, End
    <3>. QED
      BY <1>5, <1>6, <1>7, <1>11, <3>1, Zenon DEF HeldInv
  <2>2. (Sound(c) => \A m \in todo[c] : HeldThrough(c, End(m)))'
    BY <1>4, <1>8, <1>9, <1>11, Zenon DEF HeldInv, End
  <2>3. (Sound(c) => \A i \in 1..Len(queue[c]) : HeldThrough(c, End(queue[c][i])))'
    BY <1>4, <1>8, <1>9, <1>11, Zenon DEF HeldInv, End
  <2>4. (Sound(c) /\ pc[c] = "drain" /\ ~shaky[c] => HeldThrough(c, pos[c]))'
    BY <1>4, <1>8, <1>10, <1>11, Zenon DEF HeldInv
  <2>. QED
    BY <2>1, <2>2, <2>3, <2>4, Zenon DEF HeldInv
<1>13. OrderInv(c)'
  BY <1>1, <1>4, Zenon DEF ClientInv, OrderInv, End
<1>14. PhaseInv(c)'
  <2>1. 2 * Len(log) + 1 <= 2 * Len(log') + 1 /\ 1..Len(log) \subseteq 1..Len(log')
    BY <1>3
  <2>2. base[c] <= 2 * Len(log') + 1 /\ pos[c] <= 2 * Len(log') + 1 /\ saved[c] <= 2 * Len(log') + 1
    BY <1>3, <1>10
  <2>3. Complete(c, base[c]) => Complete(c, base[c])'
    BY <1>4, <1>8, <1>10, Zenon
  <2>. QED
    BY <1>1, <1>4, <2>1, <2>2, <2>3, Zenon DEF ClientInv, PhaseInv
<1>15. TickInv(c)'
  BY <1>1, <1>4, <1>11, Zenon DEF ClientInv, TickInv
<1>16. KeptInv(c)'
  BY <1>1, <1>4, <1>8, <1>10, Zenon DEF ClientInv, KeptInv
<1>. QED
  BY <1>12, <1>13, <1>14, <1>15, <1>16, Zenon DEF ClientInv

\* Accept queues a due transaction for a watcher or ends the watcher.
LEMMA AcceptKeeps ==
    ASSUME Inv, TypeOK', Accept, NEW c \in Clients
    PROVE  ClientInv(c)'
<1>1. TypeOK /\ SourceInv /\ ClientInv(c)
  BY Zenon DEF Inv
<1>2. /\ UNCHANGED <<log, visible, source, start, pc, todo, base, baseSafe, covered, pos, progressed,
                     shaky, have, saved, tainted>>
      /\ received' = End(stream) /\ closing' = tickTaken /\ tickTaken' = FALSE /\ ~closing
      /\ End(stream) > received /\ source = "streaming"
  BY Zenon DEF Accept, snapVars, storeVars
<1>3. /\ reason'[c] = IF c \in Invalidated(stream) THEN "SchemaChanged"
                      ELSE IF c \in Dropped(stream) THEN "SlowWatcher" ELSE reason[c]
      /\ queue'[c] = IF c \in Routed(stream) \ Dropped(stream) THEN Append(queue[c], stream) ELSE queue[c]
      /\ tick'[c] = Replaced(tick[c])
  BY Zenon DEF Accept
<1>4. stream \in Nat /\ stream \in 1..Len(log) /\ received \in Int /\ queue[c] \in Seq(Nat)
  <2>1. stream \in 1..Len(log)
    BY <1>1, AcceptRing, Zenon
  <2>. QED
    BY <1>1, <2>1 DEF TypeOK, Cursors, NoCursor
<1>5. Registered(c)' => /\ Registered(c) /\ ~Broken(c, stream)
                        /\ Relevant(c, stream) => queue'[c] = Append(queue[c], stream)
  <2>1. SUFFICES ASSUME Registered(c)'
                 PROVE  /\ Registered(c) /\ ~Broken(c, stream)
                        /\ Relevant(c, stream) => queue'[c] = Append(queue[c], stream)
    BY Zenon
  <2>2. c \notin Invalidated(stream) /\ c \notin Dropped(stream) /\ reason[c] = "none"
    BY <1>3, <2>1, Zenon DEF Registered
  <2>3. Registered(c)
    BY <1>2, <2>1, <2>2, Zenon DEF Registered
  <2>. QED
    BY <1>3, <2>2, <2>3, Zenon DEF Invalidated, Routed
<1>6. \/ queue'[c] = queue[c]
      \/ queue'[c] = Append(queue[c], stream) /\ Registered(c)'
  <2>1. CASE c \in Routed(stream) \ Dropped(stream)
    <3>1. reason'[c] = reason[c] /\ Registered(c)
      BY <1>3, <2>1, Zenon DEF Routed, Invalidated
    <3>. QED
      BY <1>2, <1>3, <2>1, <3>1, Zenon DEF Registered
  <2>2. CASE c \notin Routed(stream) \ Dropped(stream)
    BY <1>3, <2>2, Zenon
  <2>. QED
    BY <2>1, <2>2, Zenon
<1>7. /\ Len(Append(queue[c], stream)) = Len(queue[c]) + 1 /\ Len(queue[c]) \in Nat
      /\ \A i \in 1..Len(queue[c]) : Append(queue[c], stream)[i] = queue[c][i]
      /\ Append(queue[c], stream)[Len(queue[c]) + 1] = stream
      /\ \A i \in 1..(Len(queue[c]) + 1) : i \in 1..Len(queue[c]) \/ i = Len(queue[c]) + 1
  BY <1>4, AppendNat
<1>8. Range(queue[c]) \subseteq Range(queue'[c])
      /\ (queue'[c] = Append(queue[c], stream) => stream \in Range(queue'[c]))
  <2>1. /\ Range(queue[c]) = {queue[c][i] : i \in 1..Len(queue[c])}
        /\ Range(queue'[c]) = {queue'[c][i] : i \in 1..Len(queue'[c])}
    BY <1>1, RangeNat, Zenon DEF TypeOK
  <2>2. CASE queue'[c] = queue[c]
    <3>1. Len(queue[c]) # Len(queue[c]) + 1
      BY <1>7
    <3>. QED
      BY <1>7, <2>2, <3>1, Zenon
  <2>3. CASE queue'[c] = Append(queue[c], stream)
    <3>1. Len(queue[c]) + 1 \in 1..Len(queue'[c]) /\ 1..Len(queue[c]) \subseteq 1..Len(queue'[c])
      BY <1>7, <2>3
    <3>. QED
      BY <1>7, <2>1, <2>3, <3>1, Zenon
  <2>. QED
    BY <1>6, <2>2, <2>3, Zenon
<1>9. \A n : (Due(c, n)' <=> Due(c, n)) /\ (Held(c, n) => Held(c, n)')
  BY <1>2, <1>8, Zenon DEF Due, Relevant, Broken, Held
<1>10. \A cursor : HeldThrough(c, cursor) => HeldThrough(c, cursor)'
  BY <1>2, <1>9, Zenon DEF HeldThrough, End
<1>11. (Sound(c)' <=> Sound(c)) /\ HeldInv(c)
  BY <1>1, <1>2, Zenon DEF Sound, ClientInv
<1>12. Sound(c)' /\ Registered(c)' => \A n \in 1..Len(log) : Due(c, n) /\ Passed(n)' => Held(c, n)'
  <2>1. SUFFICES ASSUME Sound(c), Registered(c)', NEW n \in 1..Len(log), Due(c, n), Passed(n)'
                 PROVE  Held(c, n)'
    BY <1>11, Zenon
  <2>2. Passed(n) \/ n = stream
    BY <1>1, <2>1, AcceptRange
  <2>3. CASE Passed(n)
    BY <1>5, <1>9, <1>11, <2>1, <2>3, Zenon DEF HeldInv
  <2>4. CASE n = stream
    <3>1. queue'[c] = Append(queue[c], stream)
      BY <1>5, <2>1, <2>4, Zenon DEF Due
    <3>. QED
      BY <1>8, <2>4, <3>1, Zenon DEF Held
  <2>. QED
    BY <2>2, <2>3, <2>4, Zenon
<1>13. HeldInv(c)'
  <2>1. (Sound(c) => \A m \in todo[c] : HeldThrough(c, End(m)))'
    BY <1>2, <1>10, <1>11, Zenon DEF HeldInv, End
  <2>2. (Sound(c) => \A i \in 1..Len(queue[c]) : HeldThrough(c, End(queue[c][i])))'
    <3>1. CASE queue'[c] = queue[c]
      BY <1>10, <1>11, <3>1, Zenon DEF HeldInv, End
    <3>2. CASE queue'[c] = Append(queue[c], stream) /\ Registered(c)'
      <4>1. PICK k \in Nat : k = stream
        BY <1>4, Zenon
      <4>2. Sound(c)' => HeldThrough(c, End(k))'
        BY <1>2, <1>9, <1>12, <3>2, <4>1, Zenon DEF HeldThrough, Passed, End
      <4>3. Sound(c)' => \A i \in 1..Len(queue[c]) : HeldThrough(c, End(queue[c][i]))
        BY <1>11, Zenon DEF HeldInv
      <4>4. ASSUME Sound(c)', NEW i \in 1..Len(queue'[c]) PROVE HeldThrough(c, End(queue[c][i]))'
        <5>1. i \in 1..Len(queue[c]) \/ i = Len(queue[c]) + 1
          BY <1>7, <3>2, Zenon
        <5>2. CASE i \in 1..Len(queue[c])
          <6>1. PICK k1 : k1 = queue[c][i] /\ queue'[c][i] = k1
            BY <1>7, <3>2, <5>2, Zenon
          <6>2. HeldThrough(c, End(k1))'
            BY <1>10, <4>3, <4>4, <5>2, <6>1, Zenon DEF End
          <6>. QED
            BY <6>1, <6>2, Zenon
        <5>3. CASE i = Len(queue[c]) + 1
          <6>1. queue'[c][i] = k
            BY <1>7, <3>2, <4>1, <5>3, Zenon
          <6>. QED
            BY <4>2, <4>4, <6>1, Zenon
        <5>. QED
          BY <5>1, <5>2, <5>3, Zenon
      <4>. QED
        BY <4>4, Zenon
    <3>. QED
      BY <1>6, <3>1, <3>2, Zenon
  <2>3. (Sound(c) /\ pc[c] = "drain" /\ ~shaky[c] => HeldThrough(c, pos[c]))'
    BY <1>2, <1>10, <1>11, Zenon DEF HeldInv
  <2>. QED
    BY <1>2, <1>9, <1>12, <2>1, <2>2, <2>3, Zenon DEF HeldInv
<1>14. OrderInv(c)'
  <2>1. /\ \A m \in todo[c] : m \in Nat /\ 1 <= m /\ End(m) <= received
        /\ \A i \in 1..Len(queue[c]) : queue[c][i] \in Nat /\ 1 <= queue[c][i] /\ End(queue[c][i]) <= received
        /\ \A m \in todo[c], i \in 1..Len(queue[c]) : m < queue[c][i]
        /\ \A i, j \in 1..Len(queue[c]) : i < j => queue[c][i] < queue[c][j]
        /\ pc[c] \in {"drain", "select"} => todo[c] = {}
    BY <1>1 DEF ClientInv, OrderInv, TypeOK
  <2>2. \A m \in Nat : End(m) <= received => m < stream /\ End(m) <= End(stream)
    BY <1>2, <1>4 DEF End
  <2>3. CASE queue'[c] = queue[c]
    BY <1>2, <2>1, <2>2, <2>3, Zenon DEF OrderInv, End
  <2>4. CASE queue'[c] = Append(queue[c], stream)
    <3>1. \A i \in 1..Len(queue'[c]) :
             \/ i \in 1..Len(queue[c]) /\ queue'[c][i] = queue[c][i]
             \/ i = Len(queue[c]) + 1 /\ queue'[c][i] = stream
      <4>1. SUFFICES ASSUME NEW i \in 1..(Len(queue[c]) + 1)
                     PROVE  \/ i \in 1..Len(queue[c]) /\ queue'[c][i] = queue[c][i]
                            \/ i = Len(queue[c]) + 1 /\ queue'[c][i] = stream
        BY <1>7, <2>4, Zenon
      <4>2. CASE i \in 1..Len(queue[c])
        BY <1>7, <2>4, <4>2, Zenon
      <4>3. CASE i = Len(queue[c]) + 1
        BY <1>7, <2>4, <4>3, Zenon
      <4>. QED
        BY <1>7, <4>2, <4>3, Zenon
    <3>2. \A i \in 1..Len(queue'[c]) : 1 <= queue'[c][i] /\ End(queue'[c][i]) <= End(stream)
      <4>1. 1 <= stream /\ End(stream) <= End(stream)
        BY <1>4 DEF End
      <4>. QED
        BY <2>1, <2>2, <3>1, <4>1, Zenon
    <3>3. \A m \in todo[c], i \in 1..Len(queue'[c]) : m < queue'[c][i]
      BY <2>1, <2>2, <3>1, Zenon
    <3>4. ASSUME NEW i \in 1..Len(queue'[c]), NEW j \in 1..Len(queue'[c]), i < j
          PROVE  queue'[c][i] < queue'[c][j]
      <4>1. i \in 1..Len(queue[c]) /\ queue'[c][i] = queue[c][i]
        BY <1>7, <3>1, <3>4
      <4>. QED
        BY <2>1, <2>2, <3>1, <3>4, <4>1, Zenon
    <3>. QED
      BY <1>2, <2>1, <2>2, <3>2, <3>3, <3>4, Zenon DEF OrderInv, End
  <2>. QED
    BY <1>6, <2>3, <2>4, Zenon
<1>15. PhaseInv(c)'
  <2>1. pc[c] # "idle"  \/ (queue'[c] = queue[c] /\ reason'[c] = reason[c])
    BY <1>3, Zenon DEF Routed, Invalidated, Dropped, Registered
  <2>2. \A cursor : Complete(c, cursor)' <=> Complete(c, cursor)
    BY <1>2, Zenon DEF Complete, Relevant, Broken, End
  <2>. QED
    BY <1>1, <1>2, <2>1, <2>2, Zenon DEF ClientInv, PhaseInv
<1>16. TickInv(c)'
  <2>1. tick'[c] # "current"
    BY <1>1, <1>3, Zenon DEF ClientInv, TickInv, Replaced
  <2>2. tick'[c] = "replaced" => tickTaken
    BY <1>1, <1>2, <1>3, Zenon DEF ClientInv, TickInv, Replaced
  <2>3. tick[c] # "none" => tick'[c] # "none"
    BY <1>3, Zenon DEF Replaced
  <2>. QED
    BY <1>1, <1>2, <2>1, <2>2, <2>3, Zenon DEF ClientInv, TickInv
<1>17. KeptInv(c)'
  BY <1>1, <1>2, Zenon DEF ClientInv, KeptInv, Complete, Relevant, Broken, End
<1>. QED
  BY <1>13, <1>14, <1>15, <1>16, <1>17, Zenon DEF ClientInv

\* The deferred close of a replaced tick.
LEMMA CloseTickKeeps ==
    ASSUME Inv, CloseTick, NEW c \in Clients
    PROVE  ClientInv(c)'
<1>1. TypeOK /\ ClientInv(c)
  BY Zenon DEF Inv
<1>2. /\ UNCHANGED <<log, visible, source, start, received, tickTaken, pc, queue, reason, todo, base,
                     baseSafe, covered, pos, progressed, shaky, have, saved, tainted>>
      /\ tick'[c] = IF tick[c] = "replaced" THEN "closed" ELSE tick[c]
  BY Zenon DEF CloseTick, srcVars, ringVars, mailVars, snapVars, storeVars
<1>3. HeldInv(c)' /\ OrderInv(c)' /\ PhaseInv(c)' /\ KeptInv(c)'
  <2>1. \A n : (Due(c, n)' <=> Due(c, n)) /\ (Passed(n)' <=> Passed(n)) /\ (Held(c, n)' <=> Held(c, n))
    BY <1>2, Zenon DEF Due, Relevant, Broken, Passed, End, Held
  <2>2. \A cursor : (HeldThrough(c, cursor)' <=> HeldThrough(c, cursor))
    BY <1>2, <2>1, Zenon DEF HeldThrough, End
  <2>3. (Sound(c)' <=> Sound(c)) /\ (Registered(c)' <=> Registered(c))
    BY <1>2, Zenon DEF Sound, Registered
  <2>4. HeldInv(c)'
    BY <1>1, <1>2, <2>1, <2>2, <2>3, Zenon DEF ClientInv, HeldInv, End
  <2>5. OrderInv(c)'
    BY <1>1, <1>2, Zenon DEF ClientInv, OrderInv, End
  <2>6. \A cursor : Complete(c, cursor)' <=> Complete(c, cursor)
    BY <1>2, Zenon DEF Complete, Relevant, Broken, End
  <2>7. PhaseInv(c)' /\ KeptInv(c)'
    BY <1>1, <1>2, <2>6, Zenon DEF ClientInv, PhaseInv, KeptInv
  <2>. QED
    BY <2>4, <2>5, <2>7, Zenon
<1>4. TickInv(c)'
  BY <1>1, <1>2, Zenon DEF ClientInv, TickInv, Registered
<1>. QED
  BY <1>3, <1>4, Zenon DEF ClientInv

\* After a restart nobody watches; the clients keep what they have.
LEMMA RestartKeeps ==
    ASSUME Inv, Restart, NEW c \in Clients
    PROVE  ClientInv(c)'
<1>1. TypeOK /\ ClientInv(c)
  BY Zenon DEF Inv
<1>2. /\ pc'[c] = "idle" /\ queue'[c] = <<>> /\ reason'[c] = "none" /\ todo'[c] = {}
      /\ base'[c] = NoCursor /\ baseSafe'[c] = FALSE /\ covered'[c] = {} /\ pos'[c] = NoCursor
      /\ tick'[c] = "none" /\ UNCHANGED <<log, have, saved, tainted>>
  BY Zenon DEF Restart, storeVars
<1>3. HeldInv(c)'
  BY <1>2, Zenon DEF HeldInv, Sound
<1>4. OrderInv(c)'
  BY <1>2, EmptyIsSeq DEF OrderInv
<1>5. PhaseInv(c)'
  <2>1. Len(log) \in Nat /\ saved[c] <= 2 * Len(log) + 1
    BY <1>1 DEF TypeOK, ClientInv, PhaseInv
  <2>. QED
    BY <1>2, <2>1 DEF PhaseInv, NoCursor, Rows, Reading, Live
<1>6. TickInv(c)'
  BY <1>2, Zenon DEF TickInv
<1>7. KeptInv(c)'
  BY <1>1, <1>2, Zenon DEF ClientInv, KeptInv, Complete, Relevant, Broken, End
<1>. QED
  BY <1>3, <1>4, <1>5, <1>6, <1>7, Zenon DEF ClientInv

--------------------------------------------------------------------------------
(* The inductive invariant                                                     *)

\* No step of a Watch call gives back the tick it took.
LEMMA TickTakenStays ==
    ASSUME NEW c \in Clients, QuietStep(c) \/ BootstrapSnapshot(c) \/ BootstrapDone(c)
                              \/ RecordSnapshot(c) \/ Ending(c)
    PROVE  tickTaken => tickTaken'
<1>1. CASE Refuse(c) \/ Resume(c) \/ StartSnapshot(c) \/ ReadCursor(c) \/ FixSnapshot(c)
           \/ (CheckOverflow(c) /\ ~Ended(c))
  BY <1>1, Zenon DEF Refuse, Resume, StartSnapshot, ReadCursor, FixSnapshot, CheckOverflow, hubVars
<1>2. CASE ClearStale(c) \/ Install(c) \/ SendBacklog(c) \/ Position(c) \/ Drain(c) \/ Report(c)
  BY <1>2, Zenon DEF ClearStale, Install, SendBacklog, Position, Drain, Report, hubVars
<1>3. CASE BootstrapSnapshot(c) \/ BootstrapDone(c) \/ RecordSnapshot(c) \/ Ending(c)
  BY <1>3, Zenon DEF BootstrapSnapshot, BootstrapDone, RecordSnapshot, Ending, Leave, hubVars
<1>. QED
  BY <1>1, <1>2, <1>3, Zenon DEF QuietStep

\* The client that takes a step of its Watch call.
LEMMA ActorKeeps ==
    ASSUME Inv, NEW c \in Clients,
           QuietStep(c) \/ BootstrapSnapshot(c) \/ BootstrapDone(c) \/ RecordSnapshot(c) \/ Ending(c)
    PROVE  ClientInv(c)'
<1>1. CASE Refuse(c)
  <2>1. Same(c) /\ UNCHANGED <<log, visible, received, source, start, tickTaken, closing>>
    BY <1>1, Zenon DEF Refuse, Same, srcVars, hubVars, ringVars, watchVars, mailVars, snapVars, liveVars,
       storeVars
  <2>2. ClientInv(c)
    BY Zenon DEF Inv
  <2>. QED
    BY <2>1, <2>2, ClientFrame, Zenon
<1>. QED
  BY <1>1, EndingKeeps, StartSnapshotKeeps, ResumeKeeps, BootstrapSnapshotKeeps, ReadingKeeps,
     RowsKeep, SendBacklogKeeps, PositionKeeps, DrainKeeps, ReportKeeps, Zenon DEF QuietStep

\* The other clients.
LEMMA OthersKeep ==
    ASSUME Inv, VisibilityLag # "any", NEW c \in Clients, NEW d \in Clients, d # c,
           QuietStep(c) \/ BootstrapSnapshot(c) \/ BootstrapDone(c) \/ RecordSnapshot(c) \/ Ending(c)
    PROVE  ClientInv(d)'
<1>1. TypeOK /\ SourceInv /\ VisibilityInv /\ OneBootstrap /\ ClientInv(d) /\ PhaseInv(c) /\ PhaseInv(d)
  BY Zenon DEF Inv, ClientInv
<1>2. Same(d)
  BY <1>1, OtherSame, Zenon
<1>3. tickTaken => tickTaken'
  BY TickTakenStays, Zenon
<1>4. UNCHANGED <<log, visible, received, closing>>
  <2>1. CASE QuietStep(c)
    BY <2>1, QuietFrame, Zenon DEF QuietVars
  <2>2. CASE BootstrapSnapshot(c) \/ BootstrapDone(c) \/ RecordSnapshot(c) \/ Ending(c)
    BY <2>2, Zenon DEF BootstrapSnapshot, BootstrapDone, RecordSnapshot, Ending, Leave, hubVars, ringVars,
       srcVars
  <2>. QED
    BY <2>1, <2>2, Zenon
<1>5. CASE QuietStep(c) \/ RecordSnapshot(c) \/ (Ending(c) /\ pc[c] # "bootstrap")
  <2>1. source' = source /\ start' = start
    <3>1. CASE QuietStep(c)
      BY <3>1, QuietFrame, Zenon DEF QuietVars
    <3>2. CASE RecordSnapshot(c)
      BY <3>2, Zenon DEF RecordSnapshot, srcVars
    <3>3. CASE Ending(c) /\ pc[c] # "bootstrap"
      BY <3>3, Zenon DEF Ending, Leave
    <3>. QED
      BY <1>5, <3>1, <3>2, <3>3, Zenon
  <2>. QED
    BY <1>1, <1>2, <1>3, <1>4, <2>1, ClientFrame, Zenon
<1>6. CASE BootstrapSnapshot(c) \/ BootstrapDone(c) \/ (Ending(c) /\ pc[c] = "bootstrap")
  <2>1. source # "streaming"
    BY <1>1, <1>6, Zenon DEF BootstrapSnapshot, BootstrapDone, Ending, PhaseInv
  <2>2. pc[d] # "bootstrap"
    BY <1>1, <1>6, Zenon DEF BootstrapSnapshot, BootstrapDone, Ending, PhaseInv, OneBootstrap
  <2>3. pc[d] \in {"idle", "begin"}
    BY <1>1, <2>1, <2>2, Zenon DEF PhaseInv, TypeOK, PCs, Rows, Live
  <2>4. ring = <<>> /\ Range(ring) = {} /\ received = NoCursor
    BY <1>1, <2>1, EmptyIsSeq DEF SourceInv, Range
  <2>5. \A n \in 1..Len(log) : Passed(n)' => n \in visible'
    <3>1. CASE BootstrapSnapshot(c)
      <4>1. \A n \in 1..Len(log) : Settled(n)
        BY <3>1, Zenon DEF BootstrapSnapshot
      <4>. QED
        BY <1>1, <1>4, <4>1, LagAssumption, Zenon DEF Settled, VisibilityInv
    <3>2. CASE BootstrapDone(c)
      <4>1. start' = start
        BY <3>2, Zenon DEF BootstrapDone
      <4>. QED
        BY <1>1, <1>4, <2>4, <4>1, Zenon DEF VisibilityInv, Passed, End
    <3>3. CASE Ending(c) /\ pc[c] = "bootstrap"
      <4>1. start' = 0
        BY <3>3, Zenon DEF Ending, Leave
      <4>. QED
        BY <1>4, <2>4, <4>1 DEF Passed, End, NoCursor
    <3>. QED
      BY <1>6, <3>1, <3>2, <3>3, Zenon
  <2>. QED
    BY <1>1, <1>2, <1>3, <1>4, <2>3, <2>5, ClientFrame, Zenon
<1>. QED
  BY <1>5, <1>6, Zenon

\* Every step keeps every client's part of the invariant.
LEMMA ClientNext ==
    ASSUME Inv, TypeOK', VisibilityLag # "any", [Next]_vars, NEW d \in Clients
    PROVE  ClientInv(d)'
<1>1. CASE BecomeVisible \/ Reconnect \/ AcceptDuplicate \/ Stop \/ UNCHANGED vars
  <2>1. Same(d) /\ UNCHANGED <<log, received, source, start, tickTaken, closing>>
        /\ visible \subseteq visible'
    BY <1>1, Zenon DEF BecomeVisible, Reconnect, AcceptDuplicate, Stop, vars, Same, srcVars, hubVars, ringVars,
       watchVars, mailVars, snapVars, liveVars, storeVars
  <2>2. ClientInv(d)
    BY Zenon DEF Inv
  <2>. QED
    BY <2>1, <2>2, ClientFrame, Zenon
<1>2. CASE Commit \/ Accept \/ CloseTick \/ Restart
  BY <1>2, CommitKeeps, AcceptKeeps, CloseTickKeeps, RestartKeeps, Zenon
<1>3. ASSUME NEW c \in Clients,
             QuietStep(c) \/ BootstrapSnapshot(c) \/ BootstrapDone(c) \/ RecordSnapshot(c) \/ Ending(c)
      PROVE  ClientInv(d)'
  <2>1. CASE d = c
    BY <1>3, <2>1, ActorKeeps, Zenon
  <2>2. CASE d # c
    BY <1>3, <2>2, OthersKeep, Zenon
  <2>. QED
    BY <2>1, <2>2, Zenon
<1>. QED
  BY <1>1, <1>2, <1>3, NextCases, Zenon

\* At most one Watch call bootstraps the source.
LEMMA OneBootstrapNext ==
    ASSUME Inv, [Next]_vars
    PROVE  OneBootstrap'
<1>1. TypeOK /\ OneBootstrap /\ \A c \in Clients : PhaseInv(c)
  BY Zenon DEF Inv, ClientInv
<1>2. CASE \A d \in Clients : pc'[d] = "bootstrap" => pc[d] = "bootstrap"
  BY <1>1, <1>2, Zenon DEF OneBootstrap
<1>3. CASE Commit \/ BecomeVisible \/ Reconnect \/ AcceptDuplicate \/ Stop \/ UNCHANGED vars
           \/ Accept \/ CloseTick \/ Restart
  BY <1>2, <1>3, Zenon DEF Commit, BecomeVisible, Reconnect, AcceptDuplicate, Stop, Accept, CloseTick, Restart,
     vars, watchVars
<1>4. ASSUME NEW c \in Clients,
             QuietStep(c) \/ BootstrapSnapshot(c) \/ BootstrapDone(c) \/ RecordSnapshot(c) \/ Ending(c)
      PROVE  OneBootstrap'
  <2>1. \A d \in Clients : d # c => pc'[d] = pc[d]
    BY <1>1, <1>4, OtherSame, Zenon DEF Same
  <2>2. CASE BootstrapSnapshot(c)
    <3>1. \A d \in Clients : pc[d] # "bootstrap"
      BY <1>1, <2>2, Zenon DEF BootstrapSnapshot, PhaseInv
    <3>. QED
      BY <2>1, <3>1, Zenon DEF OneBootstrap
  <2>3. CASE ~BootstrapSnapshot(c)
    <3>1. pc'[c] # "bootstrap"
      <4>1. CASE Refuse(c) \/ Resume(c) \/ StartSnapshot(c) \/ ReadCursor(c) \/ FixSnapshot(c)
                 \/ (CheckOverflow(c) /\ ~Ended(c)) \/ BootstrapDone(c) \/ RecordSnapshot(c)
        BY <1>1, <4>1, Zenon DEF Refuse, Resume, StartSnapshot, ReadCursor, FixSnapshot, CheckOverflow,
           BootstrapDone, RecordSnapshot, TypeOK, watchVars
      <4>2. CASE ClearStale(c) \/ Install(c) \/ SendBacklog(c) \/ Position(c) \/ Drain(c) \/ Report(c)
                 \/ Ending(c)
        BY <1>1, <4>2, Zenon DEF ClearStale, Install, SendBacklog, Position, Drain, Report, Ending, Leave,
           TypeOK, watchVars
      <4>. QED
        BY <1>4, <2>3, <4>1, <4>2, Zenon DEF QuietStep
    <3>. QED
      BY <1>2, <2>1, <3>1, Zenon
  <2>. QED
    BY <2>2, <2>3, Zenon
<1>. QED
  BY <1>3, <1>4, NextCases, Zenon

\* New's state, with no watch and nothing committed, satisfies the invariant.
LEMMA InvInit == Init => Inv
<1>1. SUFFICES ASSUME Init PROVE Inv
  BY Zenon
<1>2. TypeOK
  BY <1>1, TypeInit, Zenon
<1>3. Len(log) = 0 /\ Len(ring) = 0 /\ log = <<>> /\ ring = <<>> /\ 1..0 = {}
  BY <1>1, EmptyIsSeq DEF Init
<1>4. SourceInv /\ VisibilityInv
  BY <1>1, <1>3, Zenon DEF Init, SourceInv, VisibilityInv
<1>5. ReplayWindow /\ OneBootstrap
  BY <1>1, <1>3 DEF Init, ReplayWindow, OneBootstrap
<1>6. ASSUME NEW c \in Clients
      PROVE  ClientInv(c)
  <2>1. /\ pc[c] = "idle" /\ queue[c] = <<>> /\ reason[c] = "none" /\ todo[c] = {}
        /\ ~baseSafe[c] /\ covered[c] = {} /\ tick[c] = "none" /\ ~tainted[c]
        /\ base[c] = NoCursor /\ pos[c] = NoCursor /\ saved[c] = NoCursor
    BY <1>1, <1>6, Zenon DEF Init
  <2>2. Len(queue[c]) = 0
    BY <2>1, EmptyIsSeq, Zenon
  <2>3. HeldInv(c) /\ OrderInv(c)
    BY <2>1, <2>2 DEF HeldInv, OrderInv, Sound
  <2>4. PhaseInv(c)
    BY <1>3, <2>1 DEF PhaseInv, Rows, Live, Reading, NoCursor
  <2>5. TickInv(c) /\ KeptInv(c)
    BY <2>1, Zenon DEF TickInv, KeptInv
  <2>. QED
    BY <2>3, <2>4, <2>5, Zenon DEF ClientInv
<1>. QED
  BY <1>2, <1>4, <1>5, <1>6, Zenon DEF Inv

\* Every step of the hub, of its clients and of the database keeps the invariant.
LEMMA InvNext ==
    ASSUME VisibilityLag # "any"
    PROVE  Inv /\ [Next]_vars => Inv'
<1>1. SUFFICES ASSUME Inv, [Next]_vars PROVE Inv'
  BY Zenon
<1>2. TypeOK'
  BY <1>1, TypeNext, Zenon DEF Inv
<1>3. SourceInv'
  BY <1>1, <1>2, SourceNext, Zenon
<1>4. VisibilityInv'
  BY <1>1, <1>2, VisibilityNext, Zenon
<1>5. ReplayWindow'
  BY <1>1, <1>2, <1>3, ReplayNext, Zenon
<1>6. OneBootstrap'
  BY <1>1, OneBootstrapNext, Zenon
<1>7. \A c \in Clients : ClientInv(c)'
  BY <1>1, <1>2, ClientNext, Zenon
<1>. QED
  BY <1>2, <1>3, <1>4, <1>5, <1>6, <1>7, Zenon DEF Inv

\* The invariant holds always: the stream, the ring, the hub's watchers and every
\* Watch call keep it through commits, late visibility, reconnects and restarts.
THEOREM InvAlways ==
    ASSUME VisibilityLag # "any"
    PROVE  Spec => []Inv
<1>1. Init => Inv
  BY InvInit, Zenon
<1>2. Inv /\ [Next]_vars => Inv'
  BY InvNext, Zenon
<1>. QED
  BY <1>1, <1>2, PTL DEF Spec

\* Type correctness of the hub, its watchers and its clients.
THEOREM TypeCorrect ==
    ASSUME VisibilityLag # "any"
    PROVE  Spec => []TypeOK
<1>1. Inv => TypeOK
  BY Zenon DEF Inv
<1>. QED
  BY <1>1, InvAlways, PTL

\* No gap between a snapshot or a resume and the live stream: every cursor a client
\* keeps from Batch or Progress is complete, outside the three cases tainted records.
THEOREM NoGapAlways ==
    ASSUME VisibilityLag # "any"
    PROVE  Spec => []NoGap
<1>1. Inv => NoGap
  BY Zenon DEF Inv, ClientInv, KeptInv, NoGap
<1>. QED
  BY <1>1, InvAlways, PTL

\* resume never needs a transaction that evictLocked has removed: the ring holds
\* everything accepted after the replay floor, in commit order.
THEOREM ReplayWindowAlways ==
    ASSUME VisibilityLag # "any"
    PROVE  Spec => []ReplayWindow
<1>1. Inv => ReplayWindow
  BY Zenon DEF Inv
<1>. QED
  BY <1>1, InvAlways, PTL

\* No lost wake-up in live: a watcher that waits behind the hub holds a tick that
\* Accept has closed or is about to close.
THEOREM NoLostWakeupAlways ==
    ASSUME VisibilityLag # "any"
    PROVE  Spec => []NoLostWakeup
<1>1. ASSUME Inv, NEW c \in Clients, pc[c] = "select", Registered(c),
             queue[c] # <<>> \/ received > progressed[c]
      PROVE  tick[c] \in {"replaced", "closed"} /\ (tick[c] = "replaced" => closing)
  <2>1. TickInv(c) /\ TypeOK
    BY <1>1, Zenon DEF Inv, ClientInv
  <2>2. received \in Int /\ progressed[c] \in Int /\ tick[c] \in Ticks
    BY <2>1 DEF TypeOK, Cursors, NoCursor
  <2>3. tick[c] # "current"
    <3>1. ~(received > progressed[c]) <=> received <= progressed[c]
      BY <2>2
    <3>. QED
      BY <1>1, <2>1, <3>1, Zenon DEF TickInv
  <2>. QED
    BY <1>1, <2>1, <2>2, <2>3, Zenon DEF TickInv, Ticks
<1>2. Inv => NoLostWakeup
  BY <1>1, Zenon DEF NoLostWakeup
<1>. QED
  BY <1>2, InvAlways, PTL

--------------------------------------------------------------------------------
(* What a watch sends.                                                          *)

\* NoRedelivery made inductive: the filter by Covers removes what the rows hold before
\* they are installed, and what has been sent since was accepted and is out of the queue.
SentInv(c) ==
    /\ pc[c] \in {"record", "install"} => todo[c] \cap covered[c] = {}
    /\ pc[c] \in Live /\ ~baseSafe[c] =>
          /\ todo[c] \cap have[c] = {}
          /\ \A n \in have[c] :
                n \in covered[c] \/ (End(n) <= received /\ n \notin Range(queue[c]))

\* What Accept may still queue for c, and live then send, is not before cursor.
Ahead(c, cursor) == \A n \in Nat \ {0} : Need(c, n) /\ End(n) > received => cursor <= End(n)

\* Why cursors ascend: the cursor sent last is not after what is still to be sent or
\* queued, nor after the position the next progress will claim if it claims one.  A
\* position may be behind an earlier one, a snapshot's cursor claimed before the first
\* Accept: then it is not after progressed, and is not sent.
AscendInv(c) ==
    /\ pc[c] \in {"backlog", "select"} =>
          saved[c] <= received \/ saved[c] <= progressed[c] \/ (baseSafe[c] /\ saved[c] <= base[c])
    /\ pc[c] = "drain" => saved[c] <= progressed[c] \/ saved[c] <= pos[c]
    /\ pc[c] \in Live /\ ~tainted[c] =>
          /\ \A m \in todo[c] : saved[c] <= End(m)
          /\ \A n \in Range(queue[c]) : Need(c, n) => saved[c] <= End(n)
          /\ Ahead(c, saved[c])
    /\ pc[c] = "drain" /\ ~tainted[c] /\ ~shaky[c] => Ahead(c, pos[c])

FlowInv(c) == SentInv(c) /\ AscendInv(c)

\* What FlowInv reads of d's Watch call and store is as it was.
SameFlow(d) ==
    /\ pc'[d] = pc[d] /\ queue'[d] = queue[d] /\ todo'[d] = todo[d] /\ base'[d] = base[d]
    /\ baseSafe'[d] = baseSafe[d] /\ covered'[d] = covered[d] /\ pos'[d] = pos[d]
    /\ progressed'[d] = progressed[d] /\ shaky'[d] = shaky[d] /\ have'[d] = have[d]
    /\ saved'[d] = saved[d] /\ tainted'[d] = tainted[d]

\* Need depends on the start of the watch only.
LEMMA SameNeed ==
    ASSUME NEW d \in Clients, base'[d] = base[d], baseSafe'[d] = baseSafe[d], covered'[d] = covered[d]
    PROVE  \A n : Need(d, n)' <=> Need(d, n)
BY Zenon DEF Need, After, CommitLSN

\* A step that leaves d and what was received alone.
LEMMA FlowFrame ==
    ASSUME NEW d \in Clients, FlowInv(d), SameFlow(d), received' = received
    PROVE  FlowInv(d)'
<1>1. \A n : Need(d, n)' <=> Need(d, n)
  BY SameNeed, Zenon DEF SameFlow
<1>2. \A cursor : Ahead(d, cursor) => Ahead(d, cursor)'
  BY <1>1, Zenon DEF Ahead, End
<1>3. SentInv(d)'
  BY Zenon DEF FlowInv, SentInv, SameFlow, Live, End
<1>4. AscendInv(d)'
  BY <1>1, <1>2, Zenon DEF FlowInv, AscendInv, SameFlow, Live, End
<1> QED
  BY <1>3, <1>4, Zenon DEF FlowInv

\* A watch that has not started, or is still reading, sends nothing.
LEMMA NotSending ==
    ASSUME NEW c \in Clients,
           pc'[c] \in {"idle", "begin", "bootstrap", "reading", "read", "clear"}
    PROVE  FlowInv(c)'
BY Zenon DEF FlowInv, SentInv, AscendInv, Live

\* The filter by Covers, and the step to the installation.
LEMMA FilterFlow ==
    ASSUME TypeOK, NEW c \in Clients, FlowInv(c), ClearStale(c) \/ RecordSnapshot(c)
    PROVE  FlowInv(c)'
<1>1. CASE ClearStale(c)
  <2>1. pc'[c] = "record" /\ todo'[c] = todo[c] \ covered[c] /\ covered'[c] = covered[c]
    BY <1>1, Zenon DEF ClearStale, TypeOK, snapVars
  <2> QED
    BY <2>1, Zenon DEF FlowInv, SentInv, AscendInv, Live
<1>2. CASE RecordSnapshot(c)
  <2>1. pc[c] = "record" /\ pc'[c] = "install" /\ todo'[c] = todo[c] /\ covered'[c] = covered[c]
    BY <1>2, Zenon DEF RecordSnapshot, TypeOK, snapVars
  <2> QED
    BY <2>1, Zenon DEF FlowInv, SentInv, AscendInv, Live
<1> QED
  BY <1>1, <1>2, Zenon

\* The rows replace the projection, which has no cursor.
LEMMA InstallFlow ==
    ASSUME TypeOK, NEW c \in Clients, FlowInv(c), Install(c)
    PROVE  FlowInv(c)'
<1>1. /\ pc[c] = "install" /\ pc'[c] = "backlog" /\ todo'[c] = todo[c] /\ covered'[c] = covered[c]
      /\ have'[c] = covered[c] /\ saved'[c] = NoCursor /\ received' = received /\ queue'[c] = queue[c]
  BY Zenon DEF Install, TypeOK, snapVars, mailVars, hubVars, ringVars
<1>2. SentInv(c)'
  BY <1>1, Zenon DEF FlowInv, SentInv
<1>3. received \in Int /\ received >= -1 /\ todo[c] \subseteq Nat /\ queue[c] \in Seq(Nat)
  BY DEF TypeOK, Cursors, NoCursor
<1>4. Range(queue[c]) \subseteq Nat
  BY <1>3 DEF Range
<1>5. NoCursor <= received /\ \A n \in Nat : NoCursor <= End(n)
  BY <1>3 DEF NoCursor, End
<1>6. Ahead(c, saved[c])'
  BY <1>1, <1>5, Zenon DEF Ahead, End
<1>7. AscendInv(c)'
  BY <1>1, <1>3, <1>4, <1>5, <1>6, Zenon DEF AscendInv, End
<1> QED
  BY <1>2, <1>7, Zenon DEF FlowInv

\* A resume starts from the client's cursor.
LEMMA ResumeFlow ==
    ASSUME TypeOK, NEW c \in Clients, PhaseInv(c), FlowInv(c), Resume(c)
    PROVE  FlowInv(c)'
<1>1. /\ pc'[c] = "backlog" /\ queue'[c] = <<>> /\ base'[c] = saved[c] /\ saved'[c] = saved[c]
      /\ baseSafe'[c] = TRUE /\ received' = received
      /\ todo'[c] = {n \in Range(ring) : Relevant(c, n) /\ After(n, saved[c])}
  BY Zenon DEF Resume, TypeOK, PhaseInv, mailVars, hubVars, ringVars
<1>2. saved[c] \in Int /\ received \in Int /\ ring \in Seq(Nat)
  BY DEF TypeOK, Cursors, NoCursor
<1>3. Range(ring) \subseteq Nat /\ Range(queue'[c]) = {}
  BY <1>1, <1>2, EmptyIsSeq DEF Range
<1>4. \A n \in Nat : After(n, saved[c]) => saved[c] <= End(n)
  BY <1>2 DEF After, CommitLSN, End
<1>5. \A m \in todo'[c] : saved[c] <= End(m)
  BY <1>1, <1>3, <1>4, Zenon
<1>6. \A n \in Nat : Need(c, n)' => After(n, saved[c])
  BY <1>1, Zenon DEF Need, After, CommitLSN
<1>7. Ahead(c, saved[c])'
  BY <1>1, <1>4, <1>6, Zenon DEF Ahead, End
<1>8. saved[c] <= saved[c]
  BY <1>2
<1>9. AscendInv(c)'
  BY <1>1, <1>3, <1>5, <1>7, <1>8, Zenon DEF AscendInv, End
<1>10. SentInv(c)'
  BY <1>1, Zenon DEF SentInv
<1> QED
  BY <1>9, <1>10, Zenon DEF FlowInv

\* A backlog transaction is before the rest of the backlog and before the queue.
LEMMA SendBacklogFlow ==
    ASSUME TypeOK, NEW c \in Clients, OrderInv(c), FlowInv(c), SendBacklog(c)
    PROVE  FlowInv(c)' /\ (~tainted'[c] => saved[c] <= saved'[c])
<1>1. PICK k \in todo[c] : /\ \A m \in todo[c] : k <= m
                           /\ Batch(c, k) /\ todo' = [todo EXCEPT ![c] = @ \ {k}]
  BY Zenon DEF SendBacklog
<1>2. /\ pc[c] = "backlog" /\ pc'[c] = "backlog" /\ queue'[c] = queue[c] /\ todo'[c] = todo[c] \ {k}
      /\ base'[c] = base[c] /\ baseSafe'[c] = baseSafe[c] /\ covered'[c] = covered[c]
      /\ have'[c] = have[c] \cup {k} /\ saved'[c] = End(k) /\ tainted'[c] = tainted[c]
      /\ received' = received
  BY <1>1, Zenon DEF SendBacklog, Batch, TypeOK, hubVars, ringVars, mailVars, snapVars
<1>3. /\ todo[c] \subseteq Nat /\ queue[c] \in Seq(Nat) /\ received \in Int /\ k \in Nat
      /\ End(k) <= received
  BY <1>1 DEF OrderInv, TypeOK, Cursors, NoCursor
<1>4. \A n \in Range(queue[c]) : n \in Nat /\ k < n
  <2>1. \A i \in 1..Len(queue[c]) : queue[c][i] \in Nat
    BY <1>3
  <2>2. \A i \in 1..Len(queue[c]) : k < queue[c][i]
    BY <1>1, Zenon DEF OrderInv
  <2>3. Range(queue[c]) = {queue[c][i] : i \in 1..Len(queue[c])}
    BY <1>3, RangeNat, Zenon
  <2> QED
    BY <2>1, <2>2, <2>3, Zenon
<1>5. k \notin Range(queue[c])
  BY <1>3, <1>4, EndOrder, Zenon
<1>6. SentInv(c)'
  BY <1>1, <1>2, <1>3, <1>5, Zenon DEF FlowInv, SentInv, Live, End
<1>7. (\A m \in todo[c] : End(k) <= End(m)) /\ \A n \in Range(queue[c]) : End(k) <= End(n)
  <2>1. \A m \in todo[c] : End(k) <= End(m)
    BY <1>1, <1>3, EndOrder, Zenon
  <2> QED
    BY <1>3, <1>4, <2>1, EndOrder, Zenon
<1>8. Ahead(c, saved[c])'
  <2>1. \A n \in Nat : End(n) > received => End(k) <= End(n)
    BY <1>3 DEF End
  <2> QED
    BY <1>2, <2>1, Zenon DEF Ahead, End
<1>9. AscendInv(c)'
  BY <1>2, <1>3, <1>7, <1>8, Zenon DEF AscendInv, End
<1>10. ~tainted'[c] => saved[c] <= saved'[c]
  BY <1>1, <1>2, Zenon DEF FlowInv, AscendInv, Live
<1> QED
  BY <1>6, <1>9, <1>10, Zenon DEF FlowInv

\* The position claimed next is not before what was sent, and not after what will be.
LEMMA PositionFlow ==
    ASSUME TypeOK, NEW c \in Clients, PhaseInv(c), FlowInv(c), Position(c)
    PROVE  FlowInv(c)' /\ saved'[c] = saved[c]
<1>1. /\ pc[c] \in {"backlog", "select"} /\ pc'[c] = "drain" /\ queue'[c] = queue[c]
      /\ todo'[c] = todo[c] /\ base'[c] = base[c] /\ baseSafe'[c] = baseSafe[c]
      /\ covered'[c] = covered[c] /\ pos'[c] = LivePosition(c) /\ progressed'[c] = progressed[c]
      /\ (shaky'[c] <=> Shaky(c))
      /\ UNCHANGED <<log, received, have, saved, tainted>>
  BY Zenon DEF Position, TypeOK, srcVars, ringVars, mailVars, snapVars, storeVars
<1>2. /\ base[c] \in Int /\ received \in Int /\ saved[c] \in Int /\ Len(log) \in Nat
      /\ base[c] >= -1 /\ received >= -1
  BY DEF TypeOK, Cursors, NoCursor
<1>3. \A n : Need(c, n)' <=> Need(c, n)
  BY <1>1, SameNeed, Zenon
<1>4. \A cursor : Ahead(c, cursor)' <=> Ahead(c, cursor)
  BY <1>1, <1>3, Zenon DEF Ahead, End
<1>5. SentInv(c)'
  BY <1>1, Zenon DEF FlowInv, SentInv, Live, End
<1>6. received <= LivePosition(c) /\ (baseSafe[c] => base[c] <= LivePosition(c)) /\ LivePosition(c) \in Int
  BY <1>2, LaterOfTwo, Zenon DEF LivePosition
<1>7. saved[c] <= progressed[c] \/ saved[c] <= LivePosition(c)
  <2>1. CASE saved[c] <= received
    BY <1>2, <1>6, <2>1, Through, Zenon
  <2>2. CASE baseSafe[c] /\ saved[c] <= base[c]
    BY <1>2, <1>6, <2>2, Through, Zenon
  <2> QED
    BY <1>1, <2>1, <2>2, Zenon DEF FlowInv, AscendInv
<1>8. ASSUME ~Shaky(c) PROVE Ahead(c, LivePosition(c))
  <2> SUFFICES ASSUME NEW n \in Nat \ {0}, Need(c, n), End(n) > received
               PROVE  LivePosition(c) <= End(n)
    BY Zenon DEF Ahead
  <2>1. CASE LivePosition(c) = received
    BY <1>2, <2>1, AtMostEnd, Zenon
  <2>2. CASE LivePosition(c) = base[c] /\ baseSafe[c]
    <3>1. After(n, base[c])
      BY <2>2, Zenon DEF Need
    <3> QED
      BY <1>2, <2>2, <3>1, AtMostEnd, Zenon
  <2>3. CASE LivePosition(c) = base[c] /\ ~baseSafe[c] /\ received = NoCursor
    <3>1. n \notin covered[c]
      BY <2>3, Zenon DEF Need
    <3>2. CASE n \in 1..Len(log)
      <4>1. ~(End(n) <= base[c])
        BY <1>8, <2>3, <3>1, <3>2, Zenon DEF Shaky
      <4> QED
        BY <1>2, <2>3, <4>1, AtMostEnd, Zenon
    <3>3. CASE n \notin 1..Len(log)
      <4>1. n >= Len(log) + 1
        BY <1>2, <3>3
      <4>2. base[c] <= 2 * Len(log) + 1
        BY Zenon DEF PhaseInv
      <4> QED
        BY <1>2, <2>3, <4>1, <4>2, UnderEnd, Zenon
    <3> QED
      BY <3>2, <3>3, Zenon
  <2> QED
    BY <2>1, <2>2, <2>3, Zenon DEF LivePosition
<1>9. AscendInv(c)'
  BY <1>1, <1>3, <1>4, <1>7, <1>8, Zenon DEF FlowInv, AscendInv, Live, End
<1> QED
  BY <1>1, <1>5, <1>9, Zenon DEF FlowInv

\* The queue is in order, and what it holds was accepted.
LEMMA DrainFlow ==
    ASSUME TypeOK, NEW c \in Clients, OrderInv(c), FlowInv(c), Drain(c)
    PROVE  FlowInv(c)' /\ (~tainted'[c] => saved[c] <= saved'[c])
<1>1. PICK q \in Seq(Nat), k \in Nat : q = queue[c] /\ k = Head(q) /\ q # <<>>
  BY TailNat, Zenon DEF Drain, TypeOK
<1>2. /\ pc[c] = "drain" /\ pc'[c] = "drain" /\ queue'[c] = Tail(q) /\ todo'[c] = todo[c]
      /\ base'[c] = base[c] /\ baseSafe'[c] = baseSafe[c] /\ covered'[c] = covered[c]
      /\ pos'[c] = MaxCursor(End(k), pos[c]) /\ progressed'[c] = progressed[c]
      /\ shaky'[c] = shaky[c] /\ received' = received
  BY <1>1, Zenon DEF Drain, TypeOK, hubVars, ringVars, snapVars
<1>3. /\ Need(c, k) => have'[c] = have[c] \cup {k} /\ saved'[c] = End(k) /\ tainted'[c] = tainted[c]
      /\ ~Need(c, k) => have'[c] = have[c] /\ saved'[c] = saved[c] /\ tainted'[c] = tainted[c]
  <2>1. CASE Need(c, k)
    <3>1. Batch(c, k)
      BY <1>1, <2>1, Zenon DEF Drain
    <3> QED
      BY <2>1, <3>1, Zenon DEF Batch, TypeOK
  <2>2. CASE ~Need(c, k)
    BY <1>1, <2>2, Zenon DEF Drain, storeVars
  <2> QED
    BY <2>1, <2>2, Zenon
<1>4. /\ k \in Range(q) /\ End(k) <= received /\ todo[c] = {}
      /\ \A n \in Range(Tail(q)) : n \in Nat /\ n \in Range(q) /\ k < n
  <2>1. /\ Len(q) \in Nat \ {0} /\ Tail(q) \in Seq(Nat) /\ Len(Tail(q)) = Len(q) - 1 /\ k = q[1]
        /\ \A i \in 1..(Len(q) - 1) : Tail(q)[i] = q[i + 1]
    BY <1>1, TailNat, Zenon
  <2>2. Range(q) = {q[i] : i \in 1..Len(q)} /\ Range(Tail(q)) = {Tail(q)[i] : i \in 1..Len(Tail(q))}
    BY <2>1, RangeNat, Zenon
  <2>3. /\ \A i \in 1..Len(q) : End(q[i]) <= received
        /\ \A i, j \in 1..Len(q) : i < j => q[i] < q[j]
        /\ todo[c] = {}
    BY <1>1, <1>2, Zenon DEF OrderInv
  <2>4. 1 \in 1..Len(q)
    BY <2>1
  <2>5. \A i \in 1..Len(Tail(q)) : Tail(q)[i] = q[i + 1] /\ i + 1 \in 1..Len(q) /\ 1 < i + 1 /\ q[i + 1] \in Nat
    BY <2>1
  <2> QED
    BY <2>1, <2>2, <2>3, <2>4, <2>5, Zenon
<1>5. received \in Int /\ pos[c] \in Int /\ saved[c] \in Int /\ progressed[c] \in Int /\ have[c] \subseteq Nat
  BY DEF TypeOK, Cursors, NoCursor
<1>6. k \notin Range(Tail(q)) /\ \A n \in Range(Tail(q)) : End(k) <= End(n)
  <2>1. k \in Nat
    BY <1>1
  <2> QED
    BY <1>4, <2>1, EndOrder, Zenon
<1>7. SentInv(c)'
  BY <1>1, <1>2, <1>3, <1>4, <1>6, Zenon DEF FlowInv, SentInv, Live, End
<1>8. \A n : Need(c, n)' <=> Need(c, n)
  BY <1>2, SameNeed, Zenon
<1>9. \A cursor : Ahead(c, cursor) => Ahead(c, cursor)'
  BY <1>2, <1>8, Zenon DEF Ahead, End
<1>10. Ahead(c, End(k))
  <2>1. \A n \in Nat : End(n) > received => End(k) <= End(n)
    BY <1>1, <1>4, <1>5 DEF End
  <2> QED
    BY <2>1, Zenon DEF Ahead
<1>11. /\ pos'[c] \in {End(k), pos[c]} /\ End(k) <= pos'[c] /\ pos[c] <= pos'[c]
       /\ (saved[c] <= pos[c] => saved[c] <= pos'[c])
  BY <1>1, <1>2, <1>5, SMTT(15) DEF MaxCursor, Later, End
<1>12. ~tainted'[c] => saved[c] <= saved'[c]
  <2>1. saved[c] <= saved[c]
    BY <1>5
  <2> QED
    BY <1>1, <1>2, <1>3, <1>4, <2>1, Zenon DEF FlowInv, AscendInv, Live
<1>13. AscendInv(c)'
  <2>1. saved'[c] <= progressed'[c] \/ saved'[c] <= pos'[c]
    BY <1>2, <1>3, <1>11, Zenon DEF FlowInv, AscendInv
  <2>2. ASSUME ~tainted'[c], ~shaky'[c] PROVE Ahead(c, pos[c])'
    <3>1. Ahead(c, pos[c]) /\ Ahead(c, End(k))
      BY <1>2, <1>3, <1>10, <2>2, Zenon DEF FlowInv, AscendInv
    <3>2. Ahead(c, pos'[c])
      BY <1>11, <3>1, Zenon
    <3>3. PICK p : p = pos'[c]
      OBVIOUS
    <3> QED
      BY <1>9, <3>2, <3>3, Zenon DEF Ahead, End
  <2>3. ASSUME ~tainted'[c]
        PROVE  (\A n \in Range(queue'[c]) : Need(c, n)' => saved'[c] <= End(n)) /\ Ahead(c, saved'[c])
    <3>1. CASE Need(c, k)
      BY <1>2, <1>3, <1>6, <1>10, <3>1, Zenon
    <3>2. CASE ~Need(c, k)
      BY <1>1, <1>2, <1>3, <1>4, <1>8, <2>3, <3>2, Zenon DEF FlowInv, AscendInv, Live
    <3> QED
      BY <3>1, <3>2
  <2>4. ASSUME ~tainted'[c] PROVE Ahead(c, saved[c])'
    BY <1>2, <1>8, <2>3, <2>4, Zenon DEF Ahead, End
  <2> QED
    BY <1>2, <1>4, <2>1, <2>2, <2>3, <2>4, Zenon DEF AscendInv, End
<1> QED
  BY <1>7, <1>12, <1>13, Zenon DEF FlowInv

\* Progress is sent when it moved, from an empty queue.
LEMMA ReportFlow ==
    ASSUME TypeOK, NEW c \in Clients, OrderInv(c), FlowInv(c), Report(c)
    PROVE  FlowInv(c)' /\ (~tainted'[c] => saved[c] <= saved'[c])
<1>1. /\ pc[c] = "drain" /\ pc'[c] = "select" /\ queue[c] = <<>> /\ queue'[c] = <<>>
      /\ todo'[c] = todo[c] /\ base'[c] = base[c] /\ baseSafe'[c] = baseSafe[c]
      /\ covered'[c] = covered[c] /\ progressed'[c] = MaxCursor(pos[c], progressed[c])
      /\ have'[c] = have[c] /\ received' = received
  BY Zenon DEF Report, TypeOK, hubVars, ringVars, mailVars, snapVars
<1>2. /\ Later(pos[c], progressed[c]) => saved'[c] = pos[c] /\ (tainted'[c] <=> tainted[c] \/ shaky[c])
      /\ ~Later(pos[c], progressed[c]) => saved'[c] = saved[c] /\ tainted'[c] = tainted[c]
  BY Zenon DEF Report, TypeOK
<1>3. pos[c] \in Int /\ progressed[c] \in Int /\ saved[c] \in Int
  BY DEF TypeOK, Cursors, NoCursor
<1>4. todo[c] = {} /\ Range(queue'[c]) = {}
  BY <1>1, EmptyRange, Zenon DEF OrderInv
<1>5. SentInv(c)'
  BY <1>1, <1>4, Zenon DEF FlowInv, SentInv, Live, End
<1>6. \A n : Need(c, n)' <=> Need(c, n)
  BY <1>1, SameNeed, Zenon
<1>7. saved'[c] <= progressed'[c] /\ saved[c] <= saved'[c]
  <2>1. saved[c] <= progressed[c] \/ saved[c] <= pos[c]
    BY <1>1, Zenon DEF FlowInv, AscendInv
  <2>2. CASE Later(pos[c], progressed[c])
    BY <1>1, <1>2, <1>3, <2>1, <2>2 DEF MaxCursor, Later
  <2>3. CASE ~Later(pos[c], progressed[c])
    BY <1>1, <1>2, <1>3, <2>1, <2>3 DEF MaxCursor, Later
  <2> QED
    BY <2>2, <2>3
<1>8. ASSUME ~tainted'[c] PROVE Ahead(c, saved'[c])
  BY <1>1, <1>2, <1>8, Zenon DEF FlowInv, AscendInv, Live
<1>9. ASSUME ~tainted'[c] PROVE Ahead(c, saved[c])'
  BY <1>1, <1>6, <1>8, <1>9, Zenon DEF Ahead, End
<1>10. AscendInv(c)'
  BY <1>1, <1>4, <1>7, <1>9, Zenon DEF AscendInv
<1> QED
  BY <1>5, <1>7, <1>10, Zenon DEF FlowInv

\* What Accept queues is after everything it has accepted.
LEMMA AcceptFlow ==
    ASSUME TypeOK, SourceInv, NEW c \in Clients, FlowInv(c), Accept
    PROVE  FlowInv(c)' /\ saved'[c] = saved[c]
<1>1. /\ UNCHANGED <<pc, todo, base, baseSafe, covered, pos, progressed, shaky, have, saved, tainted>>
      /\ received' = End(stream) /\ End(stream) > received
      /\ queue'[c] = IF c \in Routed(stream) \ Dropped(stream) THEN Append(queue[c], stream) ELSE queue[c]
  BY Zenon DEF Accept, snapVars, storeVars
<1>2. stream \in Nat \ {0} /\ received \in Int /\ queue[c] \in Seq(Nat) /\ have[c] \subseteq Nat
      /\ saved[c] \in Int
  <2>1. stream \in 1..Len(log)
    BY AcceptRing, Zenon
  <2> QED
    BY <2>1 DEF TypeOK, Cursors, NoCursor
<1>3. Range(queue'[c]) \subseteq Range(queue[c]) \cup {stream}
  <2>1. CASE queue'[c] = queue[c]
    BY <2>1, Zenon
  <2>2. CASE queue'[c] = Append(queue[c], stream)
    <3>1. /\ Append(queue[c], stream) \in Seq(Nat)
          /\ Len(Append(queue[c], stream)) = Len(queue[c]) + 1 /\ Len(queue[c]) \in Nat
          /\ \A i \in 1..Len(queue[c]) : Append(queue[c], stream)[i] = queue[c][i]
          /\ Append(queue[c], stream)[Len(queue[c]) + 1] = stream
      BY <1>2, AppendNat
    <3>2. \A i \in 1..(Len(queue[c]) + 1) : i \in 1..Len(queue[c]) \/ i = Len(queue[c]) + 1
      BY <3>1
    <3>3. /\ Range(Append(queue[c], stream)) = {Append(queue[c], stream)[i] : i \in 1..(Len(queue[c]) + 1)}
          /\ Range(queue[c]) = {queue[c][i] : i \in 1..Len(queue[c])}
      BY <1>2, <3>1, RangeNat, Zenon
    <3>4. ASSUME NEW n \in Range(queue'[c]) PROVE n \in Range(queue[c]) \cup {stream}
      <4>1. PICK i \in 1..(Len(queue[c]) + 1) : n = Append(queue[c], stream)[i]
        BY <2>2, <3>3, <3>4
      <4>2. CASE i \in 1..Len(queue[c])
        BY <3>1, <3>3, <4>1, <4>2, Zenon
      <4>3. CASE i = Len(queue[c]) + 1
        BY <3>1, <4>1, <4>3, Zenon
      <4> QED
        BY <3>2, <4>2, <4>3, Zenon
    <3> QED
      BY <3>4
  <2> QED
    BY <1>1, <2>1, <2>2, Zenon
<1>4. /\ \A n \in Nat : End(n) <= received => End(n) <= received' /\ n # stream
      /\ \A n \in Nat : End(n) > received' => End(n) > received
  BY <1>1, <1>2 DEF End
<1>5. SentInv(c)'
  <2>1. ASSUME pc[c] \in Live, ~baseSafe[c], NEW n \in have[c], n \notin covered[c]
        PROVE  End(n) <= received' /\ n \notin Range(queue'[c])
    <3>1. End(n) <= received /\ n \notin Range(queue[c]) /\ n \in Nat
      BY <1>2, <2>1, Zenon DEF FlowInv, SentInv
    <3> QED
      BY <1>3, <1>4, <3>1, Zenon
  <2> QED
    BY <1>1, <2>1, Zenon DEF FlowInv, SentInv, End
<1>6. \A n : Need(c, n)' <=> Need(c, n)
  BY <1>1, SameNeed, Zenon
<1>7. \A cursor : Ahead(c, cursor) => Ahead(c, cursor)'
  BY <1>4, <1>6, Zenon DEF Ahead, End
<1>8. ASSUME pc[c] \in Live, ~tainted[c], NEW n \in Range(queue'[c]), Need(c, n)
      PROVE  saved[c] <= End(n)
  <2>1. CASE n \in Range(queue[c])
    BY <1>8, <2>1, Zenon DEF FlowInv, AscendInv
  <2>2. CASE n = stream
    BY <1>1, <1>2, <1>8, <2>2, Zenon DEF FlowInv, AscendInv, Ahead
  <2> QED
    BY <1>3, <1>8, <2>1, <2>2, Zenon
<1>9. saved[c] <= received => saved[c] <= received'
  BY <1>1, <1>2 DEF End
<1>10. AscendInv(c)'
  BY <1>1, <1>6, <1>7, <1>8, <1>9, Zenon DEF FlowInv, AscendInv, End
<1> QED
  BY <1>1, <1>5, <1>10, Zenon DEF FlowInv

\* What a step may do to the cursor a watch that is sending sent last.
Ascends(c) ==
    /\ pc[c] \in {"backlog", "drain", "select"}
    /\ pc'[c] # "idle"
    /\ ~tainted'[c]
    => saved'[c] >= saved[c]

\* The Watch call that takes the step.
LEMMA ActorFlow ==
    ASSUME Inv, NEW c \in Clients, FlowInv(c),
           QuietStep(c) \/ BootstrapSnapshot(c) \/ BootstrapDone(c) \/ RecordSnapshot(c) \/ Ending(c)
    PROVE  FlowInv(c)' /\ (pc[c] \in Live /\ pc'[c] # "idle" /\ ~tainted'[c] => saved[c] <= saved'[c])
<1>1. TypeOK /\ OrderInv(c) /\ PhaseInv(c) /\ saved[c] <= saved[c]
  <2>1. TypeOK /\ OrderInv(c) /\ PhaseInv(c)
    BY Zenon DEF Inv, ClientInv
  <2>2. saved[c] \in Int
    BY <2>1 DEF TypeOK, Cursors, NoCursor
  <2> QED
    BY <2>1, <2>2
<1>2. CASE Refuse(c)
  <2>1. SameFlow(c) /\ received' = received
    BY <1>2, Zenon DEF Refuse, SameFlow, srcVars, hubVars, ringVars, watchVars, mailVars, snapVars, liveVars,
       storeVars
  <2> QED
    BY <1>1, <2>1, FlowFrame, Zenon DEF SameFlow
<1>3. CASE StartSnapshot(c) \/ BootstrapSnapshot(c) \/ BootstrapDone(c) \/ ReadCursor(c) \/ FixSnapshot(c)
           \/ (CheckOverflow(c) /\ ~Ended(c))
  <2>1. pc'[c] \in {"begin", "bootstrap", "reading", "read", "clear"} /\ pc[c] \notin Live
    BY <1>1, <1>3, Zenon DEF StartSnapshot, BootstrapSnapshot, BootstrapDone, ReadCursor, FixSnapshot,
       CheckOverflow, TypeOK, Live
  <2> QED
    BY <2>1, NotSending, Zenon
<1>4. CASE Ending(c)
  <2>1. pc'[c] = "idle"
    BY <1>1, <1>4, Zenon DEF Ending, Leave, TypeOK
  <2> QED
    BY <2>1, NotSending, Zenon
<1>5. CASE ClearStale(c) \/ RecordSnapshot(c) \/ Install(c) \/ Resume(c)
  <2>1. pc[c] \notin Live
    BY <1>5, Zenon DEF ClearStale, RecordSnapshot, Install, Resume, Live
  <2> QED
    BY <1>1, <1>5, <2>1, FilterFlow, InstallFlow, ResumeFlow, Zenon
<1>6. CASE SendBacklog(c) \/ Position(c) \/ Drain(c) \/ Report(c)
  BY <1>1, <1>6, SendBacklogFlow, PositionFlow, DrainFlow, ReportFlow, Zenon
<1> QED
  BY <1>2, <1>3, <1>4, <1>5, <1>6, Zenon DEF QuietStep

\* Every step keeps every client's part, and sends no cursor before the last one.
LEMMA FlowNext ==
    ASSUME Inv, \A c \in Clients : FlowInv(c), [Next]_vars, NEW d \in Clients
    PROVE  FlowInv(d)' /\ Ascends(d)
<1>1. TypeOK /\ SourceInv /\ FlowInv(d)
  BY Zenon DEF Inv
<1>2. saved[d] \in Int
  BY <1>1 DEF TypeOK, Cursors, NoCursor
<1>3. CASE SameFlow(d) /\ received' = received
  <2>1. saved'[d] = saved[d]
    BY <1>3, Zenon DEF SameFlow
  <2>2. saved'[d] >= saved[d]
    BY <1>2, <2>1
  <2> QED
    BY <1>1, <1>3, <2>2, FlowFrame, Zenon DEF Ascends
<1>4. CASE Commit \/ BecomeVisible \/ Reconnect \/ AcceptDuplicate \/ CloseTick \/ Stop \/ UNCHANGED vars
  <2>1. SameFlow(d) /\ received' = received
    BY <1>4, Zenon DEF Commit, BecomeVisible, Reconnect, AcceptDuplicate, CloseTick, Stop, vars, SameFlow,
       srcVars, hubVars, ringVars, watchVars, mailVars, snapVars, liveVars, storeVars
  <2> QED
    BY <1>3, <2>1, Zenon
<1>5. CASE Accept
  <2>1. FlowInv(d)' /\ saved'[d] = saved[d]
    BY <1>1, <1>5, AcceptFlow, Zenon
  <2>2. saved'[d] >= saved[d]
    BY <1>2, <2>1
  <2> QED
    BY <2>1, <2>2, Zenon DEF Ascends
<1>6. CASE Restart
  <2>1. pc'[d] = "idle"
    BY <1>6, Zenon DEF Restart
  <2> QED
    BY <2>1, NotSending, Zenon DEF Ascends
<1>7. ASSUME NEW c \in Clients,
             QuietStep(c) \/ BootstrapSnapshot(c) \/ BootstrapDone(c) \/ RecordSnapshot(c) \/ Ending(c)
      PROVE  FlowInv(d)' /\ Ascends(d)
  <2>1. CASE d = c
    <3>1. FlowInv(d)' /\ (pc[d] \in Live /\ pc'[d] # "idle" /\ ~tainted'[d] => saved[d] <= saved'[d])
      BY <1>7, <2>1, ActorFlow, Zenon
    <3>2. TypeOK'
      BY <1>1, TypeNext, Zenon
    <3>3. saved'[d] \in Int
      BY <3>2 DEF TypeOK, Cursors, NoCursor
    <3>4. saved[d] <= saved'[d] => saved'[d] >= saved[d]
      BY <1>2, <3>3
    <3> QED
      BY <3>1, <3>4, Zenon DEF Ascends, Live
  <2>2. CASE d # c
    <3>1. Same(d)
      BY <1>1, <1>7, <2>2, OtherSame, Zenon
    <3>2. received' = received
      <4>1. CASE QuietStep(c)
        BY <4>1, QuietFrame, Zenon DEF QuietVars
      <4>2. CASE BootstrapSnapshot(c) \/ BootstrapDone(c) \/ RecordSnapshot(c) \/ Ending(c)
        BY <4>2, Zenon DEF BootstrapSnapshot, BootstrapDone, RecordSnapshot, Ending, Leave, hubVars, ringVars
      <4> QED
        BY <1>7, <4>1, <4>2, Zenon
    <3>3. SameFlow(d)
      BY <3>1, Zenon DEF Same, SameFlow
    <3> QED
      BY <1>3, <3>2, <3>3, Zenon
  <2> QED
    BY <2>1, <2>2, Zenon
<1> QED
  BY <1>4, <1>5, <1>6, <1>7, NextCases, Zenon

AllFlow == \A c \in Clients : FlowInv(c)

\* Before the first watch nothing is sent.
LEMMA FlowInit == Init => AllFlow
BY Zenon DEF Init, AllFlow, FlowInv, SentInv, AscendInv, Live

\* AllFlow is inductive on top of Inv.
LEMMA FlowStep == Inv /\ AllFlow /\ [Next]_vars => AllFlow' /\ \A c \in Clients : Ascends(c)
BY FlowNext, Zenon DEF AllFlow

\* After a snapshot, neither the backlog nor the queue brings again what its rows hold or
\* what has been sent.
THEOREM NoRedeliveryAlways ==
    ASSUME VisibilityLag # "any"
    PROVE  Spec => []NoRedelivery
<1>1. AllFlow => NoRedelivery
  <2> SUFFICES ASSUME AllFlow, NEW c \in Clients, pc[c] \in Live, ~baseSafe[c]
               PROVE  /\ todo[c] \cap have[c] = {}
                      /\ \A n \in Range(queue[c]) : Need(c, n) => n \notin have[c]
    BY Zenon DEF NoRedelivery, Live
  <2> QED
    BY Zenon DEF AllFlow, FlowInv, SentInv, Need
<1>2. Init => AllFlow
  BY FlowInit
<1>3. Inv /\ AllFlow /\ [Next]_vars => AllFlow'
  BY FlowStep, Zenon
<1> QED
  BY <1>1, <1>2, <1>3, InvAlways, PTL DEF Spec

\* The cursors of one watch, backlog, queue and progress together, never move backwards.
THEOREM CursorsAscendAlways ==
    ASSUME VisibilityLag # "any"
    PROVE  Spec => CursorsAscend
<1>1. Init => AllFlow
  BY FlowInit
<1>2. Inv /\ AllFlow /\ [Next]_vars => AllFlow'
  BY FlowStep, Zenon
<1>3. Inv /\ AllFlow /\ [Next]_vars => [\A c \in Clients : Ascends(c)]_vars
  BY FlowStep, Zenon
<1> QED
  BY <1>1, <1>2, <1>3, InvAlways, PTL DEF Spec, CursorsAscend, Ascends
================================================================================
