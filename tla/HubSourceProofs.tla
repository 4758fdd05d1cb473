----------------------------- MODULE HubSourceProofs ----------------------------
(* The hub's shared state, the slot, the ring, the floor and what snapshots see, *)
(* and the types.                                                                *)
EXTENDS HubInv, TLAPS

\* The empty sequence: the ring and the queues start as it.
LEMMA EmptyIsSeq == \A S : <<>> \in Seq(S) /\ Len(<<>>) = 0
  OBVIOUS

\* What append to the ring or to a watcher's queue returns.
LEMMA AppendNat ==
    ASSUME NEW s \in Seq(Nat), NEW e \in Nat
    PROVE  /\ Append(s, e) \in Seq(Nat)
           /\ Len(Append(s, e)) = Len(s) + 1
           /\ Append(s, e) # <<>>
           /\ \A i \in 1..Len(s) : Append(s, e)[i] = s[i]
           /\ Append(s, e)[Len(s) + 1] = e
<1>1. Append(s, e) \in Seq(Nat) /\ Len(Append(s, e)) = Len(s) + 1
  OBVIOUS
<1>2. Append(s, e) # <<>>
  BY <1>1
<1>3. \A i \in 1..Len(s) : Append(s, e)[i] = s[i]
  OBVIOUS
<1>4. Append(s, e)[Len(s) + 1] = e
  OBVIOUS
<1>. QED
  BY <1>1, <1>2, <1>3, <1>4, Zenon

\* What evictLocked leaves of the ring, and a receive of a queue.
LEMMA TailNat ==
    ASSUME NEW s \in Seq(Nat), s # <<>>
    PROVE  /\ Tail(s) \in Seq(Nat)
           /\ Len(s) \in Nat \ {0}
           /\ Len(Tail(s)) = Len(s) - 1
           /\ \A i \in 1..(Len(s) - 1) : Tail(s)[i] = s[i + 1]
           /\ Head(s) = s[1] /\ Head(s) \in Nat
<1>1. Tail(s) \in Seq(Nat) /\ Head(s) = s[1]
  OBVIOUS
<1>2. Len(s) \in Nat \ {0}
  OBVIOUS
<1>3. Len(Tail(s)) = Len(s) - 1
  OBVIOUS
<1>4. \A i \in 1..(Len(s) - 1) : Tail(s)[i] = s[i + 1]
  OBVIOUS
<1>5. Head(s) \in Nat
  OBVIOUS
<1>. QED
  BY <1>1, <1>2, <1>3, <1>4, <1>5, Zenon

\* Range as the ring and the queues use it.
LEMMA RangeNat ==
    ASSUME NEW s \in Seq(Nat)
    PROVE  Range(s) = {s[i] : i \in 1..Len(s)}
BY DEF Range

\* A run of consecutive numbers holds exactly those from its first to its last.
LEMMA RunRange ==
    ASSUME NEW s \in Seq(Nat), s # <<>>, \A i \in 1..Len(s) : s[i] = s[1] + i - 1
    PROVE  /\ Len(s) \in Nat \ {0} /\ s[1] \in Nat /\ s[Len(s)] \in Nat
           /\ s[Len(s)] = s[1] + Len(s) - 1
           /\ \A n \in Int : n \in Range(s) <=> s[1] <= n /\ n <= s[Len(s)]
<1>1. Len(s) \in Nat \ {0}
  BY TailNat, Zenon
<1>2. \A i \in 1..Len(s) : s[i] = s[1] + i - 1 /\ s[i] \in Nat
  BY <1>1
<1>3. s[Len(s)] = s[1] + Len(s) - 1 /\ s[1] \in Nat /\ s[Len(s)] \in Nat
  BY <1>1, <1>2
<1>4. Range(s) = {s[i] : i \in 1..Len(s)}
  BY RangeNat, Zenon
<1>5. ASSUME NEW n \in Int, n \in Range(s) PROVE s[1] <= n /\ n <= s[Len(s)]
  <2>1. PICK i \in 1..Len(s) : n = s[i]
    BY <1>4, <1>5, Zenon
  <2>. QED
    BY <1>1, <1>2, <1>3, <2>1, SMTT(30)
<1>6. ASSUME NEW n \in Int, s[1] <= n, n <= s[Len(s)] PROVE n \in Range(s)
  <2>1. PICK first \in Nat, last \in Nat, length \in Nat :
           first = s[1] /\ last = s[Len(s)] /\ length = Len(s)
    BY <1>1, <1>3, Zenon
  <2>2. last = first + length - 1 /\ first <= n /\ n <= last
    BY <1>3, <1>6, <2>1, Zenon
  <2>3. PICK i \in 1..length : first + i - 1 = n
    <3>1. n - first + 1 \in 1..length /\ first + (n - first + 1) - 1 = n
      BY <2>2
    <3>. QED
      BY <3>1, Zenon
  <2>4. i \in 1..Len(s) /\ s[i] = n
    BY <1>2, <2>1, <2>3, Zenon
  <2>. QED
    BY <1>4, <2>4, Zenon
<1>. QED
  BY <1>1, <1>3, <1>5, <1>6, Zenon

\* The ring holds exactly the transactions from its first to its last.
LEMMA RingRange ==
    ASSUME TypeOK, SourceInv, ring # <<>>
    PROVE  /\ Len(ring) \in Nat \ {0} /\ ring[1] \in Nat /\ ring[Len(ring)] \in Nat
           /\ ring[Len(ring)] = ring[1] + Len(ring) - 1
           /\ \A n \in Int : n \in Range(ring) <=> ring[1] <= n /\ n <= ring[Len(ring)]
<1>1. ring \in Seq(Nat) /\ \A i \in 1..Len(ring) : ring[i] = ring[1] + i - 1
  BY Zenon DEF TypeOK, SourceInv
<1>. QED
  BY <1>1, RunRange, Zenon

\* Appending its successor to a run of consecutive numbers.
LEMMA AppendRun ==
    ASSUME NEW s \in Seq(Nat), NEW e \in Nat, s # <<>>,
           \A i \in 1..Len(s) : s[i] = s[1] + i - 1,
           e = s[Len(s)] + 1
    PROVE  /\ Append(s, e)[1] = s[1]
           /\ Append(s, e)[Len(s) + 1] = e
           /\ Head(Append(s, e)) = s[1]
           /\ \A i \in 1..(Len(s) + 1) : Append(s, e)[i] = s[1] + i - 1
<1>1. Len(s) \in Nat \ {0}
  BY TailNat, Zenon
<1>2. /\ \A i \in 1..Len(s) : Append(s, e)[i] = s[i]
      /\ Append(s, e)[Len(s) + 1] = e
  BY AppendNat, Zenon
<1>3. \A i \in 1..(Len(s) + 1) : Append(s, e)[i] = s[1] + i - 1
  <2>1. s[Len(s)] = s[1] + Len(s) - 1 /\ s[1] \in Nat
    BY <1>1
  <2>2. ASSUME NEW i \in 1..(Len(s) + 1) PROVE Append(s, e)[i] = s[1] + i - 1
    <3>1. CASE i = Len(s) + 1
      BY <1>1, <1>2, <2>1, <3>1
    <3>2. CASE i \in 1..Len(s)
      BY <1>2, <3>2, Zenon
    <3>. QED
      BY <1>1, <3>1, <3>2
  <2>. QED
    BY <2>2, Zenon
<1>4. Append(s, e)[1] = s[1]
  BY <1>1, <1>2
<1>5. Head(Append(s, e)) = Append(s, e)[1]
  BY AppendNat, TailNat, Zenon
<1>. QED
  BY <1>2, <1>3, <1>4, <1>5, Zenon

\* Dropping the first of a run.
LEMMA TailRun ==
    ASSUME NEW r \in Seq(Nat), r # <<>>, NEW k \in Nat,
           \A i \in 1..Len(r) : r[i] = k + i - 1
    PROVE  /\ Tail(r) \in Seq(Nat)
           /\ Len(Tail(r)) = Len(r) - 1
           /\ \A i \in 1..(Len(r) - 1) : Tail(r)[i] = k + i
<1>1. Len(r) \in Nat \ {0}
  BY TailNat, Zenon
<1>2. PICK t \in Seq(Nat) : t = Tail(r)
  BY TailNat, Zenon
<1>3. Len(t) = Len(r) - 1 /\ \A i \in 1..(Len(r) - 1) : t[i] = r[i + 1]
  BY <1>2, TailNat, Zenon
<1>4. ASSUME NEW i \in 1..(Len(r) - 1) PROVE t[i] = k + i
  <2>1. i + 1 \in 1..Len(r) /\ i \in Nat
    BY <1>1
  <2>2. t[i] = r[i + 1] /\ r[i + 1] = k + (i + 1) - 1
    BY <1>3, <2>1, Zenon
  <2>. QED
    BY <2>1, <2>2
<1>. QED
  BY <1>2, <1>3, <1>4, Zenon

\* The ring after Accept is the old one and the new transaction, less the oldest one when
\* the ring was full.
LEMMA AcceptRing ==
    ASSUME TypeOK, SourceInv, Accept
    PROVE  /\ Len(ring') \in Nat \ {0} /\ ring' # <<>>
           /\ ring'[Len(ring')] = stream
           /\ \A i \in 1..Len(ring') : ring'[i] = ring'[1] + i - 1
           /\ stream \in 1..Len(log)
           /\ ring = <<>> => stream = start /\ ring'[1] = stream /\ ~Overfull
           /\ ring # <<>> => stream = ring[Len(ring)] + 1 /\ Oldest = ring[1]
           /\ ring # <<>> /\ Overfull => ring'[1] = ring[1] + 1
           /\ ring # <<>> /\ ~Overfull => ring'[1] = ring[1]
<1>1. ring \in Seq(Nat) /\ stream \in Nat /\ Len(ring) \in Nat /\ MaxReplay \in Nat \ {0}
      /\ received \in Cursors
  BY BoundsAssumption DEF TypeOK
<1>2. stream \in 1..Len(log)
  BY DEF Accept, SourceInv, TypeOK
<1>3. ring' = IF Overfull THEN Tail(Append(ring, stream)) ELSE Append(ring, stream)
  BY Zenon DEF Accept
<1>4. CASE ring = <<>>
  <2>1. Len(ring) = 0 /\ stream = start
    BY <1>4, EmptyIsSeq, Zenon DEF SourceInv
  <2>2. ~Overfull /\ ring' = Append(ring, stream)
    BY <1>1, <1>3, <2>1 DEF Overfull
  <2>3. Len(ring') = 1 /\ ring'[1] = stream
    BY <1>1, <2>1, <2>2, AppendNat
  <2>4. ring' # <<>> /\ \A i \in 1..Len(ring') : ring'[i] = ring'[1] + i - 1
    <3>1. stream = stream + 1 - 1 /\ 1..Len(ring') = {1}
      BY <1>1, <2>3
    <3>. QED
      BY <2>3, <3>1, EmptyIsSeq
  <2>. QED
    BY <1>2, <1>4, <2>1, <2>2, <2>3, <2>4
<1>5. CASE ring # <<>>
  <2>1. /\ Len(ring) \in Nat \ {0} /\ ring[1] \in Nat /\ ring[Len(ring)] \in Nat
        /\ \A i \in 1..Len(ring) : ring[i] = ring[1] + i - 1
    BY <1>5, RingRange, Zenon DEF SourceInv
  <2>2. stream = ring[Len(ring)] + 1
    <3>1. received = 2 * ring[Len(ring)] /\ stream <= ring[Len(ring)] + 1 /\ 2 * stream > received
      BY <1>5, Zenon DEF Accept, SourceInv, End
    <3>. QED
      BY <1>1, <2>1, <3>1
  <2>3. Oldest = ring[1]
    BY <1>1, <1>5, <2>1, <2>2, AppendRun, Zenon DEF Oldest
  <2>4. CASE Overfull
    <3>1. /\ Len(ring') = Len(ring) /\ ring'[1] = ring[1] + 1 /\ ring'[Len(ring)] = stream
          /\ \A i \in 1..Len(ring) : ring'[i] = ring[1] + i
      <4>1. \A i \in 1..(Len(ring) + 1) : Append(ring, stream)[i] = ring[1] + i - 1
        BY <1>1, <1>5, <2>1, <2>2, AppendRun, Zenon
      <4>2. PICK r \in Seq(Nat) : r = Append(ring, stream) /\ r # <<>> /\ Len(r) = Len(ring) + 1
        BY <1>1, AppendNat, Zenon
      <4>3. \A i \in 1..Len(r) : r[i] = ring[1] + i - 1
        BY <4>1, <4>2, Zenon
      <4>4. /\ Tail(r) \in Seq(Nat) /\ Len(Tail(r)) = Len(r) - 1
            /\ \A i \in 1..(Len(r) - 1) : Tail(r)[i] = ring[1] + i
        BY <2>1, <4>2, <4>3, TailRun, Zenon
      <4>5. Len(ring') = Len(ring) /\ \A i \in 1..Len(ring) : ring'[i] = ring[1] + i
        <5>1. ring' = Tail(r)
          BY <1>3, <2>4, <4>2, Zenon
        <5>2. Len(r) - 1 = Len(ring)
          BY <1>1, <4>2
        <5>. QED
          BY <4>4, <5>1, <5>2, Zenon
      <4>6. ring'[1] = ring[1] + 1 /\ ring'[Len(ring)] = ring[1] + Len(ring)
        BY <2>1, <4>5
      <4>7. ring[Len(ring)] = ring[1] + Len(ring) - 1
        BY <2>1
      <4>. QED
        BY <2>1, <2>2, <4>5, <4>6, <4>7
    <3>2. \A i \in 1..Len(ring') : ring'[i] = ring'[1] + i - 1
      BY <2>1, <3>1
    <3>3. ring' # <<>>
      BY <2>1, <3>1, EmptyIsSeq, Zenon
    <3>. QED
      BY <1>2, <1>5, <2>1, <2>2, <2>3, <2>4, <3>1, <3>2, <3>3, Zenon
  <2>5. CASE ~Overfull
    <3>1. /\ Len(ring') = Len(ring) + 1 /\ ring'[1] = ring[1] /\ ring'[Len(ring) + 1] = stream
          /\ ring' # <<>>
          /\ \A i \in 1..(Len(ring) + 1) : ring'[i] = ring[1] + i - 1
      BY <1>1, <1>3, <1>5, <2>1, <2>2, <2>5, AppendRun, AppendNat
    <3>. QED
      BY <1>2, <1>5, <2>1, <2>2, <2>3, <2>5, <3>1
  <2>. QED
    BY <2>4, <2>5, Zenon
<1>. QED
  BY <1>4, <1>5, Zenon
--------------------------------------------------------------------------------
\* The steps of a Watch call that leave the slot, the ring and the floor alone.
QuietStep(c) ==
    \/ Refuse(c) \/ Resume(c) \/ StartSnapshot(c) \/ ReadCursor(c) \/ FixSnapshot(c)
    \/ CheckOverflow(c) /\ ~Ended(c)
    \/ ClearStale(c) \/ Install(c) \/ SendBacklog(c) \/ Position(c) \/ Drain(c) \/ Report(c)

\* A Watch call that ends.
Ending(c) == pc[c] # "idle" /\ \E why : Leave(c, why)

\* The steps of Next, grouped by what they change of the shared state.
LEMMA NextCases ==
    ASSUME [Next]_vars
    PROVE  \/ Commit \/ BecomeVisible \/ Reconnect \/ Restart
           \/ AcceptDuplicate \/ Accept \/ CloseTick \/ Stop
           \/ \E c \in Clients : QuietStep(c) \/ BootstrapSnapshot(c) \/ BootstrapDone(c)
                                 \/ RecordSnapshot(c) \/ Ending(c)
           \/ UNCHANGED vars
<1>1. ASSUME NEW c \in Clients,
             Disconnect(c) \/ SnapshotFails(c) \/ SelectOverflow(c) \/ SelectStopped(c)
             \/ (CheckOverflow(c) /\ Ended(c))
      PROVE  Ending(c)
  BY <1>1, Zenon DEF Disconnect, SnapshotFails, SelectOverflow, SelectStopped, CheckOverflow, Ending
<1>. QED
  BY <1>1, Zenon DEF Next, WatchStep, QuietStep

QuietVars == <<log, visible, source, start, stream, ring, received, floor, lastEvicted>>

\* A quiet step of a Watch call changes nothing shared but the tick flag and stale.
LEMMA QuietFrame ==
    ASSUME NEW c \in Clients, QuietStep(c)
    PROVE  UNCHANGED QuietVars /\ UNCHANGED <<closing, stopped, restarts>>
<1> USE DEF srcVars, hubVars, ringVars, QuietVars
<1>1. ASSUME Refuse(c) \/ Resume(c) \/ StartSnapshot(c) \/ ReadCursor(c) \/ FixSnapshot(c)
      PROVE  UNCHANGED QuietVars /\ UNCHANGED <<closing, stopped, restarts>>
  BY <1>1, Zenon DEF Refuse, Resume, StartSnapshot, ReadCursor, FixSnapshot
<1>2. ASSUME (CheckOverflow(c) /\ ~Ended(c)) \/ ClearStale(c) \/ Install(c) \/ SendBacklog(c)
      PROVE  UNCHANGED QuietVars /\ UNCHANGED <<closing, stopped, restarts>>
  BY <1>2, Zenon DEF CheckOverflow, ClearStale, Install, SendBacklog
<1>3. ASSUME Position(c) \/ Drain(c) \/ Report(c)
      PROVE  UNCHANGED QuietVars /\ UNCHANGED <<closing, stopped, restarts>>
  BY <1>3, Zenon DEF Position, Drain, Report
<1>. QED
  BY <1>1, <1>2, <1>3, Zenon DEF QuietStep

\* SourceInv reads only the slot, the stream, the log and the ring.
LEMMA SourceFrame ==
    ASSUME SourceInv, UNCHANGED QuietVars
    PROVE  SourceInv'
  BY Zenon DEF SourceInv, QuietVars, End

\* The slot, the ring and the floor stay consistent.
LEMMA SourceNext ==
    ASSUME Inv, TypeOK', [Next]_vars
    PROVE  SourceInv'
<1>. TypeOK /\ SourceInv /\ \A c \in Clients : PhaseInv(c)
  BY Zenon DEF Inv, ClientInv
<1>1. CASE Commit
  <2>1. Len(log') = Len(log) + 1 /\ Len(log) \in Nat
    BY <1>1 DEF Commit, TypeOK
  <2>2. UNCHANGED <<source, start, stream, ring, received, floor, lastEvicted>>
    BY <1>1, Zenon DEF Commit, hubVars, ringVars
  <2>. QED
    BY <2>1, <2>2 DEF SourceInv, End, TypeOK
<1>2. CASE BecomeVisible \/ CloseTick \/ Stop
  BY <1>2, Zenon DEF BecomeVisible, CloseTick, Stop, hubVars, ringVars, srcVars, SourceInv, End
<1>3. CASE Reconnect
  BY <1>3 DEF Reconnect, hubVars, ringVars, SourceInv, End, TypeOK
<1>4. CASE Restart
  <2>1. PICK n \in start..stream : start' = n /\ stream' = n
    BY <1>4, Zenon DEF Restart
  <2>2. ring' = <<>> /\ received' = NoCursor /\ floor' = NoCursor /\ log' = log
        /\ source' = IF source = "none" THEN "none" ELSE "streaming"
    BY <1>4, Zenon DEF Restart
  <2>. QED
    BY <2>1, <2>2, EmptyIsSeq DEF SourceInv, TypeOK
<1>5. CASE AcceptDuplicate
  <2>1. ring # <<>>
    BY <1>5 DEF AcceptDuplicate, SourceInv, End, NoCursor, TypeOK
  <2>2. stream <= ring[Len(ring)] /\ ring[Len(ring)] \in Nat
    <3>1. PICK last \in Nat : last = ring[Len(ring)]
      BY <2>1, RingRange, Zenon
    <3>2. 2 * stream <= 2 * last /\ stream \in Nat
      BY <1>5, <2>1, <3>1, Zenon DEF AcceptDuplicate, SourceInv, End, TypeOK
    <3>3. stream <= last
      BY <3>2
    <3>. QED
      BY <3>1, <3>3, Zenon
  <2>3. UNCHANGED <<log, source, start, ring, received, floor, lastEvicted>> /\ stream' = stream + 1
        /\ stream <= Len(log) /\ source = "streaming"
    BY <1>5, Zenon DEF AcceptDuplicate, hubVars, ringVars
  <2>. QED
    BY <2>1, <2>2, <2>3 DEF SourceInv, End, TypeOK
<1>6. CASE Accept
  <2>1. /\ Len(ring') \in Nat \ {0} /\ ring' # <<>>
        /\ ring'[Len(ring')] = stream
        /\ \A i \in 1..Len(ring') : ring'[i] = ring'[1] + i - 1
        /\ stream \in 1..Len(log)
    BY <1>6, AcceptRing, Zenon
  <2>2. ring'[1] \in Nat
    BY <2>1 DEF TypeOK
  <2>3. UNCHANGED <<log, source, start>> /\ stream' = stream + 1 /\ received' = End(stream)
        /\ source = "streaming"
    BY <1>6, Zenon DEF Accept
  <2>4. lastEvicted' = EvictedAfter(stream) /\ floor' = IF floor = NoCursor THEN NoCursor ELSE FloorAfter(stream)
    BY <1>6, Zenon DEF Accept
  <2>5. start \in Nat /\ start <= stream /\ 1 <= start
    BY <2>3, Zenon DEF SourceInv, TypeOK
  <2>6. start <= ring'[1] /\ (ring'[1] = start \/ End(ring'[1] - 1) <= lastEvicted')
    <3>1. CASE ring = <<>>
      BY <1>6, <2>5, <3>1, AcceptRing, Zenon
    <3>2. CASE ring # <<>> /\ Overfull
      <4>1. ring'[1] = ring[1] + 1 /\ Oldest = ring[1] /\ ring[1] \in Nat /\ start <= ring[1]
        BY <1>6, <3>2, AcceptRing, RingRange, Zenon DEF SourceInv
      <4>2. End(Oldest) <= EvictedAfter(stream)
        <5>1. End(Oldest) \in Int /\ End(stream) \in Int
          BY <4>1 DEF End, TypeOK
        <5>2. EvictedAfter(stream) \in {End(Oldest), MaxCursor(End(stream), End(Oldest))}
          BY <3>2, Zenon DEF EvictedAfter
        <5>. QED
          BY <5>1, <5>2 DEF MaxCursor, Later
      <4>. QED
        BY <2>4, <2>5, <4>1, <4>2 DEF End
    <3>3. CASE ring # <<>> /\ ~Overfull
      <4>1. ring'[1] = ring[1] /\ ring[1] \in Nat /\ start <= ring[1]
            /\ (ring[1] = start \/ End(ring[1] - 1) <= lastEvicted)
        BY <1>6, <3>3, AcceptRing, RingRange, Zenon DEF SourceInv
      <4>2. lastEvicted \in Int /\ End(stream) \in Int
        BY DEF End, TypeOK, Cursors, NoCursor
      <4>3. lastEvicted <= EvictedAfter(stream) /\ EvictedAfter(stream) \in Int
        <5>1. EvictedAfter(stream) \in {lastEvicted, MaxCursor(End(stream), lastEvicted)}
          BY <3>3, Zenon DEF EvictedAfter
        <5>. QED
          BY <4>2, <5>1 DEF MaxCursor, Later
      <4>4. PICK first \in Nat : first = ring[1]
        BY <4>1, Zenon
      <4>5. start <= first /\ (first = start \/ 2 * (first - 1) <= lastEvicted')
        <5>1. start <= first /\ (first = start \/ 2 * (first - 1) <= lastEvicted)
          BY <4>1, <4>4, Zenon DEF End
        <5>. QED
          BY <2>4, <4>2, <4>3, <5>1
      <4>. QED
        BY <4>1, <4>4, <4>5, Zenon DEF End
    <3>. QED
      BY <3>1, <3>2, <3>3, Zenon
  <2>7. floor' # NoCursor => 2 * (start - 1) <= floor'
    <3>1. floor # NoCursor => floor <= FloorAfter(stream)
      <4>1. Oldest \in Nat
        <5>1. stream \in Nat /\ ring \in Seq(Nat)
          BY Zenon DEF TypeOK
        <5>2. Append(ring, stream) \in Seq(Nat) /\ Append(ring, stream) # <<>>
          BY <5>1, AppendNat, Zenon
        <5>. QED
          BY <5>2 DEF Oldest
      <4>2. End(Oldest) \in Int /\ End(stream) \in Int /\ floor \in Int
        BY <4>1 DEF End, TypeOK, Cursors, NoCursor
      <4>3. FloorAfter(stream) \in
               {floor, MaxCursor(End(Oldest), floor), MaxCursor(End(stream), floor),
                MaxCursor(End(stream), MaxCursor(End(Oldest), floor))}
        BY Zenon DEF FloorAfter
      <4>. QED
        BY <4>2, <4>3 DEF MaxCursor, Later
    <3>. QED
      BY <2>4, <2>5, <3>1 DEF SourceInv, TypeOK, Cursors, NoCursor
  <2>. QED
    BY <2>1, <2>2, <2>3, <2>5, <2>6, <2>7 DEF SourceInv, TypeOK
<1>7. ASSUME NEW c \in Clients, BootstrapSnapshot(c) PROVE SourceInv'
  <2>1. source = "none" /\ source' = "bootstrap" /\ start' = Len(log) + 1 /\ stream' = Len(log) + 1
        /\ UNCHANGED <<log, ring, received, floor, lastEvicted>>
    BY <1>7, Zenon DEF BootstrapSnapshot, hubVars, ringVars
  <2>. QED
    BY <2>1, EmptyIsSeq DEF SourceInv, TypeOK
<1>8. ASSUME NEW c \in Clients, BootstrapDone(c) PROVE SourceInv'
  <2>1. source = "bootstrap" /\ source' = "streaming"
        /\ UNCHANGED <<log, start, stream, ring, received, floor, lastEvicted>>
    BY <1>8, Zenon DEF BootstrapDone, hubVars, ringVars, PhaseInv
  <2>. QED
    BY <2>1, Zenon DEF SourceInv, TypeOK
<1>9. ASSUME NEW c \in Clients, RecordSnapshot(c) PROVE SourceInv'
  <2>1. source = "streaming" /\ 2 * (start - 1) <= base[c]
    BY <1>9, Zenon DEF RecordSnapshot, PhaseInv, Rows
  <2>2. UNCHANGED <<log, source, start, stream, ring, received, lastEvicted>>
    BY <1>9, Zenon DEF RecordSnapshot, srcVars, ringVars
  <2>3. floor # NoCursor => floor' = floor
    BY <1>9, Zenon DEF RecordSnapshot
  <2>4. floor = NoCursor => base[c] <= floor'
    BY <1>9 DEF RecordSnapshot, MaxCursor, Later, TypeOK, Cursors, NoCursor
  <2>5. floor' # NoCursor => 2 * (start - 1) <= floor'
    <3>1. base[c] \in Int /\ floor' \in Int /\ start \in Int
      BY DEF TypeOK, Cursors, NoCursor
    <3>2. floor # NoCursor => 2 * (start - 1) <= floor
      BY Zenon DEF SourceInv
    <3>. QED
      BY <2>1, <2>3, <2>4, <3>1, <3>2
  <2>. QED
    <3>1. floor' # NoCursor => 2 * (start' - 1) <= floor'
      BY <2>2, <2>5, Zenon
    <3>. QED
      BY <2>1, <2>2, <3>1, Zenon DEF SourceInv, End
<1>10. ASSUME NEW c \in Clients, Ending(c) PROVE SourceInv'
  <2>1. UNCHANGED <<log, ring, received, floor, lastEvicted>>
    BY <1>10, Zenon DEF Ending, Leave, hubVars, ringVars
  <2>2. CASE pc[c] = "bootstrap"
    <3>1. source = "bootstrap" /\ source' = "none" /\ start' = 0 /\ stream' = 0
      BY <1>10, <2>2, Zenon DEF Ending, Leave, PhaseInv
    <3>. QED
      BY <2>1, <3>1, EmptyIsSeq, Zenon DEF SourceInv
  <2>3. CASE pc[c] # "bootstrap"
    <3>1. UNCHANGED <<source, start, stream>>
      BY <1>10, <2>3, Zenon DEF Ending, Leave
    <3>. QED
      BY <2>1, <3>1, Zenon DEF SourceInv, End
  <2>. QED
    BY <2>2, <2>3, Zenon
<1>11. ASSUME NEW c \in Clients, QuietStep(c) PROVE SourceInv'
  BY <1>11, QuietFrame, SourceFrame, Zenon
<1>12. CASE UNCHANGED vars
  BY <1>12, SourceFrame, Zenon DEF vars, srcVars, hubVars, ringVars, QuietVars
<1>. QED
  BY <1>1, <1>2, <1>3, <1>4, <1>5, <1>6, <1>7, <1>8, <1>9, <1>10, <1>11, <1>12, NextCases, Zenon

--------------------------------------------------------------------------------
\* What Accept adds to the ring and takes from it, and what the stream leaves behind.
LEMMA AcceptRange ==
    ASSUME TypeOK, TypeOK', SourceInv, Accept
    PROVE  /\ \A n \in Int :
                 n \in Range(ring') <=> (n \in Range(ring) \/ n = stream) /\ (Overfull => n # Oldest)
           /\ \A n \in Int : n >= 1 => (Passed(n)' <=> Passed(n) \/ n = stream)
           /\ Oldest \in Nat
           /\ ~(\E n \in Range(ring) : n = stream)
<1>1. /\ ring' \in Seq(Nat) /\ Len(ring') \in Nat \ {0} /\ ring' # <<>>
      /\ ring'[Len(ring')] = stream
      /\ \A i \in 1..Len(ring') : ring'[i] = ring'[1] + i - 1
      /\ stream \in 1..Len(log) /\ stream \in Nat /\ start \in Nat
  BY AcceptRing, Zenon DEF TypeOK
<1>2. ring'[1] \in Nat /\ \A n \in Int : n \in Range(ring') <=> ring'[1] <= n /\ n <= stream
  BY <1>1, RunRange, Zenon
<1>3. start' = start /\ received' = 2 * stream
  BY Zenon DEF Accept, End
<1>4. CASE ring = <<>>
  <2>1. stream = start /\ ring'[1] = stream /\ ~Overfull /\ received = -1
    BY <1>4, AcceptRing, Zenon DEF SourceInv, NoCursor
  <2>2. Range(ring) = {}
    BY <1>4, EmptyIsSeq DEF Range
  <2>3. Oldest \in Nat
    <3>1. stream \in Nat /\ ring \in Seq(Nat)
      BY Zenon DEF TypeOK
    <3>2. Append(ring, stream) \in Seq(Nat) /\ Append(ring, stream) # <<>>
      BY <3>1, AppendNat, Zenon
    <3>. QED
      BY <3>2 DEF Oldest
  <2>. QED
    BY <1>1, <1>2, <1>3, <2>1, <2>2, <2>3 DEF Passed, End
<1>5. CASE ring # <<>>
  <2>1. PICK first \in Nat, last \in Nat : first = ring[1] /\ last = ring[Len(ring)]
    BY <1>5, RingRange, Zenon
  <2>2. first <= last
    BY <1>5, <2>1, RingRange
  <2>3. \A n \in Int : n \in Range(ring) <=> first <= n /\ n <= last
    BY <1>5, <2>1, RingRange, Zenon
  <2>4. stream = last + 1 /\ Oldest = first /\ received = 2 * last
    BY <1>5, <2>1, AcceptRing, Zenon DEF SourceInv, End
  <2>5. PICK first1 \in Nat : first1 = ring'[1]
    BY <1>2, Zenon
  <2>6. first1 = IF Overfull THEN first + 1 ELSE first
    BY <1>5, <2>1, <2>5, AcceptRing, Zenon
  <2>7. \A n \in Int : n \in Range(ring') <=> first1 <= n /\ n <= last + 1
    BY <1>2, <2>4, <2>5, Zenon
  <2>8. \A n \in Int :
           n \in Range(ring') <=> (n \in Range(ring) \/ n = stream) /\ (Overfull => n # Oldest)
    <3>1. CASE Overfull
      BY <2>2, <2>3, <2>4, <2>6, <2>7, <3>1
    <3>2. CASE ~Overfull
      BY <2>2, <2>3, <2>4, <2>6, <2>7, <3>2
    <3>. QED
      BY <3>1, <3>2, Zenon
  <2>9. \A n \in Int : n >= 1 => (Passed(n)' <=> Passed(n) \/ n = stream)
    <3>1. \A n \in Int : Passed(n)' <=> n < start \/ 2 * n <= 2 * (last + 1)
      BY <1>3, <2>4, Zenon DEF Passed, End
    <3>2. \A n \in Int : Passed(n) <=> n < start \/ 2 * n <= 2 * last
      BY <2>4, Zenon DEF Passed, End
    <3>3. \A n \in Int : 2 * n <= 2 * (last + 1) <=> 2 * n <= 2 * last \/ n = last + 1
      OBVIOUS
    <3>. QED
      BY <2>4, <3>1, <3>2, <3>3, Zenon
  <2>. QED
    BY <2>3, <2>4, <2>8, <2>9
<1>. QED
  BY <1>4, <1>5, Zenon

\* The replay window reaches back to the floor.
LEMMA ReplayNext ==
    ASSUME Inv, TypeOK', SourceInv', [Next]_vars
    PROVE  ReplayWindow'
<1>. TypeOK /\ SourceInv /\ ReplayWindow /\ \A c \in Clients : PhaseInv(c)
  BY Zenon DEF Inv, ClientInv
<1>. DEFINE Kept == \A n \in 1..Len(log) : floor < End(n) /\ End(n) <= received => n \in Range(ring)
<1>1. (\A i \in 1..(Len(ring) - 1) : ring[i + 1] = ring[i] + 1)'
  <2>1. ring' \in Seq(Nat) /\ Len(ring') \in Nat /\ \A i \in 1..Len(ring') : ring'[i] = ring'[1] + i - 1
    BY DEF SourceInv, TypeOK
  <2>2. ASSUME NEW i \in 1..(Len(ring') - 1) PROVE ring'[i + 1] = ring'[i] + 1
    <3>1. i \in 1..Len(ring') /\ i + 1 \in 1..Len(ring') /\ 1 \in 1..Len(ring') /\ i \in Nat
      BY <2>1
    <3>2. ring'[i] = ring'[1] + i - 1 /\ ring'[i + 1] = ring'[1] + (i + 1) - 1 /\ ring'[1] \in Nat
      <4>1. ring'[i] = ring'[1] + i - 1 /\ ring'[i + 1] = ring'[1] + (i + 1) - 1
        BY <2>1, <3>1, Zenon
      <4>2. ring'[1] \in Nat
        BY <2>1, <3>1
      <4>. QED
        BY <4>1, <4>2, Zenon
    <3>. QED
      BY <3>1, <3>2
  <2>. QED
    BY <2>2, Zenon
<1>2. SUFFICES ASSUME floor' # NoCursor PROVE Kept'
  BY <1>1, Zenon DEF ReplayWindow
<1>3. floor # NoCursor => Kept
  BY Zenon DEF ReplayWindow
<1>4. CASE UNCHANGED <<log, received, ring, floor>>
  BY <1>2, <1>3, <1>4, Zenon DEF End
<1>5. CASE Commit
  <2>1. UNCHANGED <<received, ring, floor>> /\ Len(log') = Len(log) + 1 /\ Len(log) \in Nat
    BY <1>5 DEF Commit, hubVars, ringVars, TypeOK
  <2>2. received < 2 * (Len(log) + 1)
    <3>1. CASE ring = <<>>
      BY <3>1, <2>1 DEF SourceInv, NoCursor
    <3>2. CASE ring # <<>>
      BY <3>2, <2>1, RingRange DEF SourceInv, End
    <3>. QED
      BY <3>1, <3>2, Zenon
  <2>. QED
    BY <1>2, <1>3, <2>1, <2>2 DEF End, TypeOK, Cursors, NoCursor
<1>6. CASE Restart
  BY <1>2, <1>6, Zenon DEF Restart
<1>7. CASE Accept
  <2>1. floor # NoCursor /\ log' = log /\ received' = End(stream) /\ floor' = FloorAfter(stream)
    BY <1>2, <1>7, Zenon DEF Accept
  <2>2. Oldest \in Nat /\ stream \in Nat /\ floor \in Nat
    BY <1>7, <2>1, AcceptRange, Zenon DEF TypeOK, Cursors
  <2>3. floor <= floor' /\ (Overfull => End(Oldest) <= floor')
    BY <2>1, <2>2 DEF FloorAfter, MaxCursor, Later, End
  <2>4. ASSUME NEW n \in 1..Len(log), floor' < End(n), End(n) <= End(stream)
        PROVE  n \in Range(ring')
    <3>1. n \in Int /\ n >= 1 /\ floor < End(n) /\ (Overfull => n # Oldest) /\ n <= stream
      BY <2>2, <2>3, <2>4 DEF End, TypeOK, Cursors, NoCursor
    <3>2. n \in Range(ring) \/ n = stream
      <4>1. Passed(n)'
        BY <2>1, <2>4, Zenon DEF Passed
      <4>2. Passed(n) \/ n = stream
        BY <1>7, <3>1, <4>1, AcceptRange, Zenon
      <4>3. ~(n < start)
        <5>1. 2 * (start - 1) <= floor
          BY <2>1, Zenon DEF SourceInv
        <5>. QED
          BY <2>2, <3>1, <5>1 DEF End, TypeOK
      <4>. QED
        BY <1>3, <2>1, <3>1, <4>2, <4>3, Zenon DEF Passed
    <3>. QED
      BY <1>7, <3>1, <3>2, AcceptRange, Zenon
  <2>. QED
    BY <2>1, <2>4, Zenon
<1>8. ASSUME NEW c \in Clients, RecordSnapshot(c) PROVE Kept'
  <2>1. UNCHANGED <<log, received, ring, start, lastEvicted>>
    BY <1>8, Zenon DEF RecordSnapshot, srcVars, ringVars
  <2>2. CASE floor # NoCursor
    BY <1>4, <1>8, <2>1, <2>2, Zenon DEF RecordSnapshot
  <2>3. CASE floor = NoCursor
    <3>1. lastEvicted <= floor' /\ floor' \in Int /\ 2 * (start - 1) <= floor' /\ start \in Nat
      <4>1. 2 * (start - 1) <= base[c] /\ start \in Nat /\ lastEvicted \in Int /\ base[c] \in Int
        <5>1. pc[c] \in Rows \cup {"reading"}
          BY <1>8, Zenon DEF RecordSnapshot, Rows
        <5>2. 2 * (start - 1) <= base[c]
          BY <1>8, <5>1, Zenon DEF PhaseInv
        <5>. QED
          BY <1>8, <5>2 DEF TypeOK, Cursors, NoCursor
      <4>2. floor' = MaxCursor(lastEvicted, base[c])
        BY <1>8, <2>3, Zenon DEF RecordSnapshot
      <4>. QED
        BY <4>1, <4>2 DEF MaxCursor, Later
    <3>2. ASSUME NEW n \in 1..Len(log), floor' < End(n), End(n) <= received PROVE n \in Range(ring)
      <4>1. ring # <<>>
        BY <3>2 DEF SourceInv, End, NoCursor
      <4>2. received = 2 * ring[Len(ring)] /\ (ring[1] = start \/ 2 * (ring[1] - 1) <= lastEvicted)
        BY <4>1, Zenon DEF SourceInv, End
      <4>3. ring[1] \in Nat /\ ring[Len(ring)] \in Nat
        BY <4>1, RingRange, Zenon
      <4>4. ring[1] <= n /\ n <= ring[Len(ring)]
        <5>1. n \in Nat /\ lastEvicted \in Int /\ floor' < 2 * n /\ 2 * n <= received
          BY <3>2 DEF End, TypeOK, Cursors, NoCursor
        <5>2. PICK first \in Nat, last \in Nat : first = ring[1] /\ last = ring[Len(ring)]
          BY <4>3, Zenon
        <5>3. received = 2 * last /\ (first = start \/ 2 * (first - 1) <= lastEvicted)
          BY <4>2, <5>2, Zenon
        <5>4. first <= n /\ n <= last
          BY <3>1, <5>1, <5>3
        <5>. QED
          BY <5>2, <5>4, Zenon
      <4>. QED
        BY <4>1, <4>4, RingRange
    <3>. QED
      BY <2>1, <3>2, Zenon DEF End
  <2>. QED
    BY <2>2, <2>3, Zenon
<1>9. CASE BecomeVisible \/ Reconnect \/ AcceptDuplicate \/ CloseTick \/ Stop
  BY <1>4, <1>9, Zenon DEF BecomeVisible, Reconnect, AcceptDuplicate, CloseTick, Stop, hubVars, ringVars, srcVars
<1>10. ASSUME NEW c \in Clients, BootstrapSnapshot(c) \/ BootstrapDone(c) \/ Ending(c) PROVE Kept'
  BY <1>4, <1>10, Zenon DEF BootstrapSnapshot, BootstrapDone, Ending, Leave, hubVars, ringVars
<1>11. ASSUME NEW c \in Clients, QuietStep(c) PROVE Kept'
  BY <1>4, <1>11, QuietFrame, Zenon DEF QuietVars
<1>12. CASE UNCHANGED vars
  BY <1>4, <1>12, Zenon DEF vars, srcVars, hubVars, ringVars
<1>. QED
  BY <1>5, <1>6, <1>7, <1>8, <1>9, <1>10, <1>11, <1>12, NextCases, Zenon

\* No transaction committed later has been streamed.
LEMMA NotYetPassed ==
    ASSUME TypeOK, SourceInv
    PROVE  /\ received <= 2 * Len(log) /\ received \in Int /\ Len(log) \in Nat
           /\ ~Passed(Len(log) + 1)
           /\ source = "none" \/ ring = <<>> => received = NoCursor
<1>1. Len(log) \in Nat /\ received \in Int /\ start \in Nat
  BY DEF TypeOK, Cursors, NoCursor
<1>2. received <= 2 * Len(log)
  <2>1. CASE ring = <<>>
    BY <1>1, <2>1 DEF SourceInv, NoCursor
  <2>2. CASE ring # <<>>
    <3>1. PICK last \in Nat : last = ring[Len(ring)]
      BY <2>2, RingRange, Zenon
    <3>2. received = 2 * last /\ last <= Len(log)
      BY <2>2, <3>1, Zenon DEF SourceInv, End
    <3>. QED
      BY <1>1, <3>2
  <2>. QED
    BY <2>1, <2>2, Zenon
<1>3. start <= Len(log) + 1
  BY <1>1 DEF SourceInv, TypeOK
<1>4. ~Passed(Len(log) + 1)
  BY <1>1, <1>2, <1>3 DEF Passed, End
<1>5. source = "none" \/ ring = <<>> => received = NoCursor
  BY Zenon DEF SourceInv
<1>. QED
  BY <1>1, <1>2, <1>4, <1>5, Zenon

\* A snapshot misses only what the ring holds.
LEMMA VisibilityNext ==
    ASSUME Inv, TypeOK', VisibilityLag # "any", [Next]_vars
    PROVE  VisibilityInv'
<1>. TypeOK /\ SourceInv /\ VisibilityInv /\ \A c \in Clients : PhaseInv(c)
  BY Zenon DEF Inv, ClientInv
<1>. DEFINE Missed(n) == n \notin Range(ring) \/ log[n].incompatible # {}
<1>1. ASSUME NEW n \in 1..Len(log), Settled(n) PROVE n \in visible
  BY <1>1, LagAssumption, Zenon DEF Settled, VisibilityInv
<1>2. CASE UNCHANGED <<log, received, ring, start>> /\ visible \subseteq visible'
  BY <1>2, Zenon DEF VisibilityInv, Passed, End, TypeOK
<1>3. CASE Commit
  <2>1. PICK t \in TxKinds : log' = Append(log, t)
    BY <1>3, Zenon DEF Commit
  <2>2. UNCHANGED <<received, ring, start>> /\ visible \subseteq visible'
        /\ (VisibilityLag = "none" => visible' = visible \cup {Len(log) + 1})
    BY <1>3, Zenon DEF Commit, hubVars, ringVars
  <2>3. Len(log) \in Nat /\ Len(log') = Len(log) + 1 /\ \A n \in 1..Len(log) : log'[n] = log[n]
    <3>1. log \in Seq(TxKinds)
      BY Zenon DEF TypeOK
    <3>. QED
      BY <2>1, <3>1
  <2>6. (1..Len(log)) \cup {Len(log) + 1} = 1..Len(log')
    BY <2>3
  <2>4. VisibilityLag = "none" => visible' = 1..Len(log')
    BY <2>2, <2>6, Zenon DEF VisibilityInv
  <2>5. ASSUME NEW n \in 1..Len(log'), Passed(n)', Missed(n)' PROVE n \in visible'
    <3>1. Passed(n)
      BY <2>2, <2>5, Zenon DEF Passed, End
    <3>2. n # Len(log) + 1
      BY <3>1, NotYetPassed, Zenon
    <3>3. n \in 1..Len(log)
      BY <2>3, <3>2
    <3>. QED
      BY <2>2, <2>3, <2>5, <3>1, <3>3, Zenon DEF VisibilityInv
  <2>. QED
    BY <2>4, <2>5, Zenon DEF VisibilityInv
<1>4. CASE BecomeVisible
  BY <1>2, <1>4, Zenon DEF BecomeVisible, hubVars, ringVars
<1>5. CASE Restart
  <2>1. PICK k \in start..stream : (\A m \in 1..(k - 1) : Settled(m)) /\ start' = k
    BY <1>5, Zenon DEF Restart
  <2>2. UNCHANGED <<log, visible>> /\ received' = NoCursor
    BY <1>5, Zenon DEF Restart
  <2>3. ASSUME NEW n \in 1..Len(log'), Passed(n)' PROVE n \in visible'
    <3>1. n \in 1..(k - 1)
      BY <2>1, <2>2, <2>3 DEF Passed, End, NoCursor, TypeOK
    <3>. QED
      BY <1>1, <2>1, <2>2, <3>1, Zenon
  <2>. QED
    BY <2>2, <2>3, Zenon DEF VisibilityInv
<1>6. CASE Accept
  <2>1. UNCHANGED <<log, visible>> /\ (Overfull => Settled(Oldest))
        /\ (log[stream].incompatible # {} => Settled(stream))
    BY <1>6, Zenon DEF Accept
  <2>2. ASSUME NEW n \in 1..Len(log), Passed(n)', Missed(n)' PROVE n \in visible
    <3>1. n \in Int /\ n >= 1 /\ (Passed(n) \/ n = stream)
      BY <1>6, <2>2, AcceptRange
    <3>2. CASE n = stream
      <4>1. n \in Range(ring') \/ (Overfull /\ n = Oldest)
        BY <1>6, <3>1, <3>2, AcceptRange, Zenon
      <4>. QED
        BY <1>1, <2>1, <2>2, <3>2, <4>1, Zenon
    <3>3. CASE n # stream /\ Overfull /\ n = Oldest
      BY <1>1, <2>1, <3>3, Zenon
    <3>4. CASE n # stream /\ ~(Overfull /\ n = Oldest)
      <4>1. n \in Range(ring') <=> n \in Range(ring)
        BY <1>6, <3>1, <3>4, AcceptRange, Zenon
      <4>. QED
        BY <2>1, <2>2, <3>1, <3>4, <4>1, Zenon DEF VisibilityInv
    <3>. QED
      BY <3>2, <3>3, <3>4, Zenon
  <2>. QED
    BY <2>1, <2>2, Zenon DEF VisibilityInv
<1>7. CASE Reconnect \/ AcceptDuplicate \/ CloseTick \/ Stop
  BY <1>2, <1>7, Zenon DEF Reconnect, AcceptDuplicate, CloseTick, Stop, srcVars, hubVars, ringVars
<1>8. ASSUME NEW c \in Clients, BootstrapSnapshot(c) PROVE VisibilityInv'
  <2>1. UNCHANGED <<log, visible>> /\ \A n \in 1..Len(log) : Settled(n)
    BY <1>8, Zenon DEF BootstrapSnapshot
  <2>. QED
    BY <1>1, <2>1, Zenon DEF VisibilityInv
<1>9. ASSUME NEW c \in Clients, BootstrapDone(c) \/ RecordSnapshot(c) PROVE VisibilityInv'
  BY <1>2, <1>9, Zenon DEF BootstrapDone, RecordSnapshot, srcVars, hubVars, ringVars
<1>10. ASSUME NEW c \in Clients, Ending(c) PROVE VisibilityInv'
  <2>1. UNCHANGED <<log, visible, received, ring>>
    BY <1>10, Zenon DEF Ending, Leave, hubVars, ringVars
  <2>2. CASE pc[c] = "bootstrap"
    <3>1. start' = 0 /\ received = NoCursor
      BY <1>10, <2>2, Zenon DEF Ending, Leave, PhaseInv, SourceInv
    <3>2. \A n \in 1..Len(log) : ~Passed(n)'
      BY <2>1, <3>1 DEF Passed, End, NoCursor
    <3>. QED
      BY <2>1, <3>2, Zenon DEF VisibilityInv
  <2>3. CASE pc[c] # "bootstrap"
    BY <1>2, <1>10, <2>1, <2>3, Zenon DEF Ending, Leave
  <2>. QED
    BY <2>2, <2>3, Zenon
<1>11. ASSUME NEW c \in Clients, QuietStep(c) PROVE VisibilityInv'
  BY <1>2, <1>11, QuietFrame, Zenon DEF QuietVars
<1>12. CASE UNCHANGED vars
  BY <1>2, <1>12, Zenon DEF vars, srcVars, hubVars, ringVars
<1>. QED
  BY <1>3, <1>4, <1>5, <1>6, <1>7, <1>8, <1>9, <1>10, <1>11, <1>12, NextCases, Zenon

-----------------------------------------------------------------------------
(* Types.                                                                     *)
USE ClientsAssumption, TxKindsAssumption, BoundsAssumption, LagAssumption

\* New's hub has the types.
LEMMA TypeInit == Init => TypeOK
<1> SUFFICES ASSUME Init PROVE TypeOK
  BY Zenon
<1>1. queue \in [Clients -> Seq(Nat)] /\ ring \in Seq(Nat) /\ log \in Seq(TxKinds)
  BY EmptyIsSeq, Zenon DEF Init
<1>. QED
  BY <1>1, EmptyIsSeq, Zenon DEF Init, TypeOK, Cursors, NoCursor, PCs, Ticks, Reasons, Resyncs

\* Every step keeps the types, given what SourceInv says of the stream.
LEMMA TypeNext == TypeOK /\ SourceInv /\ [Next]_vars => TypeOK'
<1> SUFFICES ASSUME TypeOK, SourceInv, [Next]_vars PROVE TypeOK'
  BY Zenon
<1> USE DEF TypeOK, Cursors, NoCursor
<1>1. CASE Commit
  <2>1. PICK t \in TxKinds : log' = Append(log, t)
    BY <1>1, Zenon DEF Commit
  <2>2. log' \in Seq(TxKinds) /\ Len(log') = Len(log) + 1
    BY <2>1
  <2>3. visible' \subseteq 1..Len(log')
    <3>1. Len(log) \in Nat /\ Len(log') = Len(log) + 1
      BY <2>2
    <3>2. 1..Len(log) \subseteq 1..Len(log') /\ Len(log) + 1 \in 1..Len(log')
      BY <3>1
    <3>3. visible' \subseteq visible \cup {Len(log) + 1}
      BY <1>1, Zenon DEF Commit
    <3>. QED
      BY <3>2, <3>3, Zenon
  <2>. QED
    BY <1>1, <2>2, <2>3, Zenon
       DEF Commit, hubVars, ringVars, watchVars, mailVars, snapVars, liveVars, storeVars
<1>2. CASE BecomeVisible
  BY <1>2, Zenon DEF BecomeVisible, hubVars, ringVars, watchVars, mailVars, snapVars, liveVars, storeVars
<1>3. CASE Reconnect
  BY <1>3 DEF Reconnect, hubVars, ringVars, watchVars, mailVars, snapVars, liveVars, storeVars
<1>4. CASE Restart
  <2>1. queue' \in [Clients -> Seq(Nat)] /\ ring' \in Seq(Nat)
    BY <1>4, EmptyIsSeq, Zenon DEF Restart
  <2>2. start' \in Nat /\ stream' \in Nat
    BY <1>4 DEF Restart
  <2>3. log' = log /\ visible' = visible /\ restarts' \in Nat
        /\ source' \in {"none", "bootstrap", "streaming"} /\ UNCHANGED <<have, saved, tainted>>
    BY <1>4 DEF Restart, storeVars
  <2>4. received' \in Cursors /\ floor' \in Cursors /\ lastEvicted' \in Cursors
        /\ stale' \subseteq Tables /\ tickTaken' \in BOOLEAN /\ closing' \in BOOLEAN
        /\ stopped' \in BOOLEAN
    BY <1>4, Zenon DEF Restart
  <2>5. pc' \in [Clients -> PCs] /\ reason' \in [Clients -> Reasons \cup {"none"}]
        /\ tick' \in [Clients -> Ticks] /\ resync' \in [Clients -> Resyncs \cup {"none"}]
    BY <1>4, Zenon DEF Restart, PCs, Ticks, Reasons, Resyncs
  <2>6. todo' \in [Clients -> SUBSET Nat] /\ covered' \in [Clients -> SUBSET Nat]
        /\ base' \in [Clients -> Cursors] /\ baseSafe' \in [Clients -> BOOLEAN]
        /\ pos' \in [Clients -> Cursors] /\ progressed' \in [Clients -> Cursors]
        /\ shaky' \in [Clients -> BOOLEAN]
    BY <1>4, Zenon DEF Restart
  <2>. QED
    BY <2>1, <2>2, <2>3, <2>4, <2>5, <2>6, Zenon
<1>5. CASE AcceptDuplicate
  BY <1>5 DEF AcceptDuplicate, hubVars, ringVars, watchVars, mailVars, snapVars, liveVars, storeVars
<1>6. CASE Accept
  <2>1. Oldest \in Nat
    BY DEF Oldest
  <2>2. EvictedAfter(stream) \in Cursors /\ (floor # NoCursor => FloorAfter(stream) \in Cursors)
    <3>1. End(Oldest) \in Nat /\ End(stream) \in Nat
      BY <2>1 DEF End
    <3>2. \A a, b \in Cursors : MaxCursor(a, b) \in Cursors
      BY Zenon DEF MaxCursor
    <3>. QED
      BY <3>1, <3>2, Zenon DEF EvictedAfter, FloorAfter
  <2>3. log[stream].incompatible \subseteq Tables
    <3>1. stream \in 1..Len(log)
      BY <1>6, SMTT(15) DEF Accept, SourceInv
    <3>2. log[stream] \in TxKinds
      BY <3>1
    <3>. QED
      BY <3>2, Zenon
  <2>4. ring' \in Seq(Nat)
    <3>1. Append(ring, stream) \in Seq(Nat) /\ Append(ring, stream) # <<>>
      BY AppendNat, Zenon
    <3>2. Tail(Append(ring, stream)) \in Seq(Nat)
      BY <3>1, TailNat, Zenon
    <3>. QED
      BY <1>6, <3>1, <3>2, Zenon DEF Accept
  <2>5. reason' \in [Clients -> Reasons \cup {"none"}] /\ queue' \in [Clients -> Seq(Nat)]
        /\ tick' \in [Clients -> Ticks]
    <3>1. \A c \in Clients : Append(queue[c], stream) \in Seq(Nat)
      OBVIOUS
    <3>. QED
      BY <1>6, <3>1, Zenon DEF Accept, Reasons, Ticks, Replaced
  <2>6. floor' \in Cursors /\ lastEvicted' \in Cursors
    BY <1>6, <2>2, Zenon DEF Accept
  <2>7. received' \in Cursors /\ stream' \in Nat
    BY <1>6, SMTT(15) DEF Accept, End
  <2>8. stale' \subseteq Tables
    BY <1>6, <2>3, Zenon DEF Accept
  <2>9. tickTaken' \in BOOLEAN /\ closing' \in BOOLEAN
    BY <1>6, Zenon DEF Accept
  <2>. QED
    BY <1>6, <2>4, <2>5, <2>6, <2>7, <2>8, <2>9, Zenon DEF Accept, snapVars, storeVars
<1>7. CASE CloseTick
  BY <1>7, Zenon DEF CloseTick, srcVars, ringVars, mailVars, snapVars, storeVars, Ticks
<1>8. CASE Stop
  BY <1>8, Zenon DEF Stop, srcVars, ringVars, watchVars, mailVars, snapVars, liveVars, storeVars
<1>9. ASSUME NEW c \in Clients, NEW why \in Resyncs \cup {"none"}, Leave(c, why) PROVE TypeOK'
  BY <1>9, SMTT(30) DEF Leave, hubVars, ringVars, PCs, Ticks, Reasons, storeVars
<1>10. ASSUME NEW c \in Clients, Resume(c) PROVE TypeOK'
  BY <1>10, SMTT(15) DEF Resume, hubVars, ringVars, srcVars, mailVars, liveVars, PCs, Range
<1>11. ASSUME NEW c \in Clients, Report(c) PROVE TypeOK'
  BY <1>11 DEF Report, hubVars, ringVars, srcVars, mailVars, snapVars, PCs, MaxCursor, Later
<1>12. ASSUME NEW c \in Clients, Refuse(c) PROVE TypeOK'
  <2>1. PICK cursor : resync' = [resync EXCEPT ![c] = Refusal(c, cursor)]
    BY <1>12, Zenon DEF Refuse
  <2>2. Refusal(c, cursor) \in Resyncs \cup {"none"}
    BY Zenon DEF Refusal, Resyncs, Reasons
  <2>3. UNCHANGED <<srcVars, hubVars, watchVars, storeVars>>
    BY <1>12, Zenon DEF Refuse
  <2>. QED
    BY <2>1, <2>2, <2>3, Zenon DEF srcVars, hubVars, ringVars, watchVars, mailVars, snapVars, liveVars,
       storeVars
<1>13. ASSUME NEW c \in Clients, StartSnapshot(c) PROVE TypeOK'
  BY <1>13, SMTT(15) DEF StartSnapshot, srcVars, hubVars, ringVars, mailVars, snapVars, liveVars, storeVars,
     PCs, Range
<1>14. ASSUME NEW c \in Clients, BootstrapSnapshot(c) PROVE TypeOK'
  <2>1. PICK cursor \in InsertPositions : base' = [base EXCEPT ![c] = cursor]
    BY <1>14, Zenon DEF BootstrapSnapshot
  <2>2. cursor \in Nat
    BY DEF InsertPositions
  <2>. QED
    BY <1>14, <2>1, <2>2 DEF BootstrapSnapshot, hubVars, ringVars, mailVars, liveVars,
       storeVars, PCs
<1>15. ASSUME NEW c \in Clients, BootstrapDone(c) PROVE TypeOK'
  BY <1>15, Zenon DEF BootstrapDone, hubVars, ringVars, mailVars, snapVars, liveVars, storeVars, PCs
<1>16. ASSUME NEW c \in Clients, ReadCursor(c) PROVE TypeOK'
  <2>1. PICK cursor \in InsertPositions : base' = [base EXCEPT ![c] = cursor]
    BY <1>16, Zenon DEF ReadCursor
  <2>2. cursor \in Nat
    BY DEF InsertPositions
  <2>. QED
    BY <1>16, <2>1, <2>2, Zenon DEF ReadCursor, srcVars, hubVars, ringVars, mailVars, liveVars,
       storeVars, PCs
<1>17. ASSUME NEW c \in Clients, FixSnapshot(c) PROVE TypeOK'
  BY <1>17 DEF FixSnapshot, srcVars, hubVars, ringVars, mailVars, liveVars, storeVars, PCs
<1>18. ASSUME NEW c \in Clients, CheckOverflow(c) PROVE TypeOK'
  <2>1. CASE Ended(c)
    BY <1>9, <1>18, <2>1, Zenon DEF CheckOverflow, Resyncs
  <2>2. CASE ~Ended(c)
    BY <1>18, <2>2 DEF CheckOverflow, srcVars, hubVars, ringVars, mailVars, snapVars, liveVars,
       storeVars, PCs
  <2>. QED
    BY <2>1, <2>2, Zenon
<1>19. ASSUME NEW c \in Clients, ClearStale(c) PROVE TypeOK'
  BY <1>19, Zenon DEF ClearStale, srcVars, ringVars, mailVars, snapVars, liveVars, storeVars, PCs
<1>20. ASSUME NEW c \in Clients, RecordSnapshot(c) PROVE TypeOK'
  BY <1>20, Zenon DEF RecordSnapshot, srcVars, ringVars, mailVars, snapVars, liveVars, storeVars, PCs,
     MaxCursor
<1>21. ASSUME NEW c \in Clients, Install(c) PROVE TypeOK'
  BY <1>21, Zenon DEF Install, srcVars, hubVars, ringVars, mailVars, snapVars, liveVars, PCs
<1>22. ASSUME NEW c \in Clients, SendBacklog(c) PROVE TypeOK'
  <2>1. PICK n \in todo[c] : Batch(c, n) /\ todo' = [todo EXCEPT ![c] = @ \ {n}]
    BY <1>22, Zenon DEF SendBacklog
  <2>2. n \in Nat /\ End(n) \in Cursors
    BY DEF End
  <2>. QED
    BY <1>22, <2>1, <2>2 DEF SendBacklog, Batch, srcVars, hubVars, ringVars, mailVars, snapVars,
       liveVars
<1>23. ASSUME NEW c \in Clients, Position(c) PROVE TypeOK'
  <2>1. LivePosition(c) \in Cursors /\ Shaky(c) \in BOOLEAN
    BY Zenon DEF LivePosition, Shaky
  <2>. QED
    BY <1>23, <2>1, Zenon DEF Position, srcVars, ringVars, mailVars, snapVars, storeVars, PCs, Ticks
<1>24. ASSUME NEW c \in Clients, Drain(c) PROVE TypeOK'
  <2>1. Head(queue[c]) \in Nat /\ Tail(queue[c]) \in Seq(Nat)
    BY <1>24 DEF Drain
  <2>2. End(Head(queue[c])) \in Cursors /\ MaxCursor(End(Head(queue[c])), pos[c]) \in Cursors
    BY <2>1 DEF End, MaxCursor
  <2>3. have' \in [Clients -> SUBSET Nat] /\ saved' \in [Clients -> Cursors] /\ tainted' = tainted
    <3>1. CASE Need(c, Head(queue[c]))
      <4>1. Batch(c, Head(queue[c]))
        BY <1>24, <3>1, Zenon DEF Drain
      <4>. QED
        BY <2>1, <2>2, <4>1, Zenon DEF Batch
    <3>2. CASE ~Need(c, Head(queue[c]))
      BY <1>24, <3>2, Zenon DEF Drain, storeVars
    <3>. QED
      BY <3>1, <3>2, Zenon
  <2>. QED
    BY <1>24, <2>1, <2>2, <2>3, Zenon DEF Drain, srcVars, hubVars, ringVars, snapVars
<1>25. ASSUME NEW c \in Clients, Disconnect(c) \/ SnapshotFails(c) \/ SelectStopped(c)
       PROVE TypeOK'
  BY <1>9, <1>25, Zenon DEF Disconnect, SnapshotFails, SelectStopped, Resyncs
<1>26. ASSUME NEW c \in Clients, SelectOverflow(c) PROVE TypeOK'
  BY <1>9, <1>26, Zenon DEF SelectOverflow, Resyncs
<1>27. CASE UNCHANGED vars
  BY <1>27, Zenon DEF vars, srcVars, hubVars, ringVars, watchVars, mailVars, snapVars, liveVars, storeVars
<1>. QED
  BY <1>1, <1>2, <1>3, <1>4, <1>5, <1>6, <1>7, <1>8, <1>10, <1>11, <1>12, <1>13, <1>14, <1>15,
     <1>16, <1>17, <1>18, <1>19, <1>20, <1>21, <1>22, <1>23, <1>24, <1>25, <1>26, <1>27
     DEF Next, WatchStep
================================================================================
