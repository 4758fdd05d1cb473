--------------------------------- MODULE HubInv --------------------------------
(* The inductive strengthening of Hub's safety invariants.                     *)
EXTENDS Hub

Due(c, n) == Relevant(c, n) \/ Broken(c, n)

\* Transactions the stream has left behind: before the slot's start, or accepted.
Passed(n) == n < start \/ End(n) <= received

\* The source, the slot and the ring.
SourceInv ==
    /\ source = "none" => start = 0 /\ stream = 0
    /\ source # "none" => 1 <= start /\ start <= stream /\ stream <= Len(log) + 1
    /\ source # "streaming" => ring = <<>> /\ floor = NoCursor
    /\ ring = <<>> => received = NoCursor /\ stream = start
    /\ ring # <<>> =>
          /\ received = End(ring[Len(ring)])
          /\ start <= ring[1] /\ ring[Len(ring)] <= Len(log) /\ stream <= ring[Len(ring)] + 1
          /\ ring[1] = start \/ End(ring[1] - 1) <= lastEvicted
    /\ \A i \in 1..Len(ring) : ring[i] = ring[1] + i - 1
    /\ floor # NoCursor => 2 * (start - 1) <= floor

\* A commit the stream has left behind can be missed by a snapshot only while the
\* ring holds it.
VisibilityInv ==
    /\ VisibilityLag = "none" => visible = 1..Len(log)
    /\ \A n \in 1..Len(log) :
          Passed(n) /\ (n \notin Range(ring) \/ log[n].incompatible # {}) => n \in visible

Reading == {"begin", "reading"}
Rows == {"bootstrap", "read", "clear", "record", "install"}
Live == {"backlog", "drain", "select"}

\* Transaction n is accounted for in c's watch: already in the projection or the
\* snapshot being installed, or still to be sent.
Held(c, n) ==
    \/ n \in todo[c]
    \/ n \in Range(queue[c])
    \/ pc[c] \in Reading /\ n \in visible
    \/ pc[c] \in Rows /\ n \in covered[c]
    \/ pc[c] \in Live /\ n \in have[c]

\* A watch whose claims count: its starting point was a snapshot, or a sound cursor.
Sound(c) == pc[c] # "idle" /\ (baseSafe[c] => ~tainted[c])

HeldThrough(c, cursor) == \A n \in 1..Len(log) : Due(c, n) /\ End(n) <= cursor => Held(c, n)

\* Every due transaction is held up to: what the hub has passed while it queues for
\* the watcher, each transaction still to be sent, the position about to be claimed.
HeldInv(c) ==
    /\ Sound(c) /\ Registered(c) => \A n \in 1..Len(log) : Due(c, n) /\ Passed(n) => Held(c, n)
    /\ Sound(c) => \A m \in todo[c] : HeldThrough(c, End(m))
    /\ Sound(c) => \A i \in 1..Len(queue[c]) : HeldThrough(c, End(queue[c][i]))
    /\ Sound(c) /\ pc[c] = "drain" /\ ~shaky[c] => HeldThrough(c, pos[c])

\* What is to be sent is accepted and ascending, backlog before queue.
OrderInv(c) ==
    /\ \A m \in todo[c] : 1 <= m /\ End(m) <= received
    /\ \A i \in 1..Len(queue[c]) : 1 <= queue[c][i] /\ End(queue[c][i]) <= received
    /\ \A m \in todo[c], i \in 1..Len(queue[c]) : m < queue[c][i]
    /\ \A i, j \in 1..Len(queue[c]) : i < j => queue[c][i] < queue[c][j]
    /\ pc[c] \in {"drain", "select"} => todo[c] = {}

\* Where a watch stands, and the cursors it knows.
PhaseInv(c) ==
    /\ pc[c] = "idle" => reason[c] = "none" /\ todo[c] = {} /\ queue[c] = <<>> /\ ~baseSafe[c]
    /\ pc[c] = "bootstrap" => source = "bootstrap"
    /\ pc[c] \in (Rows \ {"bootstrap"}) \cup {"reading"} \cup Live => source = "streaming"
    /\ pc[c] \in Reading \cup Rows => ~baseSafe[c]
    /\ pc[c] \in Rows \cup {"reading"} => 2 * (start - 1) <= base[c]
    /\ base[c] <= 2 * Len(log) + 1 /\ pos[c] <= 2 * Len(log) + 1
    /\ saved[c] <= 2 * Len(log) + 1
    /\ covered[c] \subseteq 1..Len(log)
    /\ pc[c] \in Live /\ ~baseSafe[c] => covered[c] \subseteq have[c]
    /\ pc[c] \in Live /\ baseSafe[c] /\ ~tainted[c] => Complete(c, base[c])

\* The tick a watch holds, and what it has seen while the tick is the hub's.
TickInv(c) ==
    /\ tick[c] = "current" => tickTaken
    /\ tick[c] = "replaced" => closing
    /\ pc[c] \in {"drain", "select"} => tick[c] # "none"
    /\ Registered(c) /\ tick[c] = "current" /\ pc[c] = "drain" => received <= pos[c]
    /\ Registered(c) /\ tick[c] = "current" /\ pc[c] = "select" =>
          queue[c] = <<>> /\ received <= progressed[c]

\* NoGap for one client.
KeptInv(c) == ~tainted[c] /\ saved[c] # NoCursor => Complete(c, saved[c])

ClientInv(c) == HeldInv(c) /\ OrderInv(c) /\ PhaseInv(c) /\ TickInv(c) /\ KeptInv(c)

OneBootstrap ==
    \A c, d \in Clients : pc[c] = "bootstrap" /\ pc[d] = "bootstrap" => c = d

\* The inductive invariant: every step preserves it, unless commits may stay invisible
\* to snapshots for ever.
Inv ==
    /\ TypeOK
    /\ SourceInv
    /\ VisibilityInv
    /\ ReplayWindow
    /\ OneBootstrap
    /\ \A c \in Clients : ClientInv(c)
================================================================================
