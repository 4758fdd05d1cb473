---------------------------- MODULE AlgorithmProofs ----------------------------
(*******************************************************************************)
(* What the operators of Positions, Settings, Failures and RetentionPolicy     *)
(* return, for any arguments: a 32-bit transaction ID is widened to the        *)
(* transaction's own, a cursor survives the wire, MinCursor finds the earliest *)
(* of any number of cursors, the retention policy settles, accepted settings   *)
(* are safe, and no transient error is permanent for a client.  The theorems   *)
(* of module Algorithms follow, for any bounds: every call it makes is one     *)
(* that those lemmas speak of.                                                 *)
(*******************************************************************************)
EXTENDS Algorithms, RowProofs

(* Division and remainder.                                                      *)

\* A remainder is the only number of its range that a multiple of w leaves.
LEMMA ModUnique ==
    ASSUME NEW w \in Nat, w > 0, NEW a \in Int, NEW q \in Int, NEW r \in 0..(w - 1), a = q * w + r
    PROVE  a % w = r
<1>1. PICK p \in Int : p = a \div w
  OBVIOUS
<1>2. PICK s \in 0..(w - 1) : s = a % w
  OBVIOUS
<1>3. a = p * w + s
  BY <1>1, <1>2
<1>4. (q - p) * w = s - r
  BY <1>3
<1>5. q - p >= 1 => (q - p) * w >= w
  OBVIOUS
<1>6. q - p <= -1 => (q - p) * w <= -w
  OBVIOUS
<1>7. q - p = 0
  BY <1>4, <1>5, <1>6
<1> QED
  BY <1>2, <1>4, <1>7

\* A difference of two numbers may be taken of the first one's remainder.
LEMMA ModShift ==
    ASSUME NEW w \in Nat, w > 0, NEW x \in Int, NEW y \in Int
    PROVE  ((x % w) - y) % w = (x - y) % w
<1>1. PICK p \in Int : p = x \div w
  OBVIOUS
<1>2. PICK s \in 0..(w - 1) : s = x % w
  OBVIOUS
<1>3. x = p * w + s
  BY <1>1, <1>2
<1>4. PICK q \in Int : q = (s - y) \div w
  OBVIOUS
<1>5. PICK r \in 0..(w - 1) : r = (s - y) % w
  OBVIOUS
<1>6. s - y = q * w + r
  BY <1>4, <1>5
<1>7. x - y = (p + q) * w + r
  BY <1>3, <1>6
<1>8. (x - y) % w = r
  BY <1>7, ModUnique
<1> QED
  BY <1>2, <1>5, <1>8

\* The two's complement of a number of the signed range.
LEMMA SignedExact ==
    ASSUME NEW h \in Nat, h > 0, NEW d \in (-h)..(h - 1)
    PROVE  /\ d >= 0 => d % (2 * h) = d
           /\ d < 0 => d % (2 * h) = d + 2 * h
<1>1. d >= 0 => d = 0 * (2 * h) + d
  OBVIOUS
<1>2. d < 0 => d = (-1) * (2 * h) + (d + 2 * h)
  OBVIOUS
<1>3. ASSUME d >= 0 PROVE d % (2 * h) = d
  BY <1>1, <1>3, ModUnique
<1>4. ASSUME d < 0 PROVE d % (2 * h) = d + 2 * h
  BY <1>2, <1>4, ModUnique
<1> QED
  BY <1>3, <1>4

\* A quotient reaches f exactly when the dividend reaches f times the divisor.
LEMMA DivReach ==
    ASSUME NEW b \in Nat, b > 0, NEW x \in Int, NEW f \in Int
    PROVE  x \div b \in Int /\ (x \div b >= f <=> x >= f * b)
<1>1. PICK q \in Int : q = x \div b
  OBVIOUS
<1>2. PICK r \in 0..(b - 1) : r = x % b
  OBVIOUS
<1>3. x = q * b + r
  BY <1>1, <1>2
<1>4. q >= f => (q - f) * b >= 0
  OBVIOUS
<1>5. q < f => (f - q - 1) * b >= 0
  OBVIOUS
<1>6. q >= f <=> x >= f * b
  BY <1>3, <1>4, <1>5
<1> QED
  BY <1>1, <1>6

-----------------------------------------------------------------------------
(* Snapshot.Covers.                                                           *)

\* widen finds the 64-bit ID of any transaction within half the ID space of the
\* snapshot's xmax.
LEMMA WidenExact ==
    ASSUME NEW v, v.xmax \in Nat,
           NEW xid \in Nat, xid \in (v.xmax - Wrap \div 2)..(v.xmax + Wrap \div 2 - 1)
    PROVE  widen(v, xid % Wrap) = xid
<1> DEFINE w == Wrap
           h == Wrap \div 2
           y == v.xmax
<1>1. w \in Nat /\ w > 0 /\ w = 2 * h /\ h \in Nat /\ h > 0
  <2>1. w \in Nat /\ w > 0 /\ w = 2 * h
    BY PositionsAssumption DEF PositionsAssumption
  <2>2. h \in Int
    BY <2>1
  <2> HIDE DEF w, h
  <2> QED
    BY <2>1, <2>2
<1>2. y \in Nat /\ xid \in (y - h)..(y + h - 1)
  OBVIOUS
<1>3. Signed((xid % Wrap) - v.xmax) = xid - v.xmax
  <2>1. ((xid % w) - y) % w = (xid - y) % w
    <3>1. xid \in Int /\ y \in Int
      BY <1>2
    <3> HIDE DEF w, y, h
    <3> QED
      BY <1>1, <3>1, ModShift, Zenon
  <2>2. xid - y \in (-h)..(h - 1)
    <3> HIDE DEF w, y, h
    <3> QED
      BY <1>1, <1>2
  <2>3. /\ xid - y >= 0 => (xid - y) % w = xid - y
        /\ xid - y < 0 => (xid - y) % w = xid - y + w
    <3> HIDE DEF w, y, h
    <3> QED
      BY <1>1, <2>2, SignedExact
  <2>4. (IF ((xid % w) - y) % w < h THEN ((xid % w) - y) % w ELSE (((xid % w) - y) % w) - w) = xid - y
    <3> HIDE DEF w, y, h
    <3> QED
      BY <1>1, <1>2, <2>1, <2>2, <2>3
  <2> QED
    BY <2>4 DEF Signed
<1>4. y + (xid - y) = xid /\ ~(xid < 0)
  <2> HIDE DEF w, y, h
  <2> QED
    BY <1>2
<1> QED
  BY <1>3, <1>4, Zenon DEF widen

\* What Covers answers for a transaction within half the ID space of the snapshot,
\* for any list of transactions in progress.
THEOREM CoversExact ==
    ASSUME NEW xmin \in Nat, NEW xmax \in Nat, NEW xips \in Seq(Nat),
           NEW xid \in Nat, xid \in (xmax - Wrap \div 2)..(xmax + Wrap \div 2 - 1)
    PROVE  LET v == parseVisibility(xmin, xmax, xips)
           IN  IF v = Invalid THEN xmin > xmax \/ ~(Range(xips) \subseteq xmin..(xmax - 1))
               ELSE includes(v, xid % Wrap) <=> xid < xmax /\ xid \notin Range(xips)
<1> DEFINE bad == xmax < xmin \/ \E i \in DOMAIN xips : xips[i] < xmin \/ xips[i] >= xmax
           v == [xmin |-> xmin, xmax |-> xmax, inProgress |-> Range(xips)]
<1>1. Range(xips) = {xips[i] : i \in DOMAIN xips} /\ Range(xips) \subseteq Nat
  BY DEF Range
<1>2. v # Invalid
  BY <1>1, PositionsAssumption DEF PositionsAssumption
<1>3. CASE bad
  <2>1. parseVisibility(xmin, xmax, xips) = Invalid
    BY <1>3 DEF parseVisibility
  <2>2. ASSUME NEW i \in DOMAIN xips, xips[i] < xmin \/ xips[i] >= xmax
        PROVE  xips[i] \in Range(xips) /\ xips[i] \notin xmin..(xmax - 1)
    <3>1. xips[i] \in Range(xips) /\ xips[i] \in Nat
      BY <1>1
    <3> QED
      BY <2>2, <3>1
  <2>3. xmin > xmax \/ ~(Range(xips) \subseteq xmin..(xmax - 1))
    BY <1>3, <2>2
  <2> QED
    BY <2>1, <2>3
<1>4. CASE ~bad
  <2>1. parseVisibility(xmin, xmax, xips) = v
    BY <1>4 DEF parseVisibility
  <2>2. widen(v, xid % Wrap) = xid
    BY WidenExact
  <2>3. xid \in Range(xips) => ~(xid < xmin)
    BY <1>1, <1>4
  <2>4. includes(v, xid % Wrap) <=> xid < xmax /\ xid \notin Range(xips)
    BY <2>2, <2>3 DEF includes
  <2> QED
    BY <1>2, <2>1, <2>4
<1> QED
  BY <1>3, <1>4

-----------------------------------------------------------------------------
(* Cursors.                                                                   *)

\* The wire form of a cursor is read back by the server of its source, and refused by
\* every other: for any source ID server.New takes and any position.
THEOREM RoundTrip ==
    ASSUME NEW id \in Seq(Int), ValidSourceID(id), NEW serverID \in Seq(Int), NEW lsn \in Nat
    PROVE  decodeCursor(serverID, encodeCursor(id, Cursor(id, lsn))) =
             IF id = serverID THEN Cursor(id, lsn) ELSE Invalid
<1> DEFINE n == Len(id)
           text == encodeCursor(id, Cursor(id, lsn))
           First(i) == text[i] = Separator /\ \A j \in 1..(i - 1) : text[j] # Separator
           cut == CHOOSE i \in DOMAIN text : First(i)
<1>1. n \in Nat /\ id # << >> /\ \A j \in 1..n : id[j] # Separator
  BY DEF ValidSourceID, Range
<1>2. text = id \o << Separator, lsn >> /\ Separator \in Int
  BY DEF encodeCursor, Cursor, Separator
<1>3. /\ text \in Seq(Int) /\ Len(text) = n + 2 /\ DOMAIN text = 1..(n + 2)
      /\ text[n + 1] = Separator /\ text[n + 2] = lsn
      /\ \A j \in 1..n : text[j] = id[j]
  <2> HIDE DEF text
  <2> QED
    BY <1>1, <1>2
<1> HIDE DEF text, n
<1>4. cut = n + 1
  <2>1. n + 1 \in DOMAIN text /\ First(n + 1)
    <3>1. 1..((n + 1) - 1) = 1..n /\ n + 1 \in 1..(n + 2)
      BY <1>1
    <3> QED
      BY <1>1, <1>3, <3>1, Zenon
  <2>2. ASSUME NEW i \in DOMAIN text, First(i) PROVE i = n + 1
    <3>1. i \in 1..(n + 2)
      BY <1>3
    <3>2. i \notin 1..n
      BY <1>1, <1>3, <2>2, Zenon
    <3>3. i # n + 2
      <4>1. n + 1 \in 1..((n + 2) - 1)
        BY <1>1
      <4> QED
        BY <1>3, <2>2, <4>1, Zenon
    <3>4. n \in Nat
      BY <1>1
    <3>5. PICK k \in 1..(n + 2) : k = i
      BY <3>1
    <3>6. k = n + 1
      BY <3>2, <3>3, <3>4, <3>5
    <3> QED
      BY <3>5, <3>6
  <2> HIDE DEF First
  <2> QED
    BY <2>1, <2>2, Zenon
<1>5. Separator \in Range(text)
  <2>1. n + 1 \in 1..(n + 2)
    BY <1>1
  <2> QED
    BY <1>3, <2>1, Zenon DEF Range
<1>6. SubSeq(text, 1, cut - 1) = id
  <2>1. SubSeq(text, 1, n) \in Seq(Int) /\ Len(SubSeq(text, 1, n)) = n
        /\ \A j \in 1..n : SubSeq(text, 1, n)[j] = id[j]
    BY <1>1, <1>3
  <2>2. SubSeq(text, 1, n) = id
    BY <1>1, <2>1 DEF n
  <2> HIDE DEF cut
  <2>3. cut - 1 = n
    BY <1>1, <1>4
  <2> QED
    BY <2>2, <2>3, Zenon
<1>7. SubSeq(text, cut + 1, Len(text)) = << lsn >>
  <2> DEFINE rest == SubSeq(text, n + 2, n + 2)
  <2>1. rest \in Seq(Int) /\ Len(rest) = 1 /\ rest[1] = lsn
    BY <1>1, <1>3
  <2>2. rest = << lsn >>
    <3> HIDE DEF rest
    <3> QED
      BY <2>1
  <2> HIDE DEF cut
  <2>3. cut + 1 = n + 2
    BY <1>1, <1>4
  <2> QED
    BY <1>3, <2>2, <2>3, Zenon
<1>8. ParseCursor(id, << lsn >>) = Cursor(id, lsn)
  BY <1>1 DEF ParseCursor
<1>9. decodeCursor(serverID, text) =
         IF SubSeq(text, 1, cut - 1) # serverID THEN Invalid
         ELSE ParseCursor(serverID, SubSeq(text, cut + 1, Len(text)))
  BY <1>5, Zenon DEF decodeCursor
<1> HIDE DEF cut
<1>10. decodeCursor(serverID, text) = IF id # serverID THEN Invalid ELSE ParseCursor(serverID, << lsn >>)
  BY <1>6, <1>7, <1>9, Zenon
<1> QED
  BY <1>8, <1>10, Zenon DEF text

\* MinCursor's loop over the first n cursors.
MinLoop(f, cursors, n) ==
    [i \in 1..n |-> IF i = 1 THEN cursors[1] ELSE Earlier(f[i - 1], cursors[i])]

\* The loop is defined for any number of cursors.
LEMMA LoopDefined ==
    ASSUME NEW cursors, NEW n \in Nat
    PROVE  \E f : f = MinLoop(f, cursors, n)
<1> DEFINE Defined(m) == \E f : f = MinLoop(f, cursors, m)
           Missing == {m \in Nat : ~Defined(m)}
<1> SUFFICES ASSUME Missing # {} PROVE FALSE
  OBVIOUS
<1>1. PICK m \in Missing : \A l \in Missing : m <= l
  BY LeastNatural
<1>2. CASE m = 0
  <2>1. 1..0 = {}
    OBVIOUS
  <2> DEFINE f == [i \in 1..0 |-> cursors]
  <2>2. f = MinLoop(f, cursors, 0)
    BY <2>1, Zenon DEF MinLoop
  <2> QED
    BY <1>2, <2>2, Zenon
<1>3. CASE m # 0
  <2>1. m - 1 \in Nat /\ ~(m <= m - 1)
    BY <1>3
  <2>2. Defined(m - 1)
    BY <1>1, <2>1, Zenon
  <2>3. PICK f : f = MinLoop(f, cursors, m - 1)
    BY <2>2
  <2> DEFINE g == [i \in 1..m |-> IF i = m THEN (IF m = 1 THEN cursors[1] ELSE Earlier(f[m - 1], cursors[m])) ELSE f[i]]
  <2>4. ASSUME NEW i \in 1..m PROVE g[i] = IF i = 1 THEN cursors[1] ELSE Earlier(g[i - 1], cursors[i])
    <3>1. i # 1 => i - 1 \in 1..m /\ i - 1 # m
      OBVIOUS
    <3>2. i # 1 => g[i - 1] = f[i - 1]
      BY <3>1, Zenon
    <3>3. CASE i = m
      BY <3>2, <3>3, Zenon
    <3>4. CASE i # m
      <4>1. i \in 1..(m - 1)
        BY <3>4
      <4>2. f[i] = IF i = 1 THEN cursors[1] ELSE Earlier(f[i - 1], cursors[i])
        BY <2>3, <4>1, Zenon DEF MinLoop
      <4> QED
        BY <3>2, <3>4, <4>2, Zenon
    <3> QED
      BY <3>3, <3>4
  <2>5. g = [i \in 1..m |-> g[i]]
    OBVIOUS
  <2>6. g = MinLoop(g, cursors, m)
    <3> HIDE DEF g
    <3> QED
      BY <2>4, <2>5, Zenon DEF MinLoop
  <2> QED
    BY <2>6, Zenon
<1> QED
  BY <1>2, <1>3

\* MinCursor applies Earlier to one cursor after the other.
LEMMA LoopSteps ==
    ASSUME NEW cursors, cursors # << >>, NEW n \in Nat, n > 0, Len(cursors) = n
    PROVE  \E min : /\ min[1] = cursors[1]
                    /\ \A k \in 2..n : min[k] = Earlier(min[k - 1], cursors[k])
                    /\ MinCursor(cursors) = min[n]
<1> DEFINE min == CHOOSE f : f = MinLoop(f, cursors, n)
<1>1. min = MinLoop(min, cursors, n)
  BY LoopDefined, Zenon
<1>2. MinCursor(cursors) = min[n]
  BY Zenon DEF MinCursor, MinLoop
<1> HIDE DEF min
<1>3. 1 \in 1..n /\ \A k \in 2..n : k \in 1..n /\ k # 1
  OBVIOUS
<1>4. min[1] = cursors[1]
  BY <1>1, <1>3, Zenon DEF MinLoop
<1>5. ASSUME NEW k \in 2..n PROVE min[k] = Earlier(min[k - 1], cursors[k])
  BY <1>1, <1>3, Zenon DEF MinLoop
<1> QED
  BY <1>2, <1>4, <1>5, Zenon

\* A cursor so far and the next one: their least, if they are of one source.
LEMMA EarlierOf ==
    ASSUME NEW IDs, NEW c \in [sourceID : IDs, lsn : Nat], NEW d \in [sourceID : IDs, lsn : Nat],
           Invalid \notin [sourceID : IDs, lsn : Nat], Invalid \notin {-1, 0, 1}
    PROVE  /\ Earlier(Invalid, d) = Invalid
           /\ c.sourceID # d.sourceID => Earlier(c, d) = Invalid
           /\ c.sourceID = d.sourceID =>
                /\ Earlier(c, d) \in {c, d}
                /\ Earlier(c, d).lsn <= c.lsn /\ Earlier(c, d).lsn <= d.lsn
<1>1. Earlier(Invalid, d) = Invalid
  BY DEF Earlier
<1>2. c # Invalid
  OBVIOUS
<1>3. ASSUME c.sourceID # d.sourceID PROVE Earlier(c, d) = Invalid
  BY <1>2, <1>3, Zenon DEF Earlier, Compare
<1>4. ASSUME c.sourceID = d.sourceID
      PROVE  Earlier(c, d) = IF c.lsn > d.lsn THEN d ELSE c
  <2>1. CASE c.lsn < d.lsn
    <3>1. Compare(c, d) = -1 /\ -1 # Invalid /\ ~(-1 > 0) /\ ~(c.lsn > d.lsn)
      BY <1>4, <2>1 DEF Compare
    <3> QED
      BY <1>2, <3>1, Zenon DEF Earlier
  <2>2. CASE c.lsn > d.lsn
    <3>1. Compare(c, d) = 1 /\ 1 # Invalid /\ 1 > 0
      BY <1>4, <2>2 DEF Compare
    <3> QED
      BY <1>2, <2>2, <3>1, Zenon DEF Earlier
  <2>3. CASE c.lsn = d.lsn
    <3>1. Compare(c, d) = 0 /\ 0 # Invalid /\ ~(0 > 0) /\ ~(c.lsn > d.lsn)
      BY <1>4, <2>3 DEF Compare
    <3> QED
      BY <1>2, <3>1, Zenon DEF Earlier
  <2> QED
    BY <2>1, <2>2, <2>3
<1> QED
  BY <1>1, <1>3, <1>4

\* MinCursor of any number of cursors: the earliest of them if they are of one
\* source, and an error otherwise.
THEOREM MinCursorLeast ==
    ASSUME NEW IDs, NEW cursors \in Seq([sourceID : IDs, lsn : Nat]), cursors # << >>,
           Invalid \notin [sourceID : IDs, lsn : Nat], Invalid \notin {-1, 0, 1}
    PROVE  LET least == MinCursor(cursors)
           IN  \/ least = Invalid /\ \E i \in DOMAIN cursors : cursors[i].sourceID # cursors[1].sourceID
               \/ /\ least # Invalid /\ least \in Range(cursors)
                  /\ \A i \in DOMAIN cursors : cursors[i].sourceID = least.sourceID /\ least.lsn <= cursors[i].lsn
<1> DEFINE C == [sourceID : IDs, lsn : Nat]
           n == Len(cursors)
<1>1. n \in Nat /\ n > 0 /\ DOMAIN cursors = 1..n /\ \A i \in 1..n : cursors[i] \in C
  <2> HIDE DEF C
  <2>1. cursors \in Seq(C)
    BY DEF C
  <2> QED
    BY <2>1
<1>2. \A c, d \in C :
         /\ Earlier(Invalid, d) = Invalid
         /\ c.sourceID # d.sourceID => Earlier(c, d) = Invalid
         /\ c.sourceID = d.sourceID =>
              /\ Earlier(c, d) \in {c, d}
              /\ Earlier(c, d).lsn <= c.lsn /\ Earlier(c, d).lsn <= d.lsn
  BY EarlierOf
<1>3. \A c \in C : c.lsn \in Nat
  OBVIOUS
<1>4. Invalid \notin C
  OBVIOUS
<1>5. n = Len(cursors)
  OBVIOUS
<1> HIDE DEF n, C
<1>6. PICK min : /\ min[1] = cursors[1]
                 /\ \A k \in 2..n : min[k] = Earlier(min[k - 1], cursors[k])
                 /\ MinCursor(cursors) = min[n]
  BY <1>1, <1>5, LoopSteps, Zenon
<1> DEFINE Mixed(k) == min[k] = Invalid /\ \E i \in 1..k : cursors[i].sourceID # cursors[1].sourceID
           Least(k) == /\ min[k] \in {cursors[i] : i \in 1..k}
                       /\ \A i \in 1..k : cursors[i].sourceID = min[k].sourceID /\ min[k].lsn <= cursors[i].lsn
           Wrong == {k \in 1..n : ~(Mixed(k) \/ Least(k))}
<1>7. Wrong = {}
  <2> SUFFICES ASSUME Wrong # {} PROVE FALSE
    OBVIOUS
  <2>1. PICK k \in Wrong : \A l \in Wrong : k <= l
    <3>1. Wrong \subseteq Nat
      OBVIOUS
    <3> HIDE DEF Wrong
    <3> QED
      BY <3>1, LeastNatural, Zenon
  <2>2. k # 1
    <3>1. 1..1 = {1} /\ 1 \in 1..n
      BY <1>1
    <3>2. cursors[1].lsn \in Nat
      BY <1>1, <1>3, <3>1, Zenon
    <3>3. cursors[1].lsn <= cursors[1].lsn
      BY <3>2
    <3>4. Least(1)
      BY <1>6, <3>1, <3>3, Zenon
    <3> QED
      BY <3>4, Zenon
  <2>3. k - 1 \in 1..n /\ k \in 2..n /\ ~(k <= k - 1)
    BY <1>1, <2>2
  <2>4. Mixed(k - 1) \/ Least(k - 1)
    BY <2>1, <2>3, Zenon
  <2>5. 1..k = 1..(k - 1) \cup {k} /\ k \in 1..n /\ 1..(k - 1) \subseteq 1..n /\ 1 \in 1..(k - 1)
    <3>1. PICK l \in 2..n : l = k
      BY <2>3
    <3>2. 1..l = 1..(l - 1) \cup {l} /\ l \in 1..n /\ 1..(l - 1) \subseteq 1..n /\ 1 \in 1..(l - 1)
      BY <1>1
    <3> QED
      BY <3>1, <3>2
  <2>6. min[k] = Earlier(min[k - 1], cursors[k]) /\ cursors[k] \in C /\ cursors[1] \in C
    BY <1>1, <1>6, <2>3, <2>5, Zenon
  <2>7. CASE Mixed(k - 1)
    <3>1. min[k] = Invalid
      BY <1>2, <2>6, <2>7, Zenon
    <3> QED
      BY <2>1, <2>5, <2>7, <3>1, Zenon
  <2>8. CASE Least(k - 1)
    <3> DEFINE c == min[k - 1]
               d == cursors[k]
    <3>1. PICK i \in 1..(k - 1) : c = cursors[i]
      BY <2>8, Zenon
    <3>2. c \in C /\ \A j \in 1..(k - 1) : cursors[j].sourceID = c.sourceID /\ c.lsn <= cursors[j].lsn
      BY <1>1, <2>5, <2>8, <3>1, Zenon
    <3>3. CASE c.sourceID # d.sourceID
      <4>1. c \in C /\ d \in C
        BY <2>6, <3>2
      <4> HIDE DEF c, d
      <4>2. Earlier(c, d) = Invalid
        BY <1>2, <3>3, <4>1, Zenon
      <4>3. d.sourceID # cursors[1].sourceID
        BY <2>5, <3>2, <3>3, Zenon
      <4> QED
        BY <2>1, <2>5, <2>6, <4>2, <4>3, Zenon DEF c, d
    <3>4. CASE c.sourceID = d.sourceID
      <4>1. min[k] \in {c, d} /\ min[k].lsn <= c.lsn /\ min[k].lsn <= d.lsn
        BY <1>2, <2>6, <3>2, <3>4, Zenon
      <4>2. min[k] \in {cursors[j] : j \in 1..k}
        BY <2>5, <3>1, <4>1, Zenon
      <4>3. ASSUME NEW j \in 1..k
            PROVE  cursors[j].sourceID = min[k].sourceID /\ min[k].lsn <= cursors[j].lsn
        <5>1. CASE j = k
          BY <3>4, <4>1, <5>1, Zenon
        <5>2. CASE j \in 1..(k - 1)
          <6>1. cursors[j].sourceID = c.sourceID /\ c.lsn <= cursors[j].lsn
            BY <3>2, <5>2, Zenon
          <6>2. min[k].lsn \in Nat /\ c.lsn \in Nat /\ cursors[j].lsn \in Nat
            BY <1>1, <1>3, <2>5, <2>6, <3>2, <4>1, <5>2, Zenon
          <6> HIDE DEF c, d
          <6>3. \A x, y, z \in Nat : x <= y /\ y <= z => x <= z
            OBVIOUS
          <6>4. min[k].lsn <= cursors[j].lsn
            BY <4>1, <6>1, <6>2, <6>3, Zenon
          <6> QED
            BY <3>4, <4>1, <6>1, <6>4, Zenon
        <5> QED
          BY <2>5, <5>1, <5>2, Zenon
      <4> QED
        BY <2>1, <4>2, <4>3, Zenon
    <3> QED
      BY <3>3, <3>4, Zenon
  <2> QED
    BY <2>4, <2>7, <2>8, Zenon
<1>8. n \in 1..n
  BY <1>1
<1>9. ASSUME Mixed(n)
      PROVE  /\ MinCursor(cursors) = Invalid
             /\ \E i \in DOMAIN cursors : cursors[i].sourceID # cursors[1].sourceID
  BY <1>1, <1>6, <1>9, Zenon
<1>10. ASSUME Least(n)
       PROVE  /\ MinCursor(cursors) # Invalid /\ MinCursor(cursors) \in Range(cursors)
              /\ \A i \in DOMAIN cursors : /\ cursors[i].sourceID = MinCursor(cursors).sourceID
                                           /\ MinCursor(cursors).lsn <= cursors[i].lsn
  BY <1>1, <1>4, <1>6, <1>10, Zenon DEF Range
<1> QED
  BY <1>7, <1>8, <1>9, <1>10, Zenon

\* The sources of a sequence of cursors are not one if two of them differ, or there is none.
LEMMA SourcesCounted ==
    ASSUME NEW IDs, NEW cursors \in Seq([sourceID : IDs, lsn : Nat]),
           cursors = << >> \/ \E i \in DOMAIN cursors : cursors[i].sourceID # cursors[1].sourceID
    PROVE  Cardinality({c.sourceID : c \in Range(cursors)}) # 1
<1> DEFINE S == {c.sourceID : c \in Range(cursors)}
           f == [i \in DOMAIN cursors |-> cursors[i].sourceID]
<1>1. IsFiniteSet(DOMAIN cursors)
  <2>1. Len(cursors) \in Int /\ 1 \in Int /\ DOMAIN cursors = 1..Len(cursors)
    OBVIOUS
  <2> QED
    BY <2>1, FS_Interval, Zenon
<1>2. f \in Surjection(DOMAIN cursors, S)
  BY Zenon DEF Surjection, Range
<1>3. IsFiniteSet(S)
  BY <1>1, <1>2, FS_Surjection, Zenon
<1>4. CASE cursors = << >>
  <2>1. DOMAIN cursors = {}
    BY <1>4
  <2>2. S = {}
    BY <2>1, Zenon DEF Range
  <2>3. Cardinality(S) = 0
    BY <2>2, FS_EmptySet, Zenon
  <2> HIDE DEF S
  <2>4. Cardinality(S) # 1
    BY <2>3
  <2> QED
    BY <2>4 DEF S
<1>5. ASSUME NEW i \in DOMAIN cursors, cursors[i].sourceID # cursors[1].sourceID PROVE Cardinality(S) # 1
  <2>1. 1 \in DOMAIN cursors
    OBVIOUS
  <2>2. cursors[i].sourceID \in S /\ cursors[1].sourceID \in S
    BY <2>1, Zenon DEF Range
  <2>3. ~\E x : S = {x}
    BY <1>5, <2>2, Zenon
  <2> QED
    BY <1>3, <2>3, FS_Singleton, Zenon
<1> QED
  BY <1>4, <1>5, Zenon

-----------------------------------------------------------------------------
(* nextRetentionState.                                                        *)

\* The sample's target and the state the current one falls to, by the share of the
\* budget in whole percent.
Target(percent, warn, degrade) ==
    IF percent >= degrade THEN retentionDegrade ELSE IF percent >= warn THEN retentionWarn ELSE retentionOK

HeldAt(s, percent, current, warn, degrade) ==
    s <= current /\ (s <= Target(percent, warn, degrade) \/ percent >= Threshold(s, warn, degrade) - 5)

\* nextRetentionState before the budget is used up: the higher of the target and the
\* highest state that holds.
LEMMA NextState ==
    ASSUME NEW current \in RetentionStates, current # retentionTerminal, NEW retained \in Nat,
           NEW budget \in Nat \ {0}, NEW warn \in Nat, NEW degrade \in Nat
    PROVE  LET percent == (100 * retained) \div budget
               target == Target(percent, warn, degrade)
           IN  \E fallen \in {0, 1, 2} :
                  /\ HeldAt(fallen, percent, current, warn, degrade)
                  /\ \A s \in {0, 1, 2} : HeldAt(s, percent, current, warn, degrade) => s <= fallen
                  /\ nextRetentionState(current, retained, budget, warn, degrade) =
                       IF percent >= 100 THEN retentionTerminal ELSE IF fallen > target THEN fallen ELSE target
<1> DEFINE percent == (100 * retained) \div budget
           target == TargetState(retained, budget, warn, degrade)
           Stays(s) == s <= target \/ Kept(s, retained, budget, warn, degrade)
           Remains(s) == HeldAt(s, percent, current, warn, degrade)
           Highest(s) == /\ s <= current /\ Stays(s)
                         /\ \A t \in RetentionStates : t <= current /\ Stays(t) => t <= s
           fallen == CHOOSE s \in RetentionStates : Highest(s)
<1>1. percent \in Int /\ \A f \in Int : Reaches(retained, budget, f) <=> percent >= f
  <2>1. 100 * retained \in Int /\ budget \in Nat /\ budget > 0
    OBVIOUS
  <2>2. ASSUME NEW f \in Int PROVE percent \in Int /\ (percent >= f <=> 100 * retained >= f * budget)
    BY <2>1, DivReach, Zenon
  <2>3. percent \in Int
    BY <2>2
  <2> HIDE DEF percent
  <2> QED
    BY <2>2, <2>3 DEF Reaches
<1>2. target = Target(percent, warn, degrade) /\ target \in {0, 1, 2}
  BY <1>1, warn \in Int, degrade \in Int, Zenon
     DEF TargetState, Target, retentionOK, retentionWarn, retentionDegrade
<1>3. current \in {0, 1, 2} /\ RetentionStates = {0, 1, 2, 3}
  BY DEF RetentionStates, retentionOK, retentionTerminal
<1>4. ASSUME NEW s \in RetentionStates PROVE (s <= current /\ Stays(s)) <=> Remains(s)
  <2>1. Threshold(s, warn, degrade) - 5 \in Int
    BY DEF Threshold
  <2>2. Kept(s, retained, budget, warn, degrade) <=> percent >= Threshold(s, warn, degrade) - 5
    BY <1>1, <2>1, Zenon DEF Kept, retentionHysteresis
  <2> QED
    BY <1>2, <2>2, Zenon DEF HeldAt
<1>5. Remains(0) /\ ~Remains(3)
  <2>1. 0 <= current /\ 0 <= target /\ ~(3 <= current)
    BY <1>2, <1>3
  <2> QED
    BY <1>2, <2>1, Zenon DEF HeldAt
<1>6. PICK top \in {0, 1, 2} : Remains(top) /\ \A s \in {0, 1, 2} : Remains(s) => s <= top
  <2> HIDE DEF Remains
  <2> QED
    BY <1>5
<1>7. Highest(top) /\ \A s \in RetentionStates : Highest(s) => Remains(s) /\ s <= top /\ top <= s
  <2> DEFINE Below(s) == s <= current /\ Stays(s)
  <2>1. \A s \in RetentionStates : Below(s) <=> Remains(s)
    BY <1>4, Zenon
  <2>2. \A s \in RetentionStates : Highest(s) <=> Below(s) /\ \A t \in RetentionStates : Below(t) => t <= s
    BY Zenon
  <2>3. top \in RetentionStates /\ \A s \in RetentionStates : Remains(s) => s <= top
    BY <1>3, <1>5, <1>6, Zenon
  <2> HIDE DEF Below, Remains, Highest
  <2> QED
    BY <1>6, <2>1, <2>2, <2>3, Zenon
<1>8. fallen = top
  <2>1. fallen \in RetentionStates /\ Highest(fallen)
    BY <1>3, <1>7, Zenon
  <2>2. fallen <= top /\ top <= fallen
    BY <1>7, <2>1, Zenon
  <2> HIDE DEF fallen
  <2> QED
    BY <1>3, <2>1, <2>2
<1>9. ~(budget <= 0) /\ ~(retained < 0)
  OBVIOUS
<1>10. nextRetentionState(current, retained, budget, warn, degrade) =
         IF percent >= 100 THEN retentionTerminal ELSE IF top > target THEN top ELSE target
  <2>1. Reaches(retained, budget, 100) <=> percent >= 100
    BY <1>1
  <2> HIDE DEF percent
  <2> QED
    BY <1>8, <1>9, <2>1, Zenon DEF nextRetentionState, Ignored
<1>11. nextRetentionState(current, retained, budget, warn, degrade) =
         IF percent >= 100 THEN retentionTerminal
         ELSE IF top > Target(percent, warn, degrade) THEN top ELSE Target(percent, warn, degrade)
  BY <1>2, <1>10
<1> HIDE DEF percent, target, Remains
<1> QED
  BY <1>6, <1>11 DEF percent, Remains

\* What RetentionSettles says of one sample, by the policy's own numbers.
SettledAt(was, retained, percent, warn, degrade, state) ==
    /\ state = retentionTerminal <=> percent >= 100
    /\ percent >= degrade => state >= retentionDegrade
    /\ percent >= warn => state >= retentionWarn
    /\ \A s \in {retentionWarn, retentionDegrade} :
         was >= s /\ state < s => percent < Threshold(s, warn, degrade) - 5
    /\ state > was => percent >= Threshold(state, warn, degrade)
    /\ retained = 0 /\ warn > 5 => state = retentionOK

\* nextRetentionState settles for any thresholds validateReaderConfig accepts, any
\* budget and any sample.
THEOREM NextSettles ==
    ASSUME NEW was \in RetentionStates, was # retentionTerminal, NEW retained \in Nat,
           NEW budget \in Nat \ {0}, NEW warn \in Nat, NEW degrade \in Nat, warn < degrade, degrade < 100
    PROVE  LET state == nextRetentionState(was, retained, budget, warn, degrade)
           IN  /\ state \in RetentionStates
               /\ SettledAt(was, retained, (100 * retained) \div budget, warn, degrade, state)
<1> DEFINE percent == (100 * retained) \div budget
           state == nextRetentionState(was, retained, budget, warn, degrade)
           target == Target(percent, warn, degrade)
<1>1. PICK fallen \in {0, 1, 2} :
         /\ HeldAt(fallen, percent, was, warn, degrade)
         /\ \A s \in {0, 1, 2} : HeldAt(s, percent, was, warn, degrade) => s <= fallen
         /\ state = IF percent >= 100 THEN retentionTerminal ELSE IF fallen > target THEN fallen ELSE target
  BY NextState
<1>2. percent \in Int /\ (retained = 0 => percent = 0)
  <2>1. 100 * retained \in Int /\ budget \in Nat /\ budget > 0
    OBVIOUS
  <2>2. percent \in Int /\ (percent >= 0 <=> 100 * retained >= 0 * budget)
        /\ (percent >= 1 <=> 100 * retained >= 1 * budget)
    BY <2>1, DivReach
  <2> HIDE DEF percent
  <2> QED
    BY <2>1, <2>2
<1>3. was \in {0, 1, 2} /\ RetentionStates = {0, 1, 2, 3}
  BY DEF RetentionStates, retentionOK, retentionTerminal
<1>4. target \in {0, 1, 2} /\ fallen <= was
  BY <1>1 DEF Target, HeldAt, retentionOK, retentionWarn, retentionDegrade
<1> HIDE DEF percent, state
<1>5. state \in {0, 1, 2, 3} /\ (state = 3 <=> percent >= 100)
  BY <1>1, <1>4 DEF retentionTerminal
<1>6. (percent >= degrade => state >= 2) /\ (percent >= warn => state >= 1)
  BY <1>1, <1>2, <1>4 DEF Target, retentionOK, retentionWarn, retentionDegrade, retentionTerminal
<1>7. ASSUME NEW s \in {1, 2}, was >= s, state < s PROVE percent < Threshold(s, warn, degrade) - 5
  <2>1. state >= fallen /\ Threshold(s, warn, degrade) \in Int
    BY <1>1, <1>4 DEF retentionTerminal, Threshold
  <2>2. ~HeldAt(s, percent, was, warn, degrade)
    BY <1>1, <1>5, <1>7, <2>1
  <2> QED
    BY <1>2, <1>3, <1>7, <2>1, <2>2 DEF HeldAt
<1>8. state > was => percent >= Threshold(state, warn, degrade)
  <2>1. CASE percent >= 100
    BY <1>2, <1>5, <2>1 DEF Threshold, retentionDegrade
  <2>2. CASE percent < 100
    <3>1. state > was => state = target
      BY <1>1, <1>2, <1>3, <1>4, <2>2
    <3> QED
      BY <1>2, <1>3, <3>1 DEF Threshold, Target, retentionOK, retentionWarn, retentionDegrade
  <2> QED
    BY <1>2, <2>1, <2>2
<1>9. retained = 0 /\ warn > 5 => state = 0
  <2> SUFFICES ASSUME retained = 0, warn > 5 PROVE state = 0
    OBVIOUS
  <2>1. percent = 0 /\ target = 0
    BY <1>2 DEF Target, retentionOK
  <2>2. fallen = 0
    BY <1>1, <2>1 DEF HeldAt, Threshold
  <2> QED
    BY <1>1, <2>1, <2>2
<1>10. SettledAt(was, retained, percent, warn, degrade, state)
  BY <1>5, <1>6, <1>7, <1>8, <1>9
     DEF SettledAt, retentionOK, retentionWarn, retentionDegrade, retentionTerminal
<1> QED
  BY <1>3, <1>5, <1>10 DEF percent, state

\* The policy's next state, for any sample: terminal is final and is reached at the
\* budget, and there is no step without a sample.
LEMMA NextTyped ==
    ASSUME NEW was \in RetentionStates, NEW retained \in Int, NEW budget \in Nat \ {0},
           NEW warn \in Nat, NEW degrade \in Nat, warn < degrade, degrade < 100,
           NEW state, state = nextRetentionState(was, retained, budget, warn, degrade)
    PROVE  /\ state \in RetentionStates
           /\ state = retentionTerminal <=> was = retentionTerminal \/ retained >= budget
           /\ retained < 0 => state = was
<1>1. CASE was = retentionTerminal
  BY <1>1, Zenon DEF nextRetentionState, Ignored
<1>2. CASE retained < 0
  <2>1. state = was
    BY <1>2, Zenon DEF nextRetentionState, Ignored
  <2>2. ~(retained >= budget)
    BY <1>2
  <2> QED
    BY <2>1, <2>2, Zenon
<1>3. CASE ~(retained < 0) /\ was # retentionTerminal
  <2>1. retained \in Nat
    BY <1>3
  <2> DEFINE percent == (100 * retained) \div budget
  <2>2. state \in RetentionStates /\ SettledAt(was, retained, percent, warn, degrade, state)
    BY <1>3, <2>1, NextSettles
  <2>3. percent >= 100 <=> 100 * retained >= 100 * budget
    <3>1. 100 * retained \in Int /\ budget \in Nat /\ budget > 0 /\ 100 \in Int
      OBVIOUS
    <3> QED
      BY <3>1, DivReach, Zenon
  <2>4. 100 * retained >= 100 * budget <=> retained >= budget
    OBVIOUS
  <2> HIDE DEF percent
  <2>5. state = retentionTerminal <=> retained >= budget
    BY <2>2, <2>3, <2>4, Zenon DEF SettledAt
  <2> QED
    BY <1>3, <2>2, <2>5, Zenon
<1> QED
  BY <1>1, <1>2, <1>3, Zenon

-----------------------------------------------------------------------------
(* The reader's settings.                                                     *)

\* What ConfigIsSafe asks of a reader's settings, for these random numbers.
SafeSettings(config, randoms) ==
    LET budget == config["MaxRetainedWALBytes"]
        stage(retained) == nextRetentionState(retentionOK, retained, 100 * budget,
                             config["RetentionWarnFraction"], config["RetentionDegradeFraction"])
    IN  /\ {stage(budget * percent) : percent \in 0..99} = {retentionOK, retentionWarn, retentionDegrade}
        /\ stage(100 * budget) = retentionTerminal
        /\ \A attempt \in 1 .. config["MaxAttempts"], random \in randoms :
             retryDelay(config, attempt, random) \in
               100 * (100 - config["Jitter"]) * config["InitialBackoff"] ..
               100 * (100 + config["Jitter"]) * config["MaxBackoff"]
        /\ config["SnapshotBatchRows"] > 0 /\ config["MaxValueBytes"] <= config["MaxTransactionBytes"]

\* From ok, the stage is the target of the sample, or terminal at the budget.
LEMMA StageAt ==
    ASSUME NEW budget \in Nat \ {0}, NEW warn \in Nat, NEW degrade \in Nat, NEW percent \in Nat
    PROVE  nextRetentionState(retentionOK, budget * percent, 100 * budget, warn, degrade) =
             IF percent >= 100 THEN retentionTerminal ELSE Target(percent, warn, degrade)
<1> DEFINE b == 100 * budget
           r == budget * percent
<1>1. b \in Nat \ {0} /\ r \in Nat /\ 100 * r = percent * b
  OBVIOUS
<1>2. retentionOK \in RetentionStates /\ retentionOK # retentionTerminal
  BY DEF RetentionStates, retentionOK, retentionTerminal
<1> HIDE DEF b, r
<1>3. (100 * r) \div b = percent
  <2>1. PICK x \in Int : x = 100 * r
    BY <1>1
  <2>2. /\ x \div b \in Int
        /\ x \div b >= percent <=> x >= percent * b
        /\ x \div b >= percent + 1 <=> x >= (percent + 1) * b
    BY <1>1, DivReach
  <2>3. ~(x >= (percent + 1) * b)
    BY <1>1, <2>1
  <2>4. x \div b = percent
    BY <1>1, <2>1, <2>2, <2>3
  <2> QED
    BY <2>1, <2>4
<1>4. PICK fallen \in {0, 1, 2} :
         /\ HeldAt(fallen, (100 * r) \div b, retentionOK, warn, degrade)
         /\ nextRetentionState(retentionOK, r, b, warn, degrade) =
              IF (100 * r) \div b >= 100 THEN retentionTerminal
              ELSE IF fallen > Target((100 * r) \div b, warn, degrade) THEN fallen
              ELSE Target((100 * r) \div b, warn, degrade)
  BY <1>1, <1>2, NextState
<1>5. fallen = 0 /\ Target(percent, warn, degrade) \in {0, 1, 2}
  BY <1>4 DEF HeldAt, Target, retentionOK, retentionWarn, retentionDegrade
<1>6. ~(fallen > Target(percent, warn, degrade))
  BY <1>5
<1>7. nextRetentionState(retentionOK, r, b, warn, degrade) =
        IF percent >= 100 THEN retentionTerminal ELSE Target(percent, warn, degrade)
  BY <1>3, <1>4, <1>6, Zenon
<1> QED
  BY <1>7 DEF b, r

\* The doubling of the backoff over the first n attempts after the first.
DelayLoop(f, initial, max, n) ==
    [i \in 0..n |-> IF i = 0 THEN (IF initial < max THEN initial ELSE max)
                    ELSE IF 2 * f[i - 1] < max THEN 2 * f[i - 1] ELSE max]

\* Before any attempt the backoff lies between the initial and the longest one.
LEMMA BackoffBounded ==
    ASSUME NEW config, NEW initial \in Nat, NEW max \in Nat, initial <= max,
           config["InitialBackoff"] = initial, config["MaxBackoff"] = max, NEW attempt \in Nat \ {0}
    PROVE  backoff(config, attempt) \in initial..max
<1> DEFINE n == attempt - 1
           A == initial..max
           step == [i \in 1..n |-> [a \in A |-> IF 2 * a < max THEN 2 * a ELSE max]]
<1>0. n \in Nat
  OBVIOUS
<1> HIDE DEF n
<1>1. \A a \in A : (IF 2 * a < max THEN 2 * a ELSE max) \in A
  OBVIOUS
<1>2. step \in [1..n -> [A -> A]] /\ initial \in A
  BY <1>1
<1>3. (IF initial < max THEN initial ELSE max) = initial
  OBVIOUS
<1>4. PICK g : Loop(g, n, A, initial, step)
  <2> HIDE DEF step, A
  <2> QED
    BY <1>0, <1>2, LoopEnds, Zenon
<1>5. g = DelayLoop(g, initial, max, n)
  <2>1. g \in [0..n -> A] /\ g[0] = initial /\ \A i \in 1..n : g[i] = step[i][g[i - 1]]
    BY <1>4, Zenon DEF Loop
  <2>2. ASSUME NEW i \in 0..n
        PROVE  g[i] = IF i = 0 THEN (IF initial < max THEN initial ELSE max)
                      ELSE IF 2 * g[i - 1] < max THEN 2 * g[i - 1] ELSE max
    <3>1. i # 0 => i \in 1..n /\ i - 1 \in 0..n
      BY <1>0
    <3> HIDE DEF A
    <3> QED
      BY <1>3, <2>1, <3>1, Zenon
  <2> HIDE DEF A, step
  <2> QED
    BY <2>1, <2>2, Zenon DEF DelayLoop
<1> DEFINE base == CHOOSE f : f = DelayLoop(f, initial, max, n)
<1>6. base = DelayLoop(base, initial, max, n)
  BY <1>5, Zenon
<1>7. backoff(config, attempt) = base[n]
  BY Zenon DEF backoff, DelayLoop, n
<1> HIDE DEF base, step
<1> DEFINE S == {i \in 0..n : base[i] \in A}
<1>8. 0 \in 0..n /\ n \in 0..n /\ \A i \in 1..n : i \in 0..n /\ i # 0
  BY <1>0
<1>9. 0 \in S
  <2> HIDE DEF A
  <2>1. base[0] = initial
    BY <1>3, <1>6, <1>8, Zenon DEF DelayLoop
  <2> QED
    BY <1>2, <1>8, <2>1, Zenon
<1>10. ASSUME NEW i \in 1..n, i - 1 \in S PROVE i \in S
  <2> HIDE DEF A
  <2>1. base[i] = IF 2 * base[i - 1] < max THEN 2 * base[i - 1] ELSE max
    BY <1>6, <1>8, Zenon DEF DelayLoop
  <2>2. base[i - 1] \in A
    BY <1>10, Zenon
  <2> QED
    BY <1>1, <1>8, <2>1, <2>2, Zenon
<1>11. 0..n \subseteq S
  <2> HIDE DEF S
  <2> QED
    BY <1>0, <1>9, <1>10, Turns, Zenon
<1> QED
  BY <1>7, <1>8, <1>11, Zenon

\* A product grows with its factors.
LEMMA Products ==
    ASSUME NEW a \in Nat, NEW b \in Nat, NEW c \in Nat, NEW d \in Nat, a <= b, c <= d
    PROVE  a * c <= b * d
<1>1. a * c <= b * c
  OBVIOUS
<1>2. b * c <= b * d
  OBVIOUS
<1>3. a * c \in Nat /\ b * c \in Nat /\ b * d \in Nat
  OBVIOUS
<1> QED
  BY <1>1, <1>2, <1>3

\* The jitter takes off or adds at most its part of a delay.
LEMMA Jittered ==
    ASSUME NEW jitter \in 0..100, NEW random \in 0..99
    PROVE  /\ 10000 + (2 * random - 100) * jitter \in Nat
           /\ 100 * (100 - jitter) \in Nat /\ 100 * (100 + jitter) \in Nat
           /\ 100 * (100 - jitter) <= 10000 + (2 * random - 100) * jitter
           /\ 10000 + (2 * random - 100) * jitter <= 100 * (100 + jitter)
<1>1. PICK r \in -100..98 : r = 2 * random - 100
  OBVIOUS
<1>2. (r + 100) * jitter \in Nat /\ (100 - r) * jitter \in Nat
  <2>1. PICK p \in Nat, q \in Nat, j \in Nat : p = r + 100 /\ q = 100 - r /\ j = jitter
    OBVIOUS
  <2>2. p * j \in Nat /\ q * j \in Nat
    OBVIOUS
  <2> QED
    BY <2>1, <2>2
<1>3. (r + 100) * jitter = r * jitter + 100 * jitter /\ (100 - r) * jitter = 100 * jitter - r * jitter
  OBVIOUS
<1>4. r * jitter \in Int
  OBVIOUS
<1>5. PICK x \in Int : x = r * jitter
  BY <1>4
<1>6. x + 100 * jitter \in Nat /\ 100 * jitter - x \in Nat
  BY <1>2, <1>3, <1>5
<1>7. /\ 10000 + x \in Nat /\ 100 * (100 - jitter) \in Nat /\ 100 * (100 + jitter) \in Nat
      /\ 100 * (100 - jitter) <= 10000 + x /\ 10000 + x <= 100 * (100 + jitter)
  BY <1>6
<1> QED
  BY <1>1, <1>5, <1>7

\* Before any attempt a retry waits for a time between the bounds of its settings.
LEMMA DelayBounded ==
    ASSUME NEW config, NEW initial \in Nat, NEW max \in Nat, initial <= max, NEW jitter \in 0..100,
           config["InitialBackoff"] = initial, config["MaxBackoff"] = max, config["Jitter"] = jitter,
           NEW attempt \in Nat \ {0}, NEW random \in 0..99
    PROVE  retryDelay(config, attempt, random) \in
             100 * (100 - jitter) * initial .. 100 * (100 + jitter) * max
<1>1. PICK base \in initial..max : base = backoff(config, attempt)
  BY BackoffBounded
<1>2. PICK k : k = 10000 + (2 * random - 100) * jitter
  OBVIOUS
<1>3. PICK low, high : low = 100 * (100 - jitter) /\ high = 100 * (100 + jitter)
  OBVIOUS
<1>4. k \in Nat /\ low \in Nat /\ high \in Nat /\ low <= k /\ k <= high
  BY <1>2, <1>3, Jittered
<1>5. base \in Nat /\ initial <= base /\ base <= max
  OBVIOUS
<1>6. retryDelay(config, attempt, random) = base * k
  BY <1>1, <1>2 DEF retryDelay
<1>7. initial * low <= base * k /\ base * k <= max * high
  BY <1>4, <1>5, Products
<1>8. initial * low = low * initial /\ max * high = high * max /\ base * k \in Int
      /\ low * initial \in Int /\ high * max \in Int
  BY <1>4, <1>5
<1>9. base * k \in low * initial .. high * max
  BY <1>7, <1>8
<1> QED
  BY <1>3, <1>6, <1>9

\* Every setting validateReaderConfig accepts is safe, whatever the random numbers.
THEOREM ValidIsSafe ==
    ASSUME NEW config \in [Fields -> Int], validateReaderConfig(config), NEW randoms \in SUBSET (0..99)
    PROVE  SafeSettings(config, randoms)
<1> DEFINE budget == config["MaxRetainedWALBytes"]
           warn == config["RetentionWarnFraction"]
           degrade == config["RetentionDegradeFraction"]
           stage(retained) == nextRetentionState(retentionOK, retained, 100 * budget, warn, degrade)
<1>1. /\ budget \in Nat \ {0} /\ warn \in Nat /\ degrade \in Nat /\ 0 < warn /\ warn < degrade /\ degrade < 100
      /\ config["SnapshotBatchRows"] > 0 /\ config["MaxValueBytes"] <= config["MaxTransactionBytes"]
      /\ config["InitialBackoff"] \in Nat /\ config["MaxBackoff"] \in Nat
      /\ config["InitialBackoff"] <= config["MaxBackoff"]
      /\ config["Jitter"] \in 0..100 /\ config["MaxAttempts"] \in Nat
  BY DEF validateReaderConfig, Fields, Limits, Times, Retention, Retry
<1> HIDE DEF budget, warn, degrade
<1>2. ASSUME NEW percent \in 0..100
      PROVE  stage(budget * percent) = IF percent >= 100 THEN retentionTerminal ELSE Target(percent, warn, degrade)
  <2>1. percent \in Nat
    OBVIOUS
  <2> QED
    BY <1>1, <2>1, StageAt
<1>3. {stage(budget * percent) : percent \in 0..99} = {retentionOK, retentionWarn, retentionDegrade}
  <2>1. \A percent \in 0..99 : stage(budget * percent) = Target(percent, warn, degrade)
    <3> SUFFICES ASSUME NEW percent \in 0..99 PROVE stage(budget * percent) = Target(percent, warn, degrade)
      OBVIOUS
    <3>1. percent \in 0..100 /\ ~(percent >= 100)
      OBVIOUS
    <3> QED
      BY <1>2, <3>1, Zenon
  <2>2. \A percent \in 0..99 : Target(percent, warn, degrade) \in {retentionOK, retentionWarn, retentionDegrade}
    BY Zenon DEF Target
  <2>3. /\ 0 \in 0..99 /\ Target(0, warn, degrade) = retentionOK
        /\ warn \in 0..99 /\ Target(warn, warn, degrade) = retentionWarn
        /\ degrade \in 0..99 /\ Target(degrade, warn, degrade) = retentionDegrade
    BY <1>1 DEF Target
  <2> HIDE DEF stage
  <2> QED
    BY <2>1, <2>2, <2>3, Zenon
<1>4. stage(100 * budget) = retentionTerminal
  <2>1. 100 * budget = budget * 100 /\ 100 \in 0..100
    BY <1>1
  <2>2. stage(budget * 100) = retentionTerminal
    BY <1>2, <2>1
  <2> QED
    BY <2>1, <2>2, Zenon
<1>5. ASSUME NEW attempt \in 1..config["MaxAttempts"], NEW random \in randoms
      PROVE  retryDelay(config, attempt, random) \in
               100 * (100 - config["Jitter"]) * config["InitialBackoff"] ..
               100 * (100 + config["Jitter"]) * config["MaxBackoff"]
  <2>1. attempt \in Nat \ {0} /\ random \in 0..99
    BY <1>1
  <2> QED
    BY <1>1, <2>1, DelayBounded, Zenon
<1> QED
  BY <1>1, <1>3, <1>4, <1>5, Zenon DEF SafeSettings, budget, warn, degrade

\* Normalised settings are numbers.
LEMMA NormalTyped ==
    ASSUME NEW config \in [Fields -> Int]
    PROVE  normalizeReaderConfig(config) \in [Fields -> Int]
<1>1. \A field \in Fields : Default(field) \in Int
  BY DEF Default
<1>2. \A field \in Fields : config[field] \in Int
  OBVIOUS
<1> QED
  BY <1>1, <1>2, Zenon DEF normalizeReaderConfig

\* So are the settings a daemon's file gives the reader.
LEMMA ReaderConfigTyped ==
    ASSUME NEW cfg, cfg.maxRetained \in Int, cfg.warn \in Int, cfg.degrade \in Int, cfg.sampleInterval \in Int
    PROVE  readerConfig(cfg) \in [Fields -> Int]
  BY DEF readerConfig

\* A spec accepted against its table has the table's own key, with the scope in it.
LEMMA SpecKey ==
    ASSUME NEW names, NEW spec, spec.primaryKey \in Seq(names), NEW table, table.primaryKey \in Seq(names),
           validateProjectionSpecConfig(spec), validateProjectionSpec(spec, table)
    PROVE  /\ spec.scopeColumn \in Range(table.primaryKey)
           /\ Range(table.primaryKey) = Range(spec.primaryKey)
<1> DEFINE left == table.primaryKey
           right == spec.primaryKey
<1>1. left \in Seq(names) /\ right \in Seq(names)
  OBVIOUS
<1>2. Len(left) = Len(right) /\ \A i \in DOMAIN left : left[i] = right[i]
  BY Zenon DEF validateProjectionSpec, sameStrings
<1>3. \E i \in DOMAIN right : right[i] = spec.scopeColumn
  BY Zenon DEF validateProjectionSpecConfig
<1>4. DOMAIN left = 1..Len(left) /\ DOMAIN right = 1..Len(right)
  <2> HIDE DEF left, right
  <2> QED
    BY <1>1
<1> HIDE DEF left, right
<1>5. Range(left) = Range(right) /\ spec.scopeColumn \in Range(left)
  BY <1>2, <1>3, <1>4, Zenon DEF Range
<1> QED
  BY <1>5 DEF left, right

-----------------------------------------------------------------------------
(* Errors.                                                                    *)

\* What the property asks of one error.
Sound(err) ==
    /\ retried(err) => ~isPermanent(status(err))
    /\ err.kind \in {"InvalidReaderConfig", "InsufficientPrivileges"} => isPermanent(status(err))

\* The kinds of a snapshot read's error that become a status a client gives up on.
LEMMA StatusOf ==
    ASSUME NEW err, err.kind \notin {"UnknownProjection", "InvalidCursor"}
    PROVE  isPermanent(status(err)) <=> err.kind \in {"InvalidReaderConfig", "InsufficientPrivileges"}
<1>1. CASE err.kind \in {"SourceUnavailable", "SourceNotStarted", "SlotInUse"}
  <2>1. status(err) = "Unavailable"
    BY <1>1 DEF status
  <2> QED
    BY <1>1, <2>1 DEF isPermanent
<1>2. CASE err.kind \in {"InvalidReaderConfig", "InsufficientPrivileges"}
  <2>1. status(err) = "FailedPrecondition"
    BY <1>2 DEF status
  <2> QED
    BY <1>2, <2>1 DEF isPermanent
<1>3. CASE /\ err.kind \notin {"SourceUnavailable", "SourceNotStarted", "SlotInUse"}
           /\ err.kind \notin {"InvalidReaderConfig", "InsufficientPrivileges"}
  <2>1. status(err) = "Internal"
    BY <1>3 DEF status
  <2> QED
    BY <1>3, <2>1 DEF isPermanent
<1> QED
  BY <1>1, <1>2, <1>3, Zenon

\* A verdict of the classification is sound if only what is not retried is permanent.
LEMMA SoundIf ==
    ASSUME NEW err, err.kind \notin {"UnknownProjection", "InvalidCursor"},
           err.kind \in {"InvalidReaderConfig", "InsufficientPrivileges"} => ~retried(err)
    PROVE  Sound(err)
  BY StatusOf, Zenon DEF Sound

\* A server error.
LEMMA ServerErrorSound == \A state \in SQLStates : Sound(classifySQLState(state))
<1> SUFFICES ASSUME NEW state \in SQLStates PROVE Sound(classifySQLState(state))
  OBVIOUS
<1> DEFINE err == classifySQLState(state)
<1>1. \/ err = [kind |-> "SlotInvalidated", verdict |-> "terminal"]
      \/ err = [kind |-> "InsufficientPrivileges", verdict |-> "terminal"]
      \/ err = [kind |-> "SlotInUse", verdict |-> "retryable"]
      \/ err = [kind |-> "ReplicationEnded", verdict |-> "retryable"]
      \/ err = [kind |-> "PostgresServer", verdict |-> "terminal"]
  BY DEF classifySQLState, SQLStates, Terminal, Retryable
<1> HIDE DEF err
<1>2. /\ err.kind \notin {"UnknownProjection", "InvalidCursor"}
      /\ err.kind \in {"InvalidReaderConfig", "InsufficientPrivileges"} => ~retried(err)
  BY <1>1 DEF retried
<1>3. Sound(err)
  BY <1>2, SoundIf, Zenon
<1> QED
  BY <1>3 DEF err

\* An error without a verdict, of the kinds tried.
LEMMA PlainSound ==
    ASSUME NEW kind \in NotRetried \cup {"SlotNotFound", "SnapshotWindowClosed", "SourceNotStarted", "none",
                                         "SourceUnavailable", "DatabaseURLRequired", "InvalidDatabaseURL"}
    PROVE  Sound(Plain(kind))
<1>1. Plain(kind).kind = kind /\ Plain(kind).verdict = "none"
  BY DEF Plain
<1>2. kind \notin {"UnknownProjection", "InvalidCursor", "InsufficientPrivileges"}
  BY DEF NotRetried
<1>3. kind = "InvalidReaderConfig" => ~retried(Plain(kind))
  BY <1>1 DEF retried, NotRetried
<1> QED
  BY <1>1, <1>2, <1>3, SoundIf, Zenon

-----------------------------------------------------------------------------
(* The calls of module Algorithms.                                            *)

\* What is known of the arguments of a call, by its operation.
VisibilityCall ==
    call.op = "visibility" =>
      /\ call.xmin \in Nat /\ call.xmax \in Nat /\ call.xips \in Seq(Nat) /\ call.xid \in Nat
      /\ call.xid \in (call.xmax - Wrap \div 2)..(call.xmax + Wrap \div 2 - 1)

ValidIDs == {id \in SourceIDs : ValidSourceID(id)}

CursorsCall ==
    call.op = "cursors" =>
      call.server \in ValidIDs /\ call.cursors \in Seq([sourceID : ValidIDs, lsn : Nat])

ReaderCall == call.op = "reader" => call.config \in [Fields -> Int]

DaemonCall ==
    call.op = "daemon" =>
      call.config \in [databaseURL : {"url"}, listenAddress : {"addr"}, specs : SUBSET Specs, sourceID : SourceIDs,
                       shutdownTimeout : {0}, warn : Nat, degrade : Nat, maxRetained : Int, sampleInterval : {0},
                       ops : [mutexProfileFraction : Int, blockProfileRate : Int, pprof : BOOLEAN,
                              listenAddress : {"addr"}]]

SpecCall ==
    call.op = "spec" =>
      /\ call.spec \in Specs /\ call.publication.operations \subseteq {"insert", "update", "delete"}
      /\ call.table.primaryKey \in Seq({"s", "i"})

RetentionCall ==
    call.op = "retention" =>
      /\ call \in [op : {"retention"}, warn : {4, 50, 60}, degrade : {62, 80}, server : Int, budget : Nat \ {0},
                   was : RetentionStates, retained : Int, reached : BOOLEAN, state : RetentionStates]
      /\ call.budget = Strictest(call.server)
      /\ call.state = nextRetentionState(call.was, call.retained, call.budget, call.warn, call.degrade)
      /\ call.state = retentionTerminal <=> call.reached

\* A snapshot of a table with keys of two numbers, and a table's columns and keys.
GoodSnapshot(rows, batchRows, maxBytes) ==
    /\ batchRows \in Nat \ {0} /\ maxBytes \in Nat
    /\ \E keys \in SUBSET ({1, 2} \X {1, 2}), bodies \in [({1, 2} \X {1, 2}) -> Nat \cup {NoBody}] :
         rows = ReadOf(keys, bodies)
GoodTable(t) ==
    /\ t.columns \in Seq(TypedColumn) /\ t.replicaIdentity \in {"d", "f", "i", "n"}
    /\ t.primaryKey \subseteq Range(Names(t)) /\ t.indexed \subseteq Range(Names(t))

SnapshotCall == call.op = "snapshot" => GoodSnapshot(call.rows, call.batchRows, call.maxBytes)
RelationCall == call.op = "relation" => GoodTable(call.was) /\ GoodTable(call.is)

\* Every call there can be.
CallInv ==
    /\ VisibilityCall /\ CursorsCall /\ ReaderCall /\ DaemonCall /\ SpecCall /\ RetentionCall
    /\ SnapshotCall /\ RelationCall /\ TransientErrorsRetried

\* A call of an operation that the invariant says nothing of.
LEMMA OtherCall ==
    ASSUME call'.op \notin {"visibility", "cursors", "reader", "daemon", "spec", "retention", "failure",
                            "snapshot", "relation"}
    PROVE  CallInv'
  BY DEF CallInv, SnapshotCall, RelationCall, VisibilityCall, CursorsCall, ReaderCall, DaemonCall, SpecCall, RetentionCall,
         TransientErrorsRetried

\* A call of Covers.
LEMMA VisibilityMade == CallVisibility => CallInv'
<1> SUFFICES ASSUME CallVisibility PROVE CallInv'
  OBVIOUS
<1>1. PICK xmax \in 0..MaxXid : \E xmin \in 0..(xmax + 1) :
        \E xips \in UNION {[1..n -> 0..(xmax + 1)] : n \in 0..2} :
          \E xid \in ((xmax - Wrap \div 2)..(xmax + Wrap \div 2 - 1)) \cap Nat :
            call' = [op |-> "visibility", xmin |-> xmin, xmax |-> xmax, xips |-> xips, xid |-> xid]
  BY Zenon DEF CallVisibility, Calls
<1>2. PICK xmin \in 0..(xmax + 1), xips \in UNION {[1..n -> 0..(xmax + 1)] : n \in 0..2},
           xid \in ((xmax - Wrap \div 2)..(xmax + Wrap \div 2 - 1)) \cap Nat :
         call' = [op |-> "visibility", xmin |-> xmin, xmax |-> xmax, xips |-> xips, xid |-> xid]
  BY <1>1, Zenon
<1>3. xmax \in Nat /\ xmin \in Nat /\ 0..(xmax + 1) \subseteq Nat
  BY AlgorithmsAssumption DEF AlgorithmsAssumption
<1>4. PICK n \in 0..2 : xips \in [1..n -> 0..(xmax + 1)]
  BY Zenon
<1>5. xips \in Seq(Nat)
  BY <1>3, <1>4
<1>6. /\ call'.op = "visibility" /\ call'.xmin = xmin /\ call'.xmax = xmax /\ call'.xips = xips
      /\ call'.xid = xid
  BY <1>2, Zenon
<1>7. VisibilityCall'
  BY <1>3, <1>5, <1>6, Zenon DEF VisibilityCall
<1> QED
  BY <1>6, <1>7 DEF CallInv, SnapshotCall, RelationCall, CursorsCall, ReaderCall, DaemonCall, SpecCall, RetentionCall, TransientErrorsRetried

\* The source IDs tried are texts.
LEMMA IDsTyped == SourceIDs \subseteq Seq(Int)
  BY DEF SourceIDs, Separator

\* A call of the cursors' operations.
LEMMA CursorsMade == CallCursors => CallInv'
<1> SUFFICES ASSUME CallCursors PROVE CallInv'
  OBVIOUS
<1>1. PICK server \in ValidIDs : \E other \in ValidIDs : \E lsns \in UNION {[1..n -> 0..MaxLSN] : n \in 0..3} :
        \E foreign \in SUBSET DOMAIN lsns :
          Calls([op |-> "cursors", server |-> server, other |-> other,
                 cursors |-> [i \in DOMAIN lsns |-> Cursor(IF i \in foreign THEN other ELSE server, lsns[i])]])
  BY Zenon DEF CallCursors, ValidIDs
<1>2. PICK other \in ValidIDs, lsns \in UNION {[1..n -> 0..MaxLSN] : n \in 0..3} : \E foreign \in SUBSET DOMAIN lsns :
         Calls([op |-> "cursors", server |-> server, other |-> other,
                cursors |-> [i \in DOMAIN lsns |-> Cursor(IF i \in foreign THEN other ELSE server, lsns[i])]])
  BY <1>1, Zenon
<1>3. PICK foreign \in SUBSET DOMAIN lsns :
         call' = [op |-> "cursors", server |-> server, other |-> other,
                  cursors |-> [i \in DOMAIN lsns |-> Cursor(IF i \in foreign THEN other ELSE server, lsns[i])]]
  BY <1>2, Zenon DEF Calls
<1>4. PICK n \in 0..3 : lsns \in [1..n -> 0..MaxLSN] /\ DOMAIN lsns = 1..n
  BY Zenon
<1> DEFINE T == [sourceID : ValidIDs, lsn : Nat]
           cursors == [i \in DOMAIN lsns |-> Cursor(IF i \in foreign THEN other ELSE server, lsns[i])]
<1>5. ASSUME NEW i \in 1..n
      PROVE  Cursor(IF i \in foreign THEN other ELSE server, lsns[i]) \in T
  <2>1. lsns[i] \in Nat
    BY <1>4, AlgorithmsAssumption DEF AlgorithmsAssumption
  <2> QED
    BY <2>1, Zenon DEF Cursor
<1>6. cursors \in Seq(T)
  <2>1. cursors \in [1..n -> T] /\ n \in Nat
    BY <1>5, <1>4
  <2> HIDE DEF cursors, T
  <2> QED
    BY <2>1
<1>7. call'.op = "cursors" /\ call'.server = server /\ call'.cursors = cursors
  BY <1>3, Zenon
<1>8. CursorsCall'
  BY <1>6, <1>7, Zenon DEF CursorsCall
<1> QED
  BY <1>7, <1>8 DEF CallInv, SnapshotCall, RelationCall, VisibilityCall, ReaderCall, DaemonCall, SpecCall, RetentionCall, TransientErrorsRetried

\* A call of a configuration's checks.
LEMMA ConfigMade == CallConfig => CallInv'
<1> SUFFICES ASSUME CallConfig PROVE CallInv'
  OBVIOUS
<1>1. CASE \E f, g \in Fields : \E v, w \in {-1, 1, 30, 100, 120} :
             Calls([op |-> "reader",
                      config |-> [field \in Fields |-> IF field = f THEN v ELSE IF field = g THEN w ELSE 0]])
  <2>1. PICK f \in Fields, g \in Fields, v \in {-1, 1, 30, 100, 120}, w \in {-1, 1, 30, 100, 120} :
           Calls([op |-> "reader",
                    config |-> [field \in Fields |-> IF field = f THEN v ELSE IF field = g THEN w ELSE 0]])
    BY <1>1, Zenon
  <2>2. call'.op = "reader" /\ call'.config = [field \in Fields |-> IF field = f THEN v ELSE IF field = g THEN w ELSE 0]
    BY <2>1, Zenon DEF Calls
  <2>3. v \in Int /\ w \in Int /\ 0 \in Int
    OBVIOUS
  <2>4. call'.config \in [Fields -> Int]
    BY <2>2, <2>3, Zenon
  <2> QED
    BY <2>2, <2>4 DEF CallInv, SnapshotCall, RelationCall, VisibilityCall, CursorsCall, ReaderCall, DaemonCall, SpecCall, RetentionCall,
                      TransientErrorsRetried
<1>2. CASE \E sourceID \in SourceIDs, warn \in {0, 40, 90}, degrade \in {0, 60, 95}, maxRetained \in {-1, 0, 10} :
             \E spec \in Specs : \E pprof \in BOOLEAN, rate \in {-1, 0, 1} :
               Calls([op |-> "daemon",
                        config |-> [databaseURL |-> "url", listenAddress |-> "addr", specs |-> {spec},
                                    sourceID |-> sourceID, shutdownTimeout |-> 0, warn |-> warn, degrade |-> degrade,
                                    maxRetained |-> maxRetained, sampleInterval |-> 0,
                                    ops |-> [mutexProfileFraction |-> rate, blockProfileRate |-> 0, pprof |-> pprof,
                                             listenAddress |-> "addr"]]])
  <2>1. PICK sourceID \in SourceIDs, warn \in {0, 40, 90}, degrade \in {0, 60, 95}, maxRetained \in {-1, 0, 10},
             spec \in Specs, pprof \in BOOLEAN, rate \in {-1, 0, 1} :
           Calls([op |-> "daemon",
                    config |-> [databaseURL |-> "url", listenAddress |-> "addr", specs |-> {spec},
                                sourceID |-> sourceID, shutdownTimeout |-> 0, warn |-> warn, degrade |-> degrade,
                                maxRetained |-> maxRetained, sampleInterval |-> 0,
                                ops |-> [mutexProfileFraction |-> rate, blockProfileRate |-> 0, pprof |-> pprof,
                                         listenAddress |-> "addr"]]])
    BY <1>2, Zenon
  <2>2. warn \in Nat /\ degrade \in Nat /\ maxRetained \in Int /\ rate \in Int /\ 0 \in Int /\ {spec} \in SUBSET Specs
    OBVIOUS
  <2>3. call'.op = "daemon"
    BY <2>1, Zenon DEF Calls
  <2>4. DaemonCall'
    BY <2>1, <2>2, Zenon DEF DaemonCall, Calls
  <2> QED
    BY <2>3, <2>4 DEF CallInv, SnapshotCall, RelationCall, VisibilityCall, CursorsCall, ReaderCall, SpecCall, RetentionCall,
                      TransientErrorsRetried
<1>3. CASE \E spec \in Specs : \E columns \in SUBSET {"s", "i", "b"} :
             \E primaryKey \in {<< "s", "i" >>, << "i", "s" >>, << "i" >>, << >>} : \E published \in BOOLEAN :
             \E operations \in SUBSET {"insert", "update", "delete"}, truncate \in BOOLEAN :
               Calls([op |-> "spec", spec |-> spec,
                        publication |-> [exists |-> operations # {} \/ truncate, operations |-> operations,
                                         truncate |-> truncate],
                        table |-> [exists |-> columns # {}, columns |-> columns \cup Range(primaryKey),
                                   primaryKey |-> primaryKey, published |-> published]])
  <2>1. PICK spec \in Specs, columns \in SUBSET {"s", "i", "b"},
             primaryKey \in {<< "s", "i" >>, << "i", "s" >>, << "i" >>, << >>}, published \in BOOLEAN,
             operations \in SUBSET {"insert", "update", "delete"}, truncate \in BOOLEAN :
           Calls([op |-> "spec", spec |-> spec,
                    publication |-> [exists |-> operations # {} \/ truncate, operations |-> operations,
                                     truncate |-> truncate],
                    table |-> [exists |-> columns # {}, columns |-> columns \cup Range(primaryKey),
                               primaryKey |-> primaryKey, published |-> published]])
    BY <1>3, Zenon
  <2>2. /\ call'.op = "spec" /\ call'.spec = spec /\ call'.publication.operations = operations
        /\ call'.table.primaryKey = primaryKey
    BY <2>1, Zenon DEF Calls
  <2>3. primaryKey \in Seq({"s", "i"})
    <3>1. /\ << "s", "i" >> \in Seq({"s", "i"}) /\ << "i", "s" >> \in Seq({"s", "i"})
          /\ << "i" >> \in Seq({"s", "i"}) /\ << >> \in Seq({"s", "i"})
      OBVIOUS
    <3> QED
      BY <3>1, Zenon
  <2>4. SpecCall'
    BY <2>2, <2>3, Zenon DEF SpecCall
  <2> QED
    BY <2>2, <2>4 DEF CallInv, SnapshotCall, RelationCall, VisibilityCall, CursorsCall, ReaderCall, DaemonCall, RetentionCall,
                      TransientErrorsRetried
<1> QED
  BY <1>1, <1>2, <1>3, Zenon DEF CallConfig

\* A call of the classification of errors.
LEMMA FailureMade == CallFailure => CallInv'
<1> SUFFICES ASSUME CallFailure PROVE CallInv'
  OBVIOUS
<1>1. SUFFICES \E err : Sound(err) /\ Calls([op |-> "failure", error |-> err])
  <2>1. PICK err : Sound(err) /\ call' = [op |-> "failure", error |-> err]
    BY <1>1, Zenon DEF Calls
  <2>2. call'.op = "failure" /\ call'.error = err
    BY <2>1, Zenon
  <2>3. TransientErrorsRetried'
    BY <2>1, <2>2, Zenon DEF TransientErrorsRetried, Sound
  <2> QED
    BY <2>2, <2>3 DEF CallInv, SnapshotCall, RelationCall, VisibilityCall, CursorsCall, ReaderCall, DaemonCall, SpecCall, RetentionCall
<1>2. CASE \E problem \in SQLStates \cup {"InvalidDatabaseURL", "DatabaseURLRequired", "network"} :
             Calls([op |-> "failure", error |-> classifyConnectionError(problem)])
  <2>1. ASSUME NEW problem \in SQLStates \cup {"InvalidDatabaseURL", "DatabaseURLRequired", "network"}
        PROVE  Sound(classifyConnectionError(problem))
    <3>1. "42501" \in SQLStates
      BY DEF SQLStates
    <3> QED
      BY <3>1, ServerErrorSound, PlainSound, Zenon DEF classifyConnectionError
  <2> QED
    BY <1>2, <2>1, Zenon
<1>3. CASE \E state \in SQLStates : Calls([op |-> "failure", error |-> classifySQLState(state)])
  BY <1>3, ServerErrorSound, Zenon
<1>4. CASE \E kind \in NotRetried \cup {"SlotNotFound", "SnapshotWindowClosed", "SourceNotStarted", "none"} :
             Calls([op |-> "failure", error |-> Plain(kind)])
  BY <1>4, PlainSound, Zenon
<1>5. CASE \E slotType \in {"logical", "physical"}, resumable \in BOOLEAN, active \in BOOLEAN :
             Calls([op |-> "failure", error |-> validateSlot([slotType |-> slotType, plugin |-> "pgoutput",
                                                              resumable |-> resumable, active |-> active])])
  <2>1. ASSUME NEW slot PROVE Sound(validateSlot(slot))
    <3>1. Sound(Plain("SlotInvalidated")) /\ Sound(Plain("none"))
      BY PlainSound, Zenon DEF NotRetried
    <3>2. Sound(Retryable("SlotInUse"))
      <4>1. Retryable("SlotInUse").kind = "SlotInUse"
        BY DEF Retryable
      <4> QED
        BY <4>1, SoundIf
    <3> QED
      BY <3>1, <3>2, Zenon DEF validateSlot
  <2> QED
    BY <1>5, <2>1, Zenon
<1> QED
  BY <1>2, <1>3, <1>4, <1>5, Zenon DEF CallFailure

\* The next state for the thresholds sampled.
LEMMA NextAnywhere ==
    ASSUME NEW current \in RetentionStates, NEW retained \in Int, NEW budget \in Nat \ {0},
           NEW warn \in {4, 50, 60}, NEW degrade \in {62, 80},
           NEW state, state = nextRetentionState(current, retained, budget, warn, degrade)
    PROVE  /\ state \in RetentionStates
           /\ state = retentionTerminal <=> current = retentionTerminal \/ retained >= budget
           /\ retained < 0 => state = current
<1>1. warn \in Nat /\ degrade \in Nat /\ warn < degrade /\ degrade < 100
  OBVIOUS
<1> QED
  BY <1>1, NextTyped

\* A first sample of the retained WAL, and one more.
LEMMA RetentionMade == CallInv /\ SampleRetention => CallInv'
<1> SUFFICES ASSUME CallInv, SampleRetention PROVE CallInv'
  OBVIOUS
<1>1. SUFFICES call'.op = "retention" /\ RetentionCall'
  BY <1>1 DEF CallInv, SnapshotCall, RelationCall, VisibilityCall, CursorsCall, ReaderCall, DaemonCall, SpecCall, TransientErrorsRetried
<1>2. PICK retained \in Int :
        \/ \E warn \in {4, 50, 60}, degrade \in {62, 80}, server \in {-1, SampleBudget \div 2, SampleBudget + 1} :
             LET budget == effectiveRetentionBudget(SampleBudget, server, server < 0)
             IN  Calls([op |-> "retention", warn |-> warn, degrade |-> degrade, server |-> server, budget |-> budget,
                        was |-> retentionOK, retained |-> retained, reached |-> retained >= Strictest(server),
                        state |-> nextRetentionState(retentionOK, retained, budget, warn, degrade)])
        \/ /\ call.op = "retention"
           /\ call' = [call EXCEPT !.was = call.state, !.retained = retained,
                                   !.reached = @ \/ retained >= Strictest(call.server),
                                   !.state = nextRetentionState(call.state, retained, call.budget, call.warn, call.degrade)]
  <2>1. (-1)..(SampleBudget + 1) \subseteq Int
    OBVIOUS
  <2> QED
    BY <2>1, Zenon DEF SampleRetention
<1>3. ASSUME NEW warn \in {4, 50, 60}, NEW degrade \in {62, 80}
      PROVE  warn \in Nat /\ degrade \in Nat /\ warn < degrade /\ degrade < 100
  OBVIOUS
<1>4. CASE \E warn \in {4, 50, 60}, degrade \in {62, 80}, server \in {-1, SampleBudget \div 2, SampleBudget + 1} :
             LET budget == effectiveRetentionBudget(SampleBudget, server, server < 0)
             IN  Calls([op |-> "retention", warn |-> warn, degrade |-> degrade, server |-> server, budget |-> budget,
                        was |-> retentionOK, retained |-> retained, reached |-> retained >= Strictest(server),
                        state |-> nextRetentionState(retentionOK, retained, budget, warn, degrade)])
  <2>1. PICK warn \in {4, 50, 60}, degrade \in {62, 80}, server \in {-1, SampleBudget \div 2, SampleBudget + 1} :
          LET budget == effectiveRetentionBudget(SampleBudget, server, server < 0)
          IN  Calls([op |-> "retention", warn |-> warn, degrade |-> degrade, server |-> server, budget |-> budget,
                     was |-> retentionOK, retained |-> retained, reached |-> retained >= Strictest(server),
                     state |-> nextRetentionState(retentionOK, retained, budget, warn, degrade)])
    BY <1>4, Zenon
  <2> DEFINE budget == effectiveRetentionBudget(SampleBudget, server, server < 0)
             state == nextRetentionState(retentionOK, retained, budget, warn, degrade)
  <2>2. /\ server \in Int /\ budget \in Nat \ {0}
        /\ budget = Strictest(server)
    BY AlgorithmsAssumption DEF AlgorithmsAssumption, effectiveRetentionBudget, Strictest
  <2>3. retentionOK \in RetentionStates /\ retentionOK # retentionTerminal
    BY DEF RetentionStates, retentionOK, retentionTerminal
  <2>4. state \in RetentionStates /\ (state = retentionTerminal <=> retained >= Strictest(server))
    <3>1. /\ state \in RetentionStates
          /\ state = retentionTerminal <=> retentionOK = retentionTerminal \/ retained >= budget
      <4> HIDE DEF budget
      <4> QED
        BY <2>2, <2>3, NextAnywhere
    <3> QED
      BY <2>2, <2>3, <3>1, Zenon
  <2>5. call' = [op |-> "retention", warn |-> warn, degrade |-> degrade, server |-> server, budget |-> budget,
                 was |-> retentionOK, retained |-> retained, reached |-> retained >= Strictest(server), state |-> state]
    BY <2>1, Zenon DEF Calls
  <2>6. state = nextRetentionState(retentionOK, retained, budget, warn, degrade)
    OBVIOUS
  <2> HIDE DEF budget, state
  <2>7. /\ call'.op = "retention" /\ call'.warn = warn /\ call'.degrade = degrade /\ call'.server = server
        /\ call'.budget = budget /\ call'.was = retentionOK /\ call'.retained = retained /\ call'.state = state
        /\ call'.reached = (retained >= Strictest(server))
    BY <2>5, Zenon
  <2>8. (retained >= Strictest(server)) \in BOOLEAN
    OBVIOUS
  <2>9. call' \in [op : {"retention"}, warn : {4, 50, 60}, degrade : {62, 80}, server : Int, budget : Nat \ {0},
                   was : RetentionStates, retained : Int, reached : BOOLEAN, state : RetentionStates]
    BY <2>2, <2>3, <2>4, <2>5, <2>8, Zenon
  <2> QED
    BY <2>2, <2>4, <2>6, <2>7, <2>9, Zenon DEF RetentionCall
<1>5. CASE /\ call.op = "retention"
           /\ call' = [call EXCEPT !.was = call.state, !.retained = retained,
                                   !.reached = @ \/ retained >= Strictest(call.server),
                                   !.state = nextRetentionState(call.state, retained, call.budget, call.warn, call.degrade)]
  <2> DEFINE state == nextRetentionState(call.state, retained, call.budget, call.warn, call.degrade)
             T == [op : {"retention"}, warn : {4, 50, 60}, degrade : {62, 80}, server : Int, budget : Nat \ {0},
                   was : RetentionStates, retained : Int, reached : BOOLEAN, state : RetentionStates]
  <2>1. /\ call \in T
        /\ call.budget = Strictest(call.server)
        /\ call.state = retentionTerminal <=> call.reached
    BY <1>5, Zenon DEF CallInv, RetentionCall
  <2>2. /\ call.state \in RetentionStates /\ call.budget \in Nat \ {0} /\ call.warn \in {4, 50, 60}
        /\ call.degrade \in {62, 80} /\ call.reached \in BOOLEAN
    BY <2>1, Zenon
  <2> DEFINE reached == call.reached \/ retained >= Strictest(call.server)
  <2>3. state \in RetentionStates /\ (state = retentionTerminal <=> reached) /\ reached \in BOOLEAN
    <3>1. /\ state \in RetentionStates
          /\ state = retentionTerminal <=> call.state = retentionTerminal \/ retained >= call.budget
      BY <2>2, NextAnywhere
    <3> HIDE DEF state
    <3> QED
      BY <2>1, <2>2, <3>1
  <2>4. call' = [call EXCEPT !.was = call.state, !.retained = retained, !.reached = reached, !.state = state]
    BY <1>5
  <2>5. state = nextRetentionState(call.state, retained, call.budget, call.warn, call.degrade)
    OBVIOUS
  <2> HIDE DEF state, reached
  <2>6. /\ call'.op = call.op /\ call'.warn = call.warn /\ call'.degrade = call.degrade
        /\ call'.server = call.server /\ call'.budget = call.budget /\ call'.was = call.state
        /\ call'.retained = retained /\ call'.state = state /\ call'.reached = reached
    BY <2>1, <2>4
  <2>7. call' \in T
    BY <2>1, <2>2, <2>3, <2>4
  <2> QED
    BY <1>5, <2>1, <2>3, <2>5, <2>6, <2>7, Zenon DEF RetentionCall
<1> QED
  BY <1>2, <1>4, <1>5, Zenon

\* A call of a snapshot.
LEMMA SnapshotMade == CallSnapshot => CallInv'
<1> SUFFICES ASSUME CallSnapshot PROVE CallInv'
  OBVIOUS
<1>1. PICK keys \in SUBSET ({1, 2} \X {1, 2}) : \E bodies \in [keys -> {NoBody, 0, 3}] :
        \E batchRows \in 1..3 : \E maxBytes \in {1, 6, 9} :
          Calls([op |-> "snapshot", batchRows |-> batchRows, maxBytes |-> maxBytes,
                 rows |-> {[body |-> Body(bodies[key]), scope |-> Text(key[1]), id |-> Text(key[2])] : key \in keys}])
  BY Zenon DEF CallSnapshot
<1>2. PICK bodies \in [keys -> {NoBody, 0, 3}], batchRows \in 1..3, maxBytes \in {1, 6, 9} :
        Calls([op |-> "snapshot", batchRows |-> batchRows, maxBytes |-> maxBytes,
               rows |-> {[body |-> Body(bodies[key]), scope |-> Text(key[1]), id |-> Text(key[2])] : key \in keys}])
  BY <1>1, Zenon
<1> DEFINE rows == {[body |-> Body(bodies[key]), scope |-> Text(key[1]), id |-> Text(key[2])] : key \in keys}
           more == [key \in {1, 2} \X {1, 2} |-> IF key \in keys THEN bodies[key] ELSE NoBody]
<1>3. call'.op = "snapshot" /\ call'.rows = rows /\ call'.batchRows = batchRows /\ call'.maxBytes = maxBytes
  BY <1>2, Zenon DEF Calls
<1>4. batchRows \in Nat \ {0} /\ maxBytes \in Nat
  OBVIOUS
<1>5. more \in [{1, 2} \X {1, 2} -> Nat \cup {NoBody}] /\ \A key \in keys : more[key] = bodies[key]
  <2>1. \A key \in keys : bodies[key] \in Nat \cup {NoBody}
    OBVIOUS
  <2> QED
    BY <2>1, Zenon
<1> HIDE DEF more
<1>6. rows = ReadOf(keys, more)
  <2>1. \A key \in keys : TableRow(key, more[key]) = [body |-> Body(bodies[key]), scope |-> Text(key[1]), id |-> Text(key[2])]
    BY <1>5, Zenon DEF TableRow
  <2> QED
    BY <2>1, Zenon DEF ReadOf
<1> HIDE DEF rows
<1>7. GoodSnapshot(rows, batchRows, maxBytes)
  BY <1>4, <1>5, <1>6, Zenon DEF GoodSnapshot
<1>8. SnapshotCall'
  BY <1>3, <1>7, Zenon DEF SnapshotCall
<1> QED
  BY <1>3, <1>8 DEF CallInv, RelationCall, VisibilityCall, CursorsCall, ReaderCall, DaemonCall, SpecCall, RetentionCall,
                    TransientErrorsRetried

\* The tables compared are tables.
LEMMA TablesAre ==
    ASSUME NEW t \in Tables
    PROVE  GoodTable(t)
<1> DEFINE Some == UNION {[1..n -> [name : {1, 2}, typeOID : {1, 2}]] : n \in 1..2}
<1>1. /\ t \in [oid : 1..2, replicaIdentity : {"d", "f", "i", "n"}, columns : Some,
                primaryKey : SUBSET {1, 2} \ {{}}, indexed : {{1}, {2}}]
      /\ t.primaryKey \cup t.indexed \subseteq Range(Names(t))
  BY Zenon DEF Tables
<1> HIDE DEF Some
<1>2. t.columns \in Some /\ t.replicaIdentity \in {"d", "f", "i", "n"}
  BY <1>1, Zenon
<1>3. PICK n \in 1..2 : t.columns \in [1..n -> [name : {1, 2}, typeOID : {1, 2}]]
  BY <1>2, Zenon DEF Some
<1>4. t.columns \in Seq(TypedColumn)
  <2> DEFINE columns == t.columns
  <2>1. [name : {1, 2}, typeOID : {1, 2}] \subseteq TypedColumn
    BY DEF TypedColumn
  <2>2. columns \in [1..n -> TypedColumn] /\ n \in Nat
    BY <1>3, <2>1
  <2> HIDE DEF columns
  <2>3. columns \in Seq(TypedColumn)
    BY <2>2
  <2> QED
    BY <2>3, Zenon DEF columns
<1> QED
  BY <1>1, <1>2, <1>4, Zenon DEF GoodTable

\* A call of diff.
LEMMA RelationMade == CallRelation => CallInv'
<1> SUFFICES ASSUME CallRelation PROVE CallInv'
  OBVIOUS
<1>1. PICK was \in Tables, is \in Tables : Calls([op |-> "relation", was |-> was, is |-> is])
  BY Zenon DEF CallRelation
<1>2. call'.op = "relation" /\ call'.was = was /\ call'.is = is
  BY <1>1, Zenon DEF Calls
<1>3. RelationCall'
  BY <1>2, TablesAre, Zenon DEF RelationCall
<1> QED
  BY <1>2, <1>3 DEF CallInv, SnapshotCall, VisibilityCall, CursorsCall, ReaderCall, DaemonCall, SpecCall, RetentionCall,
                    TransientErrorsRetried

\* CallInv is inductive.
LEMMA CallStep == CallInv /\ [Next]_vars => CallInv'
<1> SUFFICES ASSUME CallInv, [Next]_vars PROVE CallInv'
  OBVIOUS
<1>1. CASE call' = call
  BY <1>1, Zenon DEF CallInv, SnapshotCall, RelationCall, VisibilityCall, CursorsCall, ReaderCall, DaemonCall, SpecCall, RetentionCall,
                     TransientErrorsRetried
<1> QED
  BY <1>1, SnapshotMade, RelationMade, VisibilityMade, CursorsMade, ConfigMade, FailureMade, RetentionMade, Zenon
     DEF Next, vars

\* No call has been made.
LEMMA CallInit == Init => CallInv
<1> SUFFICES ASSUME Init PROVE CallInv
  OBVIOUS
<1>1. call.op = "none"
  BY DEF Init, NoCall
<1> QED
  BY <1>1 DEF CallInv, SnapshotCall, RelationCall, VisibilityCall, CursorsCall, ReaderCall, DaemonCall, SpecCall, RetentionCall,
              TransientErrorsRetried

\* Every call is one of those described.
LEMMA CallAlways == Spec => []CallInv
  BY CallInit, CallStep, PTL DEF Spec

-----------------------------------------------------------------------------
(* The properties.                                                            *)

\* VisibilityExact for any width of a transaction ID: Snapshot.Covers skips exactly the
\* streamed transactions whose changes the snapshot's rows contain, on both sides of a
\* wraparound.
THEOREM VisibilityExactAlways == Spec => []VisibilityExact
<1>1. CallInv => VisibilityExact
  <2> SUFFICES ASSUME CallInv, call.op = "visibility"
               PROVE  LET v == parseVisibility(call.xmin, call.xmax, call.xips)
                          xips == Range(call.xips)
                      IN  IF v = Invalid THEN call.xmin > call.xmax \/ ~(xips \subseteq call.xmin .. call.xmax - 1)
                          ELSE includes(v, call.xid % Wrap) <=> call.xid < call.xmax /\ call.xid \notin xips
    BY Zenon DEF VisibilityExact
  <2>1. /\ call.xmin \in Nat /\ call.xmax \in Nat /\ call.xips \in Seq(Nat) /\ call.xid \in Nat
        /\ call.xid \in (call.xmax - Wrap \div 2)..(call.xmax + Wrap \div 2 - 1)
    BY Zenon DEF CallInv, SnapshotCall, RelationCall, VisibilityCall
  <2> QED
    BY <2>1, CoversExact, Zenon
<1> QED
  BY <1>1, CallAlways, PTL

\* SnapshotArrivesWhole for every table of keys tried, page size and message limit:
\* the pages are read in key order and end with the rows, the messages carry each
\* row once within the limit, and what they are put into is the single read.
THEOREM SnapshotArrivesWholeAlways == Spec => []SnapshotArrivesWhole
<1>1. CallInv => SnapshotArrivesWhole
  <2> SUFFICES ASSUME CallInv, call.op = "snapshot" PROVE SnapshotArrivesWhole
    BY Zenon DEF SnapshotArrivesWhole
  <2> DEFINE rows == call.rows
             batchRows == call.batchRows
             max == call.maxBytes
             ids == {1, 2} \X {1, 2}
             pages == scanScopedRows(call.rows, PrimaryKey, call.batchRows)
             messages == Messages(pages, call.maxBytes)
             put == Installed(call.rows, PrimaryKey, call.batchRows, call.maxBytes)
  <2>1. GoodSnapshot(rows, batchRows, max)
    BY Zenon DEF CallInv, SnapshotCall
  <2>2. batchRows \in Nat \ {0} /\ max \in Nat
    BY <2>1, Zenon DEF GoodSnapshot
  <2>3. PICK keys \in SUBSET ids, bodies \in [ids -> Nat \cup {NoBody}] : rows = ReadOf(keys, bodies)
    BY <2>1, Zenon DEF GoodSnapshot
  <2>4. pages = scanScopedRows(rows, PrimaryKey, batchRows) /\ put = Installed(rows, PrimaryKey, batchRows, max)
        /\ messages = Messages(pages, max)
    OBVIOUS
  <2>5. NoError(ids)
    BY AlgorithmsAssumption, Zenon DEF AlgorithmsAssumption, NoError
  <2>6. IsFiniteSet(ids) /\ keys \in SUBSET (Nat \X Nat)
    <3>1. 1 \in Int /\ 2 \in Int /\ 1..2 = {1, 2}
      OBVIOUS
    <3>2. IsFiniteSet(1..2)
      BY <3>1, FS_Interval, Zenon
    <3>3. IsFiniteSet(ids)
      BY <3>1, <3>2, FS_Product, Zenon
    <3> QED
      BY <3>3
  <2>7. \A key \in keys : bodies[key] \in Nat \cup {NoBody}
    BY <2>3, Zenon
  <2> HIDE DEF rows, batchRows, max, ids, pages, messages, put
  <2>8. IsFiniteSet(keys)
    BY <2>6, FS_Subset, Zenon
  <2>9. IsRead(rows, keys, bodies)
    BY <2>3, <2>6, <2>7, <2>8, TableSnap, Zenon
  <2>10. Snap(rows) /\ {RowKey(row) : row \in rows} \subseteq ids
    BY <2>9, Zenon DEF IsRead
  <2>11. /\ pages \in Seq(Seq(rows)) /\ (\A p \in DOMAIN pages : Len(pages[p]) \in 1..batchRows)
         /\ InOrder(pages) /\ Read(pages) = rows
    BY <2>2, <2>4, <2>10, ScanIs, Zenon
  <2>12. SentAll(messages, SentRows(rows), SentRows(rows), max)
    BY <2>2, <2>4, <2>10, <2>11, MessagesAre, Zenon
  <2>13. Holds(put, SentRows(rows))
    BY <2>2, <2>4, <2>5, <2>10, InstalledIs, Zenon
  <2>14. Read(messages) = SentRows(rows) /\ MessagesInOrder(messages)
         /\ \A m \in DOMAIN messages : FitsLimit(messages[m], max)
    BY <2>12, Zenon DEF SentAll
  <2>15. DOMAIN put = {IdOf(row) : row \in SentRows(rows)} /\ \A row \in SentRows(rows) : put[IdOf(row)] = row
    BY <2>13, Zenon DEF Holds
  <2>16. DOMAIN put = {IdOf(row) : row \in Read(messages)} /\ \A row \in Read(messages) : put[IdOf(row)] = row
    BY <2>14, <2>15
  <2>17. /\ UNION {Range(messages[m]) : m \in DOMAIN messages} = {convertRow(row) : row \in call.rows}
         /\ \A m, n \in DOMAIN messages : \A i \in DOMAIN messages[m], j \in DOMAIN messages[n] :
              m < n \/ (m = n /\ i < j) => KeyOrder(IdOf(messages[m][i]), IdOf(messages[n][j]))
    BY <2>14, Zenon DEF Read, SentRows, MessagesInOrder, Later, SentBefore, rows
  <2>18. /\ \A p \in DOMAIN pages : Len(pages[p]) \in 1..call.batchRows
         /\ \A m \in DOMAIN messages :
              Len(messages[m]) = 1 \/ (messages[m] # << >> /\ MessageBytes(messages[m]) <= call.maxBytes)
    BY <2>11, <2>14, Zenon DEF FitsLimit, batchRows, max
  <2>19. LET sent == UNION {Range(messages[m]) : m \in DOMAIN messages}
         IN  DOMAIN put = {IdOf(row) : row \in sent} /\ \A row \in sent : put[IdOf(row)] = row
    BY <2>16, Zenon DEF Read
  <2> QED
    BY <2>17, <2>18, <2>19, Zenon DEF SnapshotArrivesWhole, IdOf, MessageBytes, pages, messages, put
<1> QED
  BY <1>1, CallAlways, PTL

\* The key the catalog says the stream will flag is what it flags: some of the columns.
LEMMA KeyOfTable ==
    ASSUME NEW t, GoodTable(t)
    PROVE  /\ projectionKey(t) = Flagged(t) /\ Flagged(t) \subseteq Range(Names(t))
           /\ Flagged(t) \in SUBSET Nat /\ IsFiniteSet(Flagged(t))
           /\ DOMAIN Names(t) = 1..Len(t.columns) /\ Len(Names(t)) = Len(t.columns) /\ Len(t.columns) \in Nat
<1> DEFINE columns == t.columns
           names == [i \in DOMAIN columns |-> columns[i].name]
           n == Len(columns)
<1>1. columns \in Seq(TypedColumn) /\ t.replicaIdentity \in {"d", "f", "i", "n"}
      /\ t.primaryKey \subseteq Range(Names(t)) /\ t.indexed \subseteq Range(Names(t))
  BY Zenon DEF GoodTable
<1>2. Names(t) = names
  BY Zenon DEF Names
<1> HIDE DEF columns
<1>3. n \in Nat /\ DOMAIN columns = 1..n /\ \A i \in 1..n : columns[i] \in TypedColumn
  BY <1>1
<1>4. \A i \in 1..n : columns[i].name \in Nat
  BY <1>3 DEF TypedColumn
<1>5. names \in [1..n -> Nat] /\ DOMAIN names = 1..n
  BY <1>3, <1>4, Zenon
<1>6. Range(names) = {columns[i].name : i \in DOMAIN columns}
  BY <1>3, <1>5, Zenon DEF Range
<1>7. names \in Seq(Nat) /\ Len(names) = n
  <2> HIDE DEF names, n
  <2> QED
    BY <1>3, <1>5
<1> HIDE DEF names, n
<1>8. Range(names) \in SUBSET Nat /\ IsFiniteSet(Range(names))
  <2>1. names \in Surjection(1..n, Range(names))
    BY <1>5, Zenon DEF Surjection, Range
  <2>2. 1 \in Int /\ n \in Int
    BY <1>3
  <2>3. IsFiniteSet(1..n)
    BY <2>2, FS_Interval, Zenon
  <2>4. Range(names) \in SUBSET Nat
    BY <1>5, Zenon DEF Range
  <2> QED
    BY <2>1, <2>3, <2>4, FS_Surjection, Zenon
<1>9. projectionKey(t) = Flagged(t) /\ Flagged(t) \subseteq Range(Names(t))
  <2>1. Range(Names(t)) = {t.columns[i].name : i \in DOMAIN t.columns}
    BY <1>2, <1>6, Zenon DEF columns
  <2>2. CASE t.replicaIdentity = "d"
    BY <1>1, <2>2 DEF projectionKey, Flagged
  <2>3. CASE t.replicaIdentity = "f"
    <3>1. projectionKey(t) = {t.columns[i].name : i \in DOMAIN t.columns} /\ Flagged(t) = Range(Names(t))
      BY <2>3 DEF projectionKey, Flagged
    <3> QED
      BY <2>1, <3>1, Zenon
  <2>4. CASE t.replicaIdentity = "i"
    BY <1>1, <2>4 DEF projectionKey, Flagged
  <2>5. CASE t.replicaIdentity = "n"
    BY <2>5 DEF projectionKey, Flagged
  <2> QED
    BY <1>1, <2>2, <2>3, <2>4, <2>5, Zenon
<1>10. Flagged(t) \in SUBSET Nat /\ IsFiniteSet(Flagged(t))
  BY <1>2, <1>8, <1>9, FS_Subset, Zenon
<1> QED
  BY <1>2, <1>3, <1>5, <1>7, <1>9, <1>10, Zenon DEF columns, n

\* The Relation message of a table.
RelationOf(t) ==
    [oid |-> t.oid, replicaIdentity |-> t.replicaIdentity,
     columns |-> [i \in DOMAIN t.columns |->
                    [name |-> t.columns[i].name, typeOID |-> t.columns[i].typeOID,
                     flag |-> t.columns[i].name \in Flagged(t)]]]

\* Its shape is the table's.
LEMMA ShapeIs ==
    ASSUME NEW t, GoodTable(t)
    PROVE  LET shape == shapeOfRelation(RelationOf(t))
           IN  /\ shape.oid = t.oid /\ shape.replicaIdentity = t.replicaIdentity
               /\ shape.columns = t.columns /\ shape.key = Sorted(Flagged(t))
<1> DEFINE columns == t.columns
           flagged == Flagged(t)
           sent == [i \in DOMAIN columns |-> [name |-> columns[i].name, typeOID |-> columns[i].typeOID,
                                              flag |-> columns[i].name \in flagged]]
           key == {sent[i].name : i \in {j \in DOMAIN sent : sent[j].flag}}
           plain == [i \in DOMAIN sent |-> [name |-> sent[i].name, typeOID |-> sent[i].typeOID]]
           shape == shapeOfRelation(RelationOf(t))
<1>1. RelationOf(t).columns = sent /\ RelationOf(t).oid = t.oid /\ RelationOf(t).replicaIdentity = t.replicaIdentity
  BY Zenon DEF RelationOf
<1>2. shape = [oid |-> t.oid, replicaIdentity |-> t.replicaIdentity, columns |-> plain, key |-> Sorted(key)]
  <2> HIDE DEF sent
  <2> QED
    BY <1>1, Zenon DEF shapeOfRelation
<1>3. columns \in Seq(TypedColumn)
  BY Zenon DEF GoodTable
<1>4. flagged \subseteq {columns[i].name : i \in DOMAIN columns}
  <2>1. Flagged(t) \subseteq Range(Names(t))
    BY KeyOfTable, Zenon
  <2>2. Range(Names(t)) = {t.columns[i].name : i \in DOMAIN t.columns}
    BY Zenon DEF Names, Range
  <2> QED
    BY <2>1, <2>2, Zenon
<1> HIDE DEF columns, flagged, shape
<1>5. /\ DOMAIN sent = DOMAIN columns
      /\ \A i \in DOMAIN columns : /\ sent[i].name = columns[i].name /\ sent[i].typeOID = columns[i].typeOID
                                   /\ (sent[i].flag <=> columns[i].name \in flagged)
  BY Zenon
<1> HIDE DEF sent
<1>6. key = flagged
  <2>1. \A name \in key : name \in flagged
    BY <1>5, Zenon
  <2>2. \A name \in flagged : \E i \in DOMAIN columns : name = columns[i].name
    BY <1>4, Zenon
  <2>3. ASSUME NEW name \in flagged PROVE name \in key
    <3>1. PICK i \in DOMAIN columns : name = columns[i].name
      BY <2>2, Zenon
    <3>2. i \in {j \in DOMAIN sent : sent[j].flag} /\ sent[i].name = name
      BY <1>5, <3>1, Zenon
    <3> QED
      BY <3>2, Zenon
  <2> QED
    BY <2>1, <2>3, Zenon
<1>7. plain = columns
  <2>1. \A i \in DOMAIN columns : columns[i] \in TypedColumn
    BY <1>3
  <2>2. \A i \in DOMAIN columns : [name |-> columns[i].name, typeOID |-> columns[i].typeOID] = columns[i]
    BY <2>1 DEF TypedColumn
  <2>3. plain = [i \in DOMAIN columns |-> columns[i]]
    BY <1>5, <2>2, Zenon
  <2>4. columns = [i \in DOMAIN columns |-> columns[i]]
    BY <1>3
  <2> QED
    BY <2>3, <2>4, Zenon
<1> HIDE DEF key, plain
<1>8. shape.oid = t.oid /\ shape.replicaIdentity = t.replicaIdentity /\ shape.columns = plain /\ shape.key = Sorted(key)
  BY <1>2
<1> QED
  BY <1>6, <1>7, <1>8, Zenon DEF shape, columns, flagged

\* Of the same columns, the same are flagged exactly if decoding depends on the same.
LEMMA SameInfo ==
    ASSUME NEW names, NEW n \in Nat, Len(names) = n, DOMAIN names = 1..n,
           NEW key, NEW other, key \subseteq Range(names), other \subseteq Range(names),
           newRelationInfo(names, key) = newRelationInfo(names, other)
    PROVE  key = other
<1>1. {i \in 1..n : names[i] \in key} = {i \in 1..n : names[i] \in other}
  BY KeyIndexesAre
<1>2. \A name \in Range(names) : \E i \in 1..n : name = names[i]
  BY Zenon DEF Range
<1>3. \A name \in Range(names) : name \in key <=> name \in other
  <2> TAKE name \in Range(names)
  <2>1. PICK i \in 1..n : name = names[i]
    BY <1>2, Zenon
  <2>2. i \in {l \in 1..n : names[l] \in key} <=> i \in {l \in 1..n : names[l] \in other}
    BY <1>1, Zenon
  <2> QED
    BY <2>1, <2>2, Zenon
<1> QED
  BY <1>3, Zenon

\* DiffFindsChange for all tables tried: a Relation message differs from the shape read
\* from the catalog exactly if the table, its replica identity, its columns or its key do.
THEOREM DiffFindsChangeAlways == Spec => []DiffFindsChange
<1>1. CallInv => DiffFindsChange
  <2> SUFFICES ASSUME CallInv, call.op = "relation" PROVE DiffFindsChange
    BY Zenon DEF DiffFindsChange
  <2> DEFINE was == call.was
             is == call.is
             s == projectionShape(was)
             t == shapeOfRelation(RelationOf(is))
  <2>1. GoodTable(was) /\ GoodTable(is)
    BY Zenon DEF CallInv, RelationCall
  <2> HIDE DEF was, is
  <2>2. /\ s.oid = was.oid /\ s.replicaIdentity = was.replicaIdentity /\ s.columns = was.columns
        /\ s.key = Sorted(projectionKey(was))
    BY DEF projectionShape
  <2>3. /\ projectionKey(was) = Flagged(was)
        /\ Flagged(was) \subseteq Range(Names(was)) /\ Flagged(was) \in SUBSET Nat /\ IsFiniteSet(Flagged(was))
        /\ DOMAIN Names(was) = 1..Len(was.columns) /\ Len(Names(was)) = Len(was.columns) /\ Len(was.columns) \in Nat
        /\ Flagged(is) \subseteq Range(Names(is)) /\ Flagged(is) \in SUBSET Nat /\ IsFiniteSet(Flagged(is))
    BY <2>1, KeyOfTable, Zenon
  <2>4. /\ t.oid = is.oid /\ t.replicaIdentity = is.replicaIdentity /\ t.columns = is.columns
        /\ t.key = Sorted(Flagged(is))
    BY <2>1, ShapeIs, Zenon
  <2>5. was.columns \in Seq(TypedColumn) /\ is.columns \in Seq(TypedColumn)
    BY <2>1, Zenon DEF GoodTable
  <2> HIDE DEF s, t
  <2>6. diff(s, t) = "" <=>
          s.oid = t.oid /\ s.replicaIdentity = t.replicaIdentity /\ s.key = t.key /\ s.columns = t.columns
    BY <2>2, <2>4, <2>5, DiffIs, Zenon
  <2>7. s.key = t.key <=> Flagged(was) = Flagged(is)
    <3>1. Range(Sorted(Flagged(was))) = Flagged(was) /\ Range(Sorted(Flagged(is))) = Flagged(is)
      BY <2>3, SortedIs, Zenon
    <3> QED
      BY <2>2, <2>3, <2>4, <3>1, Zenon
  <2>8. was.columns = is.columns =>
          (Flagged(was) = Flagged(is) <=>
             newRelationInfo(Names(was), Flagged(was)) = newRelationInfo(Names(is), Flagged(is)))
    <3> SUFFICES ASSUME was.columns = is.columns
                 PROVE  Flagged(was) = Flagged(is) <=>
                          newRelationInfo(Names(was), Flagged(was)) = newRelationInfo(Names(is), Flagged(is))
      BY Zenon
    <3>1. Names(was) = Names(is)
      BY Zenon DEF Names
    <3>2. newRelationInfo(Names(was), Flagged(was)) = newRelationInfo(Names(was), Flagged(is)) => Flagged(was) = Flagged(is)
      BY <2>3, <3>1, SameInfo, Zenon
    <3> QED
      BY <3>1, <3>2, Zenon
  <2>9. diff(s, t) = "" <=>
          /\ was.oid = is.oid /\ was.replicaIdentity = is.replicaIdentity /\ was.columns = is.columns
          /\ newRelationInfo(Names(was), Flagged(was)) = newRelationInfo(Names(is), Flagged(is))
    BY <2>2, <2>4, <2>6, <2>7, <2>8, Zenon
  <2> QED
    BY <2>9, Zenon DEF DiffFindsChange, RelationOf, s, t, was, is
<1> QED
  BY <1>1, CallAlways, PTL

\* RetentionSettles for any budget: the retention state is terminal exactly from the
\* first sample at the stricter budget on; until then it follows a rise at once and a
\* fall only past the hysteresis.
THEOREM RetentionSettlesAlways == Spec => []RetentionSettles
<1>1. CallInv => RetentionSettles
  <2> SUFFICES ASSUME CallInv, call.op = "retention" PROVE RetentionSettles
    BY Zenon DEF RetentionSettles
  <2> DEFINE budget == Strictest(call.server)
             percent == (100 * call.retained) \div budget
  <2>1. /\ call \in [op : {"retention"}, warn : {4, 50, 60}, degrade : {62, 80}, server : Int, budget : Nat \ {0},
                     was : RetentionStates, retained : Int, reached : BOOLEAN, state : RetentionStates]
        /\ call.budget = budget
        /\ call.state = nextRetentionState(call.was, call.retained, budget, call.warn, call.degrade)
        /\ call.state = retentionTerminal <=> call.reached
    BY Zenon DEF CallInv, RetentionCall
  <2> HIDE DEF budget
  <2>2. /\ call.was \in RetentionStates /\ call.retained \in Int /\ budget \in Nat \ {0}
        /\ call.warn \in {4, 50, 60} /\ call.degrade \in {62, 80}
    BY <2>1, Zenon
  <2>3. /\ call.warn \in Nat /\ call.degrade \in Nat /\ call.warn < call.degrade /\ call.degrade < 100
    BY <2>2
  <2>4. /\ call.retained < 0 => call.state = call.was
        /\ call.was = retentionTerminal => call.state = retentionTerminal
    BY <2>1, <2>2, NextAnywhere
  <2>5. ASSUME call.retained >= 0, ~call.reached
        PROVE  SettledAt(call.was, call.retained, percent, call.warn, call.degrade, call.state)
    <3>1. call.retained \in Nat /\ call.was # retentionTerminal
      BY <2>1, <2>2, <2>4, <2>5
    <3>2. SettledAt(call.was, call.retained, percent, call.warn, call.degrade,
                    nextRetentionState(call.was, call.retained, budget, call.warn, call.degrade))
      BY <2>2, <2>3, <3>1, NextSettles
    <3> QED
      BY <2>1, <3>2
  <2> QED
    BY <2>1, <2>4, <2>5, Zenon DEF RetentionSettles, SettledAt, Threshold, budget
<1> QED
  BY <1>1, CallAlways, PTL

\* TransientErrorsRetried: no error the reader would retry ends in a status a client
\* gives up on.
THEOREM TransientErrorsRetriedAlways == Spec => []TransientErrorsRetried
<1>1. CallInv => TransientErrorsRetried
  BY DEF CallInv
<1> QED
  BY <1>1, CallAlways, PTL

\* CursorsAgree for any positions: a cursor survives the wire and one of another source
\* is refused; CompareCursors agrees with Compare; MinCursor is the earliest.
THEOREM CursorsAgreeAlways == Spec => []CursorsAgree
<1>1. CallInv => CursorsAgree
  <2> SUFFICES ASSUME CallInv, call.op = "cursors" PROVE CursorsAgree
    BY Zenon DEF CursorsAgree
  <2> DEFINE T == [sourceID : ValidIDs, lsn : Nat]
             server == call.server
             cursors == call.cursors
             wire(c) == encodeCursor(c.sourceID, c)
             least == MinCursor(cursors)
  <2>1. server \in ValidIDs /\ cursors \in Seq(T)
    BY Zenon DEF CallInv, CursorsCall
  <2>2. \A id \in ValidIDs : id \in Seq(Int) /\ ValidSourceID(id)
    BY IDsTyped, Zenon DEF ValidIDs
  <2>3. /\ \A c \in T : c.sourceID \in ValidIDs /\ c.lsn \in Nat /\ c = Cursor(c.sourceID, c.lsn)
        /\ Range(cursors) \subseteq T /\ Range(cursors) = {cursors[i] : i \in DOMAIN cursors}
    <3>1. \A c \in T : c.sourceID \in ValidIDs /\ c.lsn \in Nat /\ c = Cursor(c.sourceID, c.lsn)
      BY DEF Cursor
    <3> HIDE DEF T
    <3>2. Range(cursors) \subseteq T
      BY <2>1 DEF Range
    <3>3. Range(cursors) = {cursors[i] : i \in DOMAIN cursors}
      BY Zenon DEF Range
    <3> QED
      BY <3>1, <3>2, <3>3
  <2>4. Invalid \notin T /\ Invalid \notin {-1, 0, 1}
    <3>1. Invalid \notin [sourceID : Seq(Int), lsn : Nat] /\ Invalid \notin {-1, 0, 1}
      BY PositionsAssumption, Zenon DEF PositionsAssumption
    <3>2. T \subseteq [sourceID : Seq(Int), lsn : Nat]
      BY <2>2
    <3> QED
      BY <3>1, <3>2, Zenon
  <2>5. ASSUME NEW c \in T PROVE decodeCursor(server, wire(c)) = IF c.sourceID = server THEN c ELSE Invalid
    <3>1. /\ c.sourceID \in Seq(Int) /\ ValidSourceID(c.sourceID) /\ server \in Seq(Int) /\ c.lsn \in Nat
          /\ c = Cursor(c.sourceID, c.lsn)
      BY <2>1, <2>2, <2>3, Zenon
    <3>2. decodeCursor(server, encodeCursor(c.sourceID, Cursor(c.sourceID, c.lsn))) =
            IF c.sourceID = server THEN Cursor(c.sourceID, c.lsn) ELSE Invalid
      BY <3>1, RoundTrip, Zenon
    <3> QED
      BY <3>1, <3>2, Zenon
  <2>6. ASSUME NEW c \in T, NEW d \in T
        PROVE  /\ c.sourceID = server => CompareCursors(server, wire(c), wire(d)) = Compare(c, d)
               /\ BytesAfter(c, d) > 0 <=> c.sourceID = d.sourceID /\ Compare(c, d) = 1
    <3>1. c # Invalid /\ d # Invalid
      BY <2>4, Zenon
    <3>2. ASSUME c.sourceID = server PROVE CompareCursors(server, wire(c), wire(d)) = Compare(c, d)
      <4>1. decodeCursor(server, wire(c)) = c
        BY <2>5, <3>2, Zenon
      <4>2. CASE d.sourceID = server
        <5>1. decodeCursor(server, wire(d)) = d
          BY <2>5, <4>2, Zenon
        <5> QED
          BY <3>1, <4>1, <5>1, Zenon DEF CompareCursors
      <4>3. CASE d.sourceID # server
        <5>1. decodeCursor(server, wire(d)) = Invalid
          BY <2>5, <4>3, Zenon
        <5> QED
          BY <3>2, <4>3, <5>1, Zenon DEF CompareCursors, Compare
      <4> QED
        BY <4>2, <4>3, Zenon
    <3>3. BytesAfter(c, d) > 0 <=> c.sourceID = d.sourceID /\ Compare(c, d) = 1
      <4>1. c.lsn \in Nat /\ d.lsn \in Nat
        BY <2>3, Zenon
      <4> HIDE DEF T
      <4> QED
        BY <4>1 DEF BytesAfter, Compare
    <3> QED
      BY <3>2, <3>3, Zenon
  <2>7. IF least = Invalid THEN Cardinality({c.sourceID : c \in Range(cursors)}) # 1
        ELSE least \in Range(cursors) /\ \A c \in Range(cursors) : c.sourceID = least.sourceID /\ least.lsn <= c.lsn
    <3>1. CASE cursors = << >>
      <4>1. least = Invalid
        BY <3>1, Zenon DEF MinCursor
      <4> QED
        BY <2>1, <3>1, <4>1, SourcesCounted, Zenon
    <3>2. CASE cursors # << >>
      <4>1. \/ least = Invalid /\ \E i \in DOMAIN cursors : cursors[i].sourceID # cursors[1].sourceID
            \/ /\ least # Invalid /\ least \in Range(cursors)
               /\ \A i \in DOMAIN cursors : cursors[i].sourceID = least.sourceID /\ least.lsn <= cursors[i].lsn
        BY <2>1, <2>4, <3>2, MinCursorLeast, Zenon
      <4>2. CASE least = Invalid /\ \E i \in DOMAIN cursors : cursors[i].sourceID # cursors[1].sourceID
        BY <2>1, <4>2, SourcesCounted, Zenon
      <4>3. CASE /\ least # Invalid /\ least \in Range(cursors)
                 /\ \A i \in DOMAIN cursors : cursors[i].sourceID = least.sourceID /\ least.lsn <= cursors[i].lsn
        BY <2>3, <4>3, Zenon
      <4> QED
        BY <4>1, <4>2, <4>3, Zenon
    <3> QED
      BY <3>1, <3>2, Zenon
  <2> HIDE DEF T
  <2> QED
    BY <2>3, <2>5, <2>6, <2>7, Zenon DEF CursorsAgree
<1> QED
  BY <1>1, CallAlways, PTL

\* ConfigIsSafe: what the other parts rely on follows from an accepted configuration.
THEOREM ConfigIsSafeAlways == Spec => []ConfigIsSafe
<1>1. CallInv => ConfigIsSafe
  <2> SUFFICES ASSUME CallInv PROVE ConfigIsSafe
    OBVIOUS
  <2>0. Randoms \in SUBSET (0..99)
    BY DEF Randoms
  <2>1. ASSUME call.op = "reader", validateReaderConfig(normalizeReaderConfig(call.config))
        PROVE  SafeSettings(normalizeReaderConfig(call.config), Randoms)
    <3>1. normalizeReaderConfig(call.config) \in [Fields -> Int]
      BY <2>1, NormalTyped, Zenon DEF CallInv, ReaderCall
    <3> QED
      BY <2>0, <2>1, <3>1, ValidIsSafe, Zenon
  <2>2. ASSUME call.op = "daemon", configValid(parseConfig(call.config))
        PROVE  LET config == parseConfig(call.config)
                   id == config.sourceID
               IN  /\ SafeSettings(normalizeReaderConfig(readerConfig(config)), Randoms)
                   /\ config.shutdownTimeout > 0
                   /\ decodeCursor(id, encodeCursor(id, Cursor(id, 1))) = Cursor(id, 1)
    <3> DEFINE config == parseConfig(call.config)
               id == config.sourceID
    <3>1. call.config \in [databaseURL : {"url"}, listenAddress : {"addr"}, specs : SUBSET Specs, sourceID : SourceIDs,
                           shutdownTimeout : {0}, warn : Nat, degrade : Nat, maxRetained : Int, sampleInterval : {0},
                           ops : [mutexProfileFraction : Int, blockProfileRate : Int, pprof : BOOLEAN,
                                  listenAddress : {"addr"}]]
      BY <2>2, Zenon DEF CallInv, DaemonCall
    <3>2. /\ config.sourceID = call.config.sourceID /\ config.shutdownTimeout = 10
          /\ config.warn = call.config.warn /\ config.degrade = call.config.degrade
          /\ config.maxRetained = call.config.maxRetained /\ config.sampleInterval = call.config.sampleInterval
      BY <3>1 DEF parseConfig
    <3>3. /\ id \in SourceIDs /\ config.warn \in Int /\ config.degrade \in Int /\ config.maxRetained \in Int
          /\ config.sampleInterval \in Int
      BY <3>1, <3>2
    <3> HIDE DEF config
    <3>4. /\ validateReaderConfig(normalizeReaderConfig(readerConfig(config)))
          /\ ValidSourceID(id)
      BY <2>2, Zenon DEF configValid, config
    <3>5. normalizeReaderConfig(readerConfig(config)) \in [Fields -> Int]
      BY <3>3, ReaderConfigTyped, NormalTyped, Zenon
    <3>6. SafeSettings(normalizeReaderConfig(readerConfig(config)), Randoms)
      BY <2>0, <3>4, <3>5, ValidIsSafe, Zenon
    <3>7. decodeCursor(id, encodeCursor(id, Cursor(id, 1))) = Cursor(id, 1)
      <4>1. id \in Seq(Int) /\ 1 \in Nat
        BY <3>3, IDsTyped
      <4> QED
        BY <3>4, <4>1, RoundTrip, Zenon
    <3>8. config.shutdownTimeout > 0
      BY <3>2
    <3> QED
      BY <3>6, <3>7, <3>8, Zenon DEF config
  <2>3. ASSUME call.op = "spec", validatePublication(call.publication), validateProjectionSpecConfig(call.spec),
               validateProjectionSpec(call.spec, call.table)
        PROVE  /\ call.spec.scopeColumn \in Range(call.table.primaryKey)
               /\ Range(call.table.primaryKey) = Range(call.spec.primaryKey)
               /\ call.publication.operations = {"insert", "update", "delete"}
    <3>1. /\ call.spec \in Specs /\ call.publication.operations \subseteq {"insert", "update", "delete"}
          /\ call.table.primaryKey \in Seq({"s", "i"})
      BY <2>3, Zenon DEF CallInv, SpecCall
    <3>2. call.publication.operations = {"insert", "update", "delete"}
      BY <2>3, <3>1 DEF validatePublication
    <3>3. call.spec.primaryKey \in Seq({"s", "i"})
      <4>1. call.spec.primaryKey \in {<< "s", "i" >>, << "i" >>, << "s", "s" >>}
        BY <3>1 DEF Specs
      <4>2. << "s", "i" >> \in Seq({"s", "i"}) /\ << "i" >> \in Seq({"s", "i"}) /\ << "s", "s" >> \in Seq({"s", "i"})
        OBVIOUS
      <4> QED
        BY <4>1, <4>2, Zenon
    <3> QED
      BY <2>3, <3>1, <3>2, <3>3, SpecKey, Zenon
  <2> QED
    BY <2>1, <2>2, <2>3, Zenon DEF ConfigIsSafe, SafeSettings
<1> QED
  BY <1>1, CallAlways, PTL

-----------------------------------------------------------------------------
(* The row path, stepped by Algorithms as it is.                              *)

\* The invariant of the row path holds in every behaviour: a call leaves the rows alone.
LEMMA RowsAlways == Spec => []RowInv
<1>1. Init => RowInv
  BY RowInvInit, Zenon DEF Init
<1>2. ASSUME RowInv, [Next]_vars PROVE RowInv'
  <2>1. RowStep \/ UNCHANGED rowVars
    <3>1. CASE CallVisibility
      BY <3>1, Zenon DEF CallVisibility, Calls
    <3>2. CASE CallCursors
      BY <3>2, Zenon DEF CallCursors, Calls
    <3>3. CASE CallSnapshot
      BY <3>3, Zenon DEF CallSnapshot, Calls
    <3>4. CASE CallRelation
      BY <3>4, Zenon DEF CallRelation, Calls
    <3>5. CASE CallConfig
      BY <3>5, Zenon DEF CallConfig, Calls
    <3>6. CASE CallFailure
      BY <3>6, Zenon DEF CallFailure, Calls
    <3>7. CASE SampleRetention
      BY <3>7, Zenon DEF SampleRetention, Calls
    <3> QED
      BY <1>2, <3>1, <3>2, <3>3, <3>4, <3>5, <3>6, <3>7, Zenon DEF Next, vars
  <2> QED
    BY <1>2, <2>1, RowInvStep, Zenon
<1> QED
  BY <1>1, <1>2, PTL DEF Spec

\* StoreMirrorsTable for any texts, limits, page and message sizes and any number of
\* transactions: at its latest position the client holds the table's rows of its scope,
\* through decoding, routing, conversion, packing, TOAST and batches applied again.
THEOREM StoreMirrorsTableAlways == Spec => []StoreMirrorsTable
  BY RowInvGives, RowsAlways, PTL

\* RefusedExactly for any texts, limits and table: the decoder and the store refuse a
\* change for what v0 does not support in it, and accept every other one.
THEOREM RefusedExactlyAlways == Spec => []RefusedExactly
  BY RowInvGives, RowsAlways, PTL

\* PendingBounded for any limits: the decoder's transaction and the values it lets past.
THEOREM PendingBoundedAlways == Spec => []PendingBounded
  BY RowInvGives, RowsAlways, PTL
================================================================================
