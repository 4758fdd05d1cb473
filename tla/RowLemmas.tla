------------------------------- MODULE RowLemmas -------------------------------
(*******************************************************************************)
(* What the operators of RowCodec, RowStore and Relations return, and what the *)
(* steps of RowPath do, for any table, texts, limits, page and message sizes:  *)
(* what the decoder makes of every change, what a snapshot reads, sends and    *)
(* installs, and when two shapes of a table differ.  The loops of the model    *)
(* are recursive functions; each is shown to be defined, and what its turns    *)
(* keep is carried by Turns.                                                   *)
(*******************************************************************************)
EXTENDS RowPath, Relations, FiniteSetTheorems, TLAPS

-----------------------------------------------------------------------------
(* Loops.                                                                     *)

\* A set of naturals has a least element.
LEMMA LeastNatural ==
    ASSUME NEW S, S \subseteq Nat, S # {}
    PROVE  \E m \in S : \A l \in S : m <= l
<1> DEFINE R == OpToRel(<, Nat)
<1>1. IsWellFoundedOn(R, Nat)
  BY NatLessThanWellFounded
<1>2. PICK x \in S : \A y \in S : <<y, x>> \notin R
  <2> HIDE DEF R
  <2> QED
    BY <1>1, WFMin
<1>3. \A y \in S : ~(y < x)
  BY <1>2 DEF OpToRel
<1> QED
  BY <1>3

\* What holds before a loop and is kept by each of its n turns holds after it.
LEMMA Turns ==
    ASSUME NEW n \in Nat, NEW S, 0 \in S, \A i \in 1..n : i - 1 \in S => i \in S
    PROVE  0..n \subseteq S
<1> DEFINE Missing == {i \in 0..n : i \notin S}
<1> SUFFICES ASSUME Missing # {} PROVE FALSE
  OBVIOUS
<1>1. PICK m \in Missing : \A l \in Missing : m <= l
  <2>1. Missing \subseteq Nat
    OBVIOUS
  <2> HIDE DEF Missing
  <2> QED
    BY <2>1, LeastNatural, Zenon
<1>2. m \in 1..n /\ m - 1 \in 0..n /\ ~(m <= m - 1)
  OBVIOUS
<1> QED
  BY <1>1, <1>2, Zenon

\* Two sequences are equal when their elements are.
LEMMA SameSeq ==
    ASSUME NEW S, NEW n, NEW s \in Seq(S), NEW t \in Seq(S), Len(s) = n, Len(t) = n, \A i \in 1..n : s[i] = t[i]
    PROVE  s = t
OBVIOUS

\* Short sequences, built one element after the other.
LEMMA Appended ==
    ASSUME NEW S, NEW a \in S, NEW b \in S, NEW c \in S
    PROVE  /\ Append(<< >>, a) = << a >>
           /\ Append(<< a >>, b) = << a, b >>
           /\ Append(<< a, b >>, c) = << a, b, c >>
<1>1. Append(<< >>, a) = << a >>
  OBVIOUS
<1>2. Append(<< a >>, b) = << a, b >>
  <2> DEFINE s == Append(<< a >>, b)
             t == << a, b >>
  <2>1. s \in Seq(S) /\ t \in Seq(S) /\ Len(s) = 2 /\ Len(t) = 2 /\ s[1] = t[1] /\ s[2] = t[2]
    OBVIOUS
  <2>2. \A i \in 1..2 : i = 1 \/ i = 2
    OBVIOUS
  <2> HIDE DEF s, t
  <2>3. \A i \in 1..2 : s[i] = t[i]
    BY <2>1, <2>2, Zenon
  <2>4. s = t
    BY <2>1, <2>3, SameSeq, Zenon
  <2> QED
    BY <2>4 DEF s, t
<1>3. Append(<< a, b >>, c) = << a, b, c >>
  <2> DEFINE s == Append(<< a, b >>, c)
             t == << a, b, c >>
  <2>1. s \in Seq(S) /\ t \in Seq(S) /\ Len(s) = 3 /\ Len(t) = 3 /\ s[1] = t[1] /\ s[2] = t[2] /\ s[3] = t[3]
    OBVIOUS
  <2>2. \A i \in 1..3 : i = 1 \/ i = 2 \/ i = 3
    OBVIOUS
  <2> HIDE DEF s, t
  <2>3. \A i \in 1..3 : s[i] = t[i]
    BY <2>1, <2>2, Zenon
  <2>4. s = t
    BY <2>1, <2>3, SameSeq, Zenon
  <2> QED
    BY <2>4 DEF s, t
<1> QED
  BY <1>1, <1>2, <1>3, Zenon

\* A loop of n turns over a state of A: f holds the state after each turn.
Loop(f, n, A, base, step) ==
    f \in [0..n -> A] /\ f[0] = base /\ \A i \in 1..n : f[i] = step[i][f[i - 1]]

\* A loop ends.
LEMMA LoopEnds ==
    ASSUME NEW A, NEW base \in A, NEW n \in Nat, NEW step \in [1..n -> [A -> A]]
    PROVE  \E f : Loop(f, n, A, base, step)
<1> DEFINE Done(m) == \E f \in [0..m -> A] : f[0] = base /\ \A i \in 1..m : f[i] = step[i][f[i - 1]]
           S == {m \in 0..n : Done(m)}
<1>1. 0 \in S
  <2> DEFINE f == [i \in 0..0 |-> base]
  <2>1. f \in [0..0 -> A] /\ f[0] = base /\ 1..0 = {} /\ 0 \in 0..n
    OBVIOUS
  <2> HIDE DEF f
  <2> QED
    BY <2>1, Zenon
<1>2. ASSUME NEW m \in 1..n, m - 1 \in S PROVE m \in S
  <2>1. PICK f \in [0..(m - 1) -> A] : f[0] = base /\ \A i \in 1..(m - 1) : f[i] = step[i][f[i - 1]]
    BY <1>2, Zenon
  <2> DEFINE g == [i \in 0..m |-> IF i = m THEN step[m][f[m - 1]] ELSE f[i]]
  <2>2. m - 1 \in 0..(m - 1) /\ \A i \in 0..m : i # m => i \in 0..(m - 1)
    OBVIOUS
  <2>3. f[m - 1] \in A /\ step[m] \in [A -> A]
    BY <2>2, Zenon
  <2>4. step[m][f[m - 1]] \in A
    BY <2>3, Zenon
  <2>5. g \in [0..m -> A]
    BY <2>2, <2>4, Zenon
  <2>6. 0 \in 0..m /\ 0 # m
    OBVIOUS
  <2>7. g[0] = base
    BY <2>1, <2>6, Zenon
  <2>8. ASSUME NEW i \in 1..m PROVE g[i] = step[i][g[i - 1]]
    <3>1. i \in 0..m /\ i - 1 \in 0..m /\ i - 1 # m /\ (i # m => i \in 1..(m - 1))
      OBVIOUS
    <3> QED
      BY <2>1, <3>1, Zenon
  <2>9. m \in 0..n
    OBVIOUS
  <2> HIDE DEF g
  <2> QED
    BY <2>5, <2>7, <2>8, <2>9, Zenon
<1>3. 0..n \subseteq S
  <2> HIDE DEF S
  <2> QED
    BY <1>1, <1>2, Turns, Zenon
<1>4. n \in 0..n
  OBVIOUS
<1> QED
  BY <1>3, <1>4, Zenon DEF Loop

\* The replica-identity columns by position: what newRelationInfo's loop appends.
KeyLoop(f, columns, flagged, n) ==
    [i \in 0..n |-> IF i = 0 THEN << >>
                    ELSE IF columns[i] \in flagged THEN Append(f[i - 1], i) ELSE f[i - 1]]

\* The loop of newRelationInfo, turn by turn.
KeysFound(f, columns, flagged, n) ==
    /\ f[0] = << >>
    /\ \A i \in 1..n : f[i] = IF columns[i] \in flagged THEN Append(f[i - 1], i) ELSE f[i - 1]
    /\ newRelationInfo(columns, flagged) = [columns |-> columns, keyIndexes |-> f[n]]

\* The loop ends with the positions found.
LEMMA KeyTurns ==
    ASSUME NEW columns, NEW n \in Nat, Len(columns) = n, NEW flagged
    PROVE  \E f : KeysFound(f, columns, flagged, n)
<1> DEFINE A == Seq(Nat)
           step == [i \in 1..n |-> [a \in A |-> IF columns[i] \in flagged THEN Append(a, i) ELSE a]]
<1>1. step \in [1..n -> [A -> A]] /\ << >> \in A
  OBVIOUS
<1>2. PICK g : Loop(g, n, A, << >>, step)
  <2> HIDE DEF step, A
  <2> QED
    BY <1>1, LoopEnds, Zenon
<1>3. g = KeyLoop(g, columns, flagged, n)
  <2>1. g \in [0..n -> A] /\ g[0] = << >> /\ \A i \in 1..n : g[i] = step[i][g[i - 1]]
    BY <1>2, Zenon DEF Loop
  <2>2. ASSUME NEW i \in 0..n
        PROVE  g[i] = IF i = 0 THEN << >> ELSE IF columns[i] \in flagged THEN Append(g[i - 1], i) ELSE g[i - 1]
    <3>1. i # 0 => i \in 1..n /\ i - 1 \in 0..n
      OBVIOUS
    <3> HIDE DEF A
    <3> QED
      BY <2>1, <3>1, Zenon
  <2> HIDE DEF A, step
  <2> QED
    BY <2>1, <2>2, Zenon DEF KeyLoop
<1> DEFINE f == CHOOSE f : f = KeyLoop(f, columns, flagged, n)
<1>4. f = KeyLoop(f, columns, flagged, n)
  BY <1>3, Zenon
<1>5. newRelationInfo(columns, flagged) = [columns |-> columns, keyIndexes |-> f[n]]
  BY Zenon DEF newRelationInfo, KeyLoop
<1> HIDE DEF f
<1>6. 0 \in 0..n /\ \A i \in 1..n : i \in 0..n /\ i # 0
  OBVIOUS
<1>7. f[0] = << >>
  BY <1>4, <1>6, Zenon DEF KeyLoop
<1>8. ASSUME NEW i \in 1..n
      PROVE  f[i] = IF columns[i] \in flagged THEN Append(f[i - 1], i) ELSE f[i - 1]
  BY <1>4, <1>6, Zenon DEF KeyLoop
<1> QED
  BY <1>5, <1>7, <1>8, Zenon DEF KeysFound

-----------------------------------------------------------------------------
(* The decoder.                                                               *)

\* The positions and the names of the key columns.
KeyPositions ==
    CASE identity = "default" -> << 2, 3 >>
      [] identity = "full" -> << 1, 2, 3 >>
      [] identity = "index" -> << 3 >>
KeyNames ==
    CASE identity = "default" -> {"scope", "id"}
      [] identity = "full" -> {"body", "scope", "id"}
      [] identity = "index" -> {"id"}

\* newRelationInfo finds the key columns of each replica identity.
LEMMA InfoOf ==
    ASSUME identity \in {"default", "full", "index"}
    PROVE  Info = [columns |-> Columns, keyIndexes |-> KeyPositions]
<1>1. Len(Columns) = 3 /\ Columns[1] = "body" /\ Columns[2] = "scope" /\ Columns[3] = "id"
  BY DEF Columns
<1>2. Info = newRelationInfo(Columns, KeyNames)
  BY DEF Info, KeyNames
<1>3. PICK f : KeysFound(f, Columns, KeyNames, 3)
  <2>1. 3 \in Nat
    OBVIOUS
  <2> QED
    BY <1>1, <2>1, KeyTurns, Zenon
<1>4. /\ f[1] = IF "body" \in KeyNames THEN Append(f[0], 1) ELSE f[0]
      /\ f[2] = IF "scope" \in KeyNames THEN Append(f[1], 2) ELSE f[1]
      /\ f[3] = IF "id" \in KeyNames THEN Append(f[2], 3) ELSE f[2]
  <2>1. 1 \in 1..3 /\ 2 \in 1..3 /\ 3 \in 1..3 /\ 1 - 1 = 0 /\ 2 - 1 = 1 /\ 3 - 1 = 2
    OBVIOUS
  <2> QED
    BY <1>1, <1>3, <2>1, Zenon DEF KeysFound
<1>5. /\ Append(<< >>, 1) = << 1 >> /\ Append(<< 1 >>, 2) = << 1, 2 >> /\ Append(<< 1, 2 >>, 3) = << 1, 2, 3 >>
      /\ Append(<< >>, 2) = << 2 >> /\ Append(<< 2 >>, 3) = << 2, 3 >>
  <2>1. 1 \in Nat /\ 2 \in Nat /\ 3 \in Nat
    OBVIOUS
  <2> QED
    BY <2>1, Appended, Zenon
<1>6. f[3] = KeyPositions
  <2>1. CASE identity = "default"
    <3>1. KeyNames = {"scope", "id"} /\ KeyPositions = << 2, 3 >>
      BY <2>1 DEF KeyNames, KeyPositions
    <3>2. f[1] = << >> /\ f[2] = Append(f[1], 2) /\ f[3] = Append(f[2], 3)
      BY <1>3, <1>4, <3>1 DEF KeysFound
    <3> QED
      BY <3>1, <3>2, <1>5, Zenon
  <2>2. CASE identity = "full"
    <3>1. KeyNames = {"body", "scope", "id"} /\ KeyPositions = << 1, 2, 3 >>
      BY <2>2 DEF KeyNames, KeyPositions
    <3>2. f[1] = Append(<< >>, 1) /\ f[2] = Append(f[1], 2) /\ f[3] = Append(f[2], 3)
      BY <1>3, <1>4, <3>1 DEF KeysFound
    <3> QED
      BY <3>1, <3>2, <1>5, Zenon
  <2>3. CASE identity = "index"
    <3>1. KeyNames = {"id"} /\ KeyPositions = << 3 >>
      BY <2>3 DEF KeyNames, KeyPositions
    <3>2. f[1] = << >> /\ f[2] = f[1] /\ f[3] = Append(f[2], 3)
      BY <1>3, <1>4, <3>1 DEF KeysFound
    <3> QED
      BY <3>1, <3>2
  <2> QED
    BY <2>1, <2>2, <2>3
<1> QED
  BY <1>2, <1>3, <1>6, Zenon DEF KeysFound

\* A column of a tuple, and the value the decoder makes of it.
Column == {Null, Toast} \cup {Text(n) : n \in Nat}
Decoded(column) ==
    [kind |-> IF column.type = "t" THEN "text" ELSE IF column.type = "n" THEN "null" ELSE "unchangedToast",
     text |-> column.data]
Row(b, key) == << Decoded(b), Decoded(Text(key[1])), Decoded(Text(key[2])) >>

\* A column is one of the three that pgoutput knows, its data a length.
LEMMA ColumnIs ==
    ASSUME NEW c \in Column
    PROVE  /\ c.type \in {"t", "n", "u"} /\ c.data \in Nat /\ (c.type # "t" => c.data = 0)
           /\ c = [type |-> c.type, data |-> c.data]
<1>1. CASE c \in {Null, Toast}
  BY <1>1 DEF Null, Toast
<1>2. CASE \E n \in Nat : c = Text(n)
  BY <1>2 DEF Text
<1> QED
  BY <1>1, <1>2 DEF Column

\* decodeRow reads a row of the table, or refuses a text over the limit.
LEMMA RowDecoded ==
    ASSUME NEW info, info.columns = Columns, NEW b \in Column, NEW key \in Nat \X Nat, NEW max \in Nat
    PROVE  decodeRow(info, Tuple(key, b), max) =
             IF b.data <= max /\ key[1] <= max /\ key[2] <= max THEN Row(b, key) ELSE Failed
<1> DEFINE t == Tuple(key, b)
<1>1. /\ b.type \in {"t", "n", "u"} /\ b.data \in Nat /\ (b.type # "t" => b.data = 0)
  BY ColumnIs
<1>2. t = << b, Text(key[1]), Text(key[2]) >> /\ Len(Columns) = 3
  BY DEF Tuple, Columns
<1>3. Len(t) = 3 /\ DOMAIN t = {1, 2, 3} /\ t[1] = b /\ t[2] = Text(key[1]) /\ t[3] = Text(key[2]) /\ t # << >>
  BY <1>2
<1> HIDE DEF t
<1>4. checkRow(info, t, max) <=> b.data <= max /\ key[1] <= max /\ key[2] <= max
  <2>1. checkColumn(b, max) <=> b.data <= max
    BY <1>1 DEF checkColumn
  <2>2. checkColumn(Text(key[1]), max) <=> key[1] <= max
    BY DEF checkColumn, Text
  <2>3. checkColumn(Text(key[2]), max) <=> key[2] <= max
    BY DEF checkColumn, Text
  <2> QED
    BY <1>2, <1>3, <2>1, <2>2, <2>3, Zenon DEF checkRow
<1>5. ASSUME NEW c, c.type \in {"t", "n", "u"}
      PROVE  [kind |-> [t |-> "text", n |-> "null", u |-> "unchangedToast"][c.type], text |-> c.data] = Decoded(c)
  BY <1>5 DEF Decoded
<1>6. Text(key[1]).type = "t" /\ Text(key[2]).type = "t"
  BY DEF Text
<1>7. [i \in DOMAIN t |->
         [kind |-> [t |-> "text", n |-> "null", u |-> "unchangedToast"][t[i].type], text |-> t[i].data]] = Row(b, key)
  <2>1. [i \in DOMAIN t |-> Decoded(t[i])] = << Decoded(t[1]), Decoded(t[2]), Decoded(t[3]) >>
    BY <1>3
  <2>2. \A i \in DOMAIN t : t[i].type \in {"t", "n", "u"}
    BY <1>1, <1>3, <1>6
  <2>3. ASSUME NEW i \in DOMAIN t
        PROVE  [kind |-> [t |-> "text", n |-> "null", u |-> "unchangedToast"][t[i].type], text |-> t[i].data]
                 = Decoded(t[i])
    BY <2>2 DEF Decoded
  <2>4. [i \in DOMAIN t |->
           [kind |-> [t |-> "text", n |-> "null", u |-> "unchangedToast"][t[i].type], text |-> t[i].data]]
          = [i \in DOMAIN t |-> Decoded(t[i])]
    BY <2>3, Zenon
  <2>5. << Decoded(t[1]), Decoded(t[2]), Decoded(t[3]) >> = Row(b, key)
    BY <1>3, Zenon DEF Row
  <2> QED
    BY <2>1, <2>4, <2>5, Zenon
<1> QED
  BY <1>3, <1>4, <1>7, Zenon DEF decodeRow, t, NoTuple

\* The key columns of the three replica identities, by position and by name.
LEMMA KeyPlaces ==
    ASSUME identity \in {"default", "full", "index"}
    PROVE  /\ Range(KeyPositions) \subseteq {1, 2, 3} /\ 3 \in Range(KeyPositions)
           /\ 2 \in Range(KeyPositions) <=> identity # "index"
           /\ 1 \in Range(KeyPositions) <=> identity = "full"
           /\ KeyNames = {Columns[i] : i \in Range(KeyPositions)}
           /\ "id" \in KeyNames /\ (identity # "index" => "scope" \in KeyNames)
           /\ KeyNames \subseteq Range(Columns)
           /\ Range(Columns) = {"body", "scope", "id"}
           /\ Columns[1] = "body" /\ Columns[2] = "scope" /\ Columns[3] = "id"
<1>1. Columns[1] = "body" /\ Columns[2] = "scope" /\ Columns[3] = "id" /\ DOMAIN Columns = {1, 2, 3}
  BY DEF Columns
<1>2. Range(Columns) = {"body", "scope", "id"}
  BY <1>1 DEF Range
<1>3. CASE identity = "default"
  <2>1. KeyNames = {"scope", "id"} /\ KeyPositions = << 2, 3 >>
    BY <1>3 DEF KeyNames, KeyPositions
  <2>2. Range(KeyPositions) = {2, 3}
    BY <2>1 DEF Range
  <2> QED
    BY <1>1, <1>2, <1>3, <2>1, <2>2
<1>4. CASE identity = "full"
  <2>1. KeyNames = {"body", "scope", "id"} /\ KeyPositions = << 1, 2, 3 >>
    BY <1>4 DEF KeyNames, KeyPositions
  <2>2. Range(KeyPositions) = {1, 2, 3}
    BY <2>1 DEF Range
  <2> QED
    BY <1>1, <1>2, <1>4, <2>1, <2>2
<1>5. CASE identity = "index"
  <2>1. KeyNames = {"id"} /\ KeyPositions = << 3 >>
    BY <1>5 DEF KeyNames, KeyPositions
  <2>2. Range(KeyPositions) = {3}
    BY <2>1 DEF Range
  <2> QED
    BY <1>1, <1>2, <1>5, <2>1, <2>2
<1> QED
  BY <1>3, <1>4, <1>5

\* The key texts a change of a row carries.
KeyTexts(texts, key) ==
    /\ texts \in [KeyNames -> Nat]
    /\ texts["id"] = key[2]
    /\ ScopeInKey => texts["scope"] = key[1]

\* A decoded change of the row with this key, its body as in column b.
Made(c, operation, key, b) ==
    /\ c = [operation |-> operation, key |-> c.key, columns |-> Columns,
            values |-> IF operation = "delete" THEN << >> ELSE Row(b, key)]
    /\ KeyTexts(c.key, key)
    /\ operation # "delete" => b.data <= MaxValueBytes /\ key[1] <= MaxValueBytes /\ key[2] <= MaxValueBytes

\* What a row's key columns must be for the decoder to accept them.
Keyable(b, key) ==
    /\ key[2] # 0
    /\ identity # "index" => key[1] # 0
    /\ identity = "full" => b.type = "t" /\ b.data # 0

\* keyFromValues names the key texts of a row, or refuses an empty one.
LEMMA KeyOfRow ==
    ASSUME identity \in {"default", "full", "index"}, NEW b \in Column, NEW key \in Nat \X Nat
    PROVE  IF Keyable(b, key) THEN KeyTexts(keyFromValues(Info, Row(b, key)), key)
           ELSE keyFromValues(Info, Row(b, key)) = Failed
<1> DEFINE keyed == Range(KeyPositions)
           values == Row(b, key)
           texts == [column \in KeyNames |-> values[CHOOSE i \in keyed : Columns[i] = column].text]
<1>1. Info.columns = Columns /\ Info.keyIndexes = KeyPositions
  BY InfoOf
<1>2. /\ keyed \subseteq {1, 2, 3} /\ 3 \in keyed
      /\ 2 \in keyed <=> identity # "index"
      /\ 1 \in keyed <=> identity = "full"
      /\ KeyNames = {Columns[i] : i \in keyed}
      /\ "id" \in KeyNames /\ (identity # "index" => "scope" \in KeyNames)
      /\ Columns[1] = "body" /\ Columns[2] = "scope" /\ Columns[3] = "id"
  BY KeyPlaces
<1>3. /\ values[1] = Decoded(b) /\ values[2] = Decoded(Text(key[1])) /\ values[3] = Decoded(Text(key[2]))
  BY DEF Row
<1>4. /\ b.type \in {"t", "n", "u"} /\ b.data \in Nat
  BY ColumnIs
<1>5. /\ values[1].kind = "text" <=> b.type = "t"
      /\ values[1].text = b.data
      /\ values[2].kind = "text" /\ values[2].text = key[1]
      /\ values[3].kind = "text" /\ values[3].text = key[2]
  BY <1>3, <1>4 DEF Decoded, Text
<1> HIDE DEF values, keyed
<1>6. (\E i \in keyed : values[i].kind # "text" \/ values[i].text = 0) <=> ~Keyable(b, key)
  BY <1>2, <1>5 DEF Keyable
<1>7. keyFromValues(Info, values) = IF Keyable(b, key) THEN texts ELSE Failed
  <2>1. keyed # {}
    BY <1>2, Zenon
  <2>2. keyFromValues(Info, values) = keyFromValues([columns |-> Columns, keyIndexes |-> KeyPositions], values)
    BY InfoOf, Zenon
  <2>3. keyFromValues([columns |-> Columns, keyIndexes |-> KeyPositions], values) =
          IF keyed = {} \/ \E i \in keyed : values[i].kind # "text" \/ values[i].text = 0 THEN Failed
          ELSE [column \in {Columns[i] : i \in keyed} |-> values[CHOOSE i \in keyed : Columns[i] = column].text]
    BY DEF keyFromValues, keyed
  <2> QED
    BY <1>2, <1>6, <2>1, <2>2, <2>3, Zenon
<1>8. KeyTexts(texts, key)
  <2>1. ASSUME NEW column \in KeyNames
        PROVE  LET i == CHOOSE j \in keyed : Columns[j] = column IN i \in {1, 2, 3} /\ Columns[i] = column
    BY <1>2
  <2>2. \A i \in {1, 2, 3} : values[i].text \in Nat
    BY <1>4, <1>5
  <2>3. texts \in [KeyNames -> Nat]
    BY <2>1, <2>2
  <2>4. \A i \in {1, 2, 3} : (Columns[i] = "id" => i = 3) /\ (Columns[i] = "scope" => i = 2)
    BY <1>2
  <2>5. texts["id"] = values[3].text
    BY <1>2, <2>1, <2>4
  <2>6. ScopeInKey => texts["scope"] = values[2].text
    BY <1>2, <2>1, <2>4 DEF ScopeInKey
  <2> QED
    BY <1>5, <2>3, <2>5, <2>6, Zenon DEF KeyTexts
<1> QED
  BY <1>7, <1>8, Zenon DEF values

\* What the assumptions on the constants say.
LEMMA Bounds ==
    /\ Keys \subseteq Nat \X Nat
    /\ Bodies \subseteq Nat
    /\ ToastBytes \in Nat /\ MaxValueBytes \in Nat /\ MaxMessageBytes \in Nat
    /\ MaxTransactionBytes \in Nat /\ MaxTransactionChanges \in Nat
    /\ Failed \notin DecodedRow /\ Failed \notin RowChange /\ Failed \notin PendingTx
BY RowPathAssumption DEF RowPathAssumption, Keys

\* A decoded row is no error.
LEMMA RowTyped ==
    ASSUME NEW b \in Column, NEW key \in Nat \X Nat
    PROVE  Row(b, key) \in DecodedRow /\ Row(b, key) # Failed
<1>1. b.type \in {"t", "n", "u"} /\ b.data \in Nat
  BY ColumnIs
<1> DEFINE V == [kind : {"text", "null", "unchangedToast"}, text : Nat]
<1>2. Decoded(b) \in V
  BY <1>1 DEF Decoded
<1>3. Decoded(Text(key[1])) \in V /\ Decoded(Text(key[2])) \in V
  BY DEF Decoded, Text
<1>4. 1..3 = {1, 2, 3}
  OBVIOUS
<1> HIDE DEF V
<1>5. Row(b, key) \in [1..3 -> V]
  <2>1. << Decoded(b), Decoded(Text(key[1])), Decoded(Text(key[2])) >> \in [1..3 -> V]
    BY <1>2, <1>3
  <2> QED
    BY <2>1, Zenon DEF Row
<1> QED
  BY <1>5, Bounds, Zenon DEF DecodedRow, V

\* A decoded key and a decoded change are no errors.
LEMMA MadeTyped ==
    ASSUME identity \in {"default", "full", "index"}
    PROVE  /\ \A texts, key : KeyTexts(texts, key) => texts \in ChangeKey /\ texts # Failed
           /\ \A c, operation, key, b :
                /\ operation \in {"insert", "update", "delete"} /\ b \in Column /\ key \in Nat \X Nat
                /\ Made(c, operation, key, b)
                => c \in RowChange /\ c # Failed
<1>1. ASSUME NEW texts, NEW key, KeyTexts(texts, key) PROVE texts \in ChangeKey /\ texts # Failed
  <2>1. texts \in [KeyNames -> Nat] /\ KeyNames \in SUBSET Range(Columns)
    BY <1>1, KeyPlaces, Zenon DEF KeyTexts
  <2>2. texts # Failed
    BY <2>1, RowPathAssumption, Zenon DEF RowPathAssumption
  <2>3. texts \in ChangeKey
    BY <2>1, Zenon DEF ChangeKey
  <2> QED
    BY <2>2, <2>3
<1>2. ASSUME NEW c, NEW operation \in {"insert", "update", "delete"}, NEW b \in Column, NEW key \in Nat \X Nat,
             Made(c, operation, key, b)
      PROVE  c \in RowChange /\ c # Failed
  <2> DEFINE values == IF operation = "delete" THEN << >> ELSE Row(b, key)
  <2>1. c = [operation |-> operation, key |-> c.key, columns |-> Columns, values |-> values] /\ KeyTexts(c.key, key)
    BY <1>2, Zenon DEF Made
  <2>2. c.key \in ChangeKey
    BY <1>1, <2>1, Zenon
  <2>3. values \in {<< >>} \cup DecodedRow
    BY RowTyped
  <2> HIDE DEF values
  <2>4. c \in RowChange
    BY <2>1, <2>2, <2>3 DEF RowChange
  <2> QED
    BY <2>4, Bounds, Zenon
<1> QED
  BY <1>1, <1>2, Zenon

\* The column of a body.
LEMMA BodyIs ==
    ASSUME NEW body \in Nat \cup {NoBody}
    PROVE  /\ Body(body) \in Column
           /\ Body(body).data = IF body = NoBody THEN 0 ELSE body
           /\ Body(body).type = IF body = NoBody THEN "n" ELSE "t"
<1>1. CASE body = NoBody
  BY <1>1 DEF Body, Column, Null
<1>2. CASE body \in Nat /\ body # NoBody
  BY <1>2 DEF Body, Column, Text
<1> QED
  BY <1>1, <1>2

\* The column of a new row's body.
NewBody(old, body) == IF Untouched(old, body) THEN Toast ELSE Body(body)

\* A row the decoder accepts.
Accepted(b, key) ==
    /\ b.data <= MaxValueBytes /\ key[1] <= MaxValueBytes /\ key[2] <= MaxValueBytes
    /\ Keyable(b, key)

\* Nothing is unfit in a key whose texts are there and within the limit.
LEMMA UnfitKeyIs ==
    ASSUME NEW key \in Nat \X Nat
    PROVE  UnfitKey(key) = {} <=> /\ key[2] \in 1..MaxValueBytes
                                  /\ identity # "index" => key[1] \in 1..MaxValueBytes
<1>1. MaxValueBytes \in Nat
  BY Bounds
<1>2. CASE identity = "index"
  <2>1. TextsOf(key) = {key[2]}
    BY <1>2, Zenon DEF TextsOf
  <2> QED
    BY <1>1, <1>2, <2>1 DEF UnfitKey, Long
<1>3. CASE identity # "index"
  <2>1. TextsOf(key) = {key[1], key[2]}
    BY <1>3, Zenon DEF TextsOf
  <2> QED
    BY <1>1, <1>3, <2>1 DEF UnfitKey, Long
<1> QED
  BY <1>2, <1>3, Zenon

\* The decoder accepts a row with nothing unfit in it, and no other.
LEMMA UnfitIs ==
    ASSUME NEW body \in Nat \cup {NoBody}, NEW key \in Nat \X Nat
    PROVE  Unfit(key, body) = {} <=> Accepted(Body(body), key)
<1> DEFINE b == Body(body)
           A == Long({body, key[1], key[2]})
           C == IF identity = "full" /\ body \in {NoBody, 0} THEN {"fullIdentity"} ELSE {}
<1>1. b.data = (IF body = NoBody THEN 0 ELSE body) /\ b.type = (IF body = NoBody THEN "n" ELSE "t")
  BY BodyIs
<1>2. Unfit(key, body) = UnfitKey(key) \cup A \cup C
  BY Zenon DEF Unfit
<1>3. MaxValueBytes \in Nat
  BY Bounds
<1> HIDE DEF b
<1>4. A = {} <=> b.data <= MaxValueBytes /\ key[1] <= MaxValueBytes /\ key[2] <= MaxValueBytes
  BY <1>1, <1>3 DEF Long, NoBody
<1>5. C = {} <=> (identity = "full" => b.type = "t" /\ b.data # 0)
  <2>1. body \in {NoBody, 0} <=> ~(b.type = "t" /\ b.data # 0)
    BY <1>1
  <2> QED
    BY <2>1
<1> HIDE DEF A, C
<1>6. Unfit(key, body) = {} <=> UnfitKey(key) = {} /\ A = {} /\ C = {}
  BY <1>2
<1>7. key[1] \in Nat /\ key[2] \in Nat
  OBVIOUS
<1>8. A = {} => (key[1] \in 1..MaxValueBytes <=> key[1] # 0) /\ (key[2] \in 1..MaxValueBytes <=> key[2] # 0)
  BY <1>3, <1>4, <1>7
<1> QED
  BY <1>4, <1>5, <1>6, <1>8, UnfitKeyIs, Zenon DEF Accepted, Keyable, b

\* A new row's body is a column.
LEMMA NewBodyIs ==
    ASSUME NEW old \in Nat \cup {NoBody}, NEW body \in Nat \cup {NoBody}
    PROVE  NewBody(old, body) \in Column
<1>1. Toast \in Column
  BY Zenon DEF Column
<1> QED
  BY <1>1, BodyIs, Zenon DEF NewBody

\* The same of an update's new row, whose untouched long body is not sent.
LEMMA UnfitNewIs ==
    ASSUME NEW old \in Nat \cup {NoBody}, NEW body \in Nat \cup {NoBody}, NEW key \in Nat \X Nat
    PROVE  UnfitNew(key, old, body) = {} <=> Accepted(NewBody(old, body), key)
<1>1. CASE Untouched(old, body)
  <2>1. NewBody(old, body) = Toast /\ UnfitNew(key, old, body) = Unfit(key, NoBody)
    BY <1>1, Zenon DEF NewBody, UnfitNew
  <2>2. Unfit(key, NoBody) = {} <=> Accepted(Body(NoBody), key)
    BY UnfitIs, Zenon
  <2>3. Body(NoBody) = Null /\ Toast.type # "t" /\ Null.type # "t" /\ Toast.data = 0 /\ Null.data = 0
    BY DEF Body, Toast, Null
  <2>4. Accepted(Toast, key) <=> Accepted(Null, key)
    BY <2>3, Zenon DEF Accepted, Keyable
  <2> QED
    BY <2>1, <2>2, <2>3, <2>4, Zenon
<1>2. CASE ~Untouched(old, body)
  <2>1. NewBody(old, body) = Body(body) /\ UnfitNew(key, old, body) = Unfit(key, body)
    BY <1>2, Zenon DEF NewBody, UnfitNew
  <2> QED
    BY <2>1, UnfitIs, Zenon
<1> QED
  BY <1>1, <1>2, Zenon

\* An inserted row is decoded as it is, or refused for what it holds.
LEMMA InsertDecoded ==
    ASSUME identity \in {"default", "full", "index"}, NEW key \in Nat \X Nat, NEW body \in Nat \cup {NoBody},
           NEW c, c = decodeInsert(Info, Tuple(key, Body(body)), MaxValueBytes)
    PROVE  IF Unfit(key, body) = {} THEN Made(c, "insert", key, Body(body)) ELSE c = Failed
<1> DEFINE b == Body(body)
           values == decodeRow(Info, Tuple(key, b), MaxValueBytes)
           texts == keyFromValues(Info, values)
           fits == b.data <= MaxValueBytes /\ key[1] <= MaxValueBytes /\ key[2] <= MaxValueBytes
<1>1. b \in Column /\ b.data = (IF body = NoBody THEN 0 ELSE body) /\ b.type = (IF body = NoBody THEN "n" ELSE "t")
  BY BodyIs
<1>2. Info.columns = Columns /\ MaxValueBytes \in Nat
  BY InfoOf, Bounds
<1>3. values = IF fits THEN Row(b, key) ELSE Failed
  <2> HIDE DEF b
  <2> QED
    BY <1>1, <1>2, RowDecoded, Zenon
<1>4. c = IF values = Failed THEN Failed ELSE IF texts = Failed THEN Failed ELSE Change("insert", Info, texts, values)
  BY Zenon DEF decodeInsert
<1> HIDE DEF b, values, texts
<1>5. Unfit(key, body) = {} <=> fits /\ Keyable(b, key)
  BY UnfitIs, Zenon DEF Accepted, b
<1>6. ASSUME fits, Keyable(b, key) PROVE Made(c, "insert", key, b)
  <2>1. values = Row(b, key) /\ values # Failed
    BY <1>1, <1>3, <1>6, RowTyped, Zenon
  <2>2. KeyTexts(texts, key)
    BY <1>1, <1>6, <2>1, KeyOfRow, Zenon DEF texts
  <2>3. texts # Failed
    BY <2>2, MadeTyped, Zenon
  <2>4. c = [operation |-> "insert", key |-> texts, columns |-> Columns, values |-> values]
    BY <1>2, <1>4, <2>1, <2>3, Zenon DEF Change
  <2>5. c.key = texts
    BY <2>4
  <2>6. "insert" # "delete"
    OBVIOUS
  <2> QED
    BY <1>6, <2>1, <2>2, <2>4, <2>5, <2>6, Zenon DEF Made
<1>7. fits /\ ~Keyable(b, key) => c = Failed
  BY <1>1, <1>3, <1>4, KeyOfRow, Zenon DEF texts
<1> QED
  BY <1>3, <1>4, <1>5, <1>6, <1>7, Zenon DEF b

\* The old key of an update, where there is one, is its new key.
KeyKept(old, key, b) ==
    old # NoTuple => \A k \in DOMAIN KeyPositions :
                       keyColumn(Info, old, k).data = Row(b, key)[KeyPositions[k]].text

\* An updated row is decoded as it is, or refused for its values or its old key.
LEMMA UpdateDecoded ==
    ASSUME identity \in {"default", "full", "index"}, NEW key \in Nat \X Nat, NEW b \in Column, NEW old,
           NEW c, c = decodeUpdate(Info, old, Tuple(key, b), MaxValueBytes)
    PROVE  IF Accepted(b, key) /\ KeyKept(old, key, b) /\ (old # NoTuple => checkKeyTuple(Info, old, MaxValueBytes))
           THEN Made(c, "update", key, b) ELSE c = Failed
<1> DEFINE values == decodeRow(Info, Tuple(key, b), MaxValueBytes)
           texts == keyFromValues(Info, values)
           fits == b.data <= MaxValueBytes /\ key[1] <= MaxValueBytes /\ key[2] <= MaxValueBytes
           refusal == /\ old # NoTuple
                      /\ \/ ~checkKeyTuple(Info, old, MaxValueBytes)
                         \/ \E k \in DOMAIN Info.keyIndexes :
                              keyColumn(Info, old, k).data # values[Info.keyIndexes[k]].text
<1>1. b.data \in Nat
  BY ColumnIs
<1>2. Info.columns = Columns /\ Info.keyIndexes = KeyPositions /\ MaxValueBytes \in Nat
  BY InfoOf, Bounds
<1>3. values = IF fits THEN Row(b, key) ELSE Failed
  BY <1>2, RowDecoded, Zenon
<1>4. c = IF values = Failed THEN Failed
          ELSE IF texts = Failed \/ refusal THEN Failed ELSE Change("update", Info, texts, values)
  BY Zenon DEF decodeUpdate
<1> HIDE DEF values, texts
<1>5. ASSUME fits, Keyable(b, key), ~refusal
      PROVE  Made(c, "update", key, b)
  <2>1. values = Row(b, key) /\ values # Failed
    BY <1>3, <1>5, RowTyped, Zenon
  <2>2. KeyTexts(texts, key)
    BY <1>5, <2>1, KeyOfRow, Zenon DEF texts
  <2>3. texts # Failed
    BY <2>2, MadeTyped, Zenon
  <2>4. c = [operation |-> "update", key |-> texts, columns |-> Columns, values |-> values]
    BY <1>2, <1>4, <1>5, <2>1, <2>3, Zenon DEF Change
  <2>5. c.key = texts
    BY <2>4
  <2>6. "update" # "delete"
    OBVIOUS
  <2> QED
    BY <1>5, <2>1, <2>2, <2>4, <2>5, <2>6, Zenon DEF Made
<1>6. fits /\ ~Keyable(b, key) => c = Failed
  BY <1>3, <1>4, KeyOfRow, Zenon DEF texts
<1>7. fits => (KeyKept(old, key, b) <=> (old # NoTuple => \A k \in DOMAIN Info.keyIndexes :
                                            keyColumn(Info, old, k).data = values[Info.keyIndexes[k]].text))
  BY <1>2, <1>3, Zenon DEF KeyKept
<1>8. fits => (refusal <=> ~(KeyKept(old, key, b) /\ (old # NoTuple => checkKeyTuple(Info, old, MaxValueBytes))))
  BY <1>7, Zenon
<1>9. c = Failed \/ (fits /\ Keyable(b, key) /\ ~refusal)
  BY <1>3, <1>4, <1>6, Zenon
<1> HIDE DEF refusal
<1>10. Accepted(b, key) <=> fits /\ Keyable(b, key)
  BY Zenon DEF Accepted
<1> QED
  BY <1>5, <1>8, <1>9, <1>10, Zenon

\* A change of the key is refused; what keeps it is accepted for its new row.
LEMMA RekeyDecoded ==
    ASSUME identity \in {"default", "full", "index"}, NEW key \in Nat \X Nat, NEW new \in Nat \X Nat, key # new,
           NEW body \in Nat \cup {NoBody}, NEW b \in Column, NEW old,
           old = (IF identity = "full" THEN Tuple(key, Body(body))
                  ELSE IF KeyTuple(key) = KeyTuple(new) THEN NoTuple ELSE KeyTuple(key)),
           NEW c, c = decodeUpdate(Info, old, Tuple(new, b), MaxValueBytes)
    PROVE  IF Accepted(b, new) /\ KeyTuple(key) = KeyTuple(new)
           THEN Made(c, "update", new, b) /\ identity = "index" ELSE c = Failed
<1>1. key[1] # new[1] \/ key[2] # new[2]
  OBVIOUS
<1>2. IF Accepted(b, new) /\ KeyKept(old, new, b) /\ (old # NoTuple => checkKeyTuple(Info, old, MaxValueBytes))
      THEN Made(c, "update", new, b) ELSE c = Failed
  BY UpdateDecoded
<1>3. Row(b, new)[2].text = new[1] /\ Row(b, new)[3].text = new[2]
  BY DEF Row, Decoded, Text
<1>4. Info.columns = Columns /\ Info.keyIndexes = KeyPositions /\ Len(Columns) = 3
  BY InfoOf DEF Columns
<1>5. CASE identity = "default"
  <2>1. KeyPositions = << 2, 3 >> /\ KeyTuple(key) = << Text(key[1]), Text(key[2]) >>
        /\ KeyTuple(new) = << Text(new[1]), Text(new[2]) >>
    BY <1>5 DEF KeyPositions, KeyTuple
  <2>2. Text(key[1]) # Text(new[1]) \/ Text(key[2]) # Text(new[2])
    BY <1>1 DEF Text
  <2>3. KeyTuple(key) # KeyTuple(new)
    BY <2>1, <2>2
  <2>4. old = << Text(key[1]), Text(key[2]) >>
    BY <1>5, <2>1, <2>3, Zenon
  <2>5. old # NoTuple /\ Len(old) = 2 /\ old[1].data = key[1] /\ old[2].data = key[2]
    BY <2>4 DEF NoTuple, Text
  <2>6. \A k : keyColumn(Info, old, k) = old[k]
    BY <1>4, <2>5 DEF keyColumn
  <2>7. 1 \in DOMAIN KeyPositions /\ 2 \in DOMAIN KeyPositions /\ KeyPositions[1] = 2 /\ KeyPositions[2] = 3
    BY <2>1
  <2>8. ~KeyKept(old, new, b)
    BY <1>1, <1>3, <2>5, <2>6, <2>7 DEF KeyKept
  <2> QED
    BY <1>2, <2>3, <2>8, Zenon
<1>6. CASE identity = "full"
  <2>1. KeyPositions = << 1, 2, 3 >>
    BY <1>6 DEF KeyPositions
  <2>2. old = << Body(body), Text(key[1]), Text(key[2]) >>
    BY <1>6, Zenon DEF Tuple
  <2>3. old # NoTuple /\ Len(old) = 3 /\ old[2].data = key[1] /\ old[3].data = key[2]
    BY <2>2 DEF NoTuple, Text
  <2>4. \A k : keyColumn(Info, old, k) = old[KeyPositions[k]]
    BY <1>4, <2>3, Zenon DEF keyColumn
  <2>5. 2 \in DOMAIN KeyPositions /\ 3 \in DOMAIN KeyPositions /\ KeyPositions[2] = 2 /\ KeyPositions[3] = 3
    BY <2>1
  <2>6. ~KeyKept(old, new, b)
    BY <1>1, <1>3, <2>3, <2>4, <2>5 DEF KeyKept
  <2>7. KeyTuple(key) = << Text(key[1]), Text(key[2]) >> /\ KeyTuple(new) = << Text(new[1]), Text(new[2]) >>
    BY <1>6 DEF KeyTuple
  <2>8. Text(key[1]) # Text(new[1]) \/ Text(key[2]) # Text(new[2])
    BY <1>1 DEF Text
  <2>9. KeyTuple(key) # KeyTuple(new)
    BY <2>7, <2>8
  <2> QED
    BY <1>2, <2>6, <2>9, Zenon
<1>7. CASE identity = "index"
  <2>1. KeyPositions = << 3 >> /\ KeyTuple(key) = << Text(key[2]) >> /\ KeyTuple(new) = << Text(new[2]) >>
    BY <1>7 DEF KeyPositions, KeyTuple
  <2>2. CASE KeyTuple(key) = KeyTuple(new)
    <3>1. old = NoTuple
      BY <1>7, <2>2
    <3>2. KeyKept(old, new, b)
      BY <3>1, Zenon DEF KeyKept
    <3> QED
      BY <1>2, <1>7, <2>2, <3>1, <3>2, Zenon
  <2>3. CASE KeyTuple(key) # KeyTuple(new)
    <3>1. old = << Text(key[2]) >>
      BY <1>7, <2>1, <2>3
    <3>2. key[2] # new[2]
      BY <2>1, <2>3, Zenon
    <3>3. old # NoTuple /\ Len(old) = 1 /\ old[1].data = key[2]
      <4>1. PICK t : t = Text(key[2])
        OBVIOUS
      <4>2. old = << t >> /\ t.data = key[2]
        BY <3>1, <4>1 DEF Text
      <4>3. old # << >> /\ Len(old) = 1 /\ old[1] = t
        BY <4>2
      <4> QED
        BY <4>2, <4>3, Zenon DEF NoTuple
    <3>4. \A k : keyColumn(Info, old, k) = old[k]
      BY <1>4, <3>3 DEF keyColumn
    <3>5. 1 \in DOMAIN KeyPositions /\ KeyPositions[1] = 3
      BY <2>1
    <3>6. ~KeyKept(old, new, b)
      BY <1>3, <3>2, <3>3, <3>4, <3>5 DEF KeyKept
    <3> QED
      BY <1>2, <2>3, <3>6, Zenon
  <2> QED
    BY <2>2, <2>3, Zenon
<1> QED
  BY <1>5, <1>6, <1>7

\* The tuple that describes a deleted row: the row, its key alone, or its key
\* among NULLs.
OldOf(key, body, whole) ==
    LET nulled == [i \in DOMAIN Columns |-> IF i \in Range(Info.keyIndexes) THEN Tuple(key, Null)[i] ELSE Null]
    IN  IF identity = "full" THEN Tuple(key, Body(body))
        ELSE IF whole THEN nulled ELSE KeyTuple(key)

\* An old tuple that carries this key: in its own columns or in a row's.
Carries(old, key, b) ==
    /\ old # NoTuple
    /\ \A k \in DOMAIN KeyPositions :
         keyColumn(Info, old, k) = << b, Text(key[1]), Text(key[2]) >>[KeyPositions[k]]

\* The key keyFromTuple takes from an old tuple.
LEMMA KeyOfTuple ==
    ASSUME identity \in {"default", "full", "index"}, NEW b \in Column, NEW key \in Nat \X Nat,
           NEW old, Carries(old, key, b)
    PROVE  KeyTexts(keyFromTuple(Info, old), key)
<1> DEFINE row == << b, Text(key[1]), Text(key[2]) >>
           at3(column) == CHOOSE k \in DOMAIN KeyPositions : Columns[KeyPositions[k]] = column
           texts == [column \in {Columns[i] : i \in Range(KeyPositions)} |-> keyColumn(Info, old, at3(column)).data]
<1>1. /\ KeyNames = {Columns[i] : i \in Range(KeyPositions)}
      /\ Range(KeyPositions) \subseteq {1, 2, 3}
      /\ "id" \in KeyNames /\ (identity # "index" => "scope" \in KeyNames)
      /\ Columns[1] = "body" /\ Columns[2] = "scope" /\ Columns[3] = "id"
  BY KeyPlaces
<1>2. keyFromTuple(Info, old) = texts
  <2>1. Info = [columns |-> Columns, keyIndexes |-> KeyPositions]
    BY InfoOf, Zenon
  <2>2. keyFromTuple([columns |-> Columns, keyIndexes |-> KeyPositions], old) =
          [column \in {Columns[i] : i \in Range(KeyPositions)} |->
             keyColumn([columns |-> Columns, keyIndexes |-> KeyPositions], old, at3(column)).data]
    BY DEF keyFromTuple
  <2> QED
    BY <2>1, <2>2, Zenon
<1>3. ASSUME NEW column \in KeyNames
      PROVE  at3(column) \in DOMAIN KeyPositions /\ Columns[KeyPositions[at3(column)]] = column
  <2>1. \E k \in DOMAIN KeyPositions : Columns[KeyPositions[k]] = column
    BY <1>1 DEF Range
  <2> QED
    BY <2>1, Zenon
<1>4. ASSUME NEW column \in KeyNames
      PROVE  /\ texts[column] = row[KeyPositions[at3(column)]].data
             /\ KeyPositions[at3(column)] \in {1, 2, 3}
             /\ Columns[KeyPositions[at3(column)]] = column
  <2> HIDE DEF at3
  <2>1. KeyPositions[at3(column)] \in Range(KeyPositions)
    BY <1>3, Zenon DEF Range
  <2>2. texts[column] = keyColumn(Info, old, at3(column)).data
    BY <1>1, Zenon
  <2>3. keyColumn(Info, old, at3(column)) = row[KeyPositions[at3(column)]]
    BY <1>3, Zenon DEF Carries
  <2> QED
    BY <1>1, <1>3, <2>1, <2>2, <2>3, Zenon
<1>5. row[1].data \in Nat /\ row[2].data = key[1] /\ row[3].data = key[2]
  BY ColumnIs DEF Text
<1> HIDE DEF at3, row
<1>6. \A column \in KeyNames : texts[column] \in Nat
  BY <1>4, <1>5
<1>7. texts \in [KeyNames -> Nat]
  BY <1>1, <1>6, Zenon
<1> HIDE DEF texts
<1>8. \A i \in {1, 2, 3} : (Columns[i] = "id" => i = 3) /\ (Columns[i] = "scope" => i = 2)
  BY <1>1
<1>9. texts["id"] = key[2] /\ (ScopeInKey => texts["scope"] = key[1])
  BY <1>1, <1>4, <1>5, <1>8, Zenon DEF ScopeInKey
<1> QED
  BY <1>2, <1>7, <1>9, Zenon DEF KeyTexts

\* What is unfit in an old tuple: in the row under full identity, in the key
\* under another.
UnfitOld(key, body) == IF identity = "full" THEN Unfit(key, body) ELSE UnfitKey(key)

\* checkKeyTuple accepts an old tuple with nothing unfit in it, and no other.
Fits(old, key, body) ==
    /\ Carries(old, key, Body(body))
    /\ checkKeyTuple(Info, old, MaxValueBytes) <=> UnfitOld(key, body) = {}

\* The three forms of an old tuple.
LEMMA OldFits ==
    ASSUME identity \in {"default", "full", "index"}, NEW key \in Nat \X Nat, NEW body \in Nat \cup {NoBody},
           NEW whole
    PROVE  Fits(OldOf(key, body, whole), key, body)
<1> DEFINE old == OldOf(key, body, whole)
           b == Body(body)
           row == << b, Text(key[1]), Text(key[2]) >>
<1>1. Info.columns = Columns /\ Info.keyIndexes = KeyPositions /\ Len(Columns) = 3 /\ DOMAIN Columns = {1, 2, 3}
  BY InfoOf DEF Columns
<1>2. b \in Column /\ b.data = (IF body = NoBody THEN 0 ELSE body) /\ b.type = (IF body = NoBody THEN "n" ELSE "t")
  BY BodyIs
<1>3. /\ Text(key[1]).type = "t" /\ Text(key[1]).data = key[1]
      /\ Text(key[2]).type = "t" /\ Text(key[2]).data = key[2]
      /\ Null.type = "n" /\ MaxValueBytes \in Nat
  BY Bounds DEF Text, Null
<1>4. row[1] = b /\ row[2] = Text(key[1]) /\ row[3] = Text(key[2])
  OBVIOUS
<1>5. UnfitOld(key, body) = {} <=> /\ key[2] \in 1..MaxValueBytes
                                   /\ identity # "index" => key[1] \in 1..MaxValueBytes
                                   /\ identity = "full" => b.type = "t" /\ b.data \in 1..MaxValueBytes
  <2>1. CASE identity = "full"
    <3>1. UnfitOld(key, body) = {} <=> Accepted(b, key)
      BY <2>1, UnfitIs, Zenon DEF UnfitOld
    <3>2. Accepted(b, key) <=> /\ b.data <= MaxValueBytes /\ key[1] <= MaxValueBytes /\ key[2] <= MaxValueBytes
                               /\ key[2] # 0 /\ key[1] # 0 /\ b.type = "t" /\ b.data # 0
      BY <2>1 DEF Accepted, Keyable
    <3>3. key[1] \in Nat /\ key[2] \in Nat /\ b.data \in Nat
      BY <1>2
    <3> HIDE DEF b
    <3> QED
      BY <1>3, <2>1, <3>1, <3>2, <3>3
  <2>2. CASE identity # "full"
    BY <2>2, UnfitKeyIs, Zenon DEF UnfitOld
  <2> QED
    BY <2>1, <2>2, Zenon
<1> HIDE DEF b
<1>6. CASE identity = "full"
  <2>1. KeyPositions = << 1, 2, 3 >>
    BY <1>6 DEF KeyPositions
  <2>2. old = << b, Text(key[1]), Text(key[2]) >>
    BY <1>6, Zenon DEF OldOf, Tuple, b
  <2> HIDE DEF old
  <2>3. Len(old) = 3 /\ DOMAIN old = {1, 2, 3} /\ old[1] = b /\ old[2] = Text(key[1]) /\ old[3] = Text(key[2]) /\ old # << >>
    BY <2>2
  <2>4. Carries(old, key, b)
    BY <1>1, <2>2, <2>3, Zenon DEF Carries, keyColumn, NoTuple
  <2>5. Range(KeyPositions) = {1, 2, 3} /\ KeyPositions # << >>
    BY <2>1 DEF Range
  <2>6. checkKeyTuple(Info, old, MaxValueBytes) <=> UnfitOld(key, body) = {}
    <3>1. \A i \in {1, 2, 3} : checkColumn(old[i], MaxValueBytes) /\ old[i].type = "t" /\ old[i].data # 0
                               <=> old[i].type = "t" /\ old[i].data \in 1..MaxValueBytes
      <4>1. \A i \in {1, 2, 3} : old[i].data \in Nat
        BY <1>2, <1>3, <2>3
      <4> QED
        BY <1>3, <4>1 DEF checkColumn
    <3>2. checkRow(Info, old, MaxValueBytes) <=> \A i \in {1, 2, 3} : checkColumn(old[i], MaxValueBytes)
      BY <1>1, <2>3, Zenon DEF checkRow
    <3>3. checkKeyTuple(Info, old, MaxValueBytes) <=>
            checkRow(Info, old, MaxValueBytes) /\ \A i \in {1, 2, 3} : old[i].type = "t" /\ old[i].data # 0
      BY <1>1, <2>3, <2>5, Zenon DEF checkKeyTuple, NoTuple
    <3>4. checkKeyTuple(Info, old, MaxValueBytes) <=>
            \A i \in {1, 2, 3} : old[i].type = "t" /\ old[i].data \in 1..MaxValueBytes
      BY <3>1, <3>2, <3>3, Zenon
    <3>5. (\A i \in {1, 2, 3} : old[i].type = "t" /\ old[i].data \in 1..MaxValueBytes) <=>
            /\ b.type = "t" /\ b.data \in 1..MaxValueBytes
            /\ key[1] \in 1..MaxValueBytes /\ key[2] \in 1..MaxValueBytes
      BY <1>3, <2>3
    <3> QED
      BY <1>5, <1>6, <3>4, <3>5
  <2> QED
    BY <2>4, <2>6, Zenon DEF Fits, b, old
<1>7. CASE identity # "full" /\ whole
  <2> DEFINE nulled == [i \in {1, 2, 3} |-> IF i \in Range(KeyPositions) THEN Tuple(key, Null)[i] ELSE Null]
  <2>1. old = nulled
    BY <1>1, <1>7, Zenon DEF OldOf
  <2> HIDE DEF old
  <2>2. /\ Range(KeyPositions) \subseteq {2, 3} /\ 3 \in Range(KeyPositions)
        /\ 2 \in Range(KeyPositions) <=> identity # "index"
    BY <1>7, KeyPlaces
  <2>3. Tuple(key, Null) = << Null, Text(key[1]), Text(key[2]) >>
    BY DEF Tuple
  <2>4. /\ DOMAIN old = {1, 2, 3} /\ \A i \in Range(KeyPositions) : old[i] = row[i]
        /\ \A i \in {1, 2, 3} : i \notin Range(KeyPositions) => old[i] = Null
    BY <2>1, <2>2, <2>3
  <2>5. Len(old) = 3 /\ old # << >>
    <3>1. DOMAIN old = 1..3
      BY <2>4
    <3> QED
      BY <3>1
  <2>6. Carries(old, key, b)
    <3>1. \A k \in DOMAIN KeyPositions : KeyPositions[k] \in Range(KeyPositions)
      BY Zenon DEF Range
    <3> QED
      BY <1>1, <2>4, <2>5, <3>1, Zenon DEF Carries, keyColumn, NoTuple
  <2>7. KeyPositions # << >>
    BY <2>2 DEF Range
  <2>8. checkKeyTuple(Info, old, MaxValueBytes) <=> UnfitOld(key, body) = {}
    <3>1. \A i \in Range(KeyPositions) : old[i].type = "t" /\ old[i].data \in Nat
      BY <1>3, <1>4, <2>2, <2>4
    <3>2. \A i \in Range(KeyPositions) : checkColumn(old[i], MaxValueBytes) /\ old[i].type = "t" /\ old[i].data # 0
                                         <=> old[i].data \in 1..MaxValueBytes
      BY <1>3, <3>1 DEF checkColumn
    <3>3. \A i \in {1, 2, 3} : i \notin Range(KeyPositions) => checkColumn(old[i], MaxValueBytes)
      BY <1>3, <2>4 DEF checkColumn
    <3>4. checkRow(Info, old, MaxValueBytes) <=> \A i \in Range(KeyPositions) : checkColumn(old[i], MaxValueBytes)
      <4>1. Range(KeyPositions) \subseteq {1, 2, 3}
        BY <2>2
      <4> QED
        BY <1>1, <2>4, <2>5, <3>3, <4>1, Zenon DEF checkRow
    <3>5. checkKeyTuple(Info, old, MaxValueBytes) <=>
            checkRow(Info, old, MaxValueBytes) /\ \A i \in Range(KeyPositions) : old[i].type = "t" /\ old[i].data # 0
      BY <1>1, <2>5, <2>7, Zenon DEF checkKeyTuple, NoTuple
    <3>6. checkKeyTuple(Info, old, MaxValueBytes) <=> \A i \in Range(KeyPositions) : old[i].data \in 1..MaxValueBytes
      BY <3>2, <3>4, <3>5, Zenon
    <3>7. (\A i \in Range(KeyPositions) : old[i].data \in 1..MaxValueBytes) <=>
            key[2] \in 1..MaxValueBytes /\ (identity # "index" => key[1] \in 1..MaxValueBytes)
      <4>1. old[3].data = key[2] /\ (identity # "index" => old[2].data = key[1])
        BY <1>3, <1>4, <2>2, <2>4
      <4> QED
        BY <2>2, <4>1
    <3> QED
      BY <1>5, <1>7, <3>6, <3>7
  <2> QED
    BY <2>6, <2>8, Zenon DEF Fits, b, old
<1>8. CASE identity # "full" /\ ~whole
  <2>1. old = KeyTuple(key)
    BY <1>8, Zenon DEF OldOf
  <2> HIDE DEF old
  <2>2. \/ old = << Text(key[1]), Text(key[2]) >> /\ KeyPositions = << 2, 3 >> /\ identity = "default"
        \/ old = << Text(key[2]) >> /\ KeyPositions = << 3 >> /\ identity = "index"
    BY <1>8, <2>1 DEF KeyTuple, KeyPositions
  <2>3. /\ Len(old) # 3 /\ Len(old) = Len(KeyPositions) /\ DOMAIN old = DOMAIN KeyPositions
        /\ old # << >> /\ KeyPositions # << >>
        /\ \A k \in DOMAIN KeyPositions : old[k] = row[KeyPositions[k]] /\ KeyPositions[k] \in {2, 3}
    <3>1. CASE old = << Text(key[1]), Text(key[2]) >> /\ KeyPositions = << 2, 3 >>
      <4>1. /\ Len(old) = 2 /\ Len(KeyPositions) = 2 /\ DOMAIN old = {1, 2} /\ DOMAIN KeyPositions = {1, 2}
            /\ old[1] = Text(key[1]) /\ old[2] = Text(key[2]) /\ KeyPositions[1] = 2 /\ KeyPositions[2] = 3
            /\ old # << >> /\ KeyPositions # << >>
        BY <3>1
      <4> QED
        BY <1>4, <4>1
    <3>2. CASE old = << Text(key[2]) >> /\ KeyPositions = << 3 >>
      <4>1. /\ Len(old) = 1 /\ Len(KeyPositions) = 1 /\ DOMAIN old = {1} /\ DOMAIN KeyPositions = {1}
            /\ old[1] = Text(key[2]) /\ KeyPositions[1] = 3 /\ old # << >> /\ KeyPositions # << >>
        BY <3>2
      <4> QED
        BY <1>4, <4>1
    <3> QED
      BY <2>2, <3>1, <3>2, Zenon
  <2>4. Carries(old, key, b)
    BY <1>1, <2>3, Zenon DEF Carries, keyColumn, NoTuple
  <2>5. checkKeyTuple(Info, old, MaxValueBytes) <=> UnfitOld(key, body) = {}
    <3>1. checkKeyTuple(Info, old, MaxValueBytes) <=> \A k \in DOMAIN old : checkKeyColumn(old[k], MaxValueBytes)
      BY <1>1, <2>3, Zenon DEF checkKeyTuple, NoTuple
    <3>2. checkKeyColumn(Text(key[1]), MaxValueBytes) <=> key[1] \in 1..MaxValueBytes
      BY <1>3, Zenon DEF checkKeyColumn
    <3>3. checkKeyColumn(Text(key[2]), MaxValueBytes) <=> key[2] \in 1..MaxValueBytes
      BY <1>3, Zenon DEF checkKeyColumn
    <3>4. CASE old = << Text(key[1]), Text(key[2]) >> /\ identity = "default"
      <4>1. DOMAIN old = {1, 2} /\ old[1] = Text(key[1]) /\ old[2] = Text(key[2])
        BY <3>4
      <4>2. (\A k \in DOMAIN old : checkKeyColumn(old[k], MaxValueBytes)) <=>
              checkKeyColumn(Text(key[1]), MaxValueBytes) /\ checkKeyColumn(Text(key[2]), MaxValueBytes)
        BY <4>1, Zenon
      <4> QED
        BY <1>5, <3>1, <3>2, <3>3, <3>4, <4>2
    <3>5. CASE old = << Text(key[2]) >> /\ identity = "index"
      <4>1. DOMAIN old = {1} /\ old[1] = Text(key[2])
        BY <3>5
      <4>2. (\A k \in DOMAIN old : checkKeyColumn(old[k], MaxValueBytes)) <=> checkKeyColumn(Text(key[2]), MaxValueBytes)
        BY <4>1, Zenon
      <4> QED
        BY <1>5, <3>1, <3>3, <3>5, <4>2
    <3> QED
      BY <2>2, <3>4, <3>5, Zenon
  <2> QED
    BY <2>4, <2>5, Zenon DEF Fits, b, old
<1> QED
  BY <1>6, <1>7, <1>8, Zenon

\* A deleted row is decoded to its key, or refused for what it holds.
LEMMA DeleteDecoded ==
    ASSUME identity \in {"default", "full", "index"}, NEW key \in Nat \X Nat, NEW body \in Nat \cup {NoBody},
           NEW whole, NEW c, c = decodeDelete(Info, OldOf(key, body, whole), MaxValueBytes)
    PROVE  IF UnfitOld(key, body) = {} THEN Made(c, "delete", key, Body(body)) ELSE c = Failed
<1> DEFINE old == OldOf(key, body, whole)
<1>1. Fits(old, key, body)
  BY OldFits, Zenon
<1>2. c = IF checkKeyTuple(Info, old, MaxValueBytes) THEN Change("delete", Info, keyFromTuple(Info, old), << >>) ELSE Failed
  BY Zenon DEF decodeDelete
<1> HIDE DEF old
<1>3. ASSUME checkKeyTuple(Info, old, MaxValueBytes) PROVE Made(c, "delete", key, Body(body))
  <2>1. Body(body) \in Column
    BY BodyIs, Zenon
  <2>2. KeyTexts(keyFromTuple(Info, old), key)
    BY <1>1, <2>1, KeyOfTuple, Zenon DEF Fits
  <2>3. c = [operation |-> "delete", key |-> keyFromTuple(Info, old), columns |-> Columns, values |-> << >>]
    BY <1>2, <1>3, InfoOf DEF Change
  <2>4. c.key = keyFromTuple(Info, old)
    BY <2>3
  <2> QED
    BY <2>2, <2>3, <2>4, Zenon DEF Made
<1> QED
  BY <1>1, <1>2, <1>3, Zenon DEF Fits

-----------------------------------------------------------------------------
(* Sums, and the pending transaction.                                         *)

\* The sum of w over a finite set, element by element.
SumLoop(g, w, S) ==
    [s \in SUBSET S |-> IF s = {} THEN 0 ELSE g[s \ {CHOOSE x \in s : TRUE}] + w[CHOOSE x \in s : TRUE]]

\* An element less.
LEMMA OneLess ==
    ASSUME NEW S, IsFiniteSet(S), NEW s \in SUBSET S, s # {}
    PROVE  LET x == CHOOSE x \in s : TRUE
           IN  /\ x \in S /\ s \ {x} \in SUBSET S
               /\ Cardinality(s) \in Nat /\ Cardinality(s \ {x}) = Cardinality(s) - 1
<1>1. IsFiniteSet(s)
  BY FS_Subset, Zenon
<1>2. PICK x : x = CHOOSE y \in s : TRUE
  OBVIOUS
<1>3. x \in s
  BY <1>2
<1>4. Cardinality(s) \in Nat
  BY <1>1, FS_CardinalityType, Zenon
<1>5. Cardinality(s \ {x}) = Cardinality(s) - 1
  BY <1>1, <1>3, FS_RemoveElement, Zenon
<1> QED
  BY <1>2, <1>3, <1>4, <1>5

\* The sum of a finite set exists.
LEMMA SumExists ==
    ASSUME NEW S, IsFiniteSet(S), NEW w \in [S -> Nat]
    PROVE  \E g : g = SumLoop(g, w, S)
<1> DEFINE A == [SUBSET S -> Nat]
           n == Cardinality(S)
           step == [i \in 1..n |-> [g \in A |-> SumLoop(g, w, S)]]
           base == [s \in SUBSET S |-> 0]
<1>1. n \in Nat
  BY FS_CardinalityType, Zenon
<1>2. \A g \in A : SumLoop(g, w, S) \in A
  <2> SUFFICES ASSUME NEW g \in A, NEW s \in SUBSET S
               PROVE  (IF s = {} THEN 0 ELSE g[s \ {CHOOSE x \in s : TRUE}] + w[CHOOSE x \in s : TRUE]) \in Nat
    BY Zenon DEF SumLoop
  <2>1. CASE s = {}
    BY <2>1
  <2>2. CASE s # {}
    <3>1. PICK x : x = CHOOSE y \in s : TRUE
      OBVIOUS
    <3>2. x \in S /\ s \ {x} \in SUBSET S
      BY <2>2, <3>1, OneLess, Zenon
    <3>3. g[s \ {x}] \in Nat /\ w[x] \in Nat
      BY <3>2, Zenon
    <3>4. g[s \ {x}] + w[x] \in Nat
      BY <3>3
    <3> QED
      BY <2>2, <3>1, <3>4, Zenon
  <2> QED
    BY <2>1, <2>2, Zenon
<1>3. base \in A
  OBVIOUS
<1> HIDE DEF n, A
<1>4. step \in [1..n -> [A -> A]]
  BY <1>2, Zenon
<1>5. PICK f : Loop(f, n, A, base, step)
  <2> HIDE DEF step, base
  <2> QED
    BY <1>1, <1>3, <1>4, LoopEnds, Zenon
<1>6. f \in [0..n -> A] /\ f[0] = base /\ \A i \in 1..n : f[i] = SumLoop(f[i - 1], w, S)
  <2>1. f \in [0..n -> A] /\ f[0] = base /\ \A i \in 1..n : f[i] = step[i][f[i - 1]]
    BY <1>5, Zenon DEF Loop
  <2>2. \A i \in 1..n : i - 1 \in 0..n
    BY <1>1
  <2> QED
    BY <2>1, <2>2, Zenon
<1> DEFINE Fixed(i) == \A s \in SUBSET S : Cardinality(s) <= i => SumLoop(f[i], w, S)[s] = f[i][s]
           Done == {i \in 0..n : Fixed(i)}
<1>7. 0 \in Done
  <2>1. ASSUME NEW s \in SUBSET S, Cardinality(s) <= 0 PROVE s = {}
    <3>1. IsFiniteSet(s)
      BY FS_Subset, Zenon
    <3>2. Cardinality(s) \in Nat
      BY <3>1, FS_CardinalityType, Zenon
    <3> QED
      BY <2>1, <3>1, <3>2, FS_EmptySet
  <2>2. \A s \in SUBSET S : s = {} => SumLoop(f[0], w, S)[s] = 0 /\ f[0][s] = 0
    BY <1>6, Zenon DEF SumLoop
  <2>3. 0 \in 0..n
    BY <1>1
  <2> QED
    BY <2>1, <2>2, <2>3, Zenon
<1>8. ASSUME NEW i \in 1..n, i - 1 \in Done PROVE i \in Done
  <2>1. f[i] = SumLoop(f[i - 1], w, S) /\ Fixed(i - 1)
    BY <1>6, <1>8, Zenon
  <2>2. i \in 0..n
    BY <1>1
  <2> SUFFICES ASSUME NEW s \in SUBSET S, Cardinality(s) <= i PROVE SumLoop(f[i], w, S)[s] = f[i][s]
    BY <2>2, Zenon
  <2>3. CASE s = {}
    BY <2>1, <2>3, Zenon DEF SumLoop
  <2>4. CASE s # {}
    <3>1. PICK x : x = CHOOSE y \in s : TRUE
      OBVIOUS
    <3>2. /\ x \in S /\ s \ {x} \in SUBSET S
          /\ Cardinality(s) \in Nat /\ Cardinality(s \ {x}) = Cardinality(s) - 1
      BY <2>4, <3>1, OneLess, Zenon
    <3>3. Cardinality(s \ {x}) <= i - 1
      BY <3>2, <1>1
    <3>4. f[i][s \ {x}] = f[i - 1][s \ {x}]
      BY <2>1, <3>2, <3>3, Zenon
    <3>5. SumLoop(f[i], w, S)[s] = f[i][s \ {x}] + w[x]
      BY <2>4, <3>1, Zenon DEF SumLoop
    <3>6. f[i][s] = f[i - 1][s \ {x}] + w[x]
      BY <2>1, <2>4, <3>1, Zenon DEF SumLoop
    <3> QED
      BY <3>4, <3>5, <3>6, Zenon
  <2> QED
    BY <2>3, <2>4, Zenon
<1>9. Fixed(n)
  <2>1. 0..n \subseteq Done
    <3> HIDE DEF Done
    <3> QED
      BY <1>1, <1>7, <1>8, Turns, Zenon
  <2>2. n \in 0..n
    BY <1>1
  <2> QED
    BY <2>1, <2>2, Zenon
<1>10. \A s \in SUBSET S : SumLoop(f[n], w, S)[s] = f[n][s]
  BY <1>9, FS_Subset, Zenon DEF n
<1>11. f[n] \in [SUBSET S -> Nat]
  <2>1. n \in 0..n
    BY <1>1
  <2> QED
    BY <1>6, <2>1, Zenon DEF A
<1>12. f[n] = SumLoop(f[n], w, S)
  BY <1>10, <1>11, Zenon DEF SumLoop
<1> QED
  BY <1>12, Zenon

\* A sum of lengths is a length.
LEMMA SumTyped ==
    ASSUME NEW S, IsFiniteSet(S), NEW w \in [S -> Nat], NEW g, g = SumLoop(g, w, S)
    PROVE  g[S] \in Nat
<1> DEFINE n == Cardinality(S)
           Typed(i) == \A s \in SUBSET S : Cardinality(s) <= i => g[s] \in Nat
           Done == {i \in 0..n : Typed(i)}
<1>1. n \in Nat
  BY FS_CardinalityType, Zenon
<1> HIDE DEF n
<1>2. \A s \in SUBSET S : g[s] = IF s = {} THEN 0 ELSE g[s \ {CHOOSE x \in s : TRUE}] + w[CHOOSE x \in s : TRUE]
  BY Zenon DEF SumLoop
<1>3. \A s \in SUBSET S : IsFiniteSet(s) /\ Cardinality(s) \in Nat
  BY FS_Subset, FS_CardinalityType, Zenon
<1>4. 0 \in Done
  <2>1. \A s \in SUBSET S : Cardinality(s) <= 0 => s = {}
    BY <1>3, FS_EmptySet
  <2>2. 0 \in 0..n /\ 0 \in Nat
    BY <1>1
  <2> QED
    BY <1>2, <2>1, <2>2, Zenon
<1>5. ASSUME NEW i \in 1..n, i - 1 \in Done PROVE i \in Done
  <2>2. i \in 0..n
    BY <1>1
  <2> SUFFICES ASSUME NEW s \in SUBSET S, Cardinality(s) <= i PROVE g[s] \in Nat
    BY <2>2, Zenon
  <2>3. CASE s = {}
    BY <1>2, <2>3
  <2>4. CASE s # {}
    <3>1. PICK x : x = CHOOSE y \in s : TRUE
      OBVIOUS
    <3>2. /\ x \in S /\ s \ {x} \in SUBSET S
          /\ Cardinality(s) \in Nat /\ Cardinality(s \ {x}) = Cardinality(s) - 1
      BY <2>4, <3>1, OneLess, Zenon
    <3>3. Cardinality(s \ {x}) <= i - 1
      BY <3>2, <1>1
    <3>4. g[s \ {x}] \in Nat /\ w[x] \in Nat
      BY <1>5, <3>2, <3>3, Zenon
    <3>5. g[s] = g[s \ {x}] + w[x]
      BY <1>2, <2>4, <3>1, Zenon
    <3> QED
      BY <3>4, <3>5
  <2> QED
    BY <2>3, <2>4, Zenon
<1>6. 0..n \subseteq Done
  <2> HIDE DEF Done
  <2> QED
    BY <1>1, <1>4, <1>5, Turns, Zenon
<1>7. n \in 0..n /\ n <= n
  BY <1>1
<1> QED
  BY <1>6, <1>7, Zenon DEF n

\* The sum of the values' sizes, as estimatedChangeBytes computes it.
SizeLoop(g, values) ==
    [s \in SUBSET DOMAIN values |->
       IF s = {} THEN 0
       ELSE g[s \ {CHOOSE x \in s : TRUE}] + estimatedValueBytes(values[CHOOSE x \in s : TRUE])]

\* A row has finitely many columns.
LEMMA ColumnsFinite == IsFiniteSet(Range(Columns))
<1>1. Range(Columns) = ({"body"} \cup {"scope"}) \cup {"id"}
  BY DEF Columns, Range
<1>2. IsFiniteSet({"body"})
  BY FS_Singleton, Zenon
<1>3. IsFiniteSet({"body"} \cup {"scope"})
  BY <1>2, FS_AddElement, Zenon
<1>4. IsFiniteSet(({"body"} \cup {"scope"}) \cup {"id"})
  BY <1>3, FS_AddElement, Zenon
<1> QED
  BY <1>1, <1>4, Zenon

\* The size of a change is a number of bytes.
LEMMA EstimateTyped ==
    ASSUME NEW c \in RowChange
    PROVE  estimatedChangeBytes(c) \in Nat
<1> DEFINE key == c.key
           values == c.values
           a == CHOOSE g : g = SumLoop(g, key, DOMAIN key)
           v == CHOOSE g : g = SizeLoop(g, values)
<1>1. key \in ChangeKey /\ values \in {<< >>} \cup DecodedRow
  BY DEF RowChange
<1>2. estimatedChangeBytes(c) = changeOverhead + a[DOMAIN key] + v[DOMAIN values]
  BY Zenon DEF estimatedChangeBytes, FoldSet, MapThenFoldSet, FoldFunction, FoldFunctionOnSet, SumLoop, SizeLoop
<1> HIDE DEF key, values
<1>3. PICK names \in SUBSET Range(Columns) : key \in [names -> Nat]
  BY <1>1, Zenon DEF ChangeKey
<1>4. IsFiniteSet(DOMAIN key)
  BY <1>3, ColumnsFinite, FS_Subset, Zenon
<1>5. a[DOMAIN key] \in Nat
  <2>1. key \in [DOMAIN key -> Nat]
    BY <1>3, Zenon
  <2>2. a = SumLoop(a, key, DOMAIN key)
    BY <1>4, <2>1, SumExists, Zenon
  <2> HIDE DEF a
  <2> QED
    BY <1>4, <2>1, <2>2, SumTyped, Zenon
<1>6. v[DOMAIN values] \in Nat
  <2> DEFINE w == [x \in DOMAIN values |-> estimatedValueBytes(values[x])]
  <2>1. IsFiniteSet(DOMAIN values)
    <3>1. IsFiniteSet(1..3) /\ IsFiniteSet({})
      <4>1. 1 \in Int /\ 3 \in Int
        OBVIOUS
      <4> QED
        BY <4>1, FS_Interval, FS_EmptySet, Zenon
    <3>2. DOMAIN values = 1..3 \/ DOMAIN values = {}
      BY <1>1 DEF DecodedRow
    <3> QED
      BY <3>1, <3>2, Zenon
  <2>2. w \in [DOMAIN values -> Nat]
    <3> SUFFICES ASSUME NEW x \in DOMAIN values PROVE estimatedValueBytes(values[x]) \in Nat
      BY Zenon
    <3>1. values \in DecodedRow
      BY <1>1
    <3>2. values[x].text \in Nat
      BY <3>1 DEF DecodedRow
    <3> QED
      BY <3>2 DEF estimatedValueBytes
  <2>3. ASSUME NEW g PROVE SumLoop(g, w, DOMAIN values) = SizeLoop(g, values)
    <3>1. ASSUME NEW s \in SUBSET DOMAIN values, s # {}
          PROVE  w[CHOOSE x \in s : TRUE] = estimatedValueBytes(values[CHOOSE x \in s : TRUE])
      <4>1. (CHOOSE x \in s : TRUE) \in DOMAIN values
        BY <3>1
      <4> QED
        BY <4>1, Zenon
    <3> HIDE DEF w
    <3>2. ASSUME NEW s \in SUBSET DOMAIN values
          PROVE  SumLoop(g, w, DOMAIN values)[s] = SizeLoop(g, values)[s]
      <4>1. CASE s = {}
        BY <4>1, Zenon DEF SumLoop, SizeLoop
      <4>2. CASE s # {}
        <5>1. PICK x : x = CHOOSE y \in s : TRUE
          OBVIOUS
        <5>2. SumLoop(g, w, DOMAIN values)[s] = g[s \ {x}] + w[x]
          BY <4>2, <5>1, Zenon DEF SumLoop
        <5>3. SizeLoop(g, values)[s] = g[s \ {x}] + estimatedValueBytes(values[x])
          BY <4>2, <5>1, Zenon DEF SizeLoop
        <5>4. w[x] = estimatedValueBytes(values[x])
          BY <3>1, <4>2, <5>1, Zenon
        <5> QED
          BY <5>2, <5>3, <5>4, Zenon
      <4> QED
        BY <4>1, <4>2, Zenon
    <3>3. /\ SumLoop(g, w, DOMAIN values) = [s \in SUBSET DOMAIN values |-> SumLoop(g, w, DOMAIN values)[s]]
          /\ SizeLoop(g, values) = [s \in SUBSET DOMAIN values |-> SizeLoop(g, values)[s]]
      BY DEF SumLoop, SizeLoop
    <3> QED
      BY <3>2, <3>3, Zenon
  <2> HIDE DEF w
  <2>4. v = SizeLoop(v, values)
    BY <2>1, <2>2, <2>3, SumExists, Zenon
  <2> HIDE DEF v
  <2>5. v = SumLoop(v, w, DOMAIN values)
    BY <2>3, <2>4, Zenon
  <2> QED
    BY <2>1, <2>2, <2>5, SumTyped, Zenon
<1> HIDE DEF a, v
<1> QED
  BY <1>2, <1>5, <1>6 DEF changeOverhead

\* Two traces that start alike and go on alike ...
Alike(f, g, n) == f[0] = g[0] /\ \A i \in 1..n : f[i - 1] = g[i - 1] => f[i] = g[i]

\* ... are the same.
LEMMA SameTrace ==
    ASSUME NEW n \in Nat, NEW f, NEW g, Alike(f, g, n)
    PROVE  \A i \in 0..n : f[i] = g[i]
<1> DEFINE Same == {i \in 0..n : f[i] = g[i]}
<1>1. 0 \in Same /\ \A i \in 1..n : i \in 0..n
  BY DEF Alike
<1>2. \A i \in 1..n : i - 1 \in Same => i \in Same
  BY <1>1, Zenon DEF Alike
<1>3. 0..n \subseteq Same
  <2> HIDE DEF Same
  <2> QED
    BY <1>1, <1>2, Turns, Zenon
<1> QED
  BY <1>3, Zenon

\* The first n turns of two loops are the same.
SameTurns(step, longer, n) == \A i \in 1..n : longer[i] = step[i]

\* A loop that only goes on agrees with the shorter one as far as that goes.
LEMMA LoopPrefix ==
    ASSUME NEW n \in Nat, NEW m \in Nat, n <= m, NEW A, NEW base, NEW f, NEW g, NEW step, NEW longer,
           Loop(f, n, A, base, step), Loop(g, m, A, base, longer), SameTurns(step, longer, n)
    PROVE  f[n] = g[n]
<1>1. f[0] = g[0]
  BY Zenon DEF Loop
<1>2. ASSUME NEW i \in 1..n, f[i - 1] = g[i - 1] PROVE f[i] = g[i]
  <2>1. i \in 1..m
    OBVIOUS
  <2> QED
    BY <1>2, <2>1, Zenon DEF Loop, SameTurns
<1>3. n \in 0..n
  OBVIOUS
<1>4. Alike(f, g, n)
  BY <1>1, <1>2, Zenon DEF Alike
<1>5. \A i \in 0..n : f[i] = g[i]
  BY <1>4, SameTrace
<1> QED
  BY <1>3, <1>5, Zenon

-----------------------------------------------------------------------------
(* Routing.                                                                   *)

\* A turn of the loop that routes a transaction's changes.
RouteTurns(changes, S) ==
    [i \in 1..Len(changes) |->
       [a \in Seq(S) |-> IF RoutedTo(changes[i]) = Watched THEN Append(a, changes[i]) ELSE a]]
RouteLoop(f, changes) ==
    [i \in 0..Len(changes) |->
       IF i = 0 THEN << >>
       ELSE IF RoutedTo(changes[i]) = Watched THEN Append(f[i - 1], changes[i]) ELSE f[i - 1]]

\* The loop ends.
LEMMA RouteEnds ==
    ASSUME NEW S, NEW changes \in Seq(S)
    PROVE  \E f : Loop(f, Len(changes), Seq(S), << >>, RouteTurns(changes, S)) /\ Routed(changes) = f[Len(changes)]
<1> DEFINE n == Len(changes)
           A == Seq(S)
           step == RouteTurns(changes, S)
<1>1. n \in Nat /\ << >> \in A
  OBVIOUS
<1>2. \A i \in 1..n : changes[i] \in S
  OBVIOUS
<1>3. step \in [1..n -> [A -> A]]
  BY <1>2 DEF RouteTurns
<1>4. PICK g : Loop(g, n, A, << >>, step)
  <2> HIDE DEF n, A, step
  <2> QED
    BY <1>1, <1>3, LoopEnds, Zenon
<1>5. g \in [0..n -> A] /\ g[0] = << >> /\ \A i \in 1..n : g[i] = step[i][g[i - 1]]
  BY <1>4, Zenon DEF Loop
<1>6. \A i \in 1..n : i \in 0..n /\ i - 1 \in 0..n /\ i # 0
  BY <1>1
<1> HIDE DEF n, A
<1>7. ASSUME NEW i \in 1..n
      PROVE  g[i] = IF RoutedTo(changes[i]) = Watched THEN Append(g[i - 1], changes[i]) ELSE g[i - 1]
  BY <1>5, <1>6, Zenon DEF RouteTurns, n, A
<1> HIDE DEF step
<1>8. \A i \in 0..n : i # 0 => i \in 1..n
  BY <1>1
<1>9. g = RouteLoop(g, changes)
  BY <1>5, <1>7, <1>8, Zenon DEF RouteLoop, n
<1> DEFINE h == CHOOSE f : f = RouteLoop(f, changes)
<1>10. Routed(changes) = h[n]
  BY Zenon DEF Routed, RouteLoop, n
<1>11. h = RouteLoop(h, changes)
  BY <1>9, Zenon
<1> HIDE DEF h
<1>12. 0 \in 0..n /\ n \in 0..n
  BY <1>1
<1>13. h[0] = << >>
  BY <1>11, <1>12, Zenon DEF RouteLoop, n
<1>14. ASSUME NEW i \in 1..n, h[i - 1] = g[i - 1] PROVE h[i] = g[i]
  <2>1. h[i] = IF RoutedTo(changes[i]) = Watched THEN Append(h[i - 1], changes[i]) ELSE h[i - 1]
    BY <1>6, <1>11, Zenon DEF RouteLoop, n
  <2>2. g[i] = IF RoutedTo(changes[i]) = Watched THEN Append(g[i - 1], changes[i]) ELSE g[i - 1]
    BY <1>7, Zenon
  <2> QED
    BY <1>14, <2>1, <2>2
<1>15. h[n] = g[n]
  <2>1. Alike(h, g, n)
    BY <1>5, <1>13, <1>14, Zenon DEF Alike
  <2> QED
    BY <1>1, <1>12, <2>1, SameTrace, Zenon
<1> QED
  BY <1>4, <1>10, <1>15, Zenon DEF n, A, step

\* Routing goes change by change.
LEMMA RoutedIs ==
    ASSUME NEW S
    PROVE  /\ Routed(<< >>) = << >>
           /\ \A changes \in Seq(S) : Routed(changes) \in Seq(S)
           /\ \A changes \in Seq(S), c \in S :
                Routed(Append(changes, c)) = IF RoutedTo(c) = Watched THEN Append(Routed(changes), c) ELSE Routed(changes)
<1>1. ASSUME NEW changes \in Seq(S) PROVE Routed(changes) \in Seq(S)
  <2>1. PICK f : Loop(f, Len(changes), Seq(S), << >>, RouteTurns(changes, S)) /\ Routed(changes) = f[Len(changes)]
    BY RouteEnds, Zenon
  <2>2. Len(changes) \in 0..Len(changes)
    OBVIOUS
  <2> QED
    BY <2>1, <2>2, Zenon DEF Loop
<1>2. Routed(<< >>) = << >>
  <2>1. << >> \in Seq(S) /\ Len(<< >>) = 0
    OBVIOUS
  <2>2. PICK f : Loop(f, Len(<< >>), Seq(S), << >>, RouteTurns(<< >>, S)) /\ Routed(<< >>) = f[Len(<< >>)]
    BY <2>1, RouteEnds, Zenon
  <2> QED
    BY <2>1, <2>2, Zenon DEF Loop
<1>3. ASSUME NEW changes \in Seq(S), NEW c \in S
      PROVE  Routed(Append(changes, c)) = IF RoutedTo(c) = Watched THEN Append(Routed(changes), c) ELSE Routed(changes)
  <2> DEFINE more == Append(changes, c)
             n == Len(changes)
             m == Len(more)
  <2>1. /\ n \in Nat /\ m \in Nat /\ m = n + 1 /\ n <= m /\ more \in Seq(S) /\ more[m] = c
        /\ \A i \in 1..n : more[i] = changes[i] /\ i \in 1..m
    OBVIOUS
  <2> HIDE DEF more
  <2>2. PICK f : Loop(f, n, Seq(S), << >>, RouteTurns(changes, S)) /\ Routed(changes) = f[n]
    BY RouteEnds, Zenon
  <2>3. PICK g : Loop(g, m, Seq(S), << >>, RouteTurns(more, S)) /\ Routed(more) = g[m]
    BY <2>1, RouteEnds, Zenon
  <2>4. SameTurns(RouteTurns(changes, S), RouteTurns(more, S), n)
    BY <2>1, Zenon DEF RouteTurns, SameTurns
  <2>5. f[n] = g[n]
    <3> HIDE DEF n, m
    <3> QED
      BY <2>1, <2>2, <2>3, <2>4, LoopPrefix
  <2>6. m \in 1..m /\ m - 1 = n /\ n \in 0..m
    BY <2>1
  <2>7. g[m] = RouteTurns(more, S)[m][g[n]] /\ g[n] \in Seq(S)
    BY <2>3, <2>6, Zenon DEF Loop
  <2>8. RouteTurns(more, S)[m][g[n]] = IF RoutedTo(c) = Watched THEN Append(g[n], c) ELSE g[n]
    BY <2>1, <2>6, <2>7, Zenon DEF RouteTurns
  <2> QED
    BY <2>2, <2>3, <2>5, <2>7, <2>8, Zenon DEF more
<1> QED
  BY <1>1, <1>2, <1>3, Zenon

-----------------------------------------------------------------------------
(* The steps of the row path, by what they do.                                *)

\* The rows of a table, and the changes the decoder makes of them.
Table == UNION {[keys -> Nat \cup {NoBody}] : keys \in SUBSET Keys}
MadeChange ==
    {c \in RowChange : \E operation \in {"insert", "update", "delete"}, key \in Keys, b \in Column :
                         Made(c, operation, key, b)}

\* Type correctness of the table, the decoder and the log.
RowTypes ==
    /\ identity \in {"default", "full", "index"}
    /\ work \in Table
    /\ pending = [changes |-> pending.changes, bytes |-> pending.bytes]
    /\ pending.changes \in Seq(MadeChange) /\ pending.bytes \in Int
    /\ pending.bytes <= MaxTransactionBytes /\ Len(pending.changes) <= MaxTransactionChanges
    /\ images \in Seq(Table) /\ Len(images) = Len(log) + 1
    /\ log \in Seq(Seq(MadeChange))
    /\ refused \in BOOLEAN

\* The stream ends with an error.
Refusal ==
    /\ refused' = TRUE /\ cause' # {}
    /\ UNCHANGED << identity, work, pending, images, log, store, at, furthest, since >>

\* The change of a row is appended to the pending transaction.
Added(operation, key, b, rows) ==
    /\ \E c \in RowChange :
         /\ Made(c, operation, key, b)
         /\ pending' = [changes |-> Append(pending.changes, c), bytes |-> pending'.bytes]
    /\ pending'.bytes \in Int
    /\ pending'.bytes <= MaxTransactionBytes /\ Len(pending.changes) + 1 <= MaxTransactionChanges
    /\ work' = rows /\ refused' = FALSE /\ cause' = {}
    /\ UNCHANGED << identity, images, log, store, at, furthest, since >>

\* What becomes of a change the decoder has read.
LEMMA StreamedStep ==
    ASSUME RowTypes, NEW change, NEW rows, NEW causes, Streamed(change, rows, causes),
           NEW operation \in {"insert", "update", "delete"}, NEW key \in Nat \X Nat, NEW b \in Column,
           IF causes = {} THEN Made(change, operation, key, b) ELSE change = Failed
    PROVE  Refusal \/ Added(operation, key, b, rows)
<1> DEFINE appended == IF change = Failed THEN Failed
                       ELSE appendChange(pending, change, MaxTransactionBytes, MaxTransactionChanges)
           limits == IF change = Failed THEN {}
                     ELSE (IF Len(pending.changes) + 1 > MaxTransactionChanges THEN {"changes"} ELSE {})
                          \cup (IF pending.bytes + estimatedChangeBytes(change) > MaxTransactionBytes THEN {"bytes"} ELSE {})
           size == estimatedChangeBytes(change)
<1>1. /\ refused' = (appended = Failed) /\ cause' = causes \cup limits
      /\ IF refused' THEN UNCHANGED << work, pending >> ELSE pending' = appended /\ work' = rows
      /\ UNCHANGED << identity, images, log, store, at, furthest, since >>
  BY Zenon DEF Streamed
<1>2. CASE change = Failed
  <2>1. appended = Failed /\ (causes \cup limits) # {}
    <3>1. appended = Failed
      BY <1>2, Zenon
    <3>2. causes # {}
      BY <1>2, MadeTyped, Zenon DEF RowTypes
    <3> QED
      BY <3>1, <3>2
  <2> HIDE DEF appended, limits
  <2>2. refused' = TRUE
    BY <1>1, <2>1, Zenon
  <2> QED
    BY <1>1, <2>1, <2>2, Zenon DEF Refusal
<1>3. CASE change # Failed
  <2>1. Made(change, operation, key, b) /\ change \in RowChange
    BY <1>3, MadeTyped, Zenon DEF RowTypes
  <2>2. size \in Nat
    BY <2>1, EstimateTyped, Zenon
  <2>3. /\ pending.bytes \in Int /\ Len(pending.changes) \in Nat /\ Len(pending.changes) <= MaxTransactionChanges
        /\ MaxTransactionBytes \in Nat /\ MaxTransactionChanges \in Nat
    BY Bounds DEF RowTypes
  <2>4. appended = IF Len(pending.changes) >= MaxTransactionChanges \/ size > MaxTransactionBytes - pending.bytes
                   THEN Failed
                   ELSE [changes |-> Append(pending.changes, change), bytes |-> pending.bytes + size]
    BY <1>3, Zenon DEF appendChange
  <2>5. limits = {} <=> ~(Len(pending.changes) + 1 > MaxTransactionChanges) /\ ~(pending.bytes + size > MaxTransactionBytes)
    BY <1>3
  <2>8. causes = {}
    BY <1>3, Zenon
  <2> HIDE DEF appended, limits, size
  <2>6. CASE Len(pending.changes) >= MaxTransactionChanges \/ size > MaxTransactionBytes - pending.bytes
    <3>1. limits # {}
      BY <2>2, <2>3, <2>5, <2>6
    <3>2. (causes \cup limits) # {}
      BY <3>1
    <3>3. refused' = TRUE
      BY <1>1, <2>4, <2>6, Zenon
    <3> QED
      BY <1>1, <3>2, <3>3, Zenon DEF Refusal
  <2>7. CASE ~(Len(pending.changes) >= MaxTransactionChanges \/ size > MaxTransactionBytes - pending.bytes)
    <3>1. appended = [changes |-> Append(pending.changes, change), bytes |-> pending.bytes + size]
      BY <2>4, <2>7, Zenon
    <3>2. appended \in PendingTx
      <4>1. pending.changes \in Seq(RowChange)
        BY DEF RowTypes, MadeChange
      <4>2. Append(pending.changes, change) \in Seq(RowChange)
        BY <2>1, <4>1
      <4>3. pending.bytes + size \in Int
        BY <2>2, <2>3
      <4> QED
        BY <3>1, <4>2, <4>3 DEF PendingTx
    <3>3. appended # Failed
      BY <3>2, Bounds, Zenon
    <3>4. /\ pending' = appended /\ work' = rows /\ refused' = FALSE
          /\ UNCHANGED << identity, images, log, store, at, furthest, since >>
      BY <1>1, <3>3, Zenon
    <3>8. limits = {}
      BY <2>2, <2>3, <2>5, <2>7
    <3>9. cause' = {}
      BY <1>1, <2>8, <3>8
    <3>5. pending' = [changes |-> Append(pending.changes, change), bytes |-> pending.bytes + size]
      BY <3>1, <3>4, Zenon
    <3>6. pending'.bytes = pending.bytes + size
      BY <3>5
    <3>7. /\ pending'.bytes \in Int /\ pending'.bytes <= MaxTransactionBytes
          /\ Len(pending.changes) + 1 <= MaxTransactionChanges
      BY <2>2, <2>3, <2>7, <3>6
    <3> QED
      BY <2>1, <3>4, <3>5, <3>6, <3>7, <3>9, Zenon DEF Added
  <2> QED
    BY <2>6, <2>7, Zenon
<1> QED
  BY <1>2, <1>3, Zenon

\* The rows of a table by key.
LEMMA TableIs ==
    ASSUME NEW rows \in Table
    PROVE  /\ DOMAIN rows \subseteq Keys /\ rows \in [DOMAIN rows -> Nat \cup {NoBody}]
           /\ \A key \in DOMAIN rows : key \in Nat \X Nat /\ rows[key] \in Nat \cup {NoBody}
<1>1. PICK keys \in SUBSET Keys : rows \in [keys -> Nat \cup {NoBody}]
  BY Zenon DEF Table
<1> QED
  BY <1>1, Bounds

\* The texts of a change are texts.
LEMMA Texts == ASSUME NEW body \in Bodies \cup {NoBody} PROVE body \in Nat \cup {NoBody}
BY Bounds

\* An INSERT.
LEMMA InsertStep ==
    ASSUME RowTypes, NEW key \in Keys, NEW body \in Bodies \cup {NoBody}, Insert(key, body)
    PROVE  /\ key \notin DOMAIN work
           /\ Refusal \/ Added("insert", key, Body(body), WithRow(work, key, body))
<1>1. /\ \A other \in DOMAIN work : other # key
      /\ Streamed(decodeInsert(Info, Tuple(key, Body(body)), MaxValueBytes), WithRow(work, key, body), Unfit(key, body))
  BY Zenon DEF Insert
<1>2. key \in Nat \X Nat /\ body \in Nat \cup {NoBody} /\ identity \in {"default", "full", "index"}
  BY Bounds, Texts, Zenon DEF RowTypes
<1>3. PICK c : c = decodeInsert(Info, Tuple(key, Body(body)), MaxValueBytes)
  OBVIOUS
<1>4. IF Unfit(key, body) = {} THEN Made(c, "insert", key, Body(body)) ELSE c = Failed
  BY <1>2, <1>3, InsertDecoded
<1>5. Body(body) \in Column
  BY <1>2, BodyIs, Zenon
<1>6. Refusal \/ Added("insert", key, Body(body), WithRow(work, key, body))
  <2>1. "insert" \in {"insert", "update", "delete"}
    OBVIOUS
  <2>2. Streamed(c, WithRow(work, key, body), Unfit(key, body))
    BY <1>1, <1>3, Zenon
  <2> QED
    BY <1>2, <1>4, <1>5, <2>1, <2>2, StreamedStep, Zenon
<1> QED
  BY <1>1, <1>6, Zenon

\* The old row of an update is its new row, under full identity, where there is
\* nothing unfit in it and the body is kept.
LEMMA KeptIs ==
    ASSUME identity \in {"default", "full", "index"}, NEW key \in Nat \X Nat, NEW body \in Nat \cup {NoBody},
           NEW was \in Nat \cup {NoBody}, NEW old, NEW b, b = NewBody(was, body), Accepted(b, key),
           old = (IF identity = "full" THEN Tuple(key, Body(was)) ELSE NoTuple)
    PROVE  KeyKept(old, key, b) /\ (old # NoTuple => checkKeyTuple(Info, old, MaxValueBytes))
             <=> (identity = "full" => Unfit(key, was) = {} /\ body = was)
<1>1. CASE identity # "full"
  <2>1. old = NoTuple
    BY <1>1, Zenon
  <2> QED
    BY <1>1, <2>1, Zenon DEF KeyKept
<1>2. CASE identity = "full"
  <2>1. old = OldOf(key, was, TRUE)
    BY <1>2, Zenon DEF OldOf
  <2>2. Fits(old, key, was)
    BY <2>1, OldFits, Zenon
  <2>3. old # NoTuple /\ (checkKeyTuple(Info, old, MaxValueBytes) <=> Unfit(key, was) = {})
    BY <1>2, <2>2, Zenon DEF Fits, Carries, UnfitOld
  <2>4. KeyPositions = << 1, 2, 3 >> /\ DOMAIN KeyPositions = {1, 2, 3}
    BY <1>2 DEF KeyPositions
  <2>5. /\ keyColumn(Info, old, 1) = Body(was) /\ keyColumn(Info, old, 2) = Text(key[1])
        /\ keyColumn(Info, old, 3) = Text(key[2])
    <3>1. \A k \in {1, 2, 3} : keyColumn(Info, old, k) = << Body(was), Text(key[1]), Text(key[2]) >>[KeyPositions[k]]
      BY <2>2, <2>4, Zenon DEF Fits, Carries
    <3> HIDE DEF KeyPositions
    <3> QED
      BY <2>4, <3>1
  <2>6. Row(b, key)[1].text = b.data /\ Row(b, key)[2].text = key[1] /\ Row(b, key)[3].text = key[2]
    BY DEF Row, Decoded, Text
  <2>7. Text(key[1]).data = key[1] /\ Text(key[2]).data = key[2]
    BY DEF Text
  <2>8. KeyKept(old, key, b) <=> Body(was).data = b.data
    <3>1. KeyKept(old, key, b) <=>
            \A k \in {1, 2, 3} : keyColumn(Info, old, k).data = Row(b, key)[k].text
      BY <2>3, <2>4 DEF KeyKept
    <3> QED
      BY <2>5, <2>6, <2>7, <3>1
  <2>9. b.type = "t" /\ b.data # 0
    BY <1>2, Zenon DEF Accepted, Keyable
  <2>10. b = Body(body) /\ body # NoBody /\ b.data = body
    <3>1. Toast.type # "t"
      BY DEF Toast
    <3>2. b = Body(body)
      BY <2>9, <3>1, Zenon DEF NewBody
    <3> QED
      BY <2>9, <3>2, BodyIs
  <2>11. Unfit(key, was) = {} => was # NoBody
    <3>1. Unfit(key, was) = {} => Accepted(Body(was), key)
      BY UnfitIs, Zenon
    <3>2. Accepted(Body(was), key) => Body(was).type = "t"
      BY <1>2, Zenon DEF Accepted, Keyable
    <3> QED
      BY <3>1, <3>2, BodyIs
  <2>12. was # NoBody => Body(was).data = was
    BY BodyIs
  <2> QED
    BY <1>2, <2>3, <2>8, <2>10, <2>11, <2>12, Zenon
<1> QED
  BY <1>1, <1>2, Zenon

\* An UPDATE that keeps the key.
LEMMA UpdateStep ==
    ASSUME RowTypes, NEW key \in Keys, NEW body \in Bodies \cup {NoBody}, Update(key, body)
    PROVE  /\ key \in DOMAIN work
           /\ Refusal \/ Added("update", key, NewBody(work[key], body), WithRow(work, key, body))
<1> DEFINE old == IF identity = "full" THEN Tuple(key, Body(work[key])) ELSE NoTuple
           b == NewBody(work[key], body)
           causes == UnfitNew(key, work[key], body) \cup
                       (IF identity = "full" THEN Unfit(key, work[key]) \cup Changed(body # work[key]) ELSE {})
<1>1. /\ key \in DOMAIN work
      /\ Streamed(decodeUpdate(Info, old, Tuple(key, b), MaxValueBytes), WithRow(work, key, body), causes)
  BY Zenon DEF Update, NewTuple, NewBody
<1>2. key \in Nat \X Nat /\ body \in Nat \cup {NoBody} /\ identity \in {"default", "full", "index"}
  BY Bounds, Texts, Zenon DEF RowTypes
<1>3. work[key] \in Nat \cup {NoBody}
  BY <1>1, TableIs, Zenon DEF RowTypes
<1>4. b \in Column /\ (UnfitNew(key, work[key], body) = {} <=> Accepted(b, key))
  BY <1>2, <1>3, NewBodyIs, UnfitNewIs
<1>5. PICK was \in Nat \cup {NoBody} : was = work[key]
  BY <1>3
<1>6. old = (IF identity = "full" THEN Tuple(key, Body(was)) ELSE NoTuple) /\ b = NewBody(was, body)
  BY <1>5, Zenon
<1>7. causes = {} <=> Accepted(b, key) /\ (identity = "full" => Unfit(key, was) = {} /\ body = was)
  <2>1. causes = {} <=> /\ UnfitNew(key, work[key], body) = {}
                        /\ identity = "full" => Unfit(key, work[key]) = {} /\ body = work[key]
    BY DEF Changed
  <2> QED
    BY <1>4, <1>5, <2>1, Zenon
<1> HIDE DEF old, b, causes
<1>8. PICK c : c = decodeUpdate(Info, old, Tuple(key, b), MaxValueBytes)
  OBVIOUS
<1>9. IF causes = {} THEN Made(c, "update", key, b) ELSE c = Failed
  <2>1. IF Accepted(b, key) /\ KeyKept(old, key, b) /\ (old # NoTuple => checkKeyTuple(Info, old, MaxValueBytes))
        THEN Made(c, "update", key, b) ELSE c = Failed
    BY <1>2, <1>4, <1>8, UpdateDecoded
  <2>2. ASSUME Accepted(b, key)
        PROVE  KeyKept(old, key, b) /\ (old # NoTuple => checkKeyTuple(Info, old, MaxValueBytes))
                 <=> (identity = "full" => Unfit(key, was) = {} /\ body = was)
    BY <1>2, <1>6, <2>2, KeptIs
  <2> QED
    BY <1>7, <2>1, <2>2, Zenon
<1>10. Refusal \/ Added("update", key, b, WithRow(work, key, body))
  <2>1. "update" \in {"insert", "update", "delete"}
    OBVIOUS
  <2>2. Streamed(c, WithRow(work, key, body), causes)
    BY <1>1, <1>8, Zenon
  <2> QED
    BY <1>2, <1>4, <1>9, <2>1, <2>2, StreamedStep, Zenon
<1> QED
  BY <1>1, <1>10, Zenon DEF b

\* An UPDATE of the key.
LEMMA RekeyStep ==
    ASSUME RowTypes, NEW key \in Keys, NEW new \in Keys, Rekey(key, new)
    PROVE  /\ key \in DOMAIN work
           /\ \/ Refusal
              \/ /\ ~ScopeInKey
                 /\ \E b \in Column :
                      Added("update", new, b,
                            [other \in (DOMAIN work \ {key}) \cup {new} |-> IF other = new THEN work[key] ELSE work[other]])
<1> DEFINE old == IF identity = "full" THEN Tuple(key, Body(work[key]))
                  ELSE IF KeyTuple(key) = KeyTuple(new) THEN NoTuple ELSE KeyTuple(key)
           b == NewBody(work[key], work[key])
           rows == [other \in (DOMAIN work \ {key}) \cup {new} |-> IF other = new THEN work[key] ELSE work[other]]
           causes == UnfitNew(new, work[key], work[key]) \cup Changed(KeyTuple(key) # KeyTuple(new))
<1>1. /\ key \in DOMAIN work /\ new \notin DOMAIN work
      /\ Streamed(decodeUpdate(Info, old, Tuple(new, b), MaxValueBytes), rows, causes)
  BY Zenon DEF Rekey, NewTuple, NewBody
<1>2. key \in Nat \X Nat /\ new \in Nat \X Nat /\ key # new /\ identity \in {"default", "full", "index"}
  BY <1>1, Bounds, Zenon DEF RowTypes
<1>3. work[key] \in Nat \cup {NoBody}
  BY <1>1, TableIs, Zenon DEF RowTypes
<1>4. b \in Column /\ (UnfitNew(new, work[key], work[key]) = {} <=> Accepted(b, new))
  BY <1>2, <1>3, NewBodyIs, UnfitNewIs
<1>5. causes = {} <=> Accepted(b, new) /\ KeyTuple(key) = KeyTuple(new)
  <2>1. causes = {} <=> UnfitNew(new, work[key], work[key]) = {} /\ KeyTuple(key) = KeyTuple(new)
    BY DEF Changed
  <2> QED
    BY <1>4, <2>1, Zenon
<1>6. PICK c : c = decodeUpdate(Info, old, Tuple(new, b), MaxValueBytes)
  OBVIOUS
<1>7. IF Accepted(b, new) /\ KeyTuple(key) = KeyTuple(new)
      THEN Made(c, "update", new, b) /\ identity = "index" ELSE c = Failed
  <2>1. PICK o : o = old
    OBVIOUS
  <2>2. PICK body \in Nat \cup {NoBody} : body = work[key]
    BY <1>3
  <2>3. o = (IF identity = "full" THEN Tuple(key, Body(body))
             ELSE IF KeyTuple(key) = KeyTuple(new) THEN NoTuple ELSE KeyTuple(key))
    BY <2>1, <2>2, Zenon
  <2>4. c = decodeUpdate(Info, o, Tuple(new, b), MaxValueBytes)
    BY <1>6, <2>1, Zenon
  <2> HIDE DEF old, b
  <2> QED
    BY <1>2, <1>4, <2>3, <2>4, RekeyDecoded
<1> HIDE DEF old, b, rows, causes
<1>8. Refusal \/ (Added("update", new, b, rows) /\ identity = "index")
  <2>1. "update" \in {"insert", "update", "delete"}
    OBVIOUS
  <2>2. Streamed(c, rows, causes)
    BY <1>1, <1>6, Zenon
  <2>3. IF causes = {} THEN Made(c, "update", new, b) ELSE c = Failed
    BY <1>7, <1>5, Zenon
  <2>4. Refusal \/ Added("update", new, b, rows)
    BY <1>2, <1>4, <2>1, <2>2, <2>3, StreamedStep
  <2>5. CASE causes = {}
    BY <1>7, <1>5, <2>4, <2>5, Zenon
  <2>6. CASE causes # {}
    <3>1. c = Failed
      BY <2>3, <2>6, Zenon
    <3>2. refused' = TRUE
      BY <2>2, <3>1, Zenon DEF Streamed
    <3>3. ~Added("update", new, b, rows)
      BY <3>2 DEF Added
    <3> QED
      BY <2>4, <3>3, Zenon
  <2> QED
    BY <2>5, <2>6, Zenon
<1> QED
  BY <1>1, <1>4, <1>8, Zenon DEF ScopeInKey, rows

\* A DELETE.
LEMMA DeleteStep ==
    ASSUME RowTypes, NEW key \in Keys, NEW whole \in BOOLEAN, Delete(key, whole)
    PROVE  /\ key \in DOMAIN work
           /\ Refusal \/ Added("delete", key, Body(work[key]), [other \in DOMAIN work \ {key} |-> work[other]])
<1> DEFINE rows == [other \in DOMAIN work \ {key} |-> work[other]]
<1>1. /\ key \in DOMAIN work
      /\ Streamed(decodeDelete(Info, OldOf(key, work[key], whole), MaxValueBytes), rows, UnfitOld(key, work[key]))
  BY Zenon DEF Delete, OldOf, UnfitOld
<1>2. key \in Nat \X Nat /\ identity \in {"default", "full", "index"}
  BY Bounds, Zenon DEF RowTypes
<1>3. work[key] \in Nat \cup {NoBody}
  BY <1>1, TableIs, Zenon DEF RowTypes
<1> HIDE DEF rows
<1>4. Body(work[key]) \in Column
  BY <1>3, BodyIs, Zenon
<1>5. PICK c : c = decodeDelete(Info, OldOf(key, work[key], whole), MaxValueBytes)
  OBVIOUS
<1>6. IF UnfitOld(key, work[key]) = {} THEN Made(c, "delete", key, Body(work[key])) ELSE c = Failed
  BY <1>2, <1>3, <1>5, DeleteDecoded
<1>7. Refusal \/ Added("delete", key, Body(work[key]), rows)
  <2>1. "delete" \in {"insert", "update", "delete"}
    OBVIOUS
  <2>2. Streamed(c, rows, UnfitOld(key, work[key]))
    BY <1>1, <1>5, Zenon
  <2> QED
    BY <1>2, <1>4, <1>6, <2>1, <2>2, StreamedStep, Zenon
<1> QED
  BY <1>1, <1>7, Zenon DEF rows

\* The replica identity is never changed, so a decoded change stays one.
LEMMA MadeForGood ==
    ASSUME identity' = identity
    PROVE  /\ MadeChange' = MadeChange
           /\ ScopeInKey' = ScopeInKey
<1>1. KeyNames' = KeyNames
  BY DEF KeyNames
<1>2. ScopeInKey' = ScopeInKey
  BY Zenon DEF ScopeInKey
<1>3. ASSUME NEW texts, NEW key PROVE KeyTexts(texts, key)' = KeyTexts(texts, key)
  BY <1>1, <1>2, Zenon DEF KeyTexts
<1>4. ASSUME NEW c, NEW operation, NEW key, NEW b PROVE Made(c, operation, key, b)' = Made(c, operation, key, b)
  BY <1>3, Zenon DEF Made
<1>5. ASSUME NEW c PROVE (c \in MadeChange)' <=> c \in MadeChange
  BY <1>4, Zenon DEF MadeChange
<1> QED
  BY <1>2, <1>5, Zenon

\* Types are kept by a change that is appended.
LEMMA AddedTypes ==
    ASSUME RowTypes, NEW operation \in {"insert", "update", "delete"}, NEW key \in Keys, NEW b \in Column,
           NEW rows \in Table, Added(operation, key, b, rows)
    PROVE  RowTypes'
<1>1. PICK c \in RowChange : /\ Made(c, operation, key, b)
                             /\ pending' = [changes |-> Append(pending.changes, c), bytes |-> pending'.bytes]
  BY Zenon DEF Added
<1>2. /\ pending'.bytes \in Int /\ pending'.bytes <= MaxTransactionBytes
      /\ Len(pending.changes) + 1 <= MaxTransactionChanges /\ work' = rows
      /\ identity' = identity /\ images' = images /\ log' = log /\ refused' = FALSE
  BY DEF Added
<1>3. c \in MadeChange
  BY <1>1, Zenon DEF MadeChange
<1>4. pending'.changes = Append(pending.changes, c)
  BY <1>1
<1>5. pending.changes \in Seq(MadeChange)
  BY Zenon DEF RowTypes
<1>6. /\ pending'.changes \in Seq(MadeChange) /\ Len(pending'.changes) <= MaxTransactionChanges
      /\ pending' = [changes |-> pending'.changes, bytes |-> pending'.bytes]
  BY <1>1, <1>2, <1>3, <1>4, <1>5
<1>7. MadeChange' = MadeChange
  BY <1>2, MadeForGood, Zenon
<1> QED
  BY <1>2, <1>6, <1>7, Zenon DEF RowTypes

\* The table after a change is a table.
LEMMA NewTable ==
    ASSUME NEW rows \in Table, NEW key \in Keys
    PROVE  /\ \A body \in Nat \cup {NoBody} : WithRow(rows, key, body) \in Table
           /\ [other \in DOMAIN rows \ {key} |-> rows[other]] \in Table
           /\ \A new \in Keys : key \in DOMAIN rows =>
                [other \in (DOMAIN rows \ {key}) \cup {new} |-> IF other = new THEN rows[key] ELSE rows[other]] \in Table
<1>1. DOMAIN rows \in SUBSET Keys /\ \A k \in DOMAIN rows : rows[k] \in Nat \cup {NoBody}
  BY TableIs, Zenon
<1> DEFINE V == Nat \cup {NoBody}
<1>2. \A D \in SUBSET Keys : [D -> V] \subseteq Table
  BY Zenon DEF Table
<1> HIDE DEF V
<1>3. ASSUME NEW body \in V PROVE WithRow(rows, key, body) \in Table
  <2>1. DOMAIN rows \cup {key} \in SUBSET Keys
    BY <1>1
  <2>2. WithRow(rows, key, body) \in [DOMAIN rows \cup {key} -> V]
    BY <1>1 DEF WithRow, V
  <2> QED
    BY <1>2, <2>1, <2>2, Zenon
<1>4. [other \in DOMAIN rows \ {key} |-> rows[other]] \in Table
  <2>1. DOMAIN rows \ {key} \in SUBSET Keys
    BY <1>1
  <2>2. [other \in DOMAIN rows \ {key} |-> rows[other]] \in [DOMAIN rows \ {key} -> V]
    BY <1>1 DEF V
  <2> QED
    BY <1>2, <2>1, <2>2, Zenon
<1>5. ASSUME NEW new \in Keys, key \in DOMAIN rows
      PROVE  [other \in (DOMAIN rows \ {key}) \cup {new} |-> IF other = new THEN rows[key] ELSE rows[other]] \in Table
  <2> DEFINE D == (DOMAIN rows \ {key}) \cup {new}
  <2>1. D \in SUBSET Keys
    BY <1>1
  <2>2. [other \in D |-> IF other = new THEN rows[key] ELSE rows[other]] \in [D -> V]
    BY <1>1, <1>5 DEF V
  <2> QED
    BY <1>2, <2>1, <2>2, Zenon
<1> QED
  BY <1>3, <1>4, <1>5, Zenon DEF V

\* The table's changes, by what they do: refused, or appended to the transaction.
ChangeStep ==
    \/ Refusal
    \/ \E key \in Keys :
         \/ /\ key \notin DOMAIN work
            /\ \E body \in Nat \cup {NoBody} : Added("insert", key, Body(body), WithRow(work, key, body))
         \/ /\ key \in DOMAIN work
            /\ \E body \in Nat \cup {NoBody} :
                 Added("update", key, NewBody(work[key], body), WithRow(work, key, body))
         \/ /\ key \in DOMAIN work
            /\ Added("delete", key, Body(work[key]), [other \in DOMAIN work \ {key} |-> work[other]])
         \/ /\ ~ScopeInKey /\ key \in DOMAIN work
            /\ \E new \in Keys, b \in Column :
                 Added("update", new, b,
                       [other \in (DOMAIN work \ {key}) \cup {new} |-> IF other = new THEN work[key] ELSE work[other]])

\* Every step is one of them, or a step of the transaction or of the client.
LEMMA StepIs ==
    ASSUME RowTypes, RowStep
    PROVE  ChangeStep \/ Begin \/ CommitTx \/ Deliver \/ Redeliver \/ Resnapshot
<1>1. ASSUME NEW key \in Keys, NEW body \in Bodies \cup {NoBody}, Insert(key, body) PROVE ChangeStep
  BY <1>1, InsertStep, Texts, Zenon DEF ChangeStep
<1>2. ASSUME NEW key \in Keys, NEW body \in Bodies \cup {NoBody}, Update(key, body) PROVE ChangeStep
  BY <1>2, UpdateStep, Texts, Zenon DEF ChangeStep
<1>3. ASSUME NEW key \in Keys, NEW new \in Keys, Rekey(key, new) PROVE ChangeStep
  BY <1>3, RekeyStep, Zenon DEF ChangeStep
<1>4. ASSUME NEW key \in Keys, NEW whole \in BOOLEAN, Delete(key, whole) PROVE ChangeStep
  BY <1>4, DeleteStep, Zenon DEF ChangeStep
<1> QED
  BY <1>1, <1>2, <1>3, <1>4, Zenon DEF RowStep

\* The first state.
LEMMA TypesInit == RowInit => RowTypes
<1> SUFFICES ASSUME RowInit PROVE RowTypes
  OBVIOUS
<1>1. identity \in {"default", "full", "index"} /\ Watched \in Scopes
  BY RowPathAssumption DEF RowInit, RowPathAssumption
<1>2. work \in Table
  <2>1. CASE work = NoRows
    <3>1. NoRows \in [{} -> Nat \cup {NoBody}] /\ {} \in SUBSET Keys
      BY DEF NoRows
    <3> QED
      BY <2>1, <3>1, Zenon DEF Table
  <2>2. CASE work \in [{<< Watched, id >> : id \in Ids} -> Bodies \cup {NoBody}]
    <3>1. {<< Watched, id >> : id \in Ids} \in SUBSET Keys
      BY <1>1 DEF Keys
    <3>2. work \in [{<< Watched, id >> : id \in Ids} -> Nat \cup {NoBody}]
      BY <2>2, Bounds
    <3> QED
      BY <3>1, <3>2, Zenon DEF Table
  <2> QED
    BY <2>1, <2>2 DEF RowInit
<1>3. /\ pending.changes = << >> /\ pending.bytes = -1
      /\ pending = [changes |-> pending.changes, bytes |-> pending.bytes]
  BY DEF RowInit, NoTransaction
<1>4. /\ pending.changes \in Seq(MadeChange) /\ pending.bytes \in Int
      /\ pending.bytes <= MaxTransactionBytes /\ Len(pending.changes) <= MaxTransactionChanges
  BY <1>3, Bounds
<1>5. images \in Seq(Table) /\ Len(images) = Len(log) + 1 /\ log \in Seq(Seq(MadeChange)) /\ refused \in BOOLEAN
  <2>1. images = << work >> /\ log = << >> /\ refused = FALSE
    BY Zenon DEF RowInit
  <2>2. << work >> \in Seq(Table) /\ Len(<< work >>) = 1 /\ Len(<< >>) = 0 /\ << >> \in Seq(Seq(MadeChange))
    BY <1>2
  <2>3. 1 = 0 + 1 /\ FALSE \in BOOLEAN
    OBVIOUS
  <2> QED
    BY <2>1, <2>2, <2>3, Zenon
<1> QED
  BY <1>1, <1>2, <1>3, <1>4, <1>5, Zenon DEF RowTypes

\* Every step keeps the types.
LEMMA TypesStep ==
    ASSUME RowTypes, [RowStep]_rowVars
    PROVE  RowTypes'
<1>1. identity' = identity => MadeChange' = MadeChange
  BY MadeForGood, Zenon
<1>2. CASE UNCHANGED rowVars
  BY <1>1, <1>2, Zenon DEF rowVars, RowTypes
<1>3. CASE ChangeStep
  <2>1. CASE Refusal
    <3>1. refused' \in BOOLEAN
      BY <2>1 DEF Refusal
    <3> QED
      BY <1>1, <2>1, <3>1, Zenon DEF Refusal, RowTypes
  <2>2. ASSUME NEW key \in Keys, NEW body \in Nat \cup {NoBody}, Added("insert", key, Body(body), WithRow(work, key, body))
        PROVE  RowTypes'
    <3>1. WithRow(work, key, body) \in Table /\ Body(body) \in Column
      BY NewTable, BodyIs, Zenon DEF RowTypes
    <3>2. "insert" \in {"insert", "update", "delete"}
      OBVIOUS
    <3> QED
      BY <2>2, <3>1, <3>2, AddedTypes, Zenon
  <2>3. ASSUME NEW key \in Keys, key \in DOMAIN work, NEW body \in Nat \cup {NoBody},
               Added("update", key, NewBody(work[key], body), WithRow(work, key, body))
        PROVE  RowTypes'
    <3>1. WithRow(work, key, body) \in Table /\ NewBody(work[key], body) \in Column
      BY <2>3, NewTable, NewBodyIs, TableIs, Zenon DEF RowTypes
    <3>2. "update" \in {"insert", "update", "delete"}
      OBVIOUS
    <3> QED
      BY <2>3, <3>1, <3>2, AddedTypes, Zenon
  <2>4. ASSUME NEW key \in Keys, key \in DOMAIN work,
               Added("delete", key, Body(work[key]), [other \in DOMAIN work \ {key} |-> work[other]])
        PROVE  RowTypes'
    <3>1. [other \in DOMAIN work \ {key} |-> work[other]] \in Table /\ Body(work[key]) \in Column
      BY <2>4, NewTable, BodyIs, TableIs, Zenon DEF RowTypes
    <3>2. "delete" \in {"insert", "update", "delete"}
      OBVIOUS
    <3> QED
      BY <2>4, <3>1, <3>2, AddedTypes, Zenon
  <2>5. ASSUME NEW key \in Keys, key \in DOMAIN work, NEW new \in Keys, NEW b \in Column,
               Added("update", new, b,
                     [other \in (DOMAIN work \ {key}) \cup {new} |-> IF other = new THEN work[key] ELSE work[other]])
        PROVE  RowTypes'
    <3>1. [other \in (DOMAIN work \ {key}) \cup {new} |-> IF other = new THEN work[key] ELSE work[other]] \in Table
      BY <2>5, NewTable, Zenon DEF RowTypes
    <3>2. "update" \in {"insert", "update", "delete"}
      OBVIOUS
    <3> QED
      BY <2>5, <3>1, <3>2, AddedTypes, Zenon
  <2> QED
    BY <1>3, <2>1, <2>2, <2>3, <2>4, <2>5, Zenon DEF ChangeStep
<1>4. CASE Begin
  <2>1. /\ pending'.changes = << >> /\ pending'.bytes = 0
        /\ pending' = [changes |-> pending'.changes, bytes |-> pending'.bytes]
    BY <1>4 DEF Begin
  <2>2. /\ pending'.changes \in Seq(MadeChange) /\ pending'.bytes \in Int
        /\ pending'.bytes <= MaxTransactionBytes /\ Len(pending'.changes) <= MaxTransactionChanges
    BY <2>1, Bounds
  <2> QED
    BY <1>1, <1>4, <2>1, <2>2, Zenon DEF Begin, RowTypes
<1>5. CASE CommitTx
  <2>1. /\ pending'.changes = << >> /\ pending'.bytes = -1
        /\ pending' = [changes |-> pending'.changes, bytes |-> pending'.bytes]
    BY <1>5 DEF CommitTx, NoTransaction
  <2>2. /\ pending'.changes \in Seq(MadeChange) /\ pending'.bytes \in Int
        /\ pending'.bytes <= MaxTransactionBytes /\ Len(pending'.changes) <= MaxTransactionChanges
    BY <2>1, Bounds
  <2>3. Routed(pending.changes) \in Seq(MadeChange)
    BY RoutedIs, Zenon DEF RowTypes
  <2>4. images' = Append(images, work) /\ log' = Append(log, Routed(pending.changes))
    BY <1>5, Zenon DEF CommitTx
  <2>5. images \in Seq(Table) /\ work \in Table /\ log \in Seq(Seq(MadeChange)) /\ Len(images) = Len(log) + 1
    BY Zenon DEF RowTypes
  <2>6. images' \in Seq(Table) /\ Len(images') = Len(log') + 1 /\ log' \in Seq(Seq(MadeChange))
    BY <2>3, <2>4, <2>5
  <2> QED
    BY <1>1, <1>5, <2>1, <2>2, <2>6, Zenon DEF CommitTx, RowTypes
<1>6. CASE Deliver
  <2>1. refused' \in BOOLEAN
    BY <1>6 DEF Deliver, RowTypes
  <2> QED
    BY <1>1, <1>6, <2>1, Zenon DEF Deliver, RowTypes
<1>7. CASE Redeliver
  BY <1>1, <1>7, Zenon DEF Redeliver, RowTypes
<1>8. CASE Resnapshot
  BY <1>1, <1>8, Zenon DEF Resnapshot, RowTypes
<1> QED
  BY <1>2, <1>3, <1>4, <1>5, <1>6, <1>7, <1>8, StepIs, Zenon

\* The types bound the pending transaction and every value in the log.
LEMMA TypesBound == RowTypes => PendingBounded
<1> SUFFICES ASSUME RowTypes PROVE PendingBounded
  OBVIOUS
<1>1. ASSUME NEW c \in MadeChange, NEW v \in Range(c.values) PROVE v.text <= MaxValueBytes
  <2>1. PICK operation \in {"insert", "update", "delete"}, key \in Keys, b \in Column : Made(c, operation, key, b)
    BY Zenon DEF MadeChange
  <2>2. c.values = IF operation = "delete" THEN << >> ELSE Row(b, key)
    BY <2>1 DEF Made
  <2>3. CASE operation = "delete"
    BY <2>2, <2>3 DEF Range
  <2>4. CASE operation # "delete"
    <3>1. b.data <= MaxValueBytes /\ key[1] <= MaxValueBytes /\ key[2] <= MaxValueBytes
      BY <2>1, <2>4, Zenon DEF Made
    <3>2. v \in {Decoded(b), Decoded(Text(key[1])), Decoded(Text(key[2]))}
      BY <2>2, <2>4 DEF Range, Row
    <3> QED
      BY <3>1, <3>2 DEF Decoded, Text
  <2> QED
    BY <2>3, <2>4, Zenon
<1>2. ASSUME NEW b \in DOMAIN log, NEW i \in DOMAIN log[b] PROVE log[b][i] \in MadeChange
  <2>1. log \in Seq(Seq(MadeChange))
    BY Zenon DEF RowTypes
  <2>2. log[b] \in Seq(MadeChange)
    BY <2>1
  <2> QED
    BY <2>2
<1>3. pending.bytes <= MaxTransactionBytes /\ Len(pending.changes) <= MaxTransactionChanges
  BY Zenon DEF RowTypes
<1> QED
  BY <1>1, <1>2, <1>3, Zenon DEF PendingBounded

-----------------------------------------------------------------------------
(* The client's rows.                                                         *)

\* The client's row for a row of the table, and its rows for the table.
MirrorRow(key, body) ==
    [body |-> IF body = NoBody THEN Value(0, TRUE, FALSE) ELSE Value(body, FALSE, FALSE),
     scope |-> Value(key[1], FALSE, FALSE), id |-> Value(key[2], FALSE, FALSE)]
Mirror(rows) == [key \in {k \in DOMAIN rows : k[1] = Watched} |-> MirrorRow(key, rows[key])]

\* The row at a key, if there is one; a row rewritten without its body.
Cell(S, key) == IF key \in DOMAIN S THEN {S[key]} ELSE {}
Current(S, key) == IF key \in DOMAIN S THEN S[key] ELSE << >>
Rekeyed(row, key) ==
    [column \in {"scope", "id"} \cup ({"body"} \cap DOMAIN row) |->
       IF column = "body" THEN row["body"]
       ELSE IF column = "scope" THEN Value(key[1], FALSE, FALSE) ELSE Value(key[2], FALSE, FALSE)]
BodyOf(b) == IF b.type = "n" THEN NoBody ELSE b.data

Without(S, key) == [k \in DOMAIN S \ {key} |-> S[k]]

\* What a change leaves at its key.
Left(operation, key, b, row) ==
    IF operation = "delete" THEN {}
    ELSE IF b.type = "u" THEN {Rekeyed(row, key)} ELSE {MirrorRow(key, BodyOf(b))}

\* The client's rows by key.
LEMMA SdkIs ==
    ASSUME NEW S \in SdkRows
    PROVE  /\ S # Failed /\ DOMAIN S \in SUBSET Keys /\ S \in [DOMAIN S -> SdkRow]
           /\ \A key \in DOMAIN S : S[key] \in SdkRow
<1>1. PICK keys \in SUBSET Keys : S \in [keys -> SdkRow]
  BY Zenon DEF SdkRows
<1>2. Failed \notin [keys -> SdkRow]
  BY RowPathAssumption, Zenon DEF RowPathAssumption
<1> QED
  BY <1>1, <1>2, Zenon

\* Rows are told apart by their cells.
LEMMA SameCells ==
    ASSUME NEW S \in SdkRows, NEW T \in SdkRows, \A key \in Keys : Cell(S, key) = Cell(T, key)
    PROVE  S = T
<1>1. DOMAIN S \in SUBSET Keys /\ S \in [DOMAIN S -> SdkRow] /\ DOMAIN T \in SUBSET Keys /\ T \in [DOMAIN T -> SdkRow]
  BY SdkIs, Zenon
<1>2. ASSUME NEW key \in Keys PROVE (key \in DOMAIN S <=> key \in DOMAIN T) /\ (key \in DOMAIN S => S[key] = T[key])
  <2>1. Cell(S, key) = Cell(T, key)
    OBVIOUS
  <2> QED
    BY <2>1 DEF Cell
<1>3. DOMAIN S = DOMAIN T
  BY <1>1, <1>2
<1>4. \A key \in DOMAIN S : S[key] = T[key]
  BY <1>1, <1>2
<1> QED
  BY <1>1, <1>3, <1>4

\* The rows an insert, update or delete leaves.
LEMMA RowPut ==
    ASSUME NEW S \in SdkRows, NEW key \in Keys, NEW row \in SdkRow
    PROVE  /\ WithRow(S, key, row) \in SdkRows
           /\ Cell(WithRow(S, key, row), key) = {row}
           /\ \A k : k # key => Cell(WithRow(S, key, row), k) = Cell(S, k)
<1>1. DOMAIN S \in SUBSET Keys /\ \A k \in DOMAIN S : S[k] \in SdkRow
  BY SdkIs, Zenon
<1> DEFINE T == WithRow(S, key, row)
<1>2. T \in [DOMAIN S \cup {key} -> SdkRow] /\ DOMAIN S \cup {key} \in SUBSET Keys
  BY <1>1 DEF WithRow
<1>3. DOMAIN T = DOMAIN S \cup {key} /\ T[key] = row /\ \A k \in DOMAIN S : k # key => T[k] = S[k]
  BY DEF WithRow
<1> HIDE DEF T
<1>4. T \in SdkRows
  BY <1>2, Zenon DEF SdkRows
<1>5. Cell(T, key) = {row}
  BY <1>3 DEF Cell
<1>6. ASSUME NEW k, k # key PROVE Cell(T, k) = Cell(S, k)
  BY <1>3, <1>6 DEF Cell
<1> QED
  BY <1>4, <1>5, <1>6, Zenon DEF T

\* The rows a delete leaves.
LEMMA RowGone ==
    ASSUME NEW S \in SdkRows, NEW key, NEW T, T = Without(S, key)
    PROVE  T \in SdkRows /\ Cell(T, key) = {} /\ \A k : k # key => Cell(T, k) = Cell(S, k)
<1>1. DOMAIN S \in SUBSET Keys /\ \A k \in DOMAIN S : S[k] \in SdkRow
  BY SdkIs, Zenon
<1>2. T \in [DOMAIN S \ {key} -> SdkRow] /\ DOMAIN S \ {key} \in SUBSET Keys
  BY <1>1 DEF Without
<1>3. T \in SdkRows
  BY <1>2, Zenon DEF SdkRows
<1>4. DOMAIN T = DOMAIN S \ {key} /\ \A k \in DOMAIN T : T[k] = S[k]
  BY DEF Without
<1>5. Cell(T, key) = {}
  BY <1>4 DEF Cell
<1>6. ASSUME NEW k, k # key PROVE Cell(T, k) = Cell(S, k)
  BY <1>4, <1>6 DEF Cell
<1> QED
  BY <1>3, <1>5, <1>6, Zenon

\* A row of the client, as a function of its columns.
LEMMA RowIsFunction ==
    ASSUME NEW x, NEW y, NEW z
    PROVE  [body |-> x, scope |-> y, id |-> z] =
             [column \in {"body", "scope", "id"} |-> IF column = "body" THEN x ELSE IF column = "scope" THEN y ELSE z]
OBVIOUS

\* The rows of the client are rows of three columns at most.
LEMMA SdkRowIs ==
    ASSUME NEW key \in Keys
    PROVE  /\ \A body \in Nat \cup {NoBody} : MirrorRow(key, body) \in SdkRow
           /\ \A row \in SdkRow \cup {<< >>} : Rekeyed(row, key) \in SdkRow
<1>1. Range(Columns) = {"body", "scope", "id"}
  BY DEF Range, Columns
<1>2. key[1] \in Nat /\ key[2] \in Nat
  BY Bounds
<1>3. \A D \in SUBSET {"body", "scope", "id"} : [D -> SdkValue] \subseteq SdkRow
  BY <1>1, Zenon DEF SdkRow
<1>4. \A n \in Nat : Value(n, FALSE, FALSE) \in SdkValue /\ Value(n, TRUE, FALSE) \in SdkValue
  BY DEF Value, SdkValue
<1>5. ASSUME NEW body \in Nat \cup {NoBody} PROVE MirrorRow(key, body) \in SdkRow
  <2> DEFINE v == IF body = NoBody THEN Value(0, TRUE, FALSE) ELSE Value(body, FALSE, FALSE)
             y == Value(key[1], FALSE, FALSE)
             z == Value(key[2], FALSE, FALSE)
  <2>1. v \in SdkValue /\ y \in SdkValue /\ z \in SdkValue
    BY <1>2, <1>4 DEF NoBody
  <2>2. MirrorRow(key, body) = [body |-> v, scope |-> y, id |-> z]
    BY Zenon DEF MirrorRow
  <2> HIDE DEF v, y, z
  <2>3. [column \in {"body", "scope", "id"} |-> IF column = "body" THEN v ELSE IF column = "scope" THEN y ELSE z]
          \in [{"body", "scope", "id"} -> SdkValue]
    BY <2>1, Zenon
  <2>4. [body |-> v, scope |-> y, id |-> z] \in [{"body", "scope", "id"} -> SdkValue]
    BY <2>3, RowIsFunction
  <2>5. {"body", "scope", "id"} \in SUBSET {"body", "scope", "id"}
    OBVIOUS
  <2> QED
    BY <1>3, <2>2, <2>4, <2>5, Zenon
<1>6. ASSUME NEW row \in SdkRow \cup {<< >>} PROVE Rekeyed(row, key) \in SdkRow
  <2> DEFINE D == {"scope", "id"} \cup ({"body"} \cap DOMAIN row)
  <2>1. D \in SUBSET {"body", "scope", "id"}
    OBVIOUS
  <2>2. "body" \in DOMAIN row => row["body"] \in SdkValue
    BY DEF SdkRow
  <2>3. Rekeyed(row, key) \in [D -> SdkValue]
    BY <1>2, <1>4, <2>2 DEF Rekeyed
  <2> QED
    BY <1>3, <2>1, <2>3, Zenon
<1> QED
  BY <1>5, <1>6, Zenon

-----------------------------------------------------------------------------
(* The order of keys, and the pages of a snapshot.                            *)

\* A key of two texts.
Pair == [{1, 2} -> Nat]

\* KeyOrder compares the first texts, then the second.
LEMMA KeyOrderIs ==
    ASSUME NEW l \in Pair, NEW r \in Pair
    PROVE  KeyOrder(l, r) <=> l[1] < r[1] \/ (l[1] = r[1] /\ l[2] < r[2])
<1>1. DOMAIN l = {1, 2}
  BY DEF Pair
<1>2. 1..(1 - 1) = {} /\ 1..(2 - 1) = {1}
  OBVIOUS
<1> QED
  BY <1>1, <1>2 DEF KeyOrder

\* It is a strict order of all keys.
LEMMA KeyOrderStrict ==
    ASSUME NEW l \in Pair, NEW r \in Pair, NEW s \in Pair
    PROVE  /\ ~KeyOrder(l, l)
           /\ KeyOrder(l, r) /\ KeyOrder(r, s) => KeyOrder(l, s)
           /\ l = r \/ KeyOrder(l, r) \/ KeyOrder(r, l)
<1>1. l[1] \in Nat /\ l[2] \in Nat /\ r[1] \in Nat /\ r[2] \in Nat /\ s[1] \in Nat /\ s[2] \in Nat
  BY DEF Pair
<1>2. ~KeyOrder(l, l)
  BY <1>1, KeyOrderIs
<1>3. KeyOrder(l, r) /\ KeyOrder(r, s) => KeyOrder(l, s)
  BY <1>1, KeyOrderIs
<1>4. l[1] = r[1] /\ l[2] = r[2] => l = r
  BY DEF Pair
<1>5. l = r \/ KeyOrder(l, r) \/ KeyOrder(r, l)
  BY <1>1, <1>4, KeyOrderIs
<1> QED
  BY <1>2, <1>3, <1>5

\* Some key is the first.
LEMMA FirstKey ==
    ASSUME NEW S \in SUBSET Pair, S # {}
    PROVE  \E m \in S : \A k \in S : k = m \/ KeyOrder(m, k)
<1> DEFINE Firsts == {k[1] : k \in S}
<1>1. \A k \in S : k \in Pair /\ k[1] \in Nat /\ k[2] \in Nat
  BY DEF Pair
<1>2. PICK a \in Firsts : \A b \in Firsts : a <= b
  <2>1. Firsts \subseteq Nat /\ Firsts # {}
    BY <1>1
  <2> HIDE DEF Firsts
  <2> QED
    BY <2>1, LeastNatural, Zenon
<1> DEFINE Seconds == {k[2] : k \in {x \in S : x[1] = a}}
<1>3. PICK c \in Seconds : \A b \in Seconds : c <= b
  <2>1. Seconds \subseteq Nat /\ Seconds # {}
    BY <1>1, <1>2
  <2> HIDE DEF Seconds
  <2> QED
    BY <2>1, LeastNatural, Zenon
<1>4. PICK m \in S : m[1] = a /\ m[2] = c
  BY <1>3, Zenon
<1>5. ASSUME NEW k \in S PROVE k = m \/ KeyOrder(m, k)
  <2>1. a <= k[1] /\ (k[1] = a => c <= k[2])
    BY <1>2, <1>3, Zenon
  <2>2. m[1] < k[1] \/ (m[1] = k[1] /\ m[2] < k[2]) \/ (m[1] = k[1] /\ m[2] = k[2])
    BY <1>1, <1>4, <2>1
  <2>3. m[1] = k[1] /\ m[2] = k[2] => k = m
    BY <1>1 DEF Pair
  <2> QED
    BY <1>1, <2>2, <2>3, KeyOrderIs
<1> QED
  BY <1>4, <1>5, Zenon

\* The rows a snapshot reads: of three columns, the key's two texts, each key once.
SnapRow == [body : Column \ {Toast}, scope : {Text(n) : n \in Nat}, id : {Text(n) : n \in Nat}]
RowKey(row) == KeyOf(row, PrimaryKey)
Before(row, other) == KeyOrder(RowKey(row), RowKey(other))
Snap(rows) ==
    /\ rows \subseteq SnapRow /\ IsFiniteSet(rows)
    /\ \A row, other \in rows : RowKey(row) = RowKey(other) => row = other

\* A row's key.
LEMMA RowKeyIs ==
    ASSUME NEW row \in SnapRow
    PROVE  RowKey(row) \in Pair /\ RowKey(row)[1] = row.scope.data /\ RowKey(row)[2] = row.id.data /\ RowKey(row) # << >>
<1>1. DOMAIN PrimaryKey = {1, 2} /\ PrimaryKey[1] = "scope" /\ PrimaryKey[2] = "id"
  BY DEF PrimaryKey
<1>2. RowKey(row) = [i \in {1, 2} |-> row[PrimaryKey[i]].data]
  BY <1>1, Zenon DEF RowKey, KeyOf
<1>3. row.scope.data \in Nat /\ row.id.data \in Nat
  BY DEF SnapRow, Text
<1>4. RowKey(row)[1] = row.scope.data /\ RowKey(row)[2] = row.id.data
  BY <1>1, <1>2
<1>5. RowKey(row) \in Pair
  BY <1>1, <1>2, <1>3 DEF Pair
<1>6. RowKey(row) # << >>
  BY <1>2
<1> QED
  BY <1>4, <1>5, <1>6

\* The rows are ordered by their keys.
LEMMA BeforeStrict ==
    ASSUME NEW rows, Snap(rows), NEW a \in rows, NEW b \in rows, NEW c \in rows
    PROVE  /\ ~Before(a, a)
           /\ Before(a, b) /\ Before(b, c) => Before(a, c)
           /\ a = b \/ Before(a, b) \/ Before(b, a)
<1>1. RowKey(a) \in Pair /\ RowKey(b) \in Pair /\ RowKey(c) \in Pair /\ (RowKey(a) = RowKey(b) => a = b)
  BY RowKeyIs, Zenon DEF Snap
<1> QED
  BY <1>1, KeyOrderStrict, Zenon DEF Before

\* A page of a set of rows: the first ones, in order, all of them if there is room.
IsPage(page, rows, n) ==
    /\ \A i, j \in DOMAIN page : i < j => Before(page[i], page[j])
    /\ \A row \in rows \ Range(page) : Len(page) = n /\ \A i \in DOMAIN page : Before(page[i], row)

\* There is one of every size.
LEMMA PageExists ==
    ASSUME NEW rows, Snap(rows), NEW after \in SUBSET rows, NEW n \in Nat
    PROVE  \E page \in Seq(after) : Len(page) <= n /\ IsPage(page, after, n)
<1> DEFINE Good == {m \in Nat : \E page \in Seq(after) : Len(page) <= m /\ IsPage(page, after, m)}
<1>1. 0 \in Good
  <2>1. << >> \in Seq(after) /\ Len(<< >>) = 0 /\ 0 <= 0 /\ DOMAIN << >> = {} /\ 0 \in Nat
    OBVIOUS
  <2>2. IsPage(<< >>, after, 0)
    BY <2>1, Zenon DEF IsPage
  <2>3. Len(<< >>) <= 0
    BY <2>1, Zenon
  <2> QED
    BY <2>1, <2>2, <2>3, Zenon
<1>2. ASSUME NEW m \in 1..n, m - 1 \in Good PROVE m \in Good
  <2>1. PICK page \in Seq(after) : Len(page) <= m - 1 /\ IsPage(page, after, m - 1)
    BY <1>2, Zenon
  <2>2. m \in Nat /\ Len(page) <= m
    BY <2>1
  <2> DEFINE left == after \ Range(page)
  <2>3. CASE left = {}
    <3>1. IsPage(page, after, m)
      BY <2>1, <2>3, Zenon DEF IsPage
    <3> QED
      BY <2>2, <3>1, Zenon
  <2>4. CASE left # {}
    <3>1. PICK row \in left : \A other \in left : other = row \/ Before(row, other)
      <4> DEFINE K == {RowKey(x) : x \in left}
      <4>1. K \in SUBSET Pair /\ K # {}
        <5>1. \A x \in left : x \in SnapRow
          BY Zenon DEF Snap
        <5>2. \A x \in left : RowKey(x) \in Pair
          BY <5>1, RowKeyIs, Zenon
        <5> HIDE DEF left
        <5> QED
          BY <2>4, <5>2
      <4> HIDE DEF K
      <4>2. PICK k \in K : \A l \in K : l = k \/ KeyOrder(k, l)
        BY <4>1, FirstKey, Zenon
      <4>3. PICK x \in left : k = RowKey(x)
        BY Zenon DEF K
      <4>4. \A y \in left : y \in rows /\ RowKey(y) \in K
        BY Zenon DEF K
      <4> HIDE DEF left
      <4> QED
        BY <4>2, <4>3, <4>4, Zenon DEF Before, Snap
    <3>2. Len(page) = m - 1 /\ \A y \in left : \A i \in DOMAIN page : Before(page[i], y)
      BY <2>1, <3>1, Zenon DEF IsPage
    <3> DEFINE more == Append(page, row)
    <3>3. /\ more \in Seq(after) /\ Len(more) = m /\ DOMAIN more = 1..m /\ more[m] = row
          /\ \A i \in 1..m : i = m \/ (i \in DOMAIN page /\ more[i] = page[i])
          /\ \A i \in DOMAIN page : i \in 1..m /\ more[i] = page[i]
      BY <3>2
    <3> HIDE DEF more
    <3>4. ASSUME NEW i \in 1..m, NEW j \in 1..m, i < j PROVE Before(more[i], more[j])
      <4>1. i # m
        BY <3>4
      <4>2. i \in DOMAIN page /\ more[i] = page[i]
        BY <3>3, <4>1, Zenon
      <4>3. CASE j = m
        BY <3>1, <3>2, <3>3, <4>2, <4>3, Zenon
      <4>4. CASE j # m
        <5>1. j \in DOMAIN page /\ more[j] = page[j]
          BY <3>3, <4>4, Zenon
        <5> QED
          BY <2>1, <3>4, <4>2, <5>1, Zenon DEF IsPage
      <4> QED
        BY <4>3, <4>4, Zenon
    <3>5. ASSUME NEW y \in after \ Range(more) PROVE \A i \in 1..m : Before(more[i], y)
      <4>0. m \in 1..m
        OBVIOUS
      <4>1. \A i \in 1..m : more[i] # y
        BY <3>3, Zenon DEF Range
      <4>2. y # row
        BY <3>3, <4>0, <4>1, Zenon
      <4>3. y \in left
        BY <3>3, <4>1, Zenon DEF Range
      <4>4. Before(row, y)
        BY <3>1, <4>2, <4>3, Zenon
      <4> QED
        BY <3>2, <3>3, <4>3, <4>4, Zenon
    <3>6. IsPage(more, after, m)
      BY <3>3, <3>4, <3>5, Zenon DEF IsPage
    <3>7. Len(more) <= m
      BY <3>3
    <3> QED
      BY <2>2, <3>3, <3>6, <3>7, Zenon
  <2> QED
    BY <2>3, <2>4, Zenon
<1> HIDE DEF Good
<1>3. 0..n \subseteq Good
  BY <1>1, <1>2, Turns, Zenon
<1>4. n \in 0..n
  OBVIOUS
<1> QED
  BY <1>3, <1>4, Zenon DEF Good

\* The rows after the last key.
After(rows, lastKey) == {row \in rows : lastKey = << >> \/ KeyOrder(lastKey, RowKey(row))}

\* fetchBatch reads the first of them.
LEMMA FetchIs ==
    ASSUME NEW rows, Snap(rows), NEW lastKey, NEW n \in Nat, NEW page, page = fetchBatch(rows, PrimaryKey, lastKey, n)
    PROVE  page \in Seq(After(rows, lastKey)) /\ Len(page) <= n /\ IsPage(page, After(rows, lastKey), n)
<1> DEFINE after == After(rows, lastKey)
           Sizes == UNION {[1..m -> after] : m \in 0..n}
<1>1. after \in SUBSET rows
  BY Zenon DEF After
<1>2. page = CHOOSE p \in Sizes : IsPage(p, after, n)
  BY Zenon DEF fetchBatch, After, IsPage, Before, RowKey
<1>3. \A p \in Seq(after) : Len(p) <= n => p \in Sizes
  <2> HIDE DEF after
  <2> SUFFICES ASSUME NEW p \in Seq(after), Len(p) <= n PROVE p \in Sizes
    OBVIOUS
  <2>1. p \in [1..Len(p) -> after] /\ Len(p) \in 0..n
    OBVIOUS
  <2> QED
    BY <2>1, Zenon
<1>4. \A p \in Sizes : p \in Seq(after) /\ Len(p) <= n
  <2> HIDE DEF after
  <2> SUFFICES ASSUME NEW p \in Sizes PROVE p \in Seq(after) /\ Len(p) <= n
    OBVIOUS
  <2>1. PICK m \in 0..n : p \in [1..m -> after]
    BY Zenon
  <2>2. p \in Seq(after) /\ DOMAIN p = 1..m
    BY <2>1
  <2> QED
    BY <2>1, <2>2
<1> HIDE DEF after, Sizes
<1>5. \E p \in Sizes : IsPage(p, after, n)
  BY <1>1, <1>3, PageExists, Zenon
<1>6. page \in Sizes /\ IsPage(page, after, n)
  BY <1>2, <1>5, Zenon
<1> QED
  BY <1>4, <1>6, Zenon DEF after

\* The rows of pages, and their order.
Read(pages) == UNION {Range(pages[p]) : p \in DOMAIN pages}
Later(p, i, q, j) == p < q \/ (p = q /\ i < j)
InOrder(pages) ==
    \A p, q \in DOMAIN pages : \A i \in DOMAIN pages[p], j \in DOMAIN pages[q] :
      Later(p, i, q, j) => Before(pages[p][i], pages[q][j])

\* What the scan has read: full pages of the first rows, in order, or all.
Scanned(pages, rows, n, turns) ==
    /\ pages \in Seq(Seq(rows)) /\ \A p \in DOMAIN pages : Len(pages[p]) \in 1..n
    /\ InOrder(pages)
    /\ \A row \in Read(pages), other \in rows \ Read(pages) : Before(row, other)
    /\ \/ Read(pages) = rows
       \/ turns <= Cardinality(Read(pages)) /\ (pages # << >> => Len(pages[Len(pages)]) = n)

\* Rows are read from pages.
LEMMA ReadIs ==
    ASSUME NEW rows, NEW pages \in Seq(Seq(rows))
    PROVE  /\ Read(pages) \subseteq rows
           /\ \A row \in Read(pages) : \E p \in DOMAIN pages : \E i \in DOMAIN pages[p] : pages[p][i] = row
           /\ \A p \in DOMAIN pages : \A i \in DOMAIN pages[p] : pages[p][i] \in Read(pages)
           /\ \A page \in Seq(rows) : Read(Append(pages, page)) = Read(pages) \cup Range(page)
<1>1. \A p \in DOMAIN pages : pages[p] \in Seq(rows)
  OBVIOUS
<1>2. \A p \in DOMAIN pages : Range(pages[p]) \subseteq rows
  BY <1>1 DEF Range
<1>3. Read(pages) \subseteq rows
  BY <1>2, Zenon DEF Read
<1>4. \A row \in Read(pages) : \E p \in DOMAIN pages : \E i \in DOMAIN pages[p] : pages[p][i] = row
  BY Zenon DEF Read, Range
<1>5. \A p \in DOMAIN pages : \A i \in DOMAIN pages[p] : pages[p][i] \in Read(pages)
  <2>1. ASSUME NEW p \in DOMAIN pages, NEW i \in DOMAIN pages[p] PROVE pages[p][i] \in Range(pages[p])
    BY Zenon DEF Range
  <2> QED
    BY <2>1, Zenon DEF Read
<1>6. ASSUME NEW page \in Seq(rows) PROVE Read(Append(pages, page)) = Read(pages) \cup Range(page)
  <2> DEFINE more == Append(pages, page)
             n == Len(pages)
  <2>1. /\ n \in Nat /\ DOMAIN more = (DOMAIN pages) \cup {n + 1} /\ more[n + 1] = page
        /\ \A p \in DOMAIN pages : more[p] = pages[p]
    OBVIOUS
  <2> HIDE DEF more, n
  <2>2. Read(more) = Read(pages) \cup Range(page)
    <3>1. \A x : x \in Read(more) <=> \E p \in DOMAIN more : x \in Range(more[p])
      BY Zenon DEF Read
    <3>2. \A x : x \in Read(pages) <=> \E p \in DOMAIN pages : x \in Range(pages[p])
      BY Zenon DEF Read
    <3>3. \A x : x \in Read(more) <=> x \in Read(pages) \/ x \in Range(page)
      BY <2>1, <3>1, <3>2, Zenon
    <3> QED
      BY <3>3
  <2> QED
    BY <2>2, Zenon DEF more
<1> QED
  BY <1>3, <1>4, <1>5, <1>6, Zenon

\* The rows after the last key are the rows not read.
LEMMA AfterLast ==
    ASSUME NEW rows, Snap(rows), NEW n \in Nat, NEW turns, NEW pages, Scanned(pages, rows, n, turns)
    PROVE  After(rows, lastKeyOf(pages, PrimaryKey)) = rows \ Read(pages)
<1>1. pages \in Seq(Seq(rows)) /\ InOrder(pages) /\ \A p \in DOMAIN pages : Len(pages[p]) \in 1..n
  BY Zenon DEF Scanned
<1>2. CASE pages = << >>
  <2>1. Read(pages) = {}
    BY <1>2 DEF Read
  <2>2. lastKeyOf(pages, PrimaryKey) = << >>
    BY <1>2, Zenon DEF lastKeyOf
  <2> QED
    BY <2>1, <2>2, Zenon DEF After
<1>3. CASE pages # << >>
  <2> DEFINE p == Len(pages)
             batch == pages[p]
             i == Len(batch)
             last == batch[i]
  <2>1. /\ p \in DOMAIN pages /\ batch \in Seq(rows)
        /\ \A q \in DOMAIN pages : q < p \/ q = p
    BY <1>1, <1>3
  <2>2. i \in 1..n
    BY <1>1, <2>1, Zenon
  <2>3. i \in DOMAIN batch /\ last \in rows /\ \A j \in DOMAIN batch : j < i \/ j = i
    <3> HIDE DEF batch
    <3> QED
      BY <2>1, <2>2
  <2>4. lastKeyOf(pages, PrimaryKey) = RowKey(last)
    BY <1>3, Zenon DEF lastKeyOf, RowKey
  <2>5. RowKey(last) # << >>
    <3> HIDE DEF last
    <3> QED
      BY <2>3, RowKeyIs, Zenon DEF Snap
  <2>6. last \in Read(pages)
    BY <1>1, <2>1, <2>3, ReadIs, Zenon
  <2>7. ASSUME NEW x \in Read(pages) PROVE x = last \/ Before(x, last)
    <3>0. PICK q \in DOMAIN pages : \E j \in DOMAIN pages[q] : pages[q][j] = x
      BY <1>1, ReadIs, Zenon
    <3>1. PICK j \in DOMAIN pages[q] : pages[q][j] = x
      BY <3>0, Zenon
    <3>2. CASE q < p
      <4>1. Later(q, j, p, i)
        BY <3>2, Zenon DEF Later
      <4> QED
        BY <1>1, <2>1, <2>3, <3>1, <4>1, Zenon DEF InOrder
    <3>3. CASE q = p /\ j = i
      BY <3>1, <3>3, Zenon
    <3>4. CASE q = p /\ j < i
      <4>1. Later(q, j, p, i)
        BY <3>4, Zenon DEF Later
      <4> QED
        BY <1>1, <2>1, <2>3, <3>1, <4>1, Zenon DEF InOrder
    <3> HIDE DEF i
    <3> QED
      BY <2>1, <2>3, <3>1, <3>2, <3>3, <3>4, Zenon
  <2> HIDE DEF last
  <2>8. Read(pages) \subseteq rows
    BY <1>1, ReadIs, Zenon
  <2>9. ASSUME NEW y \in rows PROVE Before(last, y) <=> y \notin Read(pages)
    <3>1. CASE y \notin Read(pages)
      BY <2>6, <3>1, Zenon DEF Scanned
    <3>2. CASE y \in Read(pages)
      <4>1. y = last \/ Before(y, last)
        BY <2>7, <3>2, Zenon
      <4>2. ~Before(last, last) /\ (Before(last, y) /\ Before(y, last) => Before(last, last))
        BY <2>3, BeforeStrict, Zenon
      <4> QED
        BY <3>2, <4>1, <4>2, Zenon
    <3> QED
      BY <3>1, <3>2, Zenon
  <2> QED
    BY <2>4, <2>5, <2>9, Zenon DEF After, Before
<1> QED
  BY <1>2, <1>3, Zenon

\* A page of the rows not read goes on where the scan was.
LEMMA PageRead ==
    ASSUME NEW rows, Snap(rows), NEW n \in Nat, NEW turns \in Nat, NEW pages, Scanned(pages, rows, n, turns),
           Read(pages) = rows \/ turns <= Cardinality(Read(pages)),
           NEW page \in Seq(rows \ Read(pages)), Len(page) <= n, page # << >>, IsPage(page, rows \ Read(pages), n)
    PROVE  Scanned(Append(pages, page), rows, n, turns + 1)
<1> DEFINE more == Append(pages, page)
           last == Len(pages) + 1
           left == rows \ Read(pages)
<1>1. pages \in Seq(Seq(rows)) /\ InOrder(pages) /\ \A p \in DOMAIN pages : Len(pages[p]) \in 1..n
  BY Zenon DEF Scanned
<1>2. page \in Seq(rows) /\ Len(page) \in 1..n /\ DOMAIN page = 1..Len(page) /\ \A i \in DOMAIN page : page[i] \in left
  <2> HIDE DEF left
  <2>1. left \subseteq rows /\ page \in Seq(left)
    BY Zenon DEF left
  <2>2. page \in Seq(rows)
    BY <2>1
  <2> QED
    BY <2>1, <2>2
<1>3. /\ more \in Seq(Seq(rows)) /\ DOMAIN more = (DOMAIN pages) \cup {last} /\ more[last] = page /\ Len(more) = last
      /\ \A p \in DOMAIN pages : more[p] = pages[p] /\ p < last /\ p \in Nat
      /\ last \in Nat /\ ~(last < last) /\ \A p \in DOMAIN pages : ~(last < p) /\ p # last
  BY <1>1, <1>2
<1>4. Read(more) = Read(pages) \cup Range(page)
  BY <1>1, <1>2, ReadIs, Zenon
<1> HIDE DEF more, last
<1>5. \A p \in DOMAIN more : Len(more[p]) \in 1..n
  BY <1>1, <1>2, <1>3, Zenon
<1>6. InOrder(more)
  <2> SUFFICES ASSUME NEW p \in DOMAIN more, NEW q \in DOMAIN more, NEW i \in DOMAIN more[p], NEW j \in DOMAIN more[q],
                      Later(p, i, q, j)
               PROVE  Before(more[p][i], more[q][j])
    BY Zenon DEF InOrder
  <2>1. CASE p \in DOMAIN pages /\ q \in DOMAIN pages
    BY <1>1, <1>3, <2>1, Zenon DEF InOrder
  <2>2. CASE p \in DOMAIN pages /\ q = last
    <3>1. more[p][i] \in Read(pages)
      BY <1>1, <1>3, <2>2, ReadIs, Zenon
    <3>2. more[q][j] \in left
      BY <1>2, <1>3, <2>2, Zenon
    <3> QED
      BY <3>1, <3>2, Zenon DEF Scanned
  <2>3. CASE p = last /\ q = last
    <3>1. i < j
      BY <1>3, <2>3, Zenon DEF Later
    <3> QED
      BY <1>3, <2>3, <3>1, Zenon DEF IsPage
  <2>4. CASE p = last /\ q \in DOMAIN pages
    BY <1>3, <2>4, Zenon DEF Later
  <2> QED
    BY <1>3, <2>1, <2>2, <2>3, <2>4, Zenon
<1>7. ASSUME NEW row \in Read(more), NEW other \in rows \ Read(more) PROVE Before(row, other)
  <2>1. other \in left /\ other \in left \ Range(page)
    BY <1>4, Zenon
  <2>2. CASE row \in Read(pages)
    BY <2>1, <2>2, Zenon DEF Scanned
  <2>3. CASE row \in Range(page)
    BY <2>1, <2>3, Zenon DEF IsPage, Range
  <2> QED
    BY <1>4, <2>2, <2>3, Zenon
<1>8. \/ Read(more) = rows
      \/ turns + 1 <= Cardinality(Read(more)) /\ (more # << >> => Len(more[Len(more)]) = n)
  <2>1. CASE left \ Range(page) = {}
    <3>1. Range(page) \subseteq left
      BY <1>2, Zenon DEF Range
    <3>2. Read(pages) \subseteq rows
      BY <1>1, ReadIs, Zenon
    <3> QED
      BY <1>4, <2>1, <3>1, <3>2, Zenon
  <2>2. CASE left \ Range(page) # {}
    <3>1. Len(more[Len(more)]) = n
      BY <1>3, <2>2, Zenon DEF IsPage
    <3>2. PICK x \in Range(page) : x \in left
      <4>1. 1 \in DOMAIN page
        BY <1>2
      <4> QED
        BY <1>2, <4>1, Zenon DEF Range
    <3>3. turns <= Cardinality(Read(pages))
      BY <2>2, Zenon
    <3>4. IsFiniteSet(rows) /\ Read(pages) \subseteq rows /\ Read(more) \subseteq rows
      BY <1>1, <1>3, ReadIs, Zenon DEF Snap
    <3>5. IsFiniteSet(Read(pages)) /\ IsFiniteSet(Read(more))
      BY <3>4, FS_Subset, Zenon
    <3>6. Cardinality(Read(pages) \cup {x}) = Cardinality(Read(pages)) + 1 /\ IsFiniteSet(Read(pages) \cup {x})
      BY <3>2, <3>5, FS_AddElement, Zenon
    <3>7. Read(pages) \cup {x} \subseteq Read(more)
      BY <1>4, <3>2, Zenon
    <3>8. Cardinality(Read(pages) \cup {x}) <= Cardinality(Read(more))
      BY <3>5, <3>7, FS_Subset, Zenon
    <3>9. Cardinality(Read(pages)) \in Nat /\ Cardinality(Read(more)) \in Nat
      BY <3>5, FS_CardinalityType, Zenon
    <3>10. turns + 1 <= Cardinality(Read(more))
      BY <3>3, <3>6, <3>8, <3>9
    <3> QED
      BY <3>1, <3>10, Zenon
  <2> QED
    BY <2>1, <2>2, Zenon
<1>9. Scanned(more, rows, n, turns + 1)
  BY <1>3, <1>5, <1>6, <1>7, <1>8, Zenon DEF Scanned
<1> QED
  BY <1>9, Zenon DEF more

\* A turn of the scan.
LEMMA ScanTurn ==
    ASSUME NEW rows, Snap(rows), NEW n \in Nat \ {0}, NEW turns \in Nat, NEW pages, Scanned(pages, rows, n, turns)
    PROVE  Scanned(NextPage(pages, rows, PrimaryKey, n), rows, n, turns + 1)
<1> DEFINE batch == fetchBatch(rows, PrimaryKey, lastKeyOf(pages, PrimaryKey), n)
           ended == pages # << >> /\ Len(pages[Len(pages)]) < n
           left == rows \ Read(pages)
<1>1. NextPage(pages, rows, PrimaryKey, n) = IF ended \/ batch = << >> THEN pages ELSE Append(pages, batch)
  BY Zenon DEF NextPage
<1>2. n \in Nat
  OBVIOUS
<1>3. batch \in Seq(left) /\ Len(batch) <= n /\ IsPage(batch, left, n)
  <2>1. After(rows, lastKeyOf(pages, PrimaryKey)) = left
    BY <1>2, AfterLast, Zenon
  <2> QED
    <3> DEFINE after == After(rows, lastKeyOf(pages, PrimaryKey))
    <3>1. batch \in Seq(after) /\ Len(batch) <= n /\ IsPage(batch, after, n)
      <4>1. batch = fetchBatch(rows, PrimaryKey, lastKeyOf(pages, PrimaryKey), n)
        OBVIOUS
      <4> HIDE DEF batch
      <4> QED
        BY <1>2, <4>1, FetchIs, Zenon
    <3> HIDE DEF batch, left
    <3> QED
      BY <2>1, <3>1
<1> HIDE DEF batch
<1>4. CASE ended \/ batch = << >>
  <2>1. Read(pages) = rows
    <3>1. CASE ended
      <4>1. Len(pages[Len(pages)]) # n /\ pages # << >>
        <5>1. Len(pages[Len(pages)]) \in 1..n /\ pages # << >>
          <6>1. Len(pages) \in DOMAIN pages
            BY <3>1 DEF Scanned
          <6> QED
            BY <3>1, <6>1, Zenon DEF Scanned
        <5> QED
          BY <3>1, <5>1
      <4> QED
        BY <4>1, Zenon DEF Scanned
    <3>2. CASE batch = << >>
      <4>1. Len(batch) # n /\ Range(batch) = {}
        BY <3>2 DEF Range
      <4>2. left = {}
        BY <1>3, <4>1, Zenon DEF IsPage
      <4>3. Read(pages) \subseteq rows
        BY ReadIs, Zenon DEF Scanned
      <4> QED
        BY <4>2, <4>3, Zenon
    <3> QED
      BY <1>4, <3>1, <3>2
  <2>2. Scanned(pages, rows, n, turns + 1)
    BY <2>1, Zenon DEF Scanned
  <2> QED
    BY <1>1, <1>4, <2>2, Zenon
<1>5. CASE ~ended /\ batch # << >>
  <2>1. Read(pages) = rows \/ turns <= Cardinality(Read(pages))
    BY Zenon DEF Scanned
  <2>2. Scanned(Append(pages, batch), rows, n, turns + 1)
    BY <1>2, <1>3, <1>5, <2>1, PageRead, Zenon
  <2> QED
    BY <1>1, <1>5, <2>2, Zenon
<1> QED
  BY <1>4, <1>5, Zenon

-----------------------------------------------------------------------------
(* The loops of a snapshot: the scan, the packing of a page, the messages of  *)
(* the pages, the rows put of a message, the messages installed, and the      *)
(* bytes of a message.                                                        *)
SnapTurn(loop, x, i, s, bound) ==
    IF loop = "scan" THEN NextPage(x, s, PrimaryKey, bound)
    ELSE IF loop = "pack" THEN Pack(x, convertRow(s[i]), bound)
    ELSE IF loop = "send" THEN sendRows(x, s[i], bound)
    ELSE IF loop = "put" THEN PutRow(x, s[i], PrimaryKey)
    ELSE IF loop = "install" THEN Put(x, s[i], PrimaryKey)
    ELSE x + rowBytes(s[i])
SnapLoop(f, loop, base, s, bound, n) ==
    [i \in 0..n |-> IF i = 0 THEN base ELSE SnapTurn(loop, f[i - 1], i, s, bound)]

IsSnapLoop(f, loop, base, s, bound, n) == f = SnapLoop(f, loop, base, s, bound, n)

\* Each is defined, for any number of turns.
LEMMA SnapLoopEnds ==
    ASSUME NEW loop, NEW base, NEW s, NEW bound, NEW n \in Nat
    PROVE  \E f : IsSnapLoop(f, loop, base, s, bound, n)
<1> DEFINE Good == {m \in Nat : \E f : f = SnapLoop(f, loop, base, s, bound, m)}
<1>1. 0 \in Good
  <2> DEFINE f == [i \in 0..0 |-> base]
  <2>1. 0 \in Nat /\ \A i \in 0..0 : i = 0
    OBVIOUS
  <2>2. f = SnapLoop(f, loop, base, s, bound, 0)
    BY <2>1, Zenon DEF SnapLoop
  <2> HIDE DEF f
  <2> QED
    BY <2>1, <2>2, Zenon
<1>2. ASSUME NEW m \in 1..n, m - 1 \in Good PROVE m \in Good
  <2>1. PICK f : f = SnapLoop(f, loop, base, s, bound, m - 1)
    BY <1>2, Zenon
  <2> DEFINE g == [i \in 0..m |-> IF i = m THEN SnapTurn(loop, f[m - 1], m, s, bound) ELSE f[i]]
  <2>2. m # 0 /\ m \in Nat
    OBVIOUS
  <2>3. ASSUME NEW i \in 0..m PROVE g[i] = IF i = 0 THEN base ELSE SnapTurn(loop, g[i - 1], i, s, bound)
    <3>1. i # 0 => i - 1 \in 0..m /\ i - 1 # m
      OBVIOUS
    <3>2. i # 0 => g[i - 1] = f[i - 1]
      BY <3>1, Zenon
    <3>3. CASE i = m
      BY <2>2, <3>2, <3>3, Zenon
    <3>4. CASE i # m
      <4>1. i \in 0..(m - 1)
        BY <3>4
      <4>2. f[i] = IF i = 0 THEN base ELSE SnapTurn(loop, f[i - 1], i, s, bound)
        BY <2>1, <4>1, Zenon DEF SnapLoop
      <4> QED
        BY <3>2, <3>4, <4>2, Zenon
    <3> QED
      BY <3>3, <3>4
  <2>4. g = [i \in 0..m |-> g[i]]
    OBVIOUS
  <2>5. g = SnapLoop(g, loop, base, s, bound, m)
    <3> HIDE DEF g
    <3> QED
      BY <2>3, <2>4, Zenon DEF SnapLoop
  <2> HIDE DEF g
  <2> QED
    BY <2>2, <2>5, Zenon
<1> HIDE DEF Good
<1>3. 0..n \subseteq Good
  BY <1>1, <1>2, Turns, Zenon
<1>4. n \in 0..n
  OBVIOUS
<1> QED
  BY <1>3, <1>4, Zenon DEF Good, IsSnapLoop

\* The scan reads every row, in pages that are not empty.
LEMMA ScanIs ==
    ASSUME NEW rows, Snap(rows), NEW n \in Nat \ {0}, NEW pages, pages = scanScopedRows(rows, PrimaryKey, n)
    PROVE  /\ pages \in Seq(Seq(rows)) /\ \A p \in DOMAIN pages : Len(pages[p]) \in 1..n
           /\ InOrder(pages) /\ Read(pages) = rows
<1> DEFINE c == Cardinality(rows)
           Scan(f) == [i \in 0..c |-> IF i = 0 THEN << >> ELSE NextPage(f[i - 1], rows, PrimaryKey, n)]
           h == CHOOSE f : f = Scan(f)
<1>1. IsFiniteSet(rows) /\ c \in Nat
  BY FS_CardinalityType, Zenon DEF Snap
<1>2. pages = h[c]
  BY Zenon DEF scanScopedRows
<1> HIDE DEF c
<1>3. h = Scan(h)
  <2>1. PICK f : IsSnapLoop(f, "scan", << >>, rows, n, c)
    BY <1>1, SnapLoopEnds, Zenon
  <2>2. \A x, i : SnapTurn("scan", x, i, rows, n) = NextPage(x, rows, PrimaryKey, n)
    BY Zenon DEF SnapTurn
  <2>3. f = Scan(f)
    BY <2>1, <2>2, Zenon DEF IsSnapLoop, SnapLoop
  <2> QED
    BY <2>3, Zenon
<1> HIDE DEF h
<1> DEFINE Good == {i \in Nat : i <= c => Scanned(h[i], rows, n, i)}
<1>4. 0 \in Good
  <2>1. 0 \in 0..c /\ 0 \in Nat
    BY <1>1
  <2>2. h[0] = << >>
    BY <1>3, <2>1, Zenon
  <2>3. Read(<< >>) = {}
    BY DEF Read
  <2>4. 0 <= Cardinality({})
    BY FS_EmptySet
  <2>5. << >> \in Seq(Seq(rows)) /\ DOMAIN << >> = {}
    OBVIOUS
  <2>6. Scanned(<< >>, rows, n, 0)
    BY <2>3, <2>4, <2>5, Zenon DEF Scanned, InOrder
  <2> QED
    BY <2>1, <2>2, <2>6, Zenon
<1>5. ASSUME NEW i \in 1..c, i - 1 \in Good PROVE i \in Good
  <2>1. i \in 0..c /\ i # 0 /\ i - 1 \in Nat /\ i - 1 <= c /\ (i - 1) + 1 = i /\ i \in Nat
    BY <1>1
  <2>2. h[i] = NextPage(h[i - 1], rows, PrimaryKey, n)
    BY <1>3, <2>1, Zenon
  <2>3. Scanned(h[i - 1], rows, n, i - 1)
    BY <1>5, <2>1, Zenon
  <2>4. Scanned(h[i], rows, n, (i - 1) + 1)
    BY <2>1, <2>2, <2>3, ScanTurn, Zenon
  <2> QED
    BY <2>1, <2>4, Zenon
<1> HIDE DEF Good
<1>6. 0..c \subseteq Good
  BY <1>1, <1>4, <1>5, Turns, Zenon
<1>7. c \in 0..c /\ c <= c
  BY <1>1
<1>8. Scanned(pages, rows, n, c)
  BY <1>2, <1>6, <1>7, Zenon DEF Good
<1>9. Read(pages) = rows
  <2>1. CASE c <= Cardinality(Read(pages))
    <3>1. Read(pages) \in SUBSET rows
      BY <1>8, ReadIs, Zenon DEF Scanned
    <3>2. Cardinality(Read(pages)) <= c /\ IsFiniteSet(Read(pages))
      BY <1>1, <3>1, FS_Subset, Zenon DEF c
    <3>3. Cardinality(Read(pages)) \in Nat
      BY <3>2, FS_CardinalityType, Zenon
    <3>4. c = Cardinality(Read(pages))
      BY <1>1, <2>1, <3>2, <3>3
    <3> QED
      BY <1>1, <3>1, <3>4, FS_Subset, Zenon DEF c
  <2> QED
    BY <1>8, <2>1, Zenon DEF Scanned
<1> QED
  BY <1>8, <1>9, Zenon DEF Scanned

-----------------------------------------------------------------------------
(* Messages.                                                                  *)

\* A row as the client receives it, and its key.
SentRows(rows) == {convertRow(row) : row \in rows}
IdOf(sent) == [i \in DOMAIN PrimaryKey |-> sent[PrimaryKey[i]].text]

\* The conversion keeps the texts, a NULL, and the key.
LEMMA ConvertIs ==
    ASSUME NEW row \in SnapRow
    PROVE  /\ convertRow(row) = [body |-> IF row.body = Null THEN Value(0, TRUE, FALSE) ELSE Value(row.body.data, FALSE, FALSE),
                                 scope |-> Value(row.scope.data, FALSE, FALSE), id |-> Value(row.id.data, FALSE, FALSE)]
           /\ IdOf(convertRow(row)) = RowKey(row)
           /\ convertRow(row) \in SdkRow
<1> DEFINE x == IF row.body = Null THEN Value(0, TRUE, FALSE) ELSE Value(row.body.data, FALSE, FALSE)
           y == Value(row.scope.data, FALSE, FALSE)
           z == Value(row.id.data, FALSE, FALSE)
           c == convertRow(row)
<1>1. /\ row.body \in Column /\ row.body # Toast /\ DOMAIN row = {"body", "scope", "id"}
      /\ row.scope \in {Text(n) : n \in Nat} /\ row.id \in {Text(n) : n \in Nat}
  BY DEF SnapRow
<1>2. row.scope # Null /\ row.id # Null /\ row.scope.data \in Nat /\ row.id.data \in Nat /\ row.body.data \in Nat
  <2>1. row.body.data \in Nat
    BY <1>1, ColumnIs, Zenon
  <2> QED
    BY <1>1, <2>1 DEF Text, Null
<1>3. c = [column \in {"body", "scope", "id"} |->
             IF row[column] = Null THEN convertValue("null", 0) ELSE convertValue("text", row[column].data)]
  BY <1>1, Zenon DEF convertRow
<1>4. convertValue("null", 0) = Value(0, TRUE, FALSE) /\ \A n : convertValue("text", n) = Value(n, FALSE, FALSE)
  BY DEF convertValue, Value
<1> HIDE DEF c
<1>5. c["body"] = x /\ c["scope"] = y /\ c["id"] = z /\ DOMAIN c = {"body", "scope", "id"}
      /\ c = [column \in DOMAIN c |-> c[column]]
  BY <1>2, <1>3, <1>4
<1> HIDE DEF x, y, z
<1>6. c = [column \in {"body", "scope", "id"} |-> IF column = "body" THEN x ELSE IF column = "scope" THEN y ELSE z]
  BY <1>5
<1>7. c = [body |-> x, scope |-> y, id |-> z]
  BY <1>6, RowIsFunction, Zenon
<1>8. IdOf(c) = RowKey(row)
  <2>1. DOMAIN PrimaryKey = {1, 2} /\ PrimaryKey[1] = "scope" /\ PrimaryKey[2] = "id"
    BY DEF PrimaryKey
  <2>2. c["scope"].text = row.scope.data /\ c["id"].text = row.id.data
    BY <1>5 DEF y, z, Value
  <2>3. row["scope"].data = row.scope.data /\ row["id"].data = row.id.data
    OBVIOUS
  <2> QED
    BY <2>1, <2>2, <2>3 DEF IdOf, RowKey, KeyOf
<1>9. c \in SdkRow
  <2>1. {"body", "scope", "id"} \in SUBSET Range(Columns)
    BY DEF Columns, Range
  <2>2. x \in SdkValue /\ y \in SdkValue /\ z \in SdkValue
    BY <1>2 DEF x, y, z, Value, SdkValue
  <2>3. c \in [{"body", "scope", "id"} -> SdkValue]
    BY <1>6, <2>2, Zenon
  <2> QED
    BY <2>1, <2>3, Zenon DEF SdkRow
<1> QED
  BY <1>7, <1>8, <1>9, Zenon DEF c, x, y, z

\* The bytes of a row are a number.
LEMMA RowBytesTyped ==
    ASSUME NEW row \in SdkRow
    PROVE  rowBytes(row) \in Nat
<1> DEFINE w == [column \in DOMAIN row |-> row[column].text]
           a == CHOOSE g : g = SumLoop(g, w, DOMAIN w)
<1>1. rowBytes(row) = a[DOMAIN w]
  BY Zenon DEF rowBytes, FoldFunction, FoldFunctionOnSet, MapThenFoldSet, SumLoop
<1>2. PICK names \in SUBSET Range(Columns) : row \in [names -> SdkValue]
  BY Zenon DEF SdkRow
<1>3. DOMAIN row = names /\ \A column \in names : row[column].text \in Nat
  BY <1>2 DEF SdkValue
<1>4. w \in [DOMAIN w -> Nat] /\ DOMAIN w = names
  BY <1>3, Zenon
<1> HIDE DEF w
<1>5. IsFiniteSet(DOMAIN w)
  BY <1>4, ColumnsFinite, FS_Subset, Zenon
<1>6. a = SumLoop(a, w, DOMAIN w)
  BY <1>4, <1>5, SumExists, Zenon
<1> HIDE DEF a
<1>7. a[DOMAIN w] \in Nat
  BY <1>4, <1>5, <1>6, SumTyped, Zenon
<1> QED
  BY <1>1, <1>7, Zenon

\* The bytes of a message, row by row.
MessageBytes(message) ==
    LET sum[i \in 0..Len(message)] == IF i = 0 THEN 0 ELSE sum[i - 1] + rowBytes(message[i])
    IN  sum[Len(message)]
BytesLoop(f, message) == [i \in 0..Len(message) |-> IF i = 0 THEN 0 ELSE f[i - 1] + rowBytes(message[i])]

\* Its loop.
LEMMA BytesLoopEnds ==
    ASSUME NEW S, NEW message \in Seq(S)
    PROVE  \E h : h = BytesLoop(h, message) /\ MessageBytes(message) = h[Len(message)]
<1> DEFINE h == CHOOSE f : f = BytesLoop(f, message)
<1>1. Len(message) \in Nat
  OBVIOUS
<1>2. PICK f : IsSnapLoop(f, "bytes", 0, message, 0, Len(message))
  BY <1>1, SnapLoopEnds, Zenon
<1>3. \A x, i : SnapTurn("bytes", x, i, message, 0) = x + rowBytes(message[i])
  BY Zenon DEF SnapTurn
<1>4. f = BytesLoop(f, message)
  BY <1>2, <1>3, Zenon DEF IsSnapLoop, SnapLoop, BytesLoop
<1>5. h = BytesLoop(h, message)
  BY <1>4, Zenon
<1>6. MessageBytes(message) = h[Len(message)]
  BY Zenon DEF MessageBytes, BytesLoop
<1> HIDE DEF h
<1> QED
  BY <1>5, <1>6, Zenon

\* A message with a row more.
LEMMA MessageBytesIs ==
    ASSUME NEW S
    PROVE  /\ MessageBytes(<< >>) = 0
           /\ \A message \in Seq(S), row \in S :
                MessageBytes(Append(message, row)) = MessageBytes(message) + rowBytes(row)
<1>1. MessageBytes(<< >>) = 0
  <2>1. << >> \in Seq(S) /\ Len(<< >>) = 0 /\ 0 \in 0..0
    OBVIOUS
  <2>2. PICK h : h = BytesLoop(h, << >>) /\ MessageBytes(<< >>) = h[Len(<< >>)]
    BY <2>1, BytesLoopEnds, Zenon
  <2> QED
    BY <2>1, <2>2, Zenon DEF BytesLoop
<1>2. ASSUME NEW message \in Seq(S), NEW row \in S
      PROVE  MessageBytes(Append(message, row)) = MessageBytes(message) + rowBytes(row)
  <2> DEFINE more == Append(message, row)
             n == Len(message)
  <2>1. /\ n \in Nat /\ Len(more) = n + 1 /\ more \in Seq(S) /\ more[n + 1] = row
        /\ \A i \in 1..n : more[i] = message[i] /\ i \in 0..n /\ i \in 0..(n + 1) /\ i # 0
        /\ n + 1 \in 0..(n + 1) /\ n + 1 # 0 /\ (n + 1) - 1 = n /\ 0 \in 0..n /\ 0 \in 0..(n + 1) /\ n \in 0..n
    OBVIOUS
  <2> HIDE DEF more
  <2>2. PICK g : g = BytesLoop(g, message) /\ MessageBytes(message) = g[n]
    BY BytesLoopEnds, Zenon
  <2>3. PICK h : h = BytesLoop(h, more) /\ MessageBytes(more) = h[n + 1]
    <3>1. PICK h : h = BytesLoop(h, more) /\ MessageBytes(more) = h[Len(more)]
      BY <2>1, BytesLoopEnds, Zenon
    <3> QED
      BY <2>1, <3>1, Zenon
  <2> HIDE DEF n
  <2>4. g[0] = 0 /\ \A i \in 1..n : g[i] = g[i - 1] + rowBytes(message[i])
    BY <2>1, <2>2, Zenon DEF BytesLoop, n
  <2>5. h[0] = 0 /\ h[n + 1] = h[n] + rowBytes(row) /\ \A i \in 1..n : h[i] = h[i - 1] + rowBytes(message[i])
    <3>1. h = [i \in 0..(n + 1) |-> IF i = 0 THEN 0 ELSE h[i - 1] + rowBytes(more[i])]
      BY <2>1, <2>3, Zenon DEF BytesLoop
    <3>2. h[0] = 0
      BY <2>1, <3>1, Zenon
    <3>3. h[n + 1] = h[(n + 1) - 1] + rowBytes(more[n + 1])
      BY <2>1, <3>1, Zenon
    <3>4. \A i \in 1..n : h[i] = h[i - 1] + rowBytes(message[i])
      BY <2>1, <3>1, Zenon
    <3> QED
      BY <2>1, <3>2, <3>3, <3>4, Zenon
  <2>6. Alike(h, g, n)
    BY <2>4, <2>5, Zenon DEF Alike
  <2>7. h[n] = g[n]
    <3>1. n \in Nat /\ n \in 0..n
      BY <2>1, Zenon
    <3> QED
      BY <2>6, <3>1, SameTrace
  <2> QED
    BY <2>2, <2>3, <2>5, <2>7, Zenon DEF more
<1> QED
  BY <1>1, <1>2, Zenon

\* The rows of messages are in the order of their keys.
SentBefore(row, other) == KeyOrder(IdOf(row), IdOf(other))
MessagesInOrder(messages) ==
    \A p, q \in DOMAIN messages : \A i \in DOMAIN messages[p], j \in DOMAIN messages[q] :
      Later(p, i, q, j) => SentBefore(messages[p][i], messages[q][j])

\* A row at the end of the last message.
LEMMA RowAppended ==
    ASSUME NEW S, NEW sent \in Seq(Seq(S)), NEW message \in Seq(S), NEW row \in S,
           MessagesInOrder(Append(sent, message)), \A other \in Read(Append(sent, message)) : SentBefore(other, row)
    PROVE  /\ MessagesInOrder(Append(sent, Append(message, row)))
           /\ Read(Append(sent, Append(message, row))) = Read(Append(sent, message)) \cup {row}
<1> DEFINE old == Append(sent, message)
           longer == Append(message, row)
           new == Append(sent, longer)
           n == Len(sent) + 1
           k == Len(message) + 1
<1>1. longer \in Seq(S) /\ old \in Seq(Seq(S)) /\ new \in Seq(Seq(S))
  OBVIOUS
<1>2. /\ DOMAIN longer = (DOMAIN message) \cup {k} /\ longer[k] = row /\ ~(k < k)
      /\ \A i \in DOMAIN message : longer[i] = message[i] /\ i # k /\ ~(k < i)
  OBVIOUS
<1> HIDE DEF longer
<1>3. /\ DOMAIN new = (DOMAIN sent) \cup {n} /\ new[n] = longer
      /\ DOMAIN old = (DOMAIN sent) \cup {n} /\ old[n] = message
      /\ \A p \in DOMAIN sent : new[p] = sent[p] /\ old[p] = sent[p] /\ p # n /\ ~(n < p)
      /\ n \in DOMAIN new /\ ~(n < n)
  BY <1>1
<1>4. Read(new) = Read(old) \cup {row}
  <2>1. Read(old) = Read(sent) \cup Range(message) /\ Read(new) = Read(sent) \cup Range(longer)
    <3>1. \A page \in Seq(S) : Read(Append(sent, page)) = Read(sent) \cup Range(page)
      BY ReadIs
    <3> QED
      BY <1>1, <3>1, Zenon
  <2>2. Range(longer) = Range(message) \cup {row}
    BY <1>2 DEF Range
  <2> QED
    BY <2>1, <2>2
<1>5. \A p \in DOMAIN old : \A i \in DOMAIN old[p] : old[p][i] \in Read(old)
  <2> HIDE DEF old
  <2> QED
    BY <1>1, ReadIs, Zenon
<1> HIDE DEF new, old, n, k
<1>6. MessagesInOrder(new)
  <2> SUFFICES ASSUME NEW p \in DOMAIN new, NEW q \in DOMAIN new, NEW i \in DOMAIN new[p], NEW j \in DOMAIN new[q],
                      Later(p, i, q, j)
               PROVE  SentBefore(new[p][i], new[q][j])
    BY Zenon DEF MessagesInOrder
  <2>1. \A r \in DOMAIN new : \A l : r \in DOMAIN old /\ (l \in DOMAIN new[r] =>
           (l \in DOMAIN old[r] /\ new[r][l] = old[r][l]) \/ (r = n /\ l = k /\ new[r][l] = row))
    BY <1>2, <1>3, Zenon
  <2>2. CASE q = n /\ j = k /\ new[q][j] = row
    <3>1. i \in DOMAIN old[p] /\ new[p][i] = old[p][i]
      <4>1. ~(p = n /\ i = k)
        BY <1>2, <1>3, <2>2, Zenon DEF Later
      <4> QED
        BY <2>1, <4>1, Zenon
    <3> QED
      BY <1>5, <2>1, <2>2, <3>1, Zenon DEF old
  <2>3. CASE j \in DOMAIN old[q] /\ new[q][j] = old[q][j]
    <3>1. CASE i \in DOMAIN old[p] /\ new[p][i] = old[p][i]
      <4>1. MessagesInOrder(old) /\ p \in DOMAIN old /\ q \in DOMAIN old
        BY <2>1, Zenon DEF old
      <4>2. SentBefore(old[p][i], old[q][j])
        BY <2>3, <3>1, <4>1, Zenon DEF MessagesInOrder
      <4> QED
        BY <2>3, <3>1, <4>2, Zenon
    <3>2. CASE p = n /\ i = k
      <4>1. q = n => ~(k < j)
        BY <1>2, <1>3, <2>3, Zenon
      <4>2. q # n => ~(n < q)
        BY <1>3, <2>1, Zenon
      <4> QED
        BY <1>3, <3>2, <4>1, <4>2, Zenon DEF Later
    <3> QED
      BY <2>1, <3>1, <3>2, Zenon
  <2> QED
    BY <2>1, <2>2, <2>3, Zenon
<1> QED
  BY <1>4, <1>6, Zenon DEF new, old, longer

\* An empty message at the end.
LEMMA EmptyAppended ==
    ASSUME NEW S, NEW sent \in Seq(Seq(S))
    PROVE  /\ MessagesInOrder(Append(sent, << >>)) <=> MessagesInOrder(sent)
           /\ Read(Append(sent, << >>)) = Read(sent)
<1> DEFINE new == Append(sent, << >>)
           n == Len(sent) + 1
<1>1. << >> \in Seq(S) /\ Range(<< >>) = {} /\ DOMAIN << >> = {}
  BY DEF Range
<1>2. Read(new) = Read(sent)
  <2>1. \A page \in Seq(S) : Read(Append(sent, page)) = Read(sent) \cup Range(page)
    BY ReadIs
  <2> QED
    BY <1>1, <2>1
<1>3. /\ DOMAIN new = (DOMAIN sent) \cup {n} /\ new[n] = << >>
      /\ \A p \in DOMAIN sent : new[p] = sent[p]
  OBVIOUS
<1> HIDE DEF new, n
<1>4. MessagesInOrder(new) <=> MessagesInOrder(sent)
  BY <1>1, <1>3, Zenon DEF MessagesInOrder
<1> QED
  BY <1>2, <1>4, Zenon DEF new

\* A message fits the limit, or is one row.
FitsLimit(message, max) == Len(message) = 1 \/ (message # << >> /\ MessageBytes(message) <= max)

\* The state of sendRows when the rows of a set are packed, and the messages
\* when they are sent.
PackedAll(x, done, S, max) ==
    /\ x = [sent |-> x.sent, message |-> x.message, bytes |-> x.bytes]
    /\ x.sent \in Seq(Seq(S)) /\ x.message \in Seq(S) /\ x.bytes \in Nat
    /\ \A m \in DOMAIN x.sent : FitsLimit(x.sent[m], max)
    /\ x.bytes = MessageBytes(x.message)
    /\ x.message = << >> \/ FitsLimit(x.message, max)
    /\ MessagesInOrder(Append(x.sent, x.message)) /\ Read(Append(x.sent, x.message)) = done
SentAll(sent, done, S, max) ==
    /\ sent \in Seq(Seq(S)) /\ \A m \in DOMAIN sent : FitsLimit(sent[m], max)
    /\ MessagesInOrder(sent) /\ Read(sent) = done

\* Flush sends the message, if there is one.
LEMMA FlushIs ==
    ASSUME NEW S, NEW max, NEW done, NEW x, PackedAll(x, done, S, max)
    PROVE  PackedAll(Flush(x), done, S, max) /\ Flush(x).message = << >> /\ SentAll(Flush(x).sent, done, S, max)
<1>1. /\ x.sent \in Seq(Seq(S)) /\ x.message \in Seq(S)
      /\ \A m \in DOMAIN x.sent : FitsLimit(x.sent[m], max)
      /\ MessagesInOrder(Append(x.sent, x.message)) /\ Read(Append(x.sent, x.message)) = done
  BY Zenon DEF PackedAll
<1>2. CASE x.message = << >>
  <2>1. Flush(x) = x
    BY <1>2, Zenon DEF Flush
  <2>2. MessagesInOrder(x.sent) /\ Read(x.sent) = done
    BY <1>1, <1>2, EmptyAppended, Zenon
  <2> QED
    BY <1>1, <1>2, <2>1, <2>2, Zenon DEF SentAll
<1>3. CASE x.message # << >>
  <2> DEFINE y == [sent |-> Append(x.sent, x.message), message |-> << >>, bytes |-> 0]
  <2>1. Flush(x) = y
    BY <1>3, Zenon DEF Flush
  <2>2. y.sent = Append(x.sent, x.message) /\ y.message = << >> /\ y.bytes = 0
        /\ y = [sent |-> y.sent, message |-> y.message, bytes |-> y.bytes]
    OBVIOUS
  <2> HIDE DEF y
  <2>3. y.sent \in Seq(Seq(S)) /\ y.message \in Seq(S) /\ y.bytes \in Nat
    BY <1>1, <2>2
  <2>4. FitsLimit(x.message, max)
    BY <1>3, Zenon DEF PackedAll
  <2>5. \A m \in DOMAIN y.sent : FitsLimit(y.sent[m], max)
    <3> SUFFICES ASSUME NEW m \in DOMAIN y.sent PROVE FitsLimit(y.sent[m], max)
      OBVIOUS
    <3>1. y.sent[m] = x.message \/ (m \in DOMAIN x.sent /\ y.sent[m] = x.sent[m])
      BY <1>1, <2>2
    <3> QED
      BY <1>1, <2>4, <3>1, Zenon
  <2>6. y.bytes = MessageBytes(y.message)
    BY <2>2, MessageBytesIs, Zenon
  <2>7. MessagesInOrder(y.sent) /\ Read(y.sent) = done
    BY <1>1, <2>2, Zenon
  <2>8. MessagesInOrder(Append(y.sent, y.message)) /\ Read(Append(y.sent, y.message)) = done
    BY <2>2, <2>3, <2>7, EmptyAppended
  <2>9. PackedAll(y, done, S, max)
    BY <2>2, <2>3, <2>5, <2>6, <2>8, Zenon DEF PackedAll
  <2>10. SentAll(y.sent, done, S, max)
    BY <2>3, <2>5, <2>7, Zenon DEF SentAll
  <2> QED
    BY <2>1, <2>2, <2>9, <2>10, Zenon
<1> QED
  BY <1>2, <1>3, Zenon

\* A later row is packed into the message, or into the next one.
LEMMA PackIs ==
    ASSUME NEW S \in SUBSET SdkRow, NEW max \in Nat, NEW done, NEW x, PackedAll(x, done, S, max),
           NEW row \in S, \A other \in done : SentBefore(other, row)
    PROVE  PackedAll(Pack(x, row, max), done \cup {row}, S, max)
<1> DEFINE room == IF x.bytes + rowBytes(row) > max THEN Flush(x) ELSE x
           y == [sent |-> room.sent, message |-> Append(room.message, row), bytes |-> room.bytes + rowBytes(row)]
<1>1. Pack(x, row, max) = y
  BY Zenon DEF Pack
<1>2. PackedAll(room, done, S, max)
  BY FlushIs, Zenon
<1>3. /\ rowBytes(row) \in Nat /\ x.bytes \in Nat
  BY RowBytesTyped, Zenon DEF PackedAll
<1>4. room.message # << >> => room.bytes + rowBytes(row) <= max
  <2>1. Flush(x).message = << >>
    BY FlushIs, Zenon
  <2> HIDE DEF y
  <2> QED
    BY <1>3, <2>1
<1> HIDE DEF room
<1>5. /\ room = [sent |-> room.sent, message |-> room.message, bytes |-> room.bytes]
      /\ room.sent \in Seq(Seq(S)) /\ room.message \in Seq(S) /\ room.bytes \in Nat
      /\ \A m \in DOMAIN room.sent : FitsLimit(room.sent[m], max)
      /\ room.bytes = MessageBytes(room.message)
      /\ MessagesInOrder(Append(room.sent, room.message)) /\ Read(Append(room.sent, room.message)) = done
  BY <1>2, Zenon DEF PackedAll
<1> DEFINE longer == Append(room.message, row)
           z == [sent |-> room.sent, message |-> longer, bytes |-> room.bytes + rowBytes(row)]
<1>6. y = z
  BY Zenon
<1>7. z.sent = room.sent /\ z.message = longer /\ z.bytes = room.bytes + rowBytes(row)
      /\ z = [sent |-> z.sent, message |-> z.message, bytes |-> z.bytes]
  OBVIOUS
<1> HIDE DEF y, z
<1>8. longer \in Seq(S) /\ room.bytes + rowBytes(row) \in Nat /\ longer # << >> /\ (room.message = << >> => Len(longer) = 1)
  BY <1>3, <1>5
<1>9. MessageBytes(longer) = room.bytes + rowBytes(row)
  BY <1>5, MessageBytesIs
<1>10. FitsLimit(longer, max)
  <2> HIDE DEF longer
  <2>1. CASE room.message = << >>
    BY <1>8, <2>1, Zenon DEF FitsLimit
  <2>2. CASE room.message # << >>
    BY <1>4, <1>8, <1>9, <2>2, Zenon DEF FitsLimit
  <2> QED
    BY <2>1, <2>2, Zenon
<1>11. MessagesInOrder(Append(room.sent, longer)) /\ Read(Append(room.sent, longer)) = done \cup {row}
  <2>1. \A other \in Read(Append(room.sent, room.message)) : SentBefore(other, row)
    BY <1>5, Zenon
  <2> DEFINE a == room.sent
             b == room.message
  <2>2. a \in Seq(Seq(S)) /\ b \in Seq(S) /\ MessagesInOrder(Append(a, b)) /\ Read(Append(a, b)) = done
        /\ \A other \in Read(Append(a, b)) : SentBefore(other, row)
    BY <1>5, <2>1, Zenon
  <2> HIDE DEF a, b
  <2>3. MessagesInOrder(Append(a, Append(b, row))) /\ Read(Append(a, Append(b, row))) = Read(Append(a, b)) \cup {row}
    BY <2>2, RowAppended
  <2> QED
    BY <2>2, <2>3, Zenon DEF a, b
<1> HIDE DEF longer
<1> QED
  BY <1>1, <1>5, <1>6, <1>7, <1>8, <1>9, <1>10, <1>11, Zenon DEF PackedAll

\* sendRows sends the rows of a page that are later than all that is sent.
LEMMA SendIs ==
    ASSUME NEW S, S \in SUBSET SnapRow, NEW max \in Nat, NEW done, NEW sent, SentAll(sent, done, SentRows(S), max),
           NEW page \in Seq(S),
           \A i, j \in DOMAIN page : i < j => Before(page[i], page[j]),
           \A other \in done, i \in DOMAIN page : SentBefore(other, convertRow(page[i]))
    PROVE  SentAll(sendRows(sent, page, max), done \cup SentRows(Range(page)), SentRows(S), max)
<1> DEFINE n == Len(page)
           start == [sent |-> sent, message |-> << >>, bytes |-> 0]
           PackLoop(f) == [i \in 0..n |-> IF i = 0 THEN start ELSE Pack(f[i - 1], convertRow(page[i]), max)]
           h == CHOOSE f : f = PackLoop(f)
           C == SentRows(S)
           D(i) == done \cup {convertRow(page[j]) : j \in 1..i}
<1>1. n \in Nat /\ DOMAIN page = 1..n /\ \A i \in 1..n : page[i] \in S
  OBVIOUS
<1>2. sendRows(sent, page, max) = Flush(h[n]).sent
  BY Zenon DEF sendRows
<1>3. C \in SUBSET SdkRow /\ \A i \in 1..n : convertRow(page[i]) \in C /\ IdOf(convertRow(page[i])) = RowKey(page[i])
  <2>1. \A row \in S : row \in SnapRow
    BY Zenon
  <2> QED
    BY <1>1, <2>1, ConvertIs DEF SentRows
<1> HIDE DEF n
<1>4. h = PackLoop(h)
  <2>1. PICK f : IsSnapLoop(f, "pack", start, page, max, n)
    BY <1>1, SnapLoopEnds, Zenon
  <2>2. \A y, i : SnapTurn("pack", y, i, page, max) = Pack(y, convertRow(page[i]), max)
    BY DEF SnapTurn
  <2> HIDE DEF start
  <2>3. f = PackLoop(f)
    BY <2>1, <2>2, Zenon DEF IsSnapLoop, SnapLoop
  <2> QED
    BY <2>3, Zenon
<1> HIDE DEF h
<1> DEFINE Good == {i \in Nat : i <= n => PackedAll(h[i], D(i), C, max)}
<1>5. 0 \in Good
  <2>1. /\ start.sent = sent /\ start.message = << >> /\ start.bytes = 0 /\ 0 \in Nat /\ << >> \in Seq(C)
        /\ start = [sent |-> start.sent, message |-> start.message, bytes |-> start.bytes]
    OBVIOUS
  <2>2. h[0] = start
    <3>1. 0 \in 0..n
      BY <1>1
    <3> HIDE DEF start
    <3> QED
      BY <1>4, <3>1, Zenon
  <2> HIDE DEF start, C
  <2>3. D(0) = done
    OBVIOUS
  <2> HIDE DEF D
  <2>4. /\ sent \in Seq(Seq(C)) /\ \A m \in DOMAIN sent : FitsLimit(sent[m], max)
        /\ MessagesInOrder(sent) /\ Read(sent) = done
    BY Zenon DEF SentAll, C
  <2>5. MessagesInOrder(Append(sent, << >>)) /\ Read(Append(sent, << >>)) = done
    BY <2>4, EmptyAppended, Zenon
  <2>6. MessageBytes(<< >>) = 0
    BY MessageBytesIs, Zenon
  <2>7. PackedAll(start, done, C, max)
    BY <2>1, <2>4, <2>5, <2>6, Zenon DEF PackedAll
  <2> QED
    BY <2>1, <2>2, <2>3, <2>7, Zenon
<1> HIDE DEF start
<1>6. ASSUME NEW i \in 1..n, i - 1 \in Good PROVE i \in Good
  <2>1. i \in Nat /\ i # 0 /\ i \in 0..n /\ i - 1 \in Nat /\ i - 1 <= n /\ \A j \in 1..(i - 1) : j < i /\ j \in 1..n
    BY <1>1
  <2> HIDE DEF D
  <2>2. PackedAll(h[i - 1], D(i - 1), C, max)
    BY <1>6, <2>1, Zenon
  <2> HIDE DEF Good
  <2>3. h[i] = Pack(h[i - 1], convertRow(page[i]), max)
    BY <1>4, <2>1, Zenon
  <2>4. D(i) = D(i - 1) \cup {convertRow(page[i])}
    <3>1. 1..i = 1..(i - 1) \cup {i}
      BY <2>1
    <3> QED
      BY <3>1, Zenon DEF D
  <2>5. \A other \in D(i - 1) : SentBefore(other, convertRow(page[i]))
    <3>1. \A j \in 1..(i - 1) : SentBefore(convertRow(page[j]), convertRow(page[i]))
      BY <1>1, <1>3, <2>1, Zenon DEF SentBefore, Before
    <3> QED
      BY <1>1, <3>1, Zenon DEF D
  <2>6. PackedAll(Pack(h[i - 1], convertRow(page[i]), max), D(i - 1) \cup {convertRow(page[i])}, C, max)
    <3> HIDE DEF C
    <3>1. convertRow(page[i]) \in C
      BY <1>3, Zenon
    <3> QED
      BY <1>3, <2>2, <2>5, <3>1, PackIs, Zenon
  <2> QED
    BY <2>1, <2>3, <2>4, <2>6, Zenon DEF Good
<1>7. n \in Good
  <2> HIDE DEF Good
  <2>1. 0..n \subseteq Good
    BY <1>1, <1>5, <1>6, Turns, Zenon
  <2> QED
    BY <1>1, <2>1
<1>8. PackedAll(h[n], D(n), C, max)
  <2>1. n <= n
    BY <1>1
  <2> QED
    BY <1>7, <2>1, Zenon
<1>9. D(n) = done \cup SentRows(Range(page))
  <2>1. Range(page) = {page[j] : j \in 1..n}
    BY <1>1, Zenon DEF Range
  <2> QED
    BY <2>1, Zenon DEF SentRows
<1> HIDE DEF D, C, Good
<1>10. SentAll(Flush(h[n]).sent, D(n), C, max)
  BY <1>8, FlushIs, Zenon
<1> QED
  BY <1>2, <1>9, <1>10, Zenon DEF C

\* The rows of the first pages.
RowsBefore(pages, p) == UNION {Range(pages[q]) : q \in 1..p}

\* The messages of a snapshot carry its rows, in the order of their keys.
LEMMA MessagesAre ==
    ASSUME NEW rows, Snap(rows), NEW max \in Nat, NEW pages \in Seq(Seq(rows)), InOrder(pages)
    PROVE  SentAll(Messages(pages, max), SentRows(Read(pages)), SentRows(rows), max)
<1> DEFINE n == Len(pages)
           SendLoop(f) == [p \in 0..n |-> IF p = 0 THEN << >> ELSE sendRows(f[p - 1], pages[p], max)]
           h == CHOOSE f : f = SendLoop(f)
           C == SentRows(rows)
           D(p) == SentRows(RowsBefore(pages, p))
<1>1. n \in Nat /\ DOMAIN pages = 1..n /\ (\A p \in 1..n : pages[p] \in Seq(rows)) /\ rows \in SUBSET SnapRow
  BY DEF Snap
<1>2. Messages(pages, max) = h[n]
  BY Zenon DEF Messages
<1> HIDE DEF n
<1>3. h = SendLoop(h)
  <2>1. PICK f : IsSnapLoop(f, "send", << >>, pages, max, n)
    BY <1>1, SnapLoopEnds, Zenon
  <2>2. \A y, i : SnapTurn("send", y, i, pages, max) = sendRows(y, pages[i], max)
    BY DEF SnapTurn
  <2>3. f = SendLoop(f)
    BY <2>1, <2>2, Zenon DEF IsSnapLoop, SnapLoop
  <2> QED
    BY <2>3, Zenon
<1> HIDE DEF h
<1> DEFINE Good == {p \in Nat : p <= n => SentAll(h[p], D(p), C, max)}
<1>4. 0 \in Good
  <2>1. 0 \in 0..n /\ 0 \in Nat /\ 1..0 = {} /\ << >> \in Seq(Seq(C)) /\ DOMAIN << >> = {}
    BY <1>1
  <2>2. h[0] = << >>
    BY <1>3, <2>1, Zenon
  <2>3. D(0) = {} /\ Read(<< >>) = {}
    BY <2>1, Zenon DEF SentRows, RowsBefore, Read
  <2>4. MessagesInOrder(<< >>)
    BY <2>1, Zenon DEF MessagesInOrder
  <2> HIDE DEF D, C
  <2> QED
    BY <2>1, <2>2, <2>3, <2>4, Zenon DEF SentAll
<1>5. ASSUME NEW p \in 1..n, p - 1 \in Good PROVE p \in Good
  <2>1. p \in Nat /\ p # 0 /\ p \in 0..n /\ p - 1 \in Nat /\ p - 1 <= n /\ \A q \in 1..(p - 1) : q < p /\ q \in 1..n
    BY <1>1
  <2>2. 1..p = 1..(p - 1) \cup {p}
    BY <2>1
  <2> HIDE DEF D
  <2>3. SentAll(h[p - 1], D(p - 1), C, max)
    BY <1>5, <2>1, Zenon
  <2> HIDE DEF Good
  <2>4. h[p] = sendRows(h[p - 1], pages[p], max)
    BY <1>3, <2>1, Zenon
  <2>5. D(p) = D(p - 1) \cup SentRows(Range(pages[p]))
    <3>1. RowsBefore(pages, p) = RowsBefore(pages, p - 1) \cup Range(pages[p])
      BY <2>2, Zenon DEF RowsBefore
    <3> QED
      BY <3>1, Zenon DEF D, SentRows
  <2>6. \A i, j \in DOMAIN pages[p] : i < j => Before(pages[p][i], pages[p][j])
    BY <1>1, Zenon DEF InOrder, Later
  <2>7. \A other \in D(p - 1), i \in DOMAIN pages[p] : SentBefore(other, convertRow(pages[p][i]))
    <3> SUFFICES ASSUME NEW other \in D(p - 1), NEW i \in DOMAIN pages[p]
                 PROVE  SentBefore(other, convertRow(pages[p][i]))
      BY Zenon
    <3>1. PICK row \in RowsBefore(pages, p - 1) : other = convertRow(row)
      BY Zenon DEF D, SentRows
    <3>2. PICK q \in 1..(p - 1) : row \in Range(pages[q])
      BY <3>1, Zenon DEF RowsBefore
    <3>3. PICK j \in DOMAIN pages[q] : row = pages[q][j]
      BY <3>2, Zenon DEF Range
    <3>4. Before(row, pages[p][i])
      BY <1>1, <2>1, <3>3, Zenon DEF InOrder, Later
    <3>5. row \in SnapRow /\ pages[p][i] \in SnapRow
      BY <1>1, <2>1, <3>3
    <3>6. \A s \in SnapRow : IdOf(convertRow(s)) = RowKey(s)
      BY ConvertIs, Zenon
    <3> QED
      BY <3>1, <3>4, <3>5, <3>6, Zenon DEF SentBefore, Before
  <2>8. SentAll(sendRows(h[p - 1], pages[p], max), D(p - 1) \cup SentRows(Range(pages[p])), C, max)
    <3>1. pages[p] \in Seq(rows)
      BY <1>1, Zenon
    <3> DEFINE page == pages[p]
               sent == h[p - 1]
               done == D(p - 1)
    <3>2. /\ page \in Seq(rows) /\ SentAll(sent, done, SentRows(rows), max)
          /\ \A i, j \in DOMAIN page : i < j => Before(page[i], page[j])
          /\ \A other \in done, i \in DOMAIN page : SentBefore(other, convertRow(page[i]))
      BY <2>3, <2>6, <2>7, <3>1, Zenon
    <3> HIDE DEF page, sent, done
    <3>3. SentAll(sendRows(sent, page, max), done \cup SentRows(Range(page)), SentRows(rows), max)
      BY <1>1, <3>2, SendIs, Zenon
    <3> QED
      BY <3>3, Zenon DEF page, sent, done
  <2> QED
    BY <2>1, <2>4, <2>5, <2>8, Zenon DEF Good
<1>6. n \in Good
  <2> HIDE DEF Good
  <2>1. 0..n \subseteq Good
    BY <1>1, <1>4, <1>5, Turns, Zenon
  <2> QED
    BY <1>1, <2>1
<1>7. SentAll(h[n], D(n), C, max)
  <2>1. n <= n
    BY <1>1
  <2> QED
    BY <1>6, <2>1, Zenon
<1>8. RowsBefore(pages, n) = Read(pages)
  BY <1>1, Zenon DEF RowsBefore, Read
<1> QED
  BY <1>2, <1>7, <1>8, Zenon

-----------------------------------------------------------------------------
(* The rows a snapshot installs.                                              *)

\* No store of rows with these keys is an error.
NoError(ids) == \A keys \in SUBSET ids : Failed \notin [keys -> SdkRow]

\* The store holds exactly the rows of a set, under their keys.
Holds(kept, done) ==
    /\ kept = [id \in DOMAIN kept |-> kept[id]] /\ DOMAIN kept = {IdOf(row) : row \in done}
    /\ \A row \in done : kept[IdOf(row)] = row

\* The rows of a snapshot, as the client receives them, have keys of their own.
LEMMA SentKeys ==
    ASSUME NEW rows, Snap(rows)
    PROVE  /\ \A row, other \in SentRows(rows) : IdOf(row) = IdOf(other) => row = other
           /\ SentRows(rows) \subseteq SdkRow
           /\ {IdOf(row) : row \in SentRows(rows)} = {RowKey(row) : row \in rows}
<1>1. \A row \in rows : IdOf(convertRow(row)) = RowKey(row) /\ convertRow(row) \in SdkRow
  BY ConvertIs, Zenon DEF Snap
<1>2. \A row \in SentRows(rows) : \E read \in rows : row = convertRow(read)
  BY Zenon DEF SentRows
<1>3. \A row, other \in SentRows(rows) : IdOf(row) = IdOf(other) => row = other
  <2> SUFFICES ASSUME NEW row \in SentRows(rows), NEW other \in SentRows(rows), IdOf(row) = IdOf(other)
               PROVE  row = other
    BY Zenon
  <2>1. PICK x \in rows : row = convertRow(x)
    BY <1>2, Zenon
  <2>2. PICK y \in rows : other = convertRow(y)
    BY <1>2, Zenon
  <2>3. RowKey(x) = RowKey(y)
    BY <1>1, <2>1, <2>2, Zenon
  <2> QED
    BY <2>1, <2>2, <2>3, Zenon DEF Snap
<1>4. SentRows(rows) \subseteq SdkRow
  BY <1>1, Zenon DEF SentRows
<1>5. {IdOf(row) : row \in SentRows(rows)} = {RowKey(row) : row \in rows}
  BY <1>1 DEF SentRows
<1> QED
  BY <1>3, <1>4, <1>5, Zenon

\* A stored set of rows is no error.
LEMMA HoldsNoError ==
    ASSUME NEW rows, Snap(rows), NEW ids, {RowKey(row) : row \in rows} \subseteq ids, NoError(ids),
           NEW done \in SUBSET SentRows(rows), NEW kept, Holds(kept, done)
    PROVE  kept # Failed
<1>1. /\ DOMAIN kept = {IdOf(row) : row \in done} /\ SentRows(rows) \subseteq SdkRow
      /\ {IdOf(row) : row \in SentRows(rows)} = {RowKey(row) : row \in rows}
  BY SentKeys, Zenon DEF Holds
<1>2. /\ DOMAIN kept \in SUBSET ids
      /\ \A id \in DOMAIN kept : \E row \in done : id = IdOf(row)
  BY <1>1
<1>3. ASSUME NEW id \in DOMAIN kept PROVE kept[id] \in SdkRow
  <2>1. PICK row \in done : id = IdOf(row)
    BY <1>2, Zenon
  <2>2. kept[id] = row /\ row \in SdkRow
    BY <1>1, <2>1, Zenon DEF Holds
  <2> QED
    BY <2>2, Zenon
<1>4. kept \in [DOMAIN kept -> SdkRow]
  BY <1>3, Zenon DEF Holds
<1> QED
  BY <1>2, <1>4, Zenon DEF NoError

\* PutRow keeps a row under its key.
LEMMA PutRowIs ==
    ASSUME NEW rows, Snap(rows), NEW ids, {RowKey(row) : row \in rows} \subseteq ids, NoError(ids),
           NEW done \in SUBSET SentRows(rows), NEW kept, Holds(kept, done), NEW row \in SentRows(rows)
    PROVE  Holds(PutRow(kept, row, PrimaryKey), done \cup {row})
<1>1. kept # Failed
  BY HoldsNoError, Zenon
<1>2. \A i \in DOMAIN PrimaryKey :
        PrimaryKey[i] \in DOMAIN row /\ ~row[PrimaryKey[i]].null /\ ~row[PrimaryKey[i]].unchanged
  <2>1. PICK read \in rows : row = convertRow(read)
    BY Zenon DEF SentRows
  <2>2. read \in SnapRow
    BY Zenon DEF Snap
  <2> DEFINE x == IF read.body = Null THEN Value(0, TRUE, FALSE) ELSE Value(read.body.data, FALSE, FALSE)
  <2> HIDE DEF x
  <2>3. row = [body |-> x, scope |-> Value(read.scope.data, FALSE, FALSE), id |-> Value(read.id.data, FALSE, FALSE)]
    BY <2>1, <2>2, ConvertIs, Zenon DEF x
  <2> QED
    BY <2>3 DEF PrimaryKey, Value
<1>3. PutRow(kept, row, PrimaryKey) = WithRow(kept, IdOf(row), row)
  BY <1>1, <1>2, Zenon DEF PutRow, IdOf
<1> DEFINE new == WithRow(kept, IdOf(row), row)
<1>4. /\ new = [id \in DOMAIN new |-> new[id]] /\ DOMAIN new = (DOMAIN kept) \cup {IdOf(row)}
      /\ new[IdOf(row)] = row /\ \A id \in DOMAIN kept : id # IdOf(row) => new[id] = kept[id]
  BY Zenon DEF WithRow
<1> HIDE DEF new
<1>5. \A other \in done \cup {row} : new[IdOf(other)] = other
  <2> SUFFICES ASSUME NEW other \in done \cup {row} PROVE new[IdOf(other)] = other
    BY Zenon
  <2>1. CASE IdOf(other) = IdOf(row)
    <3>1. other = row
      BY <2>1, SentKeys, Zenon
    <3> QED
      BY <1>4, <3>1, Zenon
  <2>2. CASE IdOf(other) # IdOf(row)
    BY <1>4, <2>2, Zenon DEF Holds
  <2> QED
    BY <2>1, <2>2, Zenon
<1>6. DOMAIN new = {IdOf(other) : other \in done \cup {row}}
  <2>1. DOMAIN kept = {IdOf(other) : other \in done}
    BY Zenon DEF Holds
  <2>2. DOMAIN new = (DOMAIN kept) \cup {IdOf(row)}
    BY <1>4, Zenon
  <2> QED
    BY <2>1, <2>2
<1>7. Holds(new, done \cup {row})
  BY <1>4, <1>5, <1>6, Zenon DEF Holds
<1> QED
  BY <1>3, <1>7, Zenon DEF new

\* Put keeps the rows of a message.
LEMMA PutIs ==
    ASSUME NEW rows, Snap(rows), NEW ids, {RowKey(row) : row \in rows} \subseteq ids, NoError(ids),
           NEW done \in SUBSET SentRows(rows), NEW kept, Holds(kept, done), NEW message \in Seq(SentRows(rows))
    PROVE  Holds(Put(kept, message, PrimaryKey), done \cup Range(message))
<1> DEFINE n == Len(message)
           PutLoop(f) == [i \in 0..n |-> IF i = 0 THEN kept ELSE PutRow(f[i - 1], message[i], PrimaryKey)]
           h == CHOOSE f : f = PutLoop(f)
           D(i) == done \cup {message[j] : j \in 1..i}
<1>1. n \in Nat /\ DOMAIN message = 1..n /\ \A i \in 1..n : message[i] \in SentRows(rows)
  OBVIOUS
<1>2. Put(kept, message, PrimaryKey) = h[n]
  BY Zenon DEF Put
<1> HIDE DEF n
<1>3. h = PutLoop(h)
  <2>1. PICK f : IsSnapLoop(f, "put", kept, message, 0, n)
    BY <1>1, SnapLoopEnds, Zenon
  <2>2. \A y, i : SnapTurn("put", y, i, message, 0) = PutRow(y, message[i], PrimaryKey)
    BY DEF SnapTurn
  <2>3. f = PutLoop(f)
    BY <2>1, <2>2, Zenon DEF IsSnapLoop, SnapLoop
  <2> QED
    BY <2>3, Zenon
<1> HIDE DEF h
<1> DEFINE Good == {i \in Nat : i <= n => Holds(h[i], D(i))}
<1>4. 0 \in Good
  <2>1. 0 \in 0..n /\ 0 \in Nat /\ 1..0 = {}
    BY <1>1
  <2>2. h[0] = kept
    BY <1>3, <2>1, Zenon
  <2>3. D(0) = done
    BY <2>1, Zenon
  <2> HIDE DEF D
  <2> QED
    BY <2>1, <2>2, <2>3, Zenon
<1>5. ASSUME NEW i \in 1..n, i - 1 \in Good PROVE i \in Good
  <2>1. i \in Nat /\ i # 0 /\ i \in 0..n /\ i - 1 \in Nat /\ i - 1 <= n /\ 1..i = 1..(i - 1) \cup {i}
        /\ \A j \in 1..(i - 1) : j \in 1..n
    BY <1>1
  <2>2. D(i) = D(i - 1) \cup {message[i]} /\ D(i - 1) \in SUBSET SentRows(rows) /\ message[i] \in SentRows(rows)
    BY <1>1, <2>1, Zenon
  <2> HIDE DEF D
  <2>3. Holds(h[i - 1], D(i - 1))
    BY <1>5, <2>1, Zenon
  <2> HIDE DEF Good
  <2>4. h[i] = PutRow(h[i - 1], message[i], PrimaryKey)
    BY <1>3, <2>1, Zenon
  <2>5. Holds(PutRow(h[i - 1], message[i], PrimaryKey), D(i - 1) \cup {message[i]})
    BY <2>2, <2>3, PutRowIs, Zenon
  <2> QED
    BY <2>1, <2>2, <2>4, <2>5, Zenon DEF Good
<1>6. n \in Good
  <2> HIDE DEF Good
  <2>1. 0..n \subseteq Good
    BY <1>1, <1>4, <1>5, Turns, Zenon
  <2> QED
    BY <1>1, <2>1
<1>7. Holds(h[n], D(n))
  <2>1. n <= n
    BY <1>1
  <2> QED
    BY <1>6, <2>1, Zenon
<1>8. D(n) = done \cup Range(message)
  BY <1>1, Zenon DEF Range
<1> QED
  BY <1>2, <1>7, <1>8, Zenon

\* An installed snapshot is the rows it was read from, each under its key.
LEMMA InstalledIs ==
    ASSUME NEW rows, Snap(rows), NEW ids, {RowKey(row) : row \in rows} \subseteq ids, NoError(ids),
           NEW batchRows \in Nat \ {0}, NEW max \in Nat
    PROVE  Holds(Installed(rows, PrimaryKey, batchRows, max), SentRows(rows))
<1> DEFINE pages == scanScopedRows(rows, PrimaryKey, batchRows)
           messages == Messages(pages, max)
           none == [id \in {} |-> << >>]
           n == Len(messages)
           InstallLoop(f) == [m \in 0..n |-> IF m = 0 THEN none ELSE Put(f[m - 1], messages[m], PrimaryKey)]
           h == CHOOSE f : f = InstallLoop(f)
           C == SentRows(rows)
           D(m) == UNION {Range(messages[l]) : l \in 1..m}
<1>1. Installed(rows, PrimaryKey, batchRows, max) = h[n]
  BY Zenon DEF Installed
<1>2. pages \in Seq(Seq(rows)) /\ InOrder(pages) /\ Read(pages) = rows
  <2> HIDE DEF pages
  <2>1. pages = scanScopedRows(rows, PrimaryKey, batchRows)
    BY Zenon DEF pages
  <2> QED
    BY <2>1, ScanIs, Zenon
<1> HIDE DEF pages
<1>3. SentAll(messages, C, C, max)
  BY <1>2, MessagesAre, Zenon
<1>4. messages \in Seq(Seq(C)) /\ Read(messages) = C
  BY <1>3, Zenon DEF SentAll
<1> HIDE DEF messages, C
<1>5. n \in Nat /\ DOMAIN messages = 1..n /\ \A m \in 1..n : messages[m] \in Seq(C) /\ Range(messages[m]) \subseteq C
  BY <1>4 DEF Range
<1> HIDE DEF n
<1>6. h = InstallLoop(h)
  <2>1. PICK f : IsSnapLoop(f, "install", none, messages, 0, n)
    BY <1>5, SnapLoopEnds, Zenon
  <2>2. \A y, i : SnapTurn("install", y, i, messages, 0) = Put(y, messages[i], PrimaryKey)
    BY DEF SnapTurn
  <2> HIDE DEF none
  <2>3. f = InstallLoop(f)
    BY <2>1, <2>2, Zenon DEF IsSnapLoop, SnapLoop
  <2> QED
    BY <2>3, Zenon
<1> HIDE DEF h
<1> DEFINE Good == {m \in Nat : m <= n => Holds(h[m], D(m))}
<1>7. 0 \in Good
  <2>1. 0 \in 0..n /\ 0 \in Nat /\ 1..0 = {}
    BY <1>5
  <2>2. Holds(none, {})
    BY Zenon DEF Holds
  <2> HIDE DEF none
  <2>3. h[0] = none
    BY <1>6, <2>1, Zenon
  <2>4. D(0) = {}
    BY <2>1, Zenon
  <2> HIDE DEF D
  <2> QED
    BY <2>1, <2>2, <2>3, <2>4, Zenon
<1> HIDE DEF none
<1>8. ASSUME NEW m \in 1..n, m - 1 \in Good PROVE m \in Good
  <2>1. m \in Nat /\ m # 0 /\ m \in 0..n /\ m - 1 \in Nat /\ m - 1 <= n /\ 1..m = 1..(m - 1) \cup {m}
        /\ \A l \in 1..(m - 1) : l \in 1..n
    BY <1>5
  <2>2. D(m) = D(m - 1) \cup Range(messages[m])
    BY <2>1, Zenon
  <2>3. D(m - 1) \in SUBSET SentRows(rows) /\ messages[m] \in Seq(SentRows(rows))
    BY <1>5, <2>1, Zenon DEF C
  <2> HIDE DEF D
  <2>4. Holds(h[m - 1], D(m - 1))
    BY <1>8, <2>1, Zenon
  <2> HIDE DEF Good
  <2>5. h[m] = Put(h[m - 1], messages[m], PrimaryKey)
    BY <1>6, <2>1, Zenon
  <2>6. Holds(Put(h[m - 1], messages[m], PrimaryKey), D(m - 1) \cup Range(messages[m]))
    BY <2>3, <2>4, PutIs, Zenon
  <2> QED
    BY <2>1, <2>2, <2>5, <2>6, Zenon DEF Good
<1>9. n \in Good
  <2> HIDE DEF Good
  <2>1. 0..n \subseteq Good
    BY <1>5, <1>7, <1>8, Turns, Zenon
  <2> QED
    BY <1>5, <2>1
<1>10. Holds(h[n], D(n))
  <2>1. n <= n
    BY <1>5
  <2> QED
    BY <1>9, <2>1, Zenon
<1>11. D(n) = C
  BY <1>4, <1>5, Zenon DEF Read
<1> QED
  BY <1>1, <1>10, <1>11, Zenon DEF C

\* A row of a table as a snapshot reads it.
TableRow(key, body) == [body |-> Body(body), scope |-> Text(key[1]), id |-> Text(key[2])]

\* It is read under its key, and sent as the client holds it.
LEMMA TableRowIs ==
    ASSUME NEW a \in Nat, NEW b \in Nat, NEW body \in Nat \cup {NoBody}
    PROVE  LET row == TableRow(<< a, b >>, body)
           IN  row \in SnapRow /\ RowKey(row) = << a, b >> /\ convertRow(row) = MirrorRow(<< a, b >>, body)
<1> DEFINE row == TableRow(<< a, b >>, body)
<1>1. row.body = Body(body) /\ row.scope = Text(a) /\ row.id = Text(b)
      /\ Text(a).data = a /\ Text(b).data = b
  BY DEF TableRow, Text
<1>2. Body(body) \in Column /\ Body(body) # Toast
  BY DEF Body, Column, Text, Null, Toast
<1>3. row \in SnapRow
  BY <1>2 DEF SnapRow, TableRow
<1> HIDE DEF row
<1>4. RowKey(row) \in Pair /\ RowKey(row)[1] = a /\ RowKey(row)[2] = b
  BY <1>1, <1>3, RowKeyIs
<1>5. RowKey(row) = << a, b >>
  BY <1>4 DEF Pair
<1>6. (IF row.body = Null THEN Value(0, TRUE, FALSE) ELSE Value(row.body.data, FALSE, FALSE))
      = (IF body = NoBody THEN Value(0, TRUE, FALSE) ELSE Value(body, FALSE, FALSE))
  <2>1. CASE body = NoBody
    BY <1>1, <2>1, Zenon DEF Body
  <2>2. CASE body # NoBody
    <3>1. row.body = Text(body)
      BY <1>1, <2>2, Zenon DEF Body
    <3>2. row.body # Null /\ row.body.data = body
      BY <3>1 DEF Text, Null
    <3> QED
      BY <2>2, <3>2, Zenon
  <2> QED
    BY <2>1, <2>2, Zenon
<1>7. convertRow(row) = MirrorRow(<< a, b >>, body)
  <2>1. << a, b >>[1] = a /\ << a, b >>[2] = b
    OBVIOUS
  <2> DEFINE x == IF row.body = Null THEN Value(0, TRUE, FALSE) ELSE Value(row.body.data, FALSE, FALSE)
  <2> HIDE DEF x
  <2>2. convertRow(row) = [body |-> x, scope |-> Value(row.scope.data, FALSE, FALSE), id |-> Value(row.id.data, FALSE, FALSE)]
    BY <1>3, ConvertIs, Zenon DEF x
  <2>3. x = (IF body = NoBody THEN Value(0, TRUE, FALSE) ELSE Value(body, FALSE, FALSE))
    BY <1>6, Zenon DEF x
  <2> QED
    BY <1>1, <2>1, <2>2, <2>3, Zenon DEF MirrorRow
<1> QED
  BY <1>3, <1>5, <1>7, Zenon DEF row

\* The rows a snapshot reads of a table, and what is to be known of them.
ReadOf(keys, bodies) == {TableRow(key, bodies[key]) : key \in keys}
IsRead(rows, keys, bodies) ==
    /\ Snap(rows) /\ {RowKey(row) : row \in rows} = keys
    /\ \A key \in keys : RowKey(TableRow(key, bodies[key])) = key
                         /\ convertRow(TableRow(key, bodies[key])) = MirrorRow(key, bodies[key])

\* The rows of a table with finitely many keys are a snapshot.
LEMMA TableSnap ==
    ASSUME NEW keys \in SUBSET (Nat \X Nat), IsFiniteSet(keys), NEW bodies, \A key \in keys : bodies[key] \in Nat \cup {NoBody},
           NEW rows, rows = ReadOf(keys, bodies)
    PROVE  IsRead(rows, keys, bodies)
<1>1. \A key \in keys : /\ TableRow(key, bodies[key]) \in SnapRow /\ RowKey(TableRow(key, bodies[key])) = key
                        /\ convertRow(TableRow(key, bodies[key])) = MirrorRow(key, bodies[key])
  <2> SUFFICES ASSUME NEW key \in keys
               PROVE  /\ TableRow(key, bodies[key]) \in SnapRow /\ RowKey(TableRow(key, bodies[key])) = key
                      /\ convertRow(TableRow(key, bodies[key])) = MirrorRow(key, bodies[key])
    BY Zenon
  <2>1. PICK a \in Nat, b \in Nat : key = << a, b >>
    OBVIOUS
  <2> QED
    BY <2>1, TableRowIs
<1> DEFINE T(key) == TableRow(key, bodies[key])
<1> HIDE DEF T
<1>2. rows = {T(key) : key \in keys}
  BY Zenon DEF T, ReadOf
<1>3. IsFiniteSet(rows)
  <2> DEFINE f == [key \in keys |-> T(key)]
  <2>1. f \in Surjection(keys, rows)
    BY <1>2, Zenon DEF Surjection
  <2> QED
    BY <2>1, FS_Surjection, Zenon
<1>4. \A key \in keys : T(key) \in SnapRow /\ RowKey(T(key)) = key
  BY <1>1, Zenon DEF T
<1>5. \A row \in rows : row \in SnapRow /\ \E key \in keys : row = T(key) /\ RowKey(row) = key
  BY <1>2, <1>4, Zenon
<1>6. Snap(rows)
  <2> SUFFICES ASSUME NEW row \in rows, NEW other \in rows, RowKey(row) = RowKey(other) PROVE row = other
    BY <1>3, <1>5, Zenon DEF Snap
  <2>1. PICK k \in keys : row = T(k) /\ RowKey(row) = k
    BY <1>5, Zenon
  <2>2. PICK l \in keys : other = T(l) /\ RowKey(other) = l
    BY <1>5, Zenon
  <2> QED
    BY <2>1, <2>2, Zenon
<1>7. {RowKey(row) : row \in rows} = keys
  BY <1>2, <1>4
<1> QED
  BY <1>1, <1>6, <1>7, Zenon DEF IsRead

-----------------------------------------------------------------------------
(* The shapes of relations.                                                   *)

\* An enumeration of a set of numbers in their order.
Enumerates(s, S) == Range(s) = S /\ \A i, j \in DOMAIN s : i < j => s[i] < s[j]

\* A smaller number in front of an enumeration.
LEMMA InFront ==
    ASSUME NEW n \in Nat \ {0}, NEW S \in SUBSET Nat, NEW a \in S, \A b \in S : a <= b,
           NEW t \in [1..(n - 1) -> S \ {a}], Enumerates(t, S \ {a})
    PROVE  \E s \in [1..n -> S] : Enumerates(s, S)
<1> DEFINE s == [i \in 1..n |-> IF i = 1 THEN a ELSE t[i - 1]]
<1>1. \A i \in 1..n : i # 1 => i - 1 \in 1..(n - 1)
  OBVIOUS
<1>2. s \in [1..n -> S]
  BY <1>1
<1>3. /\ DOMAIN s = 1..n /\ s[1] = a /\ 1 \in 1..n
      /\ \A i \in 1..n : i # 1 => s[i] = t[i - 1] /\ s[i] \in S \ {a}
      /\ \A k \in 1..(n - 1) : k + 1 \in 1..n /\ s[k + 1] = t[k]
  BY <1>1
<1> HIDE DEF s
<1>4. Range(s) = S
  <2>1. Range(t) = {t[k] : k \in 1..(n - 1)} /\ Range(s) = {s[i] : i \in 1..n}
    BY <1>3, Zenon DEF Range
  <2>2. \A b \in S : b # a => \E k \in 1..(n - 1) : b = t[k]
    BY <2>1, Zenon DEF Enumerates
  <2>3. \A b \in S : \E i \in 1..n : b = s[i]
    <3> SUFFICES ASSUME NEW b \in S PROVE \E i \in 1..n : b = s[i]
      BY Zenon
    <3>1. CASE b = a
      BY <1>3, <3>1, Zenon
    <3>2. CASE b # a
      <4>1. PICK k \in 1..(n - 1) : b = t[k]
        BY <2>2, <3>2, Zenon
      <4> QED
        BY <1>3, <4>1, Zenon
    <3> QED
      BY <3>1, <3>2, Zenon
  <2>4. \A i \in 1..n : s[i] \in S
    BY <1>2, Zenon
  <2>5. \A b : b \in Range(s) <=> \E i \in 1..n : b = s[i]
    BY <2>1, Zenon
  <2>6. \A b : b \in Range(s) <=> b \in S
    <3> TAKE b
    <3>1. ASSUME b \in Range(s) PROVE b \in S
      <4>1. PICK i \in 1..n : b = s[i]
        BY <2>5, <3>1, Zenon
      <4>2. s[i] \in S
        BY <2>4, Zenon
      <4> QED
        BY <4>1, <4>2
    <3>2. ASSUME b \in S PROVE b \in Range(s)
      BY <2>3, <2>5, <3>2, Zenon
    <3> QED
      BY <3>1, <3>2, Zenon
  <2> QED
    BY <2>6, Zenon
<1>5. ASSUME NEW i \in DOMAIN s, NEW j \in DOMAIN s, i < j PROVE s[i] < s[j]
  <2>1. i \in 1..n /\ j \in 1..n /\ j # 1 /\ (i # 1 => i - 1 < j - 1)
    BY <1>3, <1>5
  <2>2. CASE i = 1
    <3>1. s[i] = a /\ s[j] \in S /\ s[j] # a /\ a \in Nat /\ s[j] \in Nat /\ a <= s[j]
      BY <1>3, <2>1, <2>2, Zenon
    <3> QED
      BY <3>1
  <2>3. CASE i # 1
    <3>1. i - 1 \in DOMAIN t /\ j - 1 \in DOMAIN t
      BY <1>1, <2>1, <2>3, Zenon
    <3>2. t[i - 1] < t[j - 1]
      BY <2>1, <2>3, <3>1, Zenon DEF Enumerates
    <3> QED
      BY <1>3, <2>1, <2>3, <3>2, Zenon
  <2> QED
    BY <2>2, <2>3, Zenon
<1> QED
  BY <1>2, <1>4, <1>5, Zenon DEF Enumerates

\* A finite set of numbers can be enumerated.
LEMMA Enumerated ==
    ASSUME NEW S \in SUBSET Nat, IsFiniteSet(S)
    PROVE  \E s \in [1..Cardinality(S) -> S] : Enumerates(s, S)
<1> DEFINE Can(T) == \E s \in [1..Cardinality(T) -> T] : Enumerates(s, T)
           Good == {n \in Nat : \A T \in SUBSET Nat : IsFiniteSet(T) /\ Cardinality(T) = n => Can(T)}
<1>1. 0 \in Good
  <2> SUFFICES ASSUME NEW T \in SUBSET Nat, IsFiniteSet(T), Cardinality(T) = 0 PROVE Can(T)
    BY DEF Can
  <2>1. T = {}
    BY FS_EmptySet, Zenon
  <2> DEFINE s == [i \in 1..0 |-> 0]
  <2>2. s \in [1..0 -> {}] /\ Enumerates(s, {})
    BY DEF Enumerates, Range
  <2> HIDE DEF s
  <2> QED
    BY <2>1, <2>2, Zenon
<1>2. ASSUME NEW n \in 1..Cardinality(S), n - 1 \in Good PROVE n \in Good
  <2>1. n \in Nat \ {0} /\ n \in Nat /\ n # 0
    OBVIOUS
  <2> SUFFICES ASSUME NEW T \in SUBSET Nat, IsFiniteSet(T), Cardinality(T) = n PROVE Can(T)
    BY <2>1, Zenon
  <2>2. T # {}
    BY <2>1, FS_EmptySet, Zenon
  <2>3. PICK a \in T : \A b \in T : a <= b
    BY <2>2, LeastNatural, Zenon
  <2>4. IsFiniteSet(T \ {a}) /\ Cardinality(T \ {a}) = n - 1 /\ T \ {a} \in SUBSET Nat
    BY <2>3, FS_RemoveElement
  <2>5. PICK t \in [1..(n - 1) -> T \ {a}] : Enumerates(t, T \ {a})
    <3>1. Can(T \ {a})
      <4> HIDE DEF Can
      <4> QED
        BY <1>2, <2>4, Zenon
    <3> QED
      BY <2>4, <3>1, Zenon
  <2>6. \E s \in [1..n -> T] : Enumerates(s, T)
    BY <2>1, <2>3, <2>5, InFront, Zenon
  <2> QED
    BY <2>6, Zenon
<1>3. Cardinality(S) \in Nat
  BY FS_CardinalityType, Zenon
<1>4. Cardinality(S) \in Good
  <2> HIDE DEF Good
  <2>1. 0..Cardinality(S) \subseteq Good
    BY <1>1, <1>2, <1>3, Turns, Zenon
  <2> QED
    BY <1>3, <2>1
<1> QED
  BY <1>4, Zenon

\* Sorted lists the names of a key.
LEMMA SortedIs ==
    ASSUME NEW S \in SUBSET Nat, IsFiniteSet(S)
    PROVE  Range(Sorted(S)) = S
<1>1. \E s \in [1..Cardinality(S) -> S] : Enumerates(s, S)
  BY Enumerated, Zenon
<1>2. Sorted(S) = CHOOSE s \in [1..Cardinality(S) -> S] : Enumerates(s, S)
  BY Zenon DEF Sorted, Enumerates
<1>3. Enumerates(Sorted(S), S)
  BY <1>1, <1>2, Zenon
<1> QED
  BY <1>3, Zenon DEF Enumerates

\* newRelationInfo finds the flagged columns.
LEMMA KeyIndexesAre ==
    ASSUME NEW columns, NEW n \in Nat, Len(columns) = n, NEW flagged
    PROVE  /\ newRelationInfo(columns, flagged).columns = columns
           /\ Range(newRelationInfo(columns, flagged).keyIndexes) = {i \in 1..n : columns[i] \in flagged}
<1>1. PICK f : KeysFound(f, columns, flagged, n)
  BY KeyTurns, Zenon
<1>2. newRelationInfo(columns, flagged) = [columns |-> columns, keyIndexes |-> f[n]]
  BY <1>1, Zenon DEF KeysFound
<1> DEFINE Good == {m \in Nat : m <= n => f[m] \in Seq(Nat) /\ Range(f[m]) = {i \in 1..m : columns[i] \in flagged}}
<1>3. 0 \in Good
  <2>1. f[0] = << >>
    BY <1>1, Zenon DEF KeysFound
  <2>2. 0 \in Nat /\ << >> \in Seq(Nat) /\ 1..0 = {} /\ DOMAIN << >> = {}
    OBVIOUS
  <2>3. Range(<< >>) = {}
    BY <2>2, Zenon DEF Range
  <2>4. {i \in 1..0 : columns[i] \in flagged} = {}
    BY <2>2, Zenon
  <2> QED
    BY <2>1, <2>2, <2>3, <2>4, Zenon
<1>4. ASSUME NEW m \in 1..n, m - 1 \in Good PROVE m \in Good
  <2>1. m \in Nat /\ m - 1 <= n /\ 1..m = 1..(m - 1) \cup {m} /\ m \notin 1..(m - 1)
    OBVIOUS
  <2>2. f[m - 1] \in Seq(Nat) /\ Range(f[m - 1]) = {i \in 1..(m - 1) : columns[i] \in flagged}
    BY <1>4, <2>1, Zenon
  <2>3. f[m] = IF columns[m] \in flagged THEN Append(f[m - 1], m) ELSE f[m - 1]
    BY <1>1, Zenon DEF KeysFound
  <2>4. f[m] \in Seq(Nat) /\ Range(f[m]) = {i \in 1..m : columns[i] \in flagged}
    <3> DEFINE before == f[m - 1]
    <3>1. CASE columns[m] \in flagged
      <4>1. f[m] = Append(before, m) /\ before \in Seq(Nat)
        BY <2>2, <2>3, <3>1, Zenon
      <4> HIDE DEF before
      <4>2. f[m] \in Seq(Nat) /\ Range(f[m]) = Range(before) \cup {m}
        <5>1. Append(before, m) \in Seq(Nat)
          BY <2>1, <4>1
        <5>2. Range(Append(before, m)) = Range(before) \cup {m}
          <6>1. /\ DOMAIN Append(before, m) = DOMAIN before \cup {Len(before) + 1}
                /\ \A i \in DOMAIN before : Append(before, m)[i] = before[i]
                /\ Append(before, m)[Len(before) + 1] = m
            BY <4>1
          <6> QED
            BY <6>1 DEF Range
        <5> QED
          BY <4>1, <5>1, <5>2, Zenon
      <4> QED
        BY <2>1, <2>2, <3>1, <4>2, Zenon DEF before
    <3>2. CASE columns[m] \notin flagged
      BY <2>1, <2>2, <2>3, <3>2, Zenon
    <3> QED
      BY <3>1, <3>2, Zenon
  <2> QED
    BY <2>1, <2>4, Zenon
<1>5. n \in Good
  <2> HIDE DEF Good
  <2>1. 0..n \subseteq Good
    BY <1>3, <1>4, Turns, Zenon
  <2> QED
    BY <2>1
<1>6. Range(f[n]) = {i \in 1..n : columns[i] \in flagged}
  <2>1. n <= n
    OBVIOUS
  <2> QED
    BY <1>5, <2>1, Zenon
<1>7. newRelationInfo(columns, flagged).columns = columns /\ newRelationInfo(columns, flagged).keyIndexes = f[n]
  BY <1>2
<1> QED
  BY <1>6, <1>7, Zenon

\* The columns of a table.
TypedColumn == [name : Nat, typeOID : Nat]

\* Two columns are equal when their names and types are.
LEMMA SameColumn ==
    ASSUME NEW a \in TypedColumn, NEW b \in TypedColumn, a.name = b.name, a.typeOID = b.typeOID
    PROVE  a = b
BY DEF TypedColumn

\* diff finds every difference there is.
LEMMA DiffIs ==
    ASSUME NEW s, NEW t, s.columns \in Seq(TypedColumn), t.columns \in Seq(TypedColumn)
    PROVE  diff(s, t) = "" <=>
             s.oid = t.oid /\ s.replicaIdentity = t.replicaIdentity /\ s.key = t.key /\ s.columns = t.columns
<1> DEFINE a == s.columns
           b == t.columns
           longest == IF Len(a) > Len(b) THEN Len(a) ELSE Len(b)
           differs == \E index \in 1..longest : DiffersAt(s, t, index)
<1>1. diff(s, t) = "" <=>
        s.oid = t.oid /\ s.replicaIdentity = t.replicaIdentity /\ s.key = t.key /\ ~differs
  <2> HIDE DEF differs
  <2>1. diff(s, t) = CASE s.oid # t.oid -> "recreated"
               [] s.oid = t.oid /\ s.replicaIdentity # t.replicaIdentity -> "replica identity"
               [] s.oid = t.oid /\ s.replicaIdentity = t.replicaIdentity /\ s.key # t.key -> "key"
               [] OTHER -> IF differs THEN "column" ELSE ""
    BY Zenon DEF diff, differs
  <2> QED
    BY <2>1
<1>2. a = b => ~differs
  <2> SUFFICES ASSUME a = b, NEW index \in 1..longest PROVE ~DiffersAt(s, t, index)
    BY Zenon
  <2>1. ~(index > Len(b)) /\ ~(index > Len(a)) /\ a[index] = b[index]
    <3> HIDE DEF a, b
    <3> QED
      BY DEF a, b
  <2> QED
    BY <2>1, Zenon DEF DiffersAt
<1>3. ~differs => a = b
  <2> SUFFICES ASSUME ~differs PROVE a = b
    BY Zenon
  <2>1. a \in Seq(TypedColumn) /\ b \in Seq(TypedColumn) /\ Len(a) \in Nat /\ Len(b) \in Nat
    OBVIOUS
  <2>2. ASSUME NEW index \in 1..longest
        PROVE  ~(index > Len(b)) /\ ~(index > Len(a)) /\ a[index].name = b[index].name /\ a[index].typeOID = b[index].typeOID
    BY Zenon DEF DiffersAt
  <2> HIDE DEF differs, a, b
  <2>3. Len(a) = Len(b) /\ longest = Len(a)
    <3>1. longest \in Nat /\ (longest = Len(a) \/ longest = Len(b)) /\ Len(a) <= longest /\ Len(b) <= longest
      BY <2>1
    <3> HIDE DEF longest
    <3>2. CASE longest = 0
      BY <2>1, <3>1, <3>2
    <3>3. CASE longest # 0
      <4>1. longest \in 1..longest
        BY <3>1, <3>3
      <4>2. ~(longest > Len(b)) /\ ~(longest > Len(a))
        BY <2>2, <4>1, Zenon
      <4> QED
        BY <2>1, <3>1, <4>2
    <3> QED
      BY <3>2, <3>3, Zenon
  <2>4. \A i \in 1..Len(a) : a[i] = b[i]
    <3> SUFFICES ASSUME NEW i \in 1..Len(a) PROVE a[i] = b[i]
      BY Zenon
    <3>1. a[i] \in TypedColumn /\ b[i] \in TypedColumn
      BY <2>1, <2>3
    <3>2. a[i].name = b[i].name /\ a[i].typeOID = b[i].typeOID
      BY <2>2, <2>3, Zenon
    <3> QED
      BY <3>1, <3>2, SameColumn, Zenon
  <2> QED
    BY <2>1, <2>3, <2>4, SameSeq, Zenon
<1> HIDE DEF differs
<1> QED
  BY <1>1, <1>2, <1>3, Zenon
================================================================================
