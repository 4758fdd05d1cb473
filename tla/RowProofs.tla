------------------------------- MODULE RowProofs -------------------------------
(*******************************************************************************)
(* The row path: what a change and a batch do to the client's rows, and the    *)
(* inductive invariant from which the client's rows at its latest position are *)
(* the table's rows of the scope, whatever was delivered again or installed    *)
(* afresh.                                                                     *)
(*******************************************************************************)
EXTENDS RowLemmas

-----------------------------------------------------------------------------
(* A change as the SDK applies it.                                            *)

\* The values of a change's columns as the SDK receives them.
ValuesOf(b, key) ==
    [body |-> convertValue(Decoded(b).kind, Decoded(b).text),
     scope |-> Value(key[1], FALSE, FALSE), id |-> Value(key[2], FALSE, FALSE)]

\* A change as the SDK receives it.
LEMMA Converted ==
    ASSUME NEW c, NEW operation, NEW key \in Keys, NEW b \in Column, Made(c, operation, key, b)
    PROVE  /\ convertChange(c).operation = operation /\ convertChange(c).key = c.key
           /\ operation # "delete" => convertChange(c).values = ValuesOf(b, key)
<1> DEFINE values == Row(b, key)
           at3(i) == CHOOSE j \in DOMAIN values : Columns[j] = i
           V == [i \in {Columns[j] : j \in DOMAIN values} |-> convertValue(values[at3(i)].kind, values[at3(i)].text)]
<1>1. /\ c.operation = operation /\ c.columns = Columns
      /\ operation # "delete" => c.values = values
  BY DEF Made
<1>2. convertChange(c).operation = operation /\ convertChange(c).key = c.key
  BY <1>1 DEF convertChange
<1>3. operation # "delete" => convertChange(c).values = V
  <2> SUFFICES ASSUME operation # "delete" PROVE convertChange(c).values = V
    OBVIOUS
  <2> HIDE DEF values
  <2> DEFINE r == [operation |-> operation, key |-> c.key, columns |-> Columns, values |-> values]
  <2>1. c = r
    BY Zenon DEF Made, values
  <2>2. convertChange(r).values = V
    BY DEF convertChange
  <2> HIDE DEF r, V
  <2> QED
    BY <2>1, <2>2, Zenon
<1>4. /\ DOMAIN values = {1, 2, 3} /\ values[1] = Decoded(b)
      /\ values[2] = Decoded(Text(key[1])) /\ values[3] = Decoded(Text(key[2]))
  BY DEF Row
<1>5. Columns[1] = "body" /\ Columns[2] = "scope" /\ Columns[3] = "id"
  BY DEF Columns
<1> HIDE DEF values
<1>6. at3("body") = 1 /\ at3("scope") = 2 /\ at3("id") = 3
  BY <1>4, <1>5
<1>7. {Columns[j] : j \in DOMAIN values} = {"body", "scope", "id"}
  BY <1>4, <1>5
<1> HIDE DEF at3
<1>8. /\ convertValue(Decoded(Text(key[1])).kind, Decoded(Text(key[1])).text) = Value(key[1], FALSE, FALSE)
      /\ convertValue(Decoded(Text(key[2])).kind, Decoded(Text(key[2])).text) = Value(key[2], FALSE, FALSE)
  BY DEF convertValue, Decoded, Text
<1> DEFINE x == convertValue(Decoded(b).kind, Decoded(b).text)
           y == Value(key[1], FALSE, FALSE)
           z == Value(key[2], FALSE, FALSE)
<1>9. V = [i \in {"body", "scope", "id"} |-> convertValue(values[at3(i)].kind, values[at3(i)].text)]
  BY <1>7, Zenon
<1>10. V["body"] = x /\ V["scope"] = y /\ V["id"] = z
  BY <1>4, <1>6, <1>8, <1>9
<1>11. DOMAIN V = {"body", "scope", "id"} /\ V = [i \in DOMAIN V |-> V[i]]
  BY <1>9
<1> HIDE DEF V, x, y, z
<1>12. V = [column \in {"body", "scope", "id"} |-> IF column = "body" THEN x ELSE IF column = "scope" THEN y ELSE z]
  BY <1>10, <1>11
<1>13. V = [body |-> x, scope |-> y, id |-> z]
  BY <1>12, RowIsFunction
<1> QED
  BY <1>2, <1>3, <1>13, Zenon DEF x, y, z, ValuesOf

\* The row a change writes.
LEMMA WrittenIs ==
    ASSUME NEW key \in Keys, NEW b \in Column, NEW row \in SdkRow \cup {<< >>}, NEW values,
           values = ValuesOf(b, key)
    PROVE  Written(row, values) = IF b.type = "u" THEN Rekeyed(row, key) ELSE MirrorRow(key, BodyOf(b))
<1> DEFINE x == convertValue(Decoded(b).kind, Decoded(b).text)
           y == Value(key[1], FALSE, FALSE)
           z == Value(key[2], FALSE, FALSE)
<1>1. b.type \in {"t", "n", "u"} /\ b.data \in Nat
  BY ColumnIs
<1>2. x.unchanged <=> b.type = "u"
  BY <1>1 DEF convertValue, Decoded, Value
<1>3. ~y.unchanged /\ ~z.unchanged
  BY DEF Value
<1>4. b.type # "u" => x = IF BodyOf(b) = NoBody THEN Value(0, TRUE, FALSE) ELSE Value(BodyOf(b), FALSE, FALSE)
  <2>1. CASE b.type = "t"
    <3>1. Decoded(b).kind = "text" /\ Decoded(b).text = b.data /\ BodyOf(b) = b.data /\ b.data # NoBody
      BY <1>1, <2>1 DEF Decoded, BodyOf, NoBody
    <3>2. ("text" = "null") = FALSE /\ ("text" = "unchangedToast") = FALSE
      OBVIOUS
    <3>3. convertValue("text", b.data) = Value(b.data, FALSE, FALSE)
      BY <3>2, Zenon DEF convertValue
    <3> QED
      BY <3>1, <3>3, Zenon
  <2>2. CASE b.type = "n"
    BY <1>1, <2>2 DEF convertValue, Decoded, Value, BodyOf, NoBody
  <2> QED
    BY <1>1, <2>1, <2>2
<1>5. b.type # "u" => MirrorRow(key, BodyOf(b)) = [body |-> x, scope |-> y, id |-> z]
  BY <1>4, Zenon DEF MirrorRow
<1>6. values = [body |-> x, scope |-> y, id |-> z]
  BY Zenon DEF ValuesOf
<1>7. Rekeyed(row, key) = [column \in {"scope", "id"} \cup ({"body"} \cap DOMAIN row) |->
                              IF column = "body" THEN row["body"] ELSE IF column = "scope" THEN y ELSE z]
  BY Zenon DEF Rekeyed
<1> HIDE DEF x, y, z
<1>8. values = [column \in {"body", "scope", "id"} |-> IF column = "body" THEN x ELSE IF column = "scope" THEN y ELSE z]
  BY <1>6
<1>9. DOMAIN values = {"body", "scope", "id"} /\ values["body"] = x /\ values["scope"] = y /\ values["id"] = z
  BY <1>8
<1> DEFINE D == {c \in DOMAIN values : ~values[c].unchanged \/ c \in DOMAIN row}
<1>10. Written(row, values) = [column \in D |-> IF values[column].unchanged THEN row[column] ELSE values[column]]
  BY Zenon DEF Written
<1>11. CASE b.type = "u"
  <2>1. D = {"scope", "id"} \cup ({"body"} \cap DOMAIN row)
    BY <1>2, <1>3, <1>9, <1>11
  <2> HIDE DEF D
  <2>2. ASSUME NEW column \in D
        PROVE  (IF values[column].unchanged THEN row[column] ELSE values[column])
                 = IF column = "body" THEN row["body"] ELSE IF column = "scope" THEN y ELSE z
    BY <1>2, <1>3, <1>9, <1>11, <2>1
  <2> QED
    BY <1>7, <1>10, <1>11, <2>1, <2>2, Zenon
<1>12. CASE b.type # "u"
  <2>1. D = {"body", "scope", "id"}
    BY <1>2, <1>3, <1>9, <1>12
  <2> HIDE DEF D
  <2>2. ASSUME NEW column \in D
        PROVE  (IF values[column].unchanged THEN row[column] ELSE values[column])
                 = IF column = "body" THEN x ELSE IF column = "scope" THEN y ELSE z
    BY <1>2, <1>3, <1>9, <1>12, <2>1
  <2>3. Written(row, values) = values
    BY <1>8, <1>10, <2>1, <2>2, Zenon
  <2> QED
    BY <1>5, <1>6, <1>12, <2>3, Zenon
<1> QED
  BY <1>11, <1>12, Zenon

\* The id the SDK stores a row under is its key.
LEMMA IdIs ==
    ASSUME identity \in {"default", "full", "index"}, ScopeInKey,
           NEW key \in Keys, NEW texts, KeyTexts(texts, key)
    PROVE  keyOf(texts, PrimaryKey) = key /\ key # Failed
<1>1. DOMAIN texts = KeyNames /\ texts["scope"] = key[1] /\ texts["id"] = key[2]
  BY Zenon DEF KeyTexts
<1>2. "scope" \in KeyNames /\ "id" \in KeyNames
  BY KeyPlaces DEF ScopeInKey
<1>3. DOMAIN PrimaryKey = {1, 2} /\ PrimaryKey[1] = "scope" /\ PrimaryKey[2] = "id"
  BY DEF PrimaryKey
<1>4. Range(PrimaryKey) = {"scope", "id"}
  BY <1>3 DEF Range
<1>5. keyOf(texts, PrimaryKey) = [i \in {1, 2} |-> texts[PrimaryKey[i]]]
  BY <1>1, <1>2, <1>3, <1>4 DEF keyOf
<1>6. [i \in {1, 2} |-> texts[PrimaryKey[i]]] = << texts[PrimaryKey[1]], texts[PrimaryKey[2]] >>
  OBVIOUS
<1>7. key = << key[1], key[2] >>
  BY Bounds
<1>8. key # Failed
  BY RowPathAssumption, Zenon DEF RowPathAssumption
<1> QED
  BY <1>1, <1>3, <1>5, <1>6, <1>7, <1>8, Zenon

\* The client's store after a change: what the change left at its key, and
\* every other row as it was.
LEMMA Effect ==
    ASSUME identity \in {"default", "full", "index"}, ScopeInKey, NEW S \in SdkRows,
           NEW c, NEW operation, NEW key \in Keys, NEW b \in Column, Made(c, operation, key, b),
           NEW T, T = ApplyChange(S, convertChange(c), PrimaryKey)
    PROVE  /\ T \in SdkRows
           /\ Cell(T, key) = Left(operation, key, b, Current(S, key))
           /\ \A k : k # key => Cell(T, k) = Cell(S, k)
<1> DEFINE row == Current(S, key)
           change == convertChange(c)
<1>1. keyOf(change.key, PrimaryKey) = key /\ key # Failed
  <2>1. change.key = c.key
    BY Converted, Zenon
  <2>2. KeyTexts(c.key, key)
    BY Zenon DEF Made
  <2> QED
    BY <2>1, <2>2, IdIs, Zenon
<1>2. change.operation = operation
  BY Converted, Zenon
<1>3. S # Failed
  BY SdkIs, Zenon
<1>4. T = IF operation = "delete" THEN Without(S, key)
          ELSE WithRow(S, key, Written(row, change.values))
  <2> HIDE DEF change
  <2> QED
    BY <1>1, <1>2, <1>3, Zenon DEF ApplyChange, Current, change, Without
<1>5. row \in SdkRow \cup {<< >>}
  BY SdkIs DEF Current
<1>6. CASE operation = "delete"
  <2>1. T = Without(S, key)
    BY <1>4, <1>6, Zenon
  <2>2. Left(operation, key, b, row) = {}
    BY <1>6, Zenon DEF Left
  <2> QED
    BY <2>1, <2>2, RowGone
<1>7. CASE operation # "delete"
  <2>1. change.values = ValuesOf(b, key)
    BY <1>7, Converted, Zenon
  <2> HIDE DEF change, row
  <2> DEFINE new == IF b.type = "u" THEN Rekeyed(row, key) ELSE MirrorRow(key, BodyOf(b))
  <2>2. Written(row, change.values) = new
    BY <1>5, <2>1, WrittenIs, Zenon
  <2>3. new \in SdkRow
    <3>1. b.type # "u" => BodyOf(b) \in Nat \cup {NoBody}
      BY ColumnIs DEF BodyOf
    <3> QED
      BY <1>5, <3>1, SdkRowIs, Zenon
  <2>4. Left(operation, key, b, row) = {new}
    BY <1>7, Zenon DEF Left
  <2> HIDE DEF new
  <2>5. T = WithRow(S, key, new)
    BY <1>4, <1>7, <2>2, Zenon
  <2>6. T \in SdkRows /\ Cell(T, key) = {new} /\ \A k : k # key => Cell(T, k) = Cell(S, k)
    BY <2>3, <2>5, RowPut
  <2> QED
    BY <2>4, <2>6, Zenon DEF row
<1> QED
  BY <1>6, <1>7, Zenon

\* The client's rows after a batch, and the turns of Apply's loop.
Applied(rows, batch) == Apply(rows, [i \in DOMAIN batch |-> convertChange(batch[i])], PrimaryKey)
ApplyTurns(batch) ==
    [i \in 1..Len(batch) |-> [S \in SdkRows |-> ApplyChange(S, convertChange(batch[i]), PrimaryKey)]]
ApplyLoop(f, rows, changes) ==
    [i \in 0..Len(changes) |-> IF i = 0 THEN rows ELSE ApplyChange(f[i - 1], changes[i], PrimaryKey)]

\* A decoded change keeps the client's rows rows.
LEMMA ApplyTyped ==
    ASSUME identity \in {"default", "full", "index"}, ScopeInKey, NEW S \in SdkRows, NEW c \in MadeChange
    PROVE  ApplyChange(S, convertChange(c), PrimaryKey) \in SdkRows
<1>1. PICK operation \in {"insert", "update", "delete"}, key \in Keys, b \in Column : Made(c, operation, key, b)
  BY Zenon DEF MadeChange
<1> QED
  BY <1>1, Effect, Zenon

\* Apply's loop ends.
LEMMA ApplyEnds ==
    ASSUME identity \in {"default", "full", "index"}, ScopeInKey, NEW rows \in SdkRows, NEW batch \in Seq(MadeChange)
    PROVE  \E f : Loop(f, Len(batch), SdkRows, rows, ApplyTurns(batch)) /\ Applied(rows, batch) = f[Len(batch)]
<1> DEFINE n == Len(batch)
           A == SdkRows
           step == ApplyTurns(batch)
           changes == [i \in DOMAIN batch |-> convertChange(batch[i])]
<1>1. n \in Nat /\ DOMAIN batch = 1..n
  OBVIOUS
<1>2. \A i \in 1..n : batch[i] \in MadeChange
  OBVIOUS
<1>3. Len(changes) = n
  <2>1. changes \in Seq({convertChange(c) : c \in MadeChange}) /\ DOMAIN changes = 1..n
    OBVIOUS
  <2> HIDE DEF changes, n
  <2> QED
    BY <1>1, <2>1
<1>4. \A i \in 1..n : changes[i] = convertChange(batch[i])
  BY <1>1, Zenon
<1> HIDE DEF n, changes
<1>5. step \in [1..n -> [A -> A]]
  <2>1. \A i \in 1..n : \A S \in A : ApplyChange(S, convertChange(batch[i]), PrimaryKey) \in A
    BY <1>2, ApplyTyped, Zenon
  <2> HIDE DEF A
  <2> QED
    BY <2>1, Zenon DEF ApplyTurns, n, A
<1>6. PICK g : Loop(g, n, A, rows, step)
  <2> HIDE DEF A, step
  <2>1. rows \in A
    BY DEF A
  <2> QED
    BY <1>1, <1>5, <2>1, LoopEnds, Zenon
<1>7. g \in [0..n -> A] /\ g[0] = rows /\ \A i \in 1..n : g[i] = step[i][g[i - 1]]
  BY <1>6, Zenon DEF Loop
<1>8. \A i \in 1..n : i \in 0..n /\ i - 1 \in 0..n /\ i # 0
  BY <1>1
<1>9. ASSUME NEW i \in 1..n PROVE g[i] = ApplyChange(g[i - 1], changes[i], PrimaryKey)
  <2>1. g[i - 1] \in SdkRows
    BY <1>7, <1>8, Zenon
  <2> QED
    BY <1>4, <1>7, <2>1, Zenon DEF ApplyTurns, n
<1> HIDE DEF step, A
<1>10. \A i \in 0..n : i # 0 => i \in 1..n
  BY <1>1
<1>11. g = ApplyLoop(g, rows, changes)
  BY <1>3, <1>7, <1>9, <1>10, Zenon DEF ApplyLoop
<1> DEFINE h == CHOOSE f : f = ApplyLoop(f, rows, changes)
<1>12. Applied(rows, batch) = h[n]
  <2>1. Apply(rows, changes, PrimaryKey) = h[Len(changes)]
    BY Zenon DEF Apply, ApplyLoop
  <2> QED
    BY <1>3, <2>1, Zenon DEF Applied, changes
<1>13. h = ApplyLoop(h, rows, changes)
  BY <1>11, Zenon
<1> HIDE DEF h
<1>14. 0 \in 0..n /\ n \in 0..n
  BY <1>1
<1>15. h[0] = rows
  BY <1>3, <1>13, <1>14, Zenon DEF ApplyLoop
<1>16. ASSUME NEW i \in 1..n, h[i - 1] = g[i - 1] PROVE h[i] = g[i]
  <2>1. h[i] = ApplyChange(h[i - 1], changes[i], PrimaryKey)
    BY <1>3, <1>8, <1>13, Zenon DEF ApplyLoop
  <2> QED
    BY <1>9, <1>16, <2>1, Zenon
<1>17. h[n] = g[n]
  <2>1. Alike(h, g, n)
    BY <1>7, <1>15, <1>16, Zenon DEF Alike
  <2> QED
    BY <1>1, <1>14, <2>1, SameTrace, Zenon
<1> QED
  BY <1>6, <1>12, <1>17, Zenon DEF n, A, step

\* A batch is applied change by change.
LEMMA AppliedIs ==
    ASSUME identity \in {"default", "full", "index"}, ScopeInKey, NEW rows \in SdkRows
    PROVE  /\ Applied(rows, << >>) = rows
           /\ \A batch \in Seq(MadeChange) : Applied(rows, batch) \in SdkRows
           /\ \A batch \in Seq(MadeChange), c \in MadeChange :
                Applied(rows, Append(batch, c)) = ApplyChange(Applied(rows, batch), convertChange(c), PrimaryKey)
<1>1. ASSUME NEW batch \in Seq(MadeChange) PROVE Applied(rows, batch) \in SdkRows
  <2>1. PICK f : Loop(f, Len(batch), SdkRows, rows, ApplyTurns(batch)) /\ Applied(rows, batch) = f[Len(batch)]
    BY ApplyEnds, Zenon
  <2>2. Len(batch) \in 0..Len(batch)
    OBVIOUS
  <2> QED
    BY <2>1, <2>2, Zenon DEF Loop
<1>2. Applied(rows, << >>) = rows
  <2>1. << >> \in Seq(MadeChange) /\ Len(<< >>) = 0
    OBVIOUS
  <2>2. PICK f : Loop(f, Len(<< >>), SdkRows, rows, ApplyTurns(<< >>)) /\ Applied(rows, << >>) = f[Len(<< >>)]
    BY <2>1, ApplyEnds, Zenon
  <2> QED
    BY <2>1, <2>2, Zenon DEF Loop
<1>3. ASSUME NEW batch \in Seq(MadeChange), NEW c \in MadeChange
      PROVE  Applied(rows, Append(batch, c)) = ApplyChange(Applied(rows, batch), convertChange(c), PrimaryKey)
  <2> DEFINE more == Append(batch, c)
             n == Len(batch)
             m == Len(more)
  <2>1. /\ n \in Nat /\ m \in Nat /\ m = n + 1 /\ n <= m /\ more \in Seq(MadeChange) /\ more[m] = c
        /\ \A i \in 1..n : more[i] = batch[i] /\ i \in 1..m
    OBVIOUS
  <2> HIDE DEF more
  <2>2. PICK f : Loop(f, n, SdkRows, rows, ApplyTurns(batch)) /\ Applied(rows, batch) = f[n]
    BY ApplyEnds, Zenon
  <2>3. PICK g : Loop(g, m, SdkRows, rows, ApplyTurns(more)) /\ Applied(rows, more) = g[m]
    BY <2>1, ApplyEnds, Zenon
  <2>4. SameTurns(ApplyTurns(batch), ApplyTurns(more), n)
    BY <2>1, Zenon DEF ApplyTurns, SameTurns
  <2>5. f[n] = g[n]
    <3> HIDE DEF n, m
    <3> QED
      BY <2>1, <2>2, <2>3, <2>4, LoopPrefix
  <2>6. m \in 1..m /\ m - 1 = n /\ n \in 0..m
    BY <2>1
  <2>7. g[m] = ApplyTurns(more)[m][g[n]] /\ g[n] \in SdkRows
    BY <2>3, <2>6, Zenon DEF Loop
  <2>8. ApplyTurns(more)[m][g[n]] = ApplyChange(g[n], convertChange(c), PrimaryKey)
    BY <2>1, <2>6, <2>7, Zenon DEF ApplyTurns
  <2> QED
    BY <2>2, <2>3, <2>5, <2>7, <2>8, Zenon DEF more
<1> QED
  BY <1>1, <1>2, <1>3, Zenon

-----------------------------------------------------------------------------
(* Batches as functions on the client's rows.                                 *)

\* A function on the rows does one of three things at a key: nothing, rewrite
\* the row but for its body, or leave something whatever was there.
Nothing(F, key) == \A S \in SdkRows : Cell(F[S], key) = Cell(S, key)
Rewrites(F, key) == \A S \in SdkRows : Cell(F[S], key) = {Rekeyed(Current(S, key), key)}
Leaves(F, key) == \A S, T \in SdkRows : Cell(F[S], key) = Cell(F[T], key)
Tame(F) ==
    /\ F \in [SdkRows -> SdkRows]
    /\ \A key \in Keys : Nothing(F, key) \/ Rewrites(F, key) \/ Leaves(F, key)

\* The current row is the cell's.
LEMMA CellCurrent ==
    ASSUME NEW S, NEW T, NEW key
    PROVE  /\ Cell(S, key) = Cell(T, key) => Current(S, key) = Current(T, key)
           /\ \A row : Cell(S, key) = {row} => Current(S, key) = row
           /\ Cell(S, key) = {} => Current(S, key) = << >>
BY DEF Cell, Current

\* Rewriting twice is rewriting once.
LEMMA RekeyedTwice ==
    ASSUME NEW row, NEW key
    PROVE  Rekeyed(Rekeyed(row, key), key) = Rekeyed(row, key)
<1> DEFINE once == Rekeyed(row, key)
           D == {"scope", "id"} \cup ({"body"} \cap DOMAIN row)
<1>1. DOMAIN once = D /\ ("body" \in D => once["body"] = row["body"])
  BY DEF Rekeyed
<1> HIDE DEF once
<1>2. {"scope", "id"} \cup ({"body"} \cap DOMAIN once) = D
  BY <1>1
<1>3. Rekeyed(once, key) = [column \in D |->
         IF column = "body" THEN once["body"]
         ELSE IF column = "scope" THEN Value(key[1], FALSE, FALSE) ELSE Value(key[2], FALSE, FALSE)]
  BY <1>2, Zenon DEF Rekeyed
<1>4. once = [column \in D |->
         IF column = "body" THEN row["body"]
         ELSE IF column = "scope" THEN Value(key[1], FALSE, FALSE) ELSE Value(key[2], FALSE, FALSE)]
  BY Zenon DEF Rekeyed, once
<1> HIDE DEF D
<1>5. Rekeyed(once, key) = once
  BY <1>1, <1>3, <1>4
<1> QED
  BY <1>5, Zenon DEF once

\* Tame functions compose.
LEMMA TameCompose ==
    ASSUME NEW F, Tame(F), NEW G, Tame(G), NEW H, H = [S \in SdkRows |-> G[F[S]]]
    PROVE  Tame(H)
<1>1. F \in [SdkRows -> SdkRows] /\ G \in [SdkRows -> SdkRows]
  BY Zenon DEF Tame
<1>2. H \in [SdkRows -> SdkRows] /\ \A S \in SdkRows : H[S] = G[F[S]] /\ F[S] \in SdkRows
  BY <1>1, Zenon
<1>3. ASSUME NEW key \in Keys PROVE Nothing(H, key) \/ Rewrites(H, key) \/ Leaves(H, key)
  <2>1. CASE Nothing(G, key)
    <3>1. \A S \in SdkRows : Cell(H[S], key) = Cell(F[S], key)
      BY <1>2, <2>1, Zenon DEF Nothing
    <3>2. CASE Nothing(F, key)
      BY <3>1, <3>2, Zenon DEF Nothing
    <3>3. CASE Rewrites(F, key)
      BY <3>1, <3>3, Zenon DEF Rewrites
    <3>4. CASE Leaves(F, key)
      BY <3>1, <3>4, Zenon DEF Leaves
    <3> QED
      BY <3>2, <3>3, <3>4, Zenon DEF Tame
  <2>2. CASE Leaves(G, key)
    BY <1>2, <2>2, Zenon DEF Leaves
  <2>3. CASE Rewrites(G, key)
    <3>1. \A S \in SdkRows : Cell(H[S], key) = {Rekeyed(Current(F[S], key), key)}
      BY <1>2, <2>3, Zenon DEF Rewrites
    <3>2. CASE Nothing(F, key)
      <4>1. \A S \in SdkRows : Current(F[S], key) = Current(S, key)
        BY <3>2, CellCurrent, Zenon DEF Nothing
      <4> QED
        BY <3>1, <4>1, Zenon DEF Rewrites
    <3>3. CASE Rewrites(F, key)
      <4>1. \A S \in SdkRows : Current(F[S], key) = Rekeyed(Current(S, key), key)
        BY <3>3, CellCurrent, Zenon DEF Rewrites
      <4> QED
        BY <3>1, <4>1, RekeyedTwice, Zenon DEF Rewrites
    <3>4. CASE Leaves(F, key)
      <4>1. \A S, T \in SdkRows : Current(F[S], key) = Current(F[T], key)
        <5> SUFFICES ASSUME NEW S \in SdkRows, NEW T \in SdkRows PROVE Current(F[S], key) = Current(F[T], key)
          BY Zenon
        <5>1. Cell(F[S], key) = Cell(F[T], key)
          BY <3>4, Zenon DEF Leaves
        <5> QED
          BY <5>1, CellCurrent, Zenon
      <4> QED
        BY <3>1, <4>1, Zenon DEF Leaves
    <3> QED
      BY <3>2, <3>3, <3>4, Zenon DEF Tame
  <2> QED
    BY <2>1, <2>2, <2>3, Zenon DEF Tame
<1> QED
  BY <1>2, <1>3, Zenon DEF Tame

\* A change as a function on the rows, and a batch.
ChangeMap(c) == [S \in SdkRows |-> ApplyChange(S, convertChange(c), PrimaryKey)]
BatchMap(batch) == [S \in SdkRows |-> Applied(S, batch)]

\* A change is tame: a delete or a whole row leaves the same whatever was there.
LEMMA TameChange ==
    ASSUME identity \in {"default", "full", "index"}, ScopeInKey, NEW c \in MadeChange
    PROVE  Tame(ChangeMap(c))
<1> DEFINE F == ChangeMap(c)
<1>1. PICK operation \in {"insert", "update", "delete"}, key \in Keys, b \in Column : Made(c, operation, key, b)
  BY Zenon DEF MadeChange
<1>2. \A S \in SdkRows : F[S] = ApplyChange(S, convertChange(c), PrimaryKey)
  BY Zenon DEF ChangeMap
<1>3. ASSUME NEW S \in SdkRows
      PROVE  /\ F[S] \in SdkRows
             /\ Cell(F[S], key) = Left(operation, key, b, Current(S, key))
             /\ \A k : k # key => Cell(F[S], k) = Cell(S, k)
  <2> HIDE DEF F
  <2>1. F[S] = ApplyChange(S, convertChange(c), PrimaryKey)
    BY <1>2, Zenon
  <2> QED
    BY <1>1, <2>1, Effect
<1>4. F \in [SdkRows -> SdkRows]
  BY <1>2, <1>3, Zenon DEF ChangeMap
<1> HIDE DEF F
<1>5. ASSUME NEW k \in Keys PROVE Nothing(F, k) \/ Rewrites(F, k) \/ Leaves(F, k)
  <2>1. CASE k # key
    BY <1>3, <2>1, Zenon DEF Nothing
  <2>2. CASE k = key
    <3>1. CASE operation = "delete"
      BY <1>3, <2>2, <3>1, Zenon DEF Leaves, Left
    <3>2. CASE operation # "delete" /\ b.type = "u"
      BY <1>3, <2>2, <3>2, Zenon DEF Rewrites, Left
    <3>3. CASE operation # "delete" /\ b.type # "u"
      BY <1>3, <2>2, <3>3, Zenon DEF Leaves, Left
    <3> QED
      BY <3>1, <3>2, <3>3, Zenon
  <2> QED
    BY <2>1, <2>2, Zenon
<1> QED
  BY <1>4, <1>5, Zenon DEF Tame, F

\* A nonempty sequence is its front and its last element.
LEMMA LastOff ==
    ASSUME NEW S, NEW s \in Seq(S), NEW n \in Nat, Len(s) = n + 1
    PROVE  \E front \in Seq(S), c \in S : Len(front) = n /\ s = Append(front, c)
<1> DEFINE front == [i \in 1..n |-> s[i]]
<1>1. front \in Seq(S) /\ s[n + 1] \in S
  OBVIOUS
<1>2. Len(front) = n
  <2>1. DOMAIN front = 1..n
    OBVIOUS
  <2> HIDE DEF front
  <2> QED
    BY <1>1, <2>1
<1>3. \A i \in 1..n : front[i] = s[i]
  OBVIOUS
<1> HIDE DEF front
<1>4. s = Append(front, s[n + 1])
  <2> DEFINE t == Append(front, s[n + 1])
  <2>1. t \in Seq(S) /\ Len(t) = n + 1 /\ \A i \in 1..n + 1 : s[i] = t[i]
    BY <1>1, <1>2, <1>3
  <2> HIDE DEF t
  <2>2. s = t
    BY <2>1, SameSeq, Zenon
  <2> QED
    BY <2>2, Zenon DEF t
<1> QED
  BY <1>1, <1>2, <1>4, Zenon

\* A batch is tame.
LEMMA TameBatch ==
    ASSUME identity \in {"default", "full", "index"}, ScopeInKey, NEW batch \in Seq(MadeChange)
    PROVE  Tame(BatchMap(batch))
<1> DEFINE Good == {n \in Nat : \A s \in Seq(MadeChange) : Len(s) = n => Tame(BatchMap(s))}
           m == Len(batch)
<1>1. m \in Nat /\ m \in 0..m /\ \A i \in 1..m : i \in Nat /\ i - 1 \in Nat /\ i = (i - 1) + 1
  OBVIOUS
<1>2. 0 \in Good
  <2> SUFFICES ASSUME NEW s \in Seq(MadeChange), Len(s) = 0 PROVE Tame(BatchMap(s))
    OBVIOUS
  <2>1. s = << >>
    OBVIOUS
  <2>2. \A S \in SdkRows : BatchMap(s)[S] = S
    BY <2>1, AppliedIs, Zenon DEF BatchMap
  <2>3. BatchMap(s) \in [SdkRows -> SdkRows]
    BY <2>2, Zenon DEF BatchMap
  <2> QED
    BY <2>2, <2>3, Zenon DEF Tame, Nothing
<1>3. ASSUME NEW i \in 1..m, i - 1 \in Good PROVE i \in Good
  <2> SUFFICES ASSUME NEW s \in Seq(MadeChange), Len(s) = i PROVE Tame(BatchMap(s))
    BY <1>1
  <2>1. PICK front \in Seq(MadeChange), c \in MadeChange : Len(front) = i - 1 /\ s = Append(front, c)
    <3> DEFINE n == i - 1
    <3>1. n \in Nat /\ Len(s) = n + 1
      BY <1>1
    <3> HIDE DEF n
    <3>2. \E front \in Seq(MadeChange), c \in MadeChange : Len(front) = n /\ s = Append(front, c)
      BY <3>1, LastOff
    <3> QED
      BY <3>2 DEF n
  <2>2. Tame(BatchMap(front)) /\ Tame(ChangeMap(c))
    BY <1>3, <2>1, TameChange, Zenon
  <2>3. BatchMap(s) = [S \in SdkRows |-> ChangeMap(c)[BatchMap(front)[S]]]
    <3>1. ASSUME NEW S \in SdkRows PROVE Applied(S, s) = ChangeMap(c)[BatchMap(front)[S]]
      <4>1. Applied(S, s) = ApplyChange(Applied(S, front), convertChange(c), PrimaryKey)
        BY <2>1, AppliedIs, Zenon
      <4>2. BatchMap(front)[S] = Applied(S, front) /\ Applied(S, front) \in SdkRows
        BY AppliedIs, Zenon DEF BatchMap
      <4> QED
        BY <4>1, <4>2, Zenon DEF ChangeMap
    <3> QED
      BY <3>1, Zenon DEF BatchMap
  <2> QED
    BY <2>2, <2>3, TameCompose, Zenon
<1> HIDE DEF Good
<1>4. 0..m \subseteq Good
  <2> HIDE DEF m
  <2> QED
    BY <1>1, <1>2, <1>3, Turns, Zenon
<1>5. m \in Good
  BY <1>1, <1>4, Zenon
<1> QED
  BY <1>5, Zenon DEF Good

\* Rows that the rest F of the log takes where it takes those after a batch B
\* are taken there also if B is applied to them again.
LEMMA Again ==
    ASSUME NEW F, Tame(F), NEW B, Tame(B), NEW S \in SdkRows, NEW X \in SdkRows, F[S] = F[B[X]]
    PROVE  F[B[S]] = F[S]
<1>1. F \in [SdkRows -> SdkRows] /\ B \in [SdkRows -> SdkRows]
  BY Zenon DEF Tame
<1>2. B[S] \in SdkRows /\ B[X] \in SdkRows /\ F[B[S]] \in SdkRows /\ F[S] \in SdkRows /\ F[B[X]] \in SdkRows
  BY <1>1, Zenon
<1>3. ASSUME NEW key \in Keys PROVE Cell(F[B[S]], key) = Cell(F[S], key)
  <2>1. CASE Leaves(F, key)
    BY <1>2, <2>1, Zenon DEF Leaves
  <2>2. CASE Nothing(B, key)
    <3>1. Cell(B[S], key) = Cell(S, key)
      BY <2>2, Zenon DEF Nothing
    <3>2. Current(B[S], key) = Current(S, key)
      BY <3>1, CellCurrent, Zenon
    <3>3. CASE Nothing(F, key)
      BY <1>2, <3>1, <3>3, Zenon DEF Nothing
    <3>4. CASE Rewrites(F, key)
      BY <1>2, <3>2, <3>4, Zenon DEF Rewrites
    <3> QED
      BY <2>1, <3>3, <3>4, Zenon DEF Tame
  <2>3. CASE Leaves(B, key)
    <3>1. Cell(B[S], key) = Cell(B[X], key)
      BY <2>3, Zenon DEF Leaves
    <3>2. Current(B[S], key) = Current(B[X], key)
      BY <3>1, CellCurrent, Zenon
    <3>3. CASE Nothing(F, key)
      <4>1. Cell(F[B[S]], key) = Cell(B[S], key) /\ Cell(F[B[X]], key) = Cell(B[X], key)
        BY <1>2, <3>3, Zenon DEF Nothing
      <4> QED
        BY <3>1, <4>1
    <3>4. CASE Rewrites(F, key)
      <4>1. /\ Cell(F[B[S]], key) = {Rekeyed(Current(B[S], key), key)}
            /\ Cell(F[B[X]], key) = {Rekeyed(Current(B[X], key), key)}
        BY <1>2, <3>4, Zenon DEF Rewrites
      <4> QED
        BY <3>2, <4>1
    <3> QED
      BY <2>1, <3>3, <3>4, Zenon DEF Tame
  <2>4. CASE Rewrites(B, key)
    <3>1. Cell(B[S], key) = {Rekeyed(Current(S, key), key)} /\ Cell(B[X], key) = {Rekeyed(Current(X, key), key)}
      BY <2>4, Zenon DEF Rewrites
    <3>2. Current(B[S], key) = Rekeyed(Current(S, key), key)
      BY <3>1, CellCurrent, Zenon
    <3>3. CASE Nothing(F, key)
      <4>1. Cell(F[B[S]], key) = Cell(B[S], key) /\ Cell(F[B[X]], key) = Cell(B[X], key) /\ Cell(F[S], key) = Cell(S, key)
        BY <1>2, <3>3, Zenon DEF Nothing
      <4>2. Cell(S, key) = {Rekeyed(Current(X, key), key)}
        BY <3>1, <4>1
      <4>3. Current(S, key) = Rekeyed(Current(X, key), key)
        BY <4>2, CellCurrent, Zenon
      <4> QED
        BY <3>1, <4>1, <4>2, <4>3, RekeyedTwice
    <3>4. CASE Rewrites(F, key)
      <4>1. /\ Cell(F[B[S]], key) = {Rekeyed(Current(B[S], key), key)}
            /\ Cell(F[S], key) = {Rekeyed(Current(S, key), key)}
        BY <1>2, <3>4, Zenon DEF Rewrites
      <4> QED
        BY <3>2, <4>1, RekeyedTwice
    <3> QED
      BY <2>1, <3>3, <3>4, Zenon DEF Tame
  <2> QED
    BY <2>2, <2>3, <2>4, Zenon DEF Tame
<1> QED
  BY <1>2, <1>3, SameCells, Zenon

-----------------------------------------------------------------------------
(* The client's rows and the table's.                                         *)

\* The client's rows for a table.
LEMMA MirrorIs ==
    ASSUME NEW rows \in Table
    PROVE  /\ Mirror(rows) \in SdkRows
           /\ \A key \in Keys :
                Cell(Mirror(rows), key) =
                  IF key \in DOMAIN rows /\ key[1] = Watched THEN {MirrorRow(key, rows[key])} ELSE {}
<1> DEFINE D == {k \in DOMAIN rows : k[1] = Watched}
           M == Mirror(rows)
<1>1. DOMAIN rows \subseteq Keys /\ \A k \in DOMAIN rows : rows[k] \in Nat \cup {NoBody}
  BY TableIs, Zenon
<1>2. DOMAIN M = D /\ \A k \in D : M[k] = MirrorRow(k, rows[k])
  BY Zenon DEF Mirror
<1>3. \A k \in D : MirrorRow(k, rows[k]) \in SdkRow
  BY <1>1, SdkRowIs, Zenon
<1>4. M \in [D -> SdkRow] /\ D \in SUBSET Keys
  BY <1>1, <1>3, Zenon DEF Mirror
<1>5. M \in SdkRows
  BY <1>4, Zenon DEF SdkRows
<1> HIDE DEF M
<1>6. \A key \in Keys : Cell(M, key) = IF key \in DOMAIN rows /\ key[1] = Watched THEN {MirrorRow(key, rows[key])} ELSE {}
  BY <1>2 DEF Cell
<1> QED
  BY <1>5, <1>6, Zenon DEF M

\* A row that is rewritten with the body it has stays as it is.
LEMMA MirrorRekeyed ==
    ASSUME NEW key, NEW body
    PROVE  Rekeyed(MirrorRow(key, body), key) = MirrorRow(key, body)
<1> DEFINE row == MirrorRow(key, body)
           y == Value(key[1], FALSE, FALSE)
           z == Value(key[2], FALSE, FALSE)
           x == IF body = NoBody THEN Value(0, TRUE, FALSE) ELSE Value(body, FALSE, FALSE)
<1>1. row = [body |-> x, scope |-> y, id |-> z]
  BY Zenon DEF MirrorRow
<1> HIDE DEF row, x, y, z
<1>2. row["body"] = x /\ DOMAIN row = {"body", "scope", "id"}
  BY <1>1
<1>3. {"scope", "id"} \cup ({"body"} \cap DOMAIN row) = {"body", "scope", "id"}
  BY <1>2
<1>4. Rekeyed(row, key) = [column \in {"body", "scope", "id"} |-> IF column = "body" THEN x ELSE IF column = "scope" THEN y ELSE z]
  BY <1>2, <1>3, Zenon DEF Rekeyed, y, z
<1>5. Rekeyed(row, key) = row
  BY <1>1, <1>4, RowIsFunction
<1> QED
  BY <1>5, Zenon DEF row

\* What a change leaves is what the table then holds.
LEMMA LeftIs ==
    ASSUME NEW key, NEW body \in Nat \cup {NoBody}, NEW old \in Nat \cup {NoBody}, NEW row
    PROVE  /\ Left("insert", key, Body(body), row) = {MirrorRow(key, body)}
           /\ row = MirrorRow(key, old) => Left("update", key, NewBody(old, body), row) = {MirrorRow(key, body)}
           /\ Left("delete", key, Body(old), row) = {}
<1>1. Body(body).type # "u" /\ BodyOf(Body(body)) = body
  BY DEF Body, BodyOf, Null, Text, NoBody
<1>2. Left("insert", key, Body(body), row) = {MirrorRow(key, body)}
  BY <1>1 DEF Left
<1>3. ASSUME row = MirrorRow(key, old) PROVE Left("update", key, NewBody(old, body), row) = {MirrorRow(key, body)}
  <2>1. CASE old = body /\ body > ToastBytes
    <3>1. NewBody(old, body).type = "u"
      BY <2>1 DEF NewBody, Untouched, Toast
    <3>2. Left("update", key, NewBody(old, body), row) = {Rekeyed(row, key)}
      BY <3>1 DEF Left
    <3>3. Rekeyed(row, key) = MirrorRow(key, body)
      BY <1>3, <2>1, MirrorRekeyed
    <3> QED
      BY <3>2, <3>3
  <2>2. CASE ~(old = body /\ body > ToastBytes)
    <3>1. NewBody(old, body) = Body(body)
      BY <2>2, Zenon DEF NewBody, Untouched
    <3> QED
      BY <1>1, <3>1 DEF Left
  <2> QED
    BY <2>1, <2>2
<1>4. Left("delete", key, Body(old), row) = {}
  BY DEF Left
<1> QED
  BY <1>2, <1>3, <1>4

\* A change of the key is routed by the scope in the key.
LEMMA RoutedByScope ==
    ASSUME identity \in {"default", "full", "index"}, ScopeInKey,
           NEW c, NEW operation, NEW key, NEW b, Made(c, operation, key, b)
    PROVE  RoutedTo(c) = key[1]
<1>1. KeyTexts(c.key, key)
  BY Zenon DEF Made
<1>2. DOMAIN c.key = KeyNames /\ c.key["scope"] = key[1]
  BY <1>1, Zenon DEF KeyTexts
<1>3. "scope" \in KeyNames
  BY KeyPlaces DEF ScopeInKey
<1> QED
  BY <1>2, <1>3, Zenon DEF RoutedTo

\* The pending changes of the scope take the client's rows for the last commit
\* to its rows for the table as the transaction sees it.
PendingMirrors ==
    Applied(Mirror(images[Len(images)]), Routed(pending.changes)) = Mirror(work)

\* It stays so when a change is appended that leaves at its key what the table
\* then holds there, and nothing else changes.
LEMMA AddedMirrors ==
    ASSUME RowTypes, ScopeInKey, PendingMirrors,
           NEW operation \in {"insert", "update", "delete"}, NEW key \in Keys, NEW b \in Column, NEW rows \in Table,
           Added(operation, key, b, rows),
           \A k \in Keys : k # key => Cell(Mirror(rows), k) = Cell(Mirror(work), k),
           key[1] = Watched => Cell(Mirror(rows), key) = Left(operation, key, b, Current(Mirror(work), key))
    PROVE  PendingMirrors'
<1> DEFINE base == Mirror(images[Len(images)])
           old == pending.changes
<1>1. PICK c \in RowChange : /\ Made(c, operation, key, b)
                             /\ pending' = [changes |-> Append(old, c), bytes |-> pending'.bytes]
  BY Zenon DEF Added
<1>2. images' = images /\ work' = rows
  BY Zenon DEF Added
<1>3. pending'.changes = Append(old, c)
  BY <1>1
<1>4. /\ images \in Seq(Table) /\ Len(images) = Len(log) + 1 /\ log \in Seq(Seq(MadeChange)) /\ work \in Table
      /\ old \in Seq(MadeChange) /\ identity \in {"default", "full", "index"}
  BY Zenon DEF RowTypes
<1>5. images[Len(images)] \in Table
  BY <1>4
<1>6. base \in SdkRows /\ Mirror(work) \in SdkRows /\ Mirror(rows) \in SdkRows
  BY <1>4, <1>5, MirrorIs, Zenon
<1>7. c \in MadeChange
  BY <1>1, Zenon DEF MadeChange
<1>8. RoutedTo(c) = key[1]
  BY <1>1, <1>4, RoutedByScope, Zenon
<1>9. Routed(Append(old, c)) = IF RoutedTo(c) = Watched THEN Append(Routed(old), c) ELSE Routed(old)
  BY <1>4, <1>7, RoutedIs, Zenon
<1>10. Routed(old) \in Seq(MadeChange)
  BY <1>4, RoutedIs, Zenon
<1>11. Applied(base, Routed(old)) = Mirror(work)
  BY Zenon DEF PendingMirrors
<1>12. Applied(base, Routed(Append(old, c))) = Mirror(rows)
  <2>1. CASE key[1] = Watched
    <3> DEFINE T == ApplyChange(Mirror(work), convertChange(c), PrimaryKey)
    <3>1. Applied(base, Routed(Append(old, c))) = T
      <4>1. Routed(Append(old, c)) = Append(Routed(old), c)
        BY <1>8, <1>9, <2>1, Zenon
      <4>2. Applied(base, Append(Routed(old), c)) = ApplyChange(Applied(base, Routed(old)), convertChange(c), PrimaryKey)
        <5> HIDE DEF base, old
        <5> QED
          BY <1>4, <1>6, <1>7, <1>10, AppliedIs, Zenon
      <4> QED
        BY <1>11, <4>1, <4>2, Zenon
    <3>2. /\ T \in SdkRows /\ Cell(T, key) = Left(operation, key, b, Current(Mirror(work), key))
          /\ \A k : k # key => Cell(T, k) = Cell(Mirror(work), k)
      BY <1>1, <1>4, <1>6, Effect
    <3> HIDE DEF T
    <3>3. \A k \in Keys : Cell(T, k) = Cell(Mirror(rows), k)
      BY <2>1, <3>2, Zenon
    <3>4. T = Mirror(rows)
      BY <1>6, <3>2, <3>3, SameCells, Zenon
    <3> QED
      BY <3>1, <3>4, Zenon
  <2>2. CASE key[1] # Watched
    <3>1. Cell(Mirror(rows), key) = {} /\ Cell(Mirror(work), key) = {}
      BY <1>4, <2>2, MirrorIs, Zenon
    <3>2. \A k \in Keys : Cell(Mirror(work), k) = Cell(Mirror(rows), k)
      BY <3>1, Zenon
    <3>3. Mirror(work) = Mirror(rows)
      BY <1>6, <3>2, SameCells, Zenon
    <3> QED
      BY <1>8, <1>9, <1>11, <2>2, <3>3, Zenon
  <2> QED
    BY <2>1, <2>2, Zenon
<1> QED
  BY <1>2, <1>3, <1>12, Zenon DEF PendingMirrors

\* A change of the table keeps it so.
LEMMA ChangeMirrors ==
    ASSUME RowTypes, ScopeInKey, PendingMirrors, ChangeStep
    PROVE  PendingMirrors'
<1>0. work \in Table /\ Mirror(work) \in SdkRows
  BY MirrorIs, Zenon DEF RowTypes
<1>1. CASE Refusal
  BY <1>1, Zenon DEF Refusal, PendingMirrors
<1>2. ASSUME NEW key \in Keys, NEW body \in Nat \cup {NoBody}, Added("insert", key, Body(body), WithRow(work, key, body))
      PROVE  PendingMirrors'
  <2> DEFINE rows == WithRow(work, key, body)
  <2>1. rows \in Table /\ Body(body) \in Column
    BY <1>0, NewTable, BodyIs, Zenon
  <2>2. /\ DOMAIN rows = DOMAIN work \cup {key} /\ rows[key] = body
        /\ \A k \in DOMAIN work : k # key => rows[k] = work[k]
    BY DEF WithRow
  <2> HIDE DEF rows
  <2>3. \A k \in Keys : k # key => Cell(Mirror(rows), k) = Cell(Mirror(work), k)
    BY <1>0, <2>1, <2>2, MirrorIs
  <2>4. key[1] = Watched => Cell(Mirror(rows), key) = {MirrorRow(key, body)}
    BY <2>1, <2>2, MirrorIs
  <2>5. key[1] = Watched => Cell(Mirror(rows), key) = Left("insert", key, Body(body), Current(Mirror(work), key))
    <3>1. NoBody \in Nat \cup {NoBody}
      OBVIOUS
    <3>2. \A row : Left("insert", key, Body(body), row) = {MirrorRow(key, body)}
      BY <3>1, LeftIs
    <3> QED
      BY <2>4, <3>2, Zenon
  <2>6. "insert" \in {"insert", "update", "delete"}
    OBVIOUS
  <2>7. Added("insert", key, Body(body), rows)
    BY <1>2, Zenon DEF rows
  <2> QED
    BY <2>1, <2>3, <2>5, <2>6, <2>7, AddedMirrors, Zenon
<1>3. ASSUME NEW key \in Keys, key \in DOMAIN work, NEW body \in Nat \cup {NoBody},
             Added("update", key, NewBody(work[key], body), WithRow(work, key, body))
      PROVE  PendingMirrors'
  <2> DEFINE rows == WithRow(work, key, body)
             old == work[key]
  <2>0. old \in Nat \cup {NoBody}
    BY <1>0, <1>3, TableIs, Zenon
  <2>1. rows \in Table /\ NewBody(old, body) \in Column
    BY <1>0, <2>0, NewTable, NewBodyIs, Zenon
  <2>2. /\ DOMAIN rows = DOMAIN work \cup {key} /\ rows[key] = body
        /\ \A k \in DOMAIN work : k # key => rows[k] = work[k]
    BY DEF WithRow
  <2> HIDE DEF rows
  <2>3. \A k \in Keys : k # key => Cell(Mirror(rows), k) = Cell(Mirror(work), k)
    BY <1>0, <2>1, <2>2, MirrorIs
  <2>4. key[1] = Watched => Cell(Mirror(rows), key) = {MirrorRow(key, body)} /\ Cell(Mirror(work), key) = {MirrorRow(key, old)}
    BY <1>0, <1>3, <2>1, <2>2, MirrorIs
  <2>5. key[1] = Watched => Cell(Mirror(rows), key) = Left("update", key, NewBody(old, body), Current(Mirror(work), key))
    <3> SUFFICES ASSUME key[1] = Watched
                 PROVE  Cell(Mirror(rows), key) = Left("update", key, NewBody(old, body), Current(Mirror(work), key))
      OBVIOUS
    <3>1. Current(Mirror(work), key) = MirrorRow(key, old)
      BY <2>4, CellCurrent, Zenon
    <3> QED
      <4>1. \A row : row = MirrorRow(key, old) => Left("update", key, NewBody(old, body), row) = {MirrorRow(key, body)}
        <5> HIDE DEF old
        <5> QED
          BY <2>0, LeftIs
      <4>2. Left("update", key, NewBody(old, body), Current(Mirror(work), key)) = {MirrorRow(key, body)}
        BY <3>1, <4>1
      <4> QED
        BY <2>4, <4>2
  <2>6. "update" \in {"insert", "update", "delete"}
    OBVIOUS
  <2>7. Added("update", key, NewBody(old, body), rows)
    BY <1>3, Zenon DEF rows
  <2> QED
    BY <2>1, <2>3, <2>5, <2>6, <2>7, AddedMirrors, Zenon
<1>4. ASSUME NEW key \in Keys, key \in DOMAIN work,
             Added("delete", key, Body(work[key]), [other \in DOMAIN work \ {key} |-> work[other]])
      PROVE  PendingMirrors'
  <2> DEFINE rows == [other \in DOMAIN work \ {key} |-> work[other]]
             old == work[key]
  <2>0. old \in Nat \cup {NoBody}
    BY <1>0, <1>4, TableIs, Zenon
  <2>1. rows \in Table /\ Body(old) \in Column
    BY <1>0, <2>0, NewTable, BodyIs, Zenon
  <2>2. /\ DOMAIN rows = DOMAIN work \ {key}
        /\ \A k \in DOMAIN work : k # key => rows[k] = work[k]
    OBVIOUS
  <2> HIDE DEF rows
  <2>3. \A k \in Keys : k # key => Cell(Mirror(rows), k) = Cell(Mirror(work), k)
    BY <1>0, <2>1, <2>2, MirrorIs
  <2>4. Cell(Mirror(rows), key) = {}
    BY <2>1, <2>2, MirrorIs
  <2>5. key[1] = Watched => Cell(Mirror(rows), key) = Left("delete", key, Body(old), Current(Mirror(work), key))
    BY <2>0, <2>4, LeftIs
  <2>6. "delete" \in {"insert", "update", "delete"}
    OBVIOUS
  <2>7. Added("delete", key, Body(old), rows)
    BY <1>4, Zenon DEF rows
  <2> QED
    BY <2>1, <2>3, <2>5, <2>6, <2>7, AddedMirrors, Zenon
<1> QED
  BY <1>1, <1>2, <1>3, <1>4, Zenon DEF ChangeStep

\* Every committed batch takes the client's rows for the table before it to its
\* rows for the table after it.
HistoryMirrors == \A b \in 1..Len(log) : Applied(Mirror(images[b]), log[b]) = Mirror(images[b + 1])

\* R[i] is what the last i of the first f batches of a log do.
RowMap == [SdkRows -> SdkRows]
RestTurns(f, batches) ==
    [i \in 1..f |-> [F \in RowMap |-> [S \in SdkRows |-> F[BatchMap(batches[f - i + 1])[S]]]]]
IsRest(R, f, batches) == Loop(R, f, RowMap, [S \in SdkRows |-> S], RestTurns(f, batches))

\* There is such a function.
LEMMA RestExists ==
    ASSUME identity \in {"default", "full", "index"}, ScopeInKey,
           NEW batches \in Seq(Seq(MadeChange)), NEW f \in 0..Len(batches)
    PROVE  \E R : IsRest(R, f, batches)
<1> DEFINE step == RestTurns(f, batches)
           base == [S \in SdkRows |-> S]
<1>1. f \in Nat
  OBVIOUS
<1>2. base \in RowMap
  BY Zenon DEF RowMap
<1>3. \A i \in 1..f : batches[f - i + 1] \in Seq(MadeChange)
  OBVIOUS
<1>4. step \in [1..f -> [RowMap -> RowMap]]
  <2>1. ASSUME NEW i \in 1..f, NEW F \in RowMap
        PROVE  [S \in SdkRows |-> F[BatchMap(batches[f - i + 1])[S]]] \in RowMap
    <3>1. BatchMap(batches[f - i + 1]) \in [SdkRows -> SdkRows]
      BY <1>3, TameBatch, Zenon DEF Tame
    <3> QED
      BY <3>1, Zenon DEF RowMap
  <2> QED
    BY <2>1, Zenon DEF RestTurns
<1> HIDE DEF step, base
<1>5. \E R : Loop(R, f, RowMap, base, step)
  BY <1>1, <1>2, <1>4, LoopEnds, Zenon
<1> QED
  BY <1>5, Zenon DEF IsRest, step, base

\* The rest goes turn by turn, and each is tame.
RestGoes(R, f, batches) ==
    /\ \A S \in SdkRows : R[0][S] = S
    /\ \A i \in 1..f, S \in SdkRows : R[i][S] = R[i - 1][Applied(S, batches[f - i + 1])]
    /\ \A i \in 0..f : Tame(R[i])

\* The rest of a log does.
LEMMA RestIs ==
    ASSUME identity \in {"default", "full", "index"}, ScopeInKey,
           NEW batches \in Seq(Seq(MadeChange)), NEW f \in 0..Len(batches), NEW R, IsRest(R, f, batches)
    PROVE  RestGoes(R, f, batches)
<1>1. f \in Nat /\ \A i \in 1..f : i \in 0..f /\ i - 1 \in 0..f
  OBVIOUS
<1>2. \A i \in 1..f : batches[f - i + 1] \in Seq(MadeChange)
  OBVIOUS
<1>3. /\ R \in [0..f -> RowMap] /\ R[0] = [S \in SdkRows |-> S]
      /\ \A i \in 1..f : R[i] = RestTurns(f, batches)[i][R[i - 1]]
  BY Zenon DEF IsRest, Loop
<1>4. \A i \in 1..f : R[i - 1] \in RowMap
  BY <1>1, <1>3, Zenon
<1>5. \A i \in 1..f : R[i] = [S \in SdkRows |-> R[i - 1][BatchMap(batches[f - i + 1])[S]]]
  BY <1>3, <1>4, Zenon DEF RestTurns
<1>6. \A S \in SdkRows : R[0][S] = S
  BY <1>3, Zenon
<1>7. \A i \in 1..f, S \in SdkRows : R[i][S] = R[i - 1][Applied(S, batches[f - i + 1])]
  <2> SUFFICES ASSUME NEW i \in 1..f, NEW S \in SdkRows
               PROVE  R[i][S] = R[i - 1][Applied(S, batches[f - i + 1])]
    BY Zenon
  <2>1. R[i][S] = R[i - 1][BatchMap(batches[f - i + 1])[S]]
    <3>1. R[i] = [X \in SdkRows |-> R[i - 1][BatchMap(batches[f - i + 1])[X]]]
      BY <1>5, Zenon
    <3> QED
      BY <3>1
  <2>2. BatchMap(batches[f - i + 1])[S] = Applied(S, batches[f - i + 1])
    BY Zenon DEF BatchMap
  <2> QED
    BY <2>1, <2>2, Zenon
<1> DEFINE Good == {i \in Nat : Tame(R[i])}
<1>8. 0 \in Good
  <2>1. 0 \in Nat /\ 0 \in 0..f
    BY <1>1
  <2>2. R[0] \in [SdkRows -> SdkRows]
    BY <1>3, <2>1, Zenon DEF RowMap
  <2>3. Tame(R[0])
    BY <1>6, <2>2, Zenon DEF Tame, Nothing
  <2> QED
    BY <2>1, <2>3, Zenon
<1>9. ASSUME NEW i \in 1..f, i - 1 \in Good PROVE i \in Good
  <2>1. Tame(R[i - 1]) /\ Tame(BatchMap(batches[f - i + 1]))
    BY <1>2, <1>9, TameBatch, Zenon
  <2>2. Tame(R[i])
    <3> DEFINE F == BatchMap(batches[f - i + 1])
               G == R[i - 1]
               H == R[i]
    <3>1. H = [S \in SdkRows |-> G[F[S]]]
      BY <1>5, Zenon
    <3> HIDE DEF F, G, H
    <3>2. Tame(H)
      BY <2>1, <3>1, TameCompose, Zenon DEF F, G
    <3> QED
      BY <3>2, Zenon DEF H
  <2>3. i \in Nat
    OBVIOUS
  <2> QED
    BY <2>2, <2>3, Zenon
<1> HIDE DEF Good
<1>10. 0..f \subseteq Good
  BY <1>1, <1>8, <1>9, Turns, Zenon
<1>11. \A i \in 0..f : Tame(R[i])
  BY <1>10, Zenon DEF Good
<1> QED
  BY <1>6, <1>7, <1>11, Zenon DEF RestGoes

\* A longer log has the same rest.
LEMMA RestKept ==
    ASSUME NEW Z, NEW batches \in Seq(Z), NEW batch \in Z, NEW f \in 0..Len(batches), NEW R, IsRest(R, f, batches)
    PROVE  IsRest(R, f, Append(batches, batch))
<1> DEFINE more == Append(batches, batch)
<1>1. \A i \in 1..f : more[f - i + 1] = batches[f - i + 1]
  OBVIOUS
<1> HIDE DEF more
<1>2. RestTurns(f, more) = RestTurns(f, batches)
  BY <1>1, Zenon DEF RestTurns
<1> QED
  BY <1>2, Zenon DEF IsRest, more

\* The rest of the log takes the client's rows for an earlier table to its rows
\* for the table after the first f batches.
LEMMA RestOfHistory ==
    ASSUME RowTypes, ScopeInKey, HistoryMirrors, NEW f \in 0..Len(log), NEW R, IsRest(R, f, log)
    PROVE  \A i \in 0..f : Mirror(images[f - i + 1]) \in SdkRows /\ R[i][Mirror(images[f - i + 1])] = Mirror(images[f + 1])
<1>1. /\ images \in Seq(Table) /\ Len(images) = Len(log) + 1 /\ log \in Seq(Seq(MadeChange))
      /\ identity \in {"default", "full", "index"}
  BY Zenon DEF RowTypes
<1>2. f \in Nat /\ \A i \in 0..f : images[f - i + 1] \in Table
  BY <1>1
<1>3. \A i \in 0..f : Mirror(images[f - i + 1]) \in SdkRows
  BY <1>2, MirrorIs, Zenon
<1>4. /\ \A S \in SdkRows : R[0][S] = S
      /\ \A i \in 1..f, S \in SdkRows : R[i][S] = R[i - 1][Applied(S, log[f - i + 1])]
  <2>1. RestGoes(R, f, log)
    BY <1>1, RestIs, Zenon
  <2> QED
    BY <2>1, Zenon DEF RestGoes
<1> DEFINE Good == {i \in Nat : i <= f => R[i][Mirror(images[f - i + 1])] = Mirror(images[f + 1])}
<1>5. 0 \in Good
  <2>1. 0 \in Nat /\ 0 \in 0..f /\ f - 0 + 1 = f + 1
    BY <1>2
  <2>2. R[0][Mirror(images[f - 0 + 1])] = Mirror(images[f - 0 + 1])
    BY <1>3, <1>4, <2>1, Zenon
  <2> QED
    BY <2>1, <2>2
<1>6. ASSUME NEW i \in 1..f, i - 1 \in Good PROVE i \in Good
  <2> DEFINE b == f - i + 1
  <2>1. b \in 1..Len(log) /\ f - (i - 1) + 1 = b + 1 /\ i - 1 <= f /\ i \in Nat /\ i \in 0..f
    BY <1>1, <1>2
  <2>2. Applied(Mirror(images[b]), log[b]) = Mirror(images[b + 1])
    BY <2>1, Zenon DEF HistoryMirrors
  <2>3. R[i][Mirror(images[b])] = R[i - 1][Applied(Mirror(images[b]), log[b])]
    BY <1>3, <1>4, <2>1, Zenon
  <2>4. R[i - 1][Mirror(images[f - (i - 1) + 1])] = Mirror(images[f + 1])
    BY <1>6, <2>1, Zenon
  <2>5. R[i][Mirror(images[b])] = Mirror(images[f + 1])
    <3> HIDE DEF b
    <3> QED
      BY <2>1, <2>2, <2>3, <2>4
  <2> QED
    BY <2>1, <2>5, Zenon
<1> HIDE DEF Good
<1>7. 0..f \subseteq Good
  BY <1>2, <1>5, <1>6, Turns, Zenon
<1>8. \A i \in 0..f : i <= f
  BY <1>2
<1> QED
  BY <1>3, <1>7, <1>8, Zenon DEF Good

\* Rows that the rest takes to the latest table are taken there by a longer rest
\* too: batches may be applied again.
LEMMA Redelivered ==
    ASSUME RowTypes, ScopeInKey, HistoryMirrors, NEW f \in 0..Len(log), NEW R, IsRest(R, f, log),
           NEW S \in SdkRows, NEW i \in 1..f, R[i - 1][S] = Mirror(images[f + 1])
    PROVE  R[i][S] = Mirror(images[f + 1])
<1> DEFINE b == f - i + 1
           F == R[i - 1]
           B == BatchMap(log[b])
           X == Mirror(images[b])
<1>1. /\ images \in Seq(Table) /\ Len(images) = Len(log) + 1 /\ log \in Seq(Seq(MadeChange))
      /\ identity \in {"default", "full", "index"}
  BY Zenon DEF RowTypes
<1>2. b \in 1..Len(log) /\ f - (i - 1) + 1 = b + 1 /\ i \in 0..f /\ i - 1 \in 0..f
  BY <1>1
<1>3. log[b] \in Seq(MadeChange)
  BY <1>1, <1>2
<1>0. RestGoes(R, f, log)
  BY <1>1, RestIs, Zenon
<1>4. Tame(F) /\ Tame(B)
  BY <1>0, <1>1, <1>2, <1>3, TameBatch, Zenon DEF RestGoes
<1>5. X \in SdkRows
  BY <1>2, RestOfHistory, Zenon
<1>6. B[X] = Mirror(images[b + 1]) /\ B[S] = Applied(S, log[b])
  BY <1>2, <1>5, Zenon DEF BatchMap, HistoryMirrors
<1>7. F[Mirror(images[f - (i - 1) + 1])] = Mirror(images[f + 1])
  BY <1>2, RestOfHistory, Zenon
<1>8. F[Mirror(images[b + 1])] = Mirror(images[f + 1])
  <2> HIDE DEF b, F
  <2> QED
    BY <1>2, <1>7
<1>9. R[i][S] = F[Applied(S, log[b])]
  BY <1>0, Zenon DEF RestGoes
<1>10. F[S] = Mirror(images[f + 1])
  OBVIOUS
<1> HIDE DEF b, F, B, X
<1>11. F[B[S]] = F[S]
  BY <1>4, <1>5, <1>6, <1>8, <1>10, Again
<1> QED
  BY <1>6, <1>9, <1>10, <1>11

\* The client's rows: what is left of the log up to its latest position takes
\* them to the rows of the table there.
Settles ==
    \E R : IsRest(R, furthest, log) /\ R[furthest - at][store] = Mirror(images[furthest + 1])
Positioned ==
    /\ store \in SdkRows
    /\ at \in Nat /\ furthest \in Nat /\ since \in Nat
    /\ at <= furthest /\ furthest <= Len(log)
MirrorInv == HistoryMirrors /\ PendingMirrors /\ Positioned /\ Settles

\* The client's rows after a snapshot are the table's.
SnapshotsMirror == \A rows \in Table : SnapshotOf(rows) = Mirror(rows)

\* At its latest position the client has the rows of the table.
LEMMA SettledIs ==
    ASSUME RowTypes, ScopeInKey, MirrorInv, at = furthest
    PROVE  store = Mirror(images[at + 1])
<1>1. PICK R : IsRest(R, furthest, log) /\ R[furthest - at][store] = Mirror(images[furthest + 1])
  BY Zenon DEF MirrorInv, Settles
<1>2. furthest \in 0..Len(log) /\ furthest - at = 0 /\ store \in SdkRows
  BY DEF MirrorInv, Positioned, RowTypes
<1>3. R[0][store] = store
  <2>1. RestGoes(R, furthest, log)
    BY <1>1, <1>2, RestIs, Zenon DEF RowTypes
  <2> QED
    BY <1>2, <2>1, Zenon DEF RestGoes
<1> QED
  BY <1>1, <1>2, <1>3

\* A commit.
LEMMA CommitMirrors ==
    ASSUME RowTypes, ScopeInKey, MirrorInv, CommitTx
    PROVE  MirrorInv'
<1> DEFINE batch == Routed(pending.changes)
<1>1. /\ images' = Append(images, work) /\ log' = Append(log, batch) /\ pending' = NoTransaction
      /\ UNCHANGED << identity, work, store, at, furthest, since >>
  BY Zenon DEF CommitTx
<1>2. /\ images \in Seq(Table) /\ Len(images) = Len(log) + 1 /\ log \in Seq(Seq(MadeChange)) /\ work \in Table
      /\ identity \in {"default", "full", "index"} /\ pending.changes \in Seq(MadeChange)
  BY Zenon DEF RowTypes
<1>3. batch \in Seq(MadeChange)
  BY <1>2, RoutedIs, Zenon
<1>4. Applied(Mirror(images[Len(images)]), batch) = Mirror(work)
  BY Zenon DEF MirrorInv, PendingMirrors
<1> HIDE DEF batch
<1> DEFINE n == Len(log)
<1>5. /\ n \in Nat /\ Len(log') = n + 1 /\ Len(images') = n + 2 /\ Len(images) = n + 1
      /\ \A b \in 1..n : log'[b] = log[b] /\ log'[n + 1] = batch
      /\ \A b \in 1..n + 1 : images'[b] = images[b]
      /\ images'[n + 2] = work /\ log'[n + 1] = batch
  BY <1>1, <1>2, <1>3
<1>6. HistoryMirrors'
  <2>1. ASSUME NEW b \in 1..n PROVE Applied(Mirror(images'[b]), log'[b]) = Mirror(images'[b + 1])
    <3>1. b \in 1..n + 1 /\ b + 1 \in 1..n + 1
      BY <1>5
    <3>2. images'[b] = images[b] /\ images'[b + 1] = images[b + 1] /\ log'[b] = log[b]
      BY <1>5, <3>1, Zenon
    <3> QED
      BY <3>2, Zenon DEF MirrorInv, HistoryMirrors
  <2>2. Applied(Mirror(images'[n + 1]), log'[n + 1]) = Mirror(images'[n + 2])
    <3>1. n + 1 \in 1..n + 1
      BY <1>5
    <3> HIDE DEF n
    <3> QED
      BY <1>4, <1>5, <3>1
  <2>3. \A b \in 1..Len(log') : b \in 1..n \/ (b = n + 1 /\ b + 1 = n + 2)
    BY <1>5
  <2>4. ASSUME NEW b \in 1..Len(log') PROVE Applied(Mirror(images'[b]), log'[b]) = Mirror(images'[b + 1])
    <3> HIDE DEF n
    <3>1. CASE b \in 1..n
      BY <2>1, <3>1, Zenon
    <3>2. CASE b = n + 1 /\ b + 1 = n + 2
      BY <2>2, <3>2
    <3> QED
      BY <2>3, <3>1, <3>2, Zenon
  <2> QED
    BY <2>4, Zenon DEF HistoryMirrors
<1>7. PendingMirrors'
  <2>1. pending'.changes = << >>
    BY <1>1 DEF NoTransaction
  <2>2. Routed(<< >>) = << >>
    BY RoutedIs, Zenon
  <2>3. images'[Len(images')] = work
    <3> HIDE DEF n
    <3> QED
      BY <1>5
  <2>4. Mirror(work) \in SdkRows
    BY <1>2, MirrorIs, Zenon
  <2>5. Applied(Mirror(work), << >>) = Mirror(work)
    BY <1>2, <2>4, AppliedIs, Zenon
  <2>6. Routed(pending'.changes) = << >> /\ Mirror(images'[Len(images')]) = Mirror(work) /\ work' = work
    BY <1>1, <2>1, <2>2, <2>3
  <2> QED
    BY <2>5, <2>6, Zenon DEF PendingMirrors
<1>8. Positioned'
  <2>1. Positioned
    BY Zenon DEF MirrorInv
  <2> QED
    BY <1>1, <1>5, <2>1 DEF Positioned
<1>9. Settles'
  <2>1. furthest \in 0..Len(log) /\ furthest + 1 \in 1..n + 1
    BY <1>5 DEF MirrorInv, Positioned
  <2>2. PICK R : IsRest(R, furthest, log) /\ R[furthest - at][store] = Mirror(images[furthest + 1])
    BY Zenon DEF MirrorInv, Settles
  <2>3. IsRest(R, furthest, log')
    BY <1>1, <1>2, <1>3, <2>1, <2>2, RestKept
  <2>4. images'[furthest + 1] = images[furthest + 1]
    BY <1>5, <2>1, Zenon
  <2> QED
    BY <1>1, <2>2, <2>3, <2>4 DEF Settles
<1> QED
  BY <1>6, <1>7, <1>8, <1>9, Zenon DEF MirrorInv

\* A batch delivered, for the first time or again: it cannot fail.
LEMMA DeliverMirrors ==
    ASSUME RowTypes, ScopeInKey, MirrorInv, Deliver
    PROVE  MirrorInv' /\ UNCHANGED << refused, cause >>
<1> DEFINE batch == log[at + 1]
           T == Applied(store, batch)
<1>1. /\ log \in Seq(Seq(MadeChange)) /\ identity \in {"default", "full", "index"}
      /\ images \in Seq(Table) /\ Len(images) = Len(log) + 1
  BY Zenon DEF RowTypes
<1>2. /\ store \in SdkRows /\ at \in Nat /\ furthest \in Nat /\ since \in Nat
      /\ at <= furthest /\ furthest <= Len(log) /\ at < Len(log) /\ Len(log) \in Nat
  BY <1>1 DEF MirrorInv, Positioned, Deliver
<1>3. at + 1 \in 1..Len(log) /\ batch \in Seq(MadeChange)
  BY <1>1, <1>2
<1>4. T \in SdkRows /\ T # Failed
  BY <1>1, <1>2, <1>3, AppliedIs, SdkIs, Zenon
<1>5. /\ UNCHANGED << identity, work, pending, images, log, since >>
      /\ store' = T /\ at' = at + 1 /\ furthest' = (IF at' > furthest THEN at' ELSE furthest)
      /\ UNCHANGED << refused, cause >>
  <2>1. T = Apply(store, [i \in DOMAIN batch |-> convertChange(batch[i])], PrimaryKey)
    BY Zenon DEF Applied
  <2> QED
    BY <1>4, <2>1, Zenon DEF Deliver
<1>6. HistoryMirrors' /\ PendingMirrors'
  BY <1>5, Zenon DEF MirrorInv, HistoryMirrors, PendingMirrors
<1>7. Positioned'
  <2> HIDE DEF T
  <2> QED
    BY <1>2, <1>4, <1>5 DEF Positioned
<1>8. PICK R : IsRest(R, furthest, log) /\ R[furthest - at][store] = Mirror(images[furthest + 1])
  BY Zenon DEF MirrorInv, Settles
<1>9. furthest \in 0..Len(log)
  BY <1>2
<1>10. RestGoes(R, furthest, log)
  BY <1>1, <1>8, <1>9, RestIs, Zenon
<1>11. CASE at < furthest
  <2> DEFINE i == furthest - at
  <2>1. i \in 1..furthest /\ furthest - i + 1 = at + 1 /\ i - 1 = furthest - (at + 1)
    BY <1>2, <1>11
  <2>2. R[i][store] = R[i - 1][Applied(store, log[furthest - i + 1])]
    <3> HIDE DEF i
    <3> QED
      BY <1>2, <1>10, <2>1, Zenon DEF RestGoes
  <2>3. R[furthest - (at + 1)][T] = Mirror(images[furthest + 1])
    <3>1. R[i - 1][T] = Mirror(images[furthest + 1])
      <4>1. log[furthest - i + 1] = batch
        <5> HIDE DEF i
        <5> QED
          BY <2>1
      <4> QED
        BY <1>8, <2>2, <4>1
    <3> HIDE DEF i, T
    <3> QED
      BY <2>1, <3>1
  <2>4. furthest' = furthest
    BY <1>2, <1>5, <1>11
  <2> HIDE DEF T
  <2>5. Settles'
    BY <1>5, <1>8, <2>3, <2>4 DEF Settles
  <2> QED
    BY <1>5, <1>6, <1>7, <2>5, Zenon DEF MirrorInv
<1>12. CASE at = furthest
  <2>1. store = Mirror(images[at + 1])
    BY <1>12, SettledIs, Zenon
  <2>2. T = Mirror(images[at + 1 + 1])
    BY <1>3, <2>1, Zenon DEF MirrorInv, HistoryMirrors
  <2>3. furthest' = at + 1 /\ at' = at + 1
    BY <1>2, <1>5, <1>12
  <2>4. at + 1 \in 0..Len(log)
    BY <1>2
  <2>5. PICK Q : IsRest(Q, at + 1, log)
    BY <1>1, <2>4, RestExists, Zenon
  <2>6. Q[0][T] = T
    <3>1. RestGoes(Q, at + 1, log)
      BY <1>1, <2>4, <2>5, RestIs, Zenon
    <3> QED
      BY <1>4, <3>1, Zenon DEF RestGoes
  <2>7. (at + 1) - (at + 1) = 0
    BY <1>2
  <2> HIDE DEF T
  <2>8. Settles'
    BY <1>5, <2>2, <2>3, <2>5, <2>6, <2>7 DEF Settles
  <2> QED
    BY <1>5, <1>6, <1>7, <2>8, Zenon DEF MirrorInv
<1> QED
  BY <1>2, <1>11, <1>12

\* Going back from a position to an earlier one.
LEMMA Backwards ==
    ASSUME NEW new \in Nat, NEW old \in Nat, NEW f \in Nat, new <= old, old <= f
    PROVE  /\ old - new \in Nat /\ old - new \in 0..(old - new) /\ f - old \in Nat /\ (f - old) + 0 = f - old
           /\ (f - old) + (old - new) = f - new
           /\ \A j \in 1..(old - new) :
                j \in Nat /\ (f - old) + j \in 1..f /\ (f - old) + (j - 1) = ((f - old) + j) - 1
OBVIOUS

\* Rows that a rest takes to the latest table are taken there by every longer one.
LEMMA LongerRest ==
    ASSUME RowTypes, ScopeInKey, HistoryMirrors, NEW f \in 0..Len(log), NEW R, IsRest(R, f, log), NEW S \in SdkRows,
           NEW old \in Nat, NEW new \in Nat, new <= old, old <= f, R[f - old][S] = Mirror(images[f + 1])
    PROVE  R[f - new][S] = Mirror(images[f + 1])
<1> DEFINE M == Mirror(images[f + 1])
<1>1. ASSUME NEW i \in 1..f, R[i - 1][S] = M PROVE R[i][S] = M
  BY <1>1, Redelivered, Zenon
<1>2. R[f - old][S] = M
  OBVIOUS
<1> HIDE DEF M
<1> DEFINE n == old - new
           from == f - old
           Good == {j \in Nat : R[from + j][S] = M}
<1>3. f \in Nat
  <2>1. Len(log) \in Nat
    BY DEF RowTypes
  <2> QED
    BY <2>1
<1>4. /\ n \in Nat /\ n \in 0..n /\ from + 0 = from /\ from + n = f - new
      /\ \A j \in 1..n : j \in Nat /\ from + j \in 1..f /\ from + (j - 1) = (from + j) - 1
  BY <1>3, Backwards
<1>5. R[from][S] = M
  BY <1>2, Zenon
<1> HIDE DEF n, from
<1>6. 0 \in Good
  BY <1>4, <1>5
<1>7. ASSUME NEW j \in 1..n, j - 1 \in Good PROVE j \in Good
  <2>1. R[(from + j) - 1][S] = M
    <3>1. R[from + (j - 1)][S] = M
      BY <1>7, Zenon
    <3>2. from + (j - 1) = (from + j) - 1
      BY <1>4, Zenon
    <3> QED
      BY <3>1, <3>2, Zenon
  <2>2. R[from + j][S] = M
    BY <1>1, <1>4, <2>1, Zenon
  <2> QED
    BY <1>4, <2>2, Zenon
<1>8. n \in Good
  <2> HIDE DEF Good
  <2>1. 0..n \subseteq Good
    BY <1>4, <1>6, <1>7, Turns, Zenon
  <2> QED
    BY <1>4, <2>1, Zenon
<1>9. R[from + n][S] = M
  BY <1>8, Zenon
<1>10. R[f - new][S] = M
  BY <1>4, <1>9, Zenon
<1> QED
  BY <1>10, Zenon DEF M

\* Earlier batches are to be delivered again.
LEMMA RedeliverMirrors ==
    ASSUME RowTypes, ScopeInKey, MirrorInv, Redeliver
    PROVE  MirrorInv'
<1>1. /\ log \in Seq(Seq(MadeChange)) /\ identity \in {"default", "full", "index"}
  BY Zenon DEF RowTypes
<1>2. /\ store \in SdkRows /\ at \in Nat /\ furthest \in Nat /\ since \in Nat
      /\ at <= furthest /\ furthest <= Len(log)
  BY Zenon DEF MirrorInv, Positioned
<1>3. at' \in Nat /\ at' <= at
  BY <1>2 DEF Redeliver
<1>4. UNCHANGED << identity, work, pending, images, log, store, furthest, since >>
  BY Zenon DEF Redeliver
<1>5. HistoryMirrors' /\ PendingMirrors'
  BY <1>4, Zenon DEF MirrorInv, HistoryMirrors, PendingMirrors
<1>6. Positioned'
  BY <1>2, <1>3, <1>4 DEF Positioned
<1>7. PICK R : IsRest(R, furthest, log) /\ R[furthest - at][store] = Mirror(images[furthest + 1])
  BY Zenon DEF MirrorInv, Settles
<1>8. furthest \in 0..Len(log)
  BY <1>1, <1>2
<1>9. R[furthest - at'][store] = Mirror(images[furthest + 1])
  <2>1. HistoryMirrors
    BY Zenon DEF MirrorInv
  <2> QED
    BY <1>2, <1>3, <1>7, <1>8, <2>1, LongerRest
<1>10. Settles'
  BY <1>4, <1>7, <1>9 DEF Settles
<1> QED
  BY <1>4, <1>5, <1>6, <1>10, Zenon DEF MirrorInv

\* A position with the table's rows is settled.
LEMMA RestAtEnd ==
    ASSUME identity \in {"default", "full", "index"}, ScopeInKey, NEW batches \in Seq(Seq(MadeChange)),
           NEW f \in 0..Len(batches), NEW S \in SdkRows
    PROVE  \E R : IsRest(R, f, batches) /\ R[f - f][S] = S
<1>1. PICK R : IsRest(R, f, batches)
  BY RestExists, Zenon
<1>2. RestGoes(R, f, batches)
  BY <1>1, RestIs, Zenon
<1>3. f - f = 0
  OBVIOUS
<1>4. R[0][S] = S
  BY <1>2, Zenon DEF RestGoes
<1> QED
  BY <1>1, <1>3, <1>4

\* A new snapshot.
LEMMA ResnapshotMirrors ==
    ASSUME RowTypes, ScopeInKey, MirrorInv, SnapshotsMirror, Resnapshot
    PROVE  MirrorInv'
<1>1. /\ log \in Seq(Seq(MadeChange)) /\ identity \in {"default", "full", "index"}
      /\ images \in Seq(Table) /\ Len(images) = Len(log) + 1
  BY Zenon DEF RowTypes
<1> DEFINE n == Len(log)
<1>2. n \in Nat /\ n \in 0..n /\ Len(images) = n + 1 /\ images[n + 1] \in Table
  BY <1>1
<1>3. /\ store' = SnapshotOf(images[Len(images)]) /\ at' = n /\ furthest' = n /\ since' \in since..n
      /\ UNCHANGED << identity, work, pending, images, log >>
  BY Zenon DEF Resnapshot
<1>9. since \in Nat
  BY Zenon DEF MirrorInv, Positioned
<1>4. store' = Mirror(images[n + 1])
  BY <1>2, <1>3, Zenon DEF SnapshotsMirror
<1>5. store' \in SdkRows
  BY <1>2, <1>4, MirrorIs, Zenon
<1>6. HistoryMirrors' /\ PendingMirrors'
  BY <1>3, Zenon DEF MirrorInv, HistoryMirrors, PendingMirrors
<1>7. Positioned'
  BY <1>2, <1>3, <1>5, <1>9 DEF Positioned
<1>8. Settles'
  <2>1. PICK R : IsRest(R, n, log) /\ R[n - n][store'] = store'
    BY <1>1, <1>2, <1>5, RestAtEnd, Zenon
  <2> HIDE DEF n
  <2> QED
    BY <1>3, <1>4, <2>1 DEF Settles
<1> QED
  BY <1>3, <1>6, <1>7, <1>8, Zenon DEF MirrorInv

\* A snapshot of the watched scope is the client's rows for the table.
LEMMA SnapshotsAre == SnapshotsMirror
<1> SUFFICES ASSUME NEW rows \in Table PROVE SnapshotOf(rows) = Mirror(rows)
  BY Zenon DEF SnapshotsMirror
<1> DEFINE D == {k \in DOMAIN rows : k[1] = Watched}
           S == ScopedRows(rows)
           P == {<< Watched, id >> : id \in Ids}
<1>1. DOMAIN rows \subseteq Keys /\ \A k \in DOMAIN rows : rows[k] \in Nat \cup {NoBody}
  BY TableIs, Zenon
<1>2. Keys \subseteq Nat \X Nat /\ IsFiniteSet(Ids) /\ NoError(Keys) /\ BatchRows \in Nat \ {0} /\ MaxMessageBytes \in Nat
  BY RowPathAssumption DEF RowPathAssumption, NoError, Keys
<1>3. D \subseteq P
  BY <1>1 DEF Keys
<1>4. IsFiniteSet(D)
  <2> DEFINE f == [id \in Ids |-> << Watched, id >>]
  <2>1. f \in Surjection(Ids, P)
    BY Zenon DEF Surjection
  <2> HIDE DEF D, P, f
  <2>2. IsFiniteSet(P)
    BY <1>2, <2>1, FS_Surjection, Zenon
  <2> QED
    BY <1>3, <2>2, FS_Subset, Zenon
<1>5. D \in SUBSET (Nat \X Nat) /\ D \subseteq Keys /\ \A k \in D : rows[k] \in Nat \cup {NoBody}
  BY <1>1, <1>2, Zenon
<1>6. S = {TableRow(k, rows[k]) : k \in D}
  BY Zenon DEF ScopedRows, TableRow
<1> HIDE DEF D, S
<1>7. /\ Snap(S) /\ {RowKey(row) : row \in S} = D
      /\ \A k \in D : RowKey(TableRow(k, rows[k])) = k /\ convertRow(TableRow(k, rows[k])) = MirrorRow(k, rows[k])
  <2>1. S = ReadOf(D, rows)
    BY <1>6, Zenon DEF ReadOf
  <2>2. IsRead(S, D, rows)
    BY <1>4, <1>5, <2>1, TableSnap, Zenon
  <2> QED
    BY <2>2, Zenon DEF IsRead
<1> DEFINE kept == Installed(S, PrimaryKey, BatchRows, MaxMessageBytes)
<1>8. kept = SnapshotOf(rows)
  BY Zenon DEF SnapshotOf, S
<1>9. Holds(kept, SentRows(S))
  <2>1. {RowKey(row) : row \in S} \subseteq Keys
    BY <1>5, <1>7, Zenon
  <2> QED
    BY <1>2, <1>7, <2>1, InstalledIs, Zenon
<1> HIDE DEF kept
<1>10. DOMAIN kept = D
  <2>1. {IdOf(row) : row \in SentRows(S)} = {RowKey(row) : row \in S}
    BY <1>7, SentKeys, Zenon
  <2> QED
    BY <1>7, <1>9, <2>1, Zenon DEF Holds
<1>11. \A k \in D : kept[k] = MirrorRow(k, rows[k])
  <2> SUFFICES ASSUME NEW k \in D PROVE kept[k] = MirrorRow(k, rows[k])
    BY Zenon
  <2> DEFINE row == TableRow(k, rows[k])
  <2>1. row \in S /\ RowKey(row) = k /\ convertRow(row) = MirrorRow(k, rows[k])
    BY <1>6, <1>7, Zenon
  <2> HIDE DEF row
  <2>2. convertRow(row) \in SentRows(S) /\ row \in SnapRow
    BY <1>7, <2>1, Zenon DEF SentRows, Snap
  <2>3. IdOf(convertRow(row)) = k
    BY <2>1, <2>2, ConvertIs, Zenon
  <2> QED
    BY <1>9, <2>1, <2>2, <2>3, Zenon DEF Holds
<1>12. kept = [id \in DOMAIN kept |-> kept[id]]
  BY <1>9, Zenon DEF Holds
<1>13. Mirror(rows) = [k \in D |-> MirrorRow(k, rows[k])]
  BY Zenon DEF Mirror, D
<1> QED
  BY <1>8, <1>10, <1>11, <1>12, <1>13

-----------------------------------------------------------------------------
(* The invariant of the row path.                                             *)

\* The stream is refused for its causes alone, and the client mirrors the table.
RowInv == RowTypes /\ RefusedExactly /\ (ScopeInKey => MirrorInv)

\* It holds at the start.
LEMMA RowInvInit == RowInit => RowInv
<1> SUFFICES ASSUME RowInit PROVE RowInv
  BY Zenon
<1>1. RowTypes
  BY TypesInit, Zenon
<1>2. RefusedExactly
  BY DEF RowInit, RefusedExactly
<1>3. ASSUME ScopeInKey PROVE MirrorInv
  <2>1. /\ images = << work >> /\ pending = NoTransaction /\ log = << >> /\ store = SnapshotOf(work)
        /\ at = 0 /\ furthest = 0 /\ since = 0
    BY Zenon DEF RowInit
  <2>2. work \in Table /\ identity \in {"default", "full", "index"}
    BY <1>1, Zenon DEF RowTypes
  <2>3. Mirror(work) \in SdkRows
    BY <2>2, MirrorIs, Zenon
  <2>4. store = Mirror(work)
    BY <2>1, <2>2, SnapshotsAre, Zenon DEF SnapshotsMirror
  <2>5. Len(log) = 0 /\ Len(images) = 1 /\ images[1] = work /\ pending.changes = << >> /\ log \in Seq(Seq(MadeChange))
    BY <2>1 DEF NoTransaction
  <2>6. HistoryMirrors
    BY <2>5 DEF HistoryMirrors
  <2>7. PendingMirrors
    <3>1. Routed(<< >>) = << >>
      BY RoutedIs, Zenon
    <3>2. Applied(Mirror(work), << >>) = Mirror(work)
      BY <1>3, <2>2, <2>3, AppliedIs, Zenon
    <3> QED
      BY <2>5, <3>1, <3>2, Zenon DEF PendingMirrors
  <2>8. Positioned
    BY <2>1, <2>3, <2>4, <2>5 DEF Positioned
  <2>9. Settles
    <3>1. 0 \in 0..Len(log) /\ 0 + 1 = 1
      BY <2>5
    <3>2. PICK R : IsRest(R, 0, log) /\ R[0 - 0][store] = store
      <4>1. store \in SdkRows
        BY <2>3, <2>4, Zenon
      <4> QED
        BY <1>3, <2>2, <2>5, <3>1, <4>1, RestAtEnd
    <3>3. IsRest(R, furthest, log)
      BY <2>1, <3>2, Zenon
    <3>4. R[furthest - at][store] = Mirror(images[furthest + 1])
      BY <2>1, <2>4, <2>5, <3>1, <3>2, Zenon
    <3> QED
      BY <3>3, <3>4, Zenon DEF Settles
  <2> QED
    BY <2>6, <2>7, <2>8, <2>9, Zenon DEF MirrorInv
<1> QED
  BY <1>1, <1>2, <1>3, Zenon DEF RowInv

\* A step of the transaction that leaves the history and the client alone.
LEMMA SameHistory ==
    ASSUME MirrorInv, UNCHANGED << images, log, store, at, furthest, since >>, PendingMirrors'
    PROVE  MirrorInv'
<1>1. HistoryMirrors'
  BY Zenon DEF MirrorInv, HistoryMirrors
<1>2. Positioned' /\ Settles'
  BY Zenon DEF MirrorInv, Positioned, Settles
<1> QED
  BY <1>1, <1>2, Zenon DEF MirrorInv

\* Every step keeps it.
LEMMA RowInvStep ==
    ASSUME RowInv, [RowStep]_rowVars
    PROVE  RowInv'
<1>1. RowTypes /\ RefusedExactly /\ RowTypes'
  BY TypesStep, Zenon DEF RowInv
<1>2. identity' = identity => (ScopeInKey' <=> ScopeInKey)
  BY MadeForGood, Zenon
<1>3. CASE UNCHANGED rowVars
  <2>1. UNCHANGED << identity, work, pending, images, log, store, at, furthest, since, refused, cause >>
    BY <1>3, Zenon DEF rowVars
  <2>2. MirrorInv => PendingMirrors'
    BY <2>1, Zenon DEF MirrorInv, PendingMirrors
  <2> QED
    BY <1>1, <1>2, <2>1, <2>2, SameHistory, Zenon DEF RowInv, RefusedExactly
<1>4. CASE ChangeStep
  <2>1. UNCHANGED << identity, images, log, store, at, furthest, since >>
    BY <1>4, Zenon DEF ChangeStep, Refusal, Added
  <2>2. RefusedExactly'
    BY <1>4, Zenon DEF ChangeStep, Refusal, Added, RefusedExactly
  <2>3. ASSUME ScopeInKey PROVE MirrorInv'
    <3>1. MirrorInv
      BY <2>3, Zenon DEF RowInv
    <3>2. PendingMirrors'
      BY <1>1, <1>4, <2>3, <3>1, ChangeMirrors, Zenon DEF MirrorInv
    <3> QED
      BY <2>1, <3>1, <3>2, SameHistory, Zenon
  <2> QED
    BY <1>1, <1>2, <2>1, <2>2, <2>3, Zenon DEF RowInv
<1>5. CASE Begin
  <2>1. /\ pending = NoTransaction /\ pending' = [changes |-> << >>, bytes |-> 0]
        /\ UNCHANGED << identity, work, images, log, store, at, furthest, since, refused, cause >>
    BY <1>5, Zenon DEF Begin
  <2>2. pending.changes = << >> /\ pending'.changes = << >>
    BY <2>1 DEF NoTransaction
  <2>3. MirrorInv => PendingMirrors'
    BY <2>1, <2>2, Zenon DEF MirrorInv, PendingMirrors
  <2> QED
    BY <1>1, <1>2, <2>1, <2>3, SameHistory, Zenon DEF RowInv, RefusedExactly
<1>6. CASE CommitTx
  BY <1>1, <1>2, <1>6, CommitMirrors, Zenon DEF RowInv, RefusedExactly, CommitTx
<1>7. CASE Deliver
  <2>1. identity' = identity
    BY <1>7, Zenon DEF Deliver
  <2>2. CASE ScopeInKey
    <3>1. MirrorInv
      BY <2>2, Zenon DEF RowInv
    <3>2. MirrorInv' /\ UNCHANGED << refused, cause >>
      BY <1>1, <1>7, <2>2, <3>1, DeliverMirrors
    <3>3. RefusedExactly'
      BY <1>1, <3>2, Zenon DEF RefusedExactly
    <3> QED
      BY <1>1, <1>2, <2>1, <3>2, <3>3, Zenon DEF RowInv
  <2>3. CASE ~ScopeInKey
    <3>1. (refused' = TRUE /\ cause' = {"scopeNotInKey"}) \/ UNCHANGED << refused, cause >>
      BY <1>7, <2>3, Zenon DEF Deliver
    <3>2. RefusedExactly'
      BY <1>1, <3>1 DEF RefusedExactly
    <3> QED
      BY <1>1, <1>2, <2>1, <2>3, <3>2, Zenon DEF RowInv
  <2> QED
    BY <2>2, <2>3, Zenon
<1>8. CASE Redeliver
  BY <1>1, <1>2, <1>8, RedeliverMirrors, Zenon DEF RowInv, RefusedExactly, Redeliver
<1>9. CASE Resnapshot
  BY <1>1, <1>2, <1>9, SnapshotsAre, ResnapshotMirrors, Zenon DEF RowInv, RefusedExactly, Resnapshot
<1>10. ChangeStep \/ Begin \/ CommitTx \/ Deliver \/ Redeliver \/ Resnapshot \/ UNCHANGED rowVars
  BY <1>1, StepIs, Zenon
<1> QED
  BY <1>3, <1>4, <1>5, <1>6, <1>7, <1>8, <1>9, <1>10, Zenon

\* What it says of the client, the decoder and the table.
LEMMA RowInvGives == RowInv => StoreMirrorsTable /\ RefusedExactly /\ PendingBounded
<1> SUFFICES ASSUME RowInv PROVE StoreMirrorsTable /\ RefusedExactly /\ PendingBounded
  BY Zenon
<1>1. RefusedExactly /\ PendingBounded
  BY TypesBound, Zenon DEF RowInv
<1>2. ASSUME ScopeInKey, at = furthest PROVE store = Mirror(images[at + 1])
  BY <1>2, SettledIs, Zenon DEF RowInv
<1>3. StoreMirrorsTable
  BY <1>2, Zenon DEF StoreMirrorsTable, Mirror, MirrorRow
<1> QED
  BY <1>1, <1>3, Zenon
================================================================================
