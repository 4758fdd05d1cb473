------------------------------ MODULE RowCodec ------------------------------
(***************************************************************************)
(* How one row change travels: the decoder's reading of a pgoutput tuple   *)
(* (internal/cdc/decoder.go) and the bounds on a pending transaction.      *)
(* RowStore has the rest of the way.                                       *)
(*                                                                         *)
(* A text is the number of its bytes: two texts of the model differ when   *)
(* their lengths do, and 0 is the empty text.  A relation is the sequence  *)
(* of its column names and of the positions of its replica-identity key.   *)
(***************************************************************************)
EXTENDS Integers, Sequences, Functions, FiniteSetsExt

CONSTANT Failed  \* the result of an operation that returned an error

NoTuple == << >>  \* the nil *TupleData
changeOverhead == 1  \* the fixed allowance for a change and its names, scaled down

\* A pgoutput column: its discriminator and its text.
Text(n) == [type |-> "t", data |-> n]
Null == [type |-> "n", data |-> 0]
Toast == [type |-> "u", data |-> 0]

\* The replica-identity columns are the ones the Relation message flags.
newRelationInfo(columns, flagged) ==
  LET keyIndexes[i \in 0 .. Len(columns)] ==
        IF i = 0 THEN << >>
        ELSE IF columns[i] \in flagged THEN Append(keyIndexes[i - 1], i) ELSE keyIndexes[i - 1]
  IN  [columns |-> columns, keyIndexes |-> keyIndexes[Len(columns)]]

checkColumn(column, maxValueBytes) ==
  \/ column.type \in {"n", "u"}
  \/ column.type = "t" /\ column.data <= maxValueBytes

checkKeyColumn(column, maxValueBytes) ==
  column.type = "t" /\ column.data \in 1 .. maxValueBytes

checkRow(info, tuple, maxValueBytes) ==
  /\ Len(tuple) = Len(info.columns)
  /\ \A i \in DOMAIN tuple : checkColumn(tuple[i], maxValueBytes)

\* A Value: its kind and, for a text, its text.  (Substrings of one shared
\* string in the code: each is its own column's text.)
decodeRow(info, tuple, maxValueBytes) ==
  IF tuple = NoTuple \/ ~checkRow(info, tuple, maxValueBytes) THEN Failed
  ELSE [i \in DOMAIN tuple |->
         [kind |-> [t |-> "text", n |-> "null", u |-> "unchangedToast"][tuple[i].type],
          text |-> tuple[i].data]]

keyFromValues(info, values) ==
  LET keyed == Range(info.keyIndexes)
      index(column) == CHOOSE i \in keyed : info.columns[i] = column
  IN  IF keyed = {} \/ \E i \in keyed : values[i].kind # "text" \/ values[i].text = 0
      THEN Failed
      ELSE [column \in {info.columns[i] : i \in keyed} |-> values[index(column)].text]

\* Mutant: an old tuple is the key columns alone.
CheckKeyColumnsOnly(info, tuple, maxValueBytes) ==
  /\ tuple # NoTuple
  /\ Len(tuple) = Len(info.keyIndexes)
  /\ \A k \in DOMAIN tuple : checkKeyColumn(tuple[k], maxValueBytes)

\* An old tuple is the key columns alone or the complete old row.
checkKeyTuple(info, tuple, maxValueBytes) ==
  /\ tuple # NoTuple
  /\ info.keyIndexes # << >>
  /\ \/ /\ Len(tuple) = Len(info.columns)
        /\ checkRow(info, tuple, maxValueBytes)
        /\ \A i \in Range(info.keyIndexes) : tuple[i].type = "t" /\ tuple[i].data # 0
     \/ /\ Len(tuple) # Len(info.columns)
        /\ Len(tuple) = Len(info.keyIndexes)
        /\ \A k \in DOMAIN tuple : checkKeyColumn(tuple[k], maxValueBytes)

keyColumn(info, tuple, k) ==
  IF Len(tuple) = Len(info.columns) THEN tuple[info.keyIndexes[k]] ELSE tuple[k]

keyFromTuple(info, tuple) ==
  [column \in {info.columns[i] : i \in Range(info.keyIndexes)} |->
     keyColumn(info, tuple, CHOOSE k \in DOMAIN info.keyIndexes :
                              info.columns[info.keyIndexes[k]] = column).data]

Change(operation, info, key, values) ==
  [operation |-> operation, key |-> key, columns |-> info.columns, values |-> values]

decodeInsert(info, tuple, maxValueBytes) ==
  LET values == decodeRow(info, tuple, maxValueBytes)
      key == keyFromValues(info, values)
  IN  IF values = Failed THEN Failed
      ELSE IF key = Failed THEN Failed ELSE Change("insert", info, key, values)

\* The old tuple is only compared: a change of the key is refused.
decodeUpdate(info, old, tuple, maxValueBytes) ==
  LET values == decodeRow(info, tuple, maxValueBytes)
      key == keyFromValues(info, values)
      refused == /\ old # NoTuple
                 /\ \/ ~checkKeyTuple(info, old, maxValueBytes)
                    \/ \E k \in DOMAIN info.keyIndexes :
                         keyColumn(info, old, k).data # values[info.keyIndexes[k]].text
  IN  IF values = Failed THEN Failed
      ELSE IF key = Failed \/ refused THEN Failed ELSE Change("update", info, key, values)

decodeDelete(info, old, maxValueBytes) ==
  IF checkKeyTuple(info, old, maxValueBytes)
  THEN Change("delete", info, keyFromTuple(info, old), << >>)
  ELSE Failed

estimatedValueBytes(value) == IF value.kind = "text" THEN value.text ELSE 1

estimatedChangeBytes(change) ==
  LET key == change.key
  IN  changeOverhead
      + FoldSet(LAMBDA column, sum : sum + key[column], 0, DOMAIN key)
      + FoldFunction(LAMBDA value, sum : sum + estimatedValueBytes(value), 0, change.values)

\* Mutant: a change is held to the whole budget, not to what is left of it.
AppendToWholeBudget(pending, change, maxBytes, maxChanges) ==
  IF Len(pending.changes) >= maxChanges \/ estimatedChangeBytes(change) > maxBytes
  THEN Failed
  ELSE [changes |-> Append(pending.changes, change),
        bytes |-> pending.bytes + estimatedChangeBytes(change)]

appendChange(pending, change, maxBytes, maxChanges) ==
  IF \/ Len(pending.changes) >= maxChanges
     \/ estimatedChangeBytes(change) > maxBytes - pending.bytes
  THEN Failed
  ELSE [changes |-> Append(pending.changes, change),
        bytes |-> pending.bytes + estimatedChangeBytes(change)]
=============================================================================
