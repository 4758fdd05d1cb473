------------------------------ MODULE RowStore ------------------------------
(***************************************************************************)
(* The way of a decoded row from the server to the client's store: the     *)
(* paged snapshot read (internal/cdc/snapshot.go), the packing of rows     *)
(* into messages and the value conversions (internal/server/server.go,     *)
(* sdk/go/watchd/client.go), and MemoryStore (sdk/go/watchd/store.go).     *)
(***************************************************************************)
EXTENDS RowCodec, FiniteSets

\* A value as the SDK holds it.
Value(text, null, unchanged) == [text |-> text, null |-> null, unchanged |-> unchanged]

\* The three kinds of the wire are the three kinds of the SDK's Value.
convertValue(kind, text) ==
  Value(IF kind = "text" THEN text ELSE 0, kind = "null", kind = "unchangedToast")

convertChange(change) ==
  [operation |-> change.operation,
   key |-> change.key,
   values |-> [i \in {change.columns[j] : j \in DOMAIN change.values} |->
                LET value == change.values[CHOOSE j \in DOMAIN change.values : change.columns[j] = i]
                IN  convertValue(value.kind, value.text)]]

\* A snapshot row is a full read: text or NULL, never unchanged TOAST.
convertRow(row) ==
  [column \in DOMAIN row |->
     IF row[column] = Null THEN convertValue("null", 0) ELSE convertValue("text", row[column].data)]

-----------------------------------------------------------------------------
(* The row comparison of PostgreSQL on primary keys, and the snapshot's pages. *)
KeyOrder(left, right) ==
  \E i \in DOMAIN left : left[i] < right[i] /\ \A j \in 1 .. i - 1 : left[j] = right[j]

KeyOf(row, primaryKey) == [i \in DOMAIN primaryKey |-> row[primaryKey[i]].data]

\* SELECT * ... WHERE scope [AND key > lastKey] ORDER BY key LIMIT batchRows.
fetchBatch(rows, primaryKey, lastKey, batchRows) ==
  LET after == {row \in rows : lastKey = << >> \/ KeyOrder(lastKey, KeyOf(row, primaryKey))}
      before(a, b) == KeyOrder(KeyOf(a, primaryKey), KeyOf(b, primaryKey))
  IN  CHOOSE page \in UNION {[1 .. n -> after] : n \in 0 .. batchRows} :
        /\ \A i, j \in DOMAIN page : i < j => before(page[i], page[j])
        /\ \A row \in after \ Range(page) :
             Len(page) = batchRows /\ \A i \in DOMAIN page : before(page[i], row)

\* The key of the last row read.
lastKeyOf(pages, primaryKey) ==
  IF pages = << >> THEN << >>
  ELSE LET batch == pages[Len(pages)] IN KeyOf(batch[Len(batch)], primaryKey)

\* Mutant: a full page is taken for the last one.
StopAtFullPage(pages, rows, primaryKey, batchRows) ==
  LET batch == fetchBatch(rows, primaryKey, lastKeyOf(pages, primaryKey), batchRows)
  IN  IF pages # << >> \/ batch = << >> THEN pages ELSE Append(pages, batch)

\* One turn of the loop, which ends after a page that is not full.
NextPage(pages, rows, primaryKey, batchRows) ==
  LET batch == fetchBatch(rows, primaryKey, lastKeyOf(pages, primaryKey), batchRows)
      ended == pages # << >> /\ Len(pages[Len(pages)]) < batchRows
  IN  IF ended \/ batch = << >> THEN pages ELSE Append(pages, batch)

\* A page has a row, so there are at most as many turns as rows.
scanScopedRows(rows, primaryKey, batchRows) ==
  LET pages[n \in 0 .. Cardinality(rows)] ==
        IF n = 0 THEN << >> ELSE NextPage(pages[n - 1], rows, primaryKey, batchRows)
  IN  pages[Cardinality(rows)]

\* proto.Size of a row, up to a constant: its texts.
rowBytes(row) ==
  FoldFunction(LAMBDA bytes, sum : sum + bytes, 0, [column \in DOMAIN row |-> row[column].text])

Flush(packed) ==
  IF packed.message = << >> THEN packed
  ELSE [sent |-> Append(packed.sent, packed.message), message |-> << >>, bytes |-> 0]

Pack(packed, row, maxBytes) ==
  LET room == IF packed.bytes + rowBytes(row) > maxBytes THEN Flush(packed) ELSE packed
  IN  [sent |-> room.sent, message |-> Append(room.message, row), bytes |-> room.bytes + rowBytes(row)]

\* One call of sendRows, for one page: the messages the stream has sent after it.
sendRows(sent, rows, maxBytes) ==
  LET packed[i \in 0 .. Len(rows)] ==
        IF i = 0 THEN [sent |-> sent, message |-> << >>, bytes |-> 0]
        ELSE Pack(packed[i - 1], convertRow(rows[i]), maxBytes)
  IN  Flush(packed[Len(rows)]).sent

\* The messages of a snapshot: the scan calls the sink, sendRows, for each page.
Messages(pages, maxBytes) ==
  LET sent[p \in 0 .. Len(pages)] ==
        IF p = 0 THEN << >> ELSE sendRows(sent[p - 1], pages[p], maxBytes)
  IN  sent[Len(pages)]

-----------------------------------------------------------------------------
(* MemoryStore.  The key's texts are joined with NUL, which no PostgreSQL    *)
(* text contains: the id is the sequence of the texts.                       *)
keyOf(key, primaryKey) ==
  IF Range(primaryKey) \subseteq DOMAIN key THEN [i \in DOMAIN primaryKey |-> key[primaryKey[i]]]
  ELSE Failed

WithRow(rows, id, row) ==
  [other \in DOMAIN rows \cup {id} |-> IF other = id THEN row ELSE rows[other]]

\* Mutant: an unchanged column is not looked up in the current row.
WrittenWithoutCurrent(current, values) ==
  [column \in {c \in DOMAIN values : ~values[c].unchanged} |-> values[column]]

\* The row an insert or update writes: an Unchanged column keeps the current value.
Written(current, values) ==
  [column \in {c \in DOMAIN values : ~values[c].unchanged \/ c \in DOMAIN current} |->
     IF values[column].unchanged THEN current[column] ELSE values[column]]

ApplyChange(rows, change, primaryKey) ==
  LET id == keyOf(change.key, primaryKey)
      current == IF id \in DOMAIN rows THEN rows[id] ELSE << >>
  IN  IF rows = Failed \/ id = Failed THEN Failed
      ELSE IF change.operation = "delete"
      THEN [other \in DOMAIN rows \ {id} |-> rows[other]]
      ELSE WithRow(rows, id, Written(current, change.values))

Apply(rows, changes, primaryKey) ==
  LET applied[i \in 0 .. Len(changes)] ==
        IF i = 0 THEN rows ELSE ApplyChange(applied[i - 1], changes[i], primaryKey)
  IN  applied[Len(changes)]

PutRow(rows, row, primaryKey) ==
  LET keyed == \A i \in DOMAIN primaryKey :
                 primaryKey[i] \in DOMAIN row /\ ~row[primaryKey[i]].null /\ ~row[primaryKey[i]].unchanged
      id == [i \in DOMAIN primaryKey |-> row[primaryKey[i]].text]
  IN  IF rows # Failed /\ keyed THEN WithRow(rows, id, row) ELSE Failed

Put(rows, message, primaryKey) ==
  LET put[i \in 0 .. Len(message)] ==
        IF i = 0 THEN rows ELSE PutRow(put[i - 1], message[i], primaryKey)
  IN  put[Len(message)]

\* A whole snapshot: every page read, packed, received and put.
Installed(rows, primaryKey, batchRows, maxBytes) ==
  LET messages == Messages(scanScopedRows(rows, primaryKey, batchRows), maxBytes)
      installed[m \in 0 .. Len(messages)] ==
        IF m = 0 THEN [id \in {} |-> << >>] ELSE Put(installed[m - 1], messages[m], primaryKey)
  IN  installed[Len(messages)]
=============================================================================
