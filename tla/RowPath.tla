------------------------------- MODULE RowPath -------------------------------
(***************************************************************************)
(* One table and one client of one of its scopes, by the values of rows.   *)
(* PostgreSQL changes rows inside transactions and describes each change   *)
(* to the decoder as pgoutput does for the table's replica identity; the   *)
(* decoder builds the transaction's changes or refuses one; a committed    *)
(* transaction is routed by scope as Hub.Accept does; and the client       *)
(* installs snapshots and applies batches, some of them again.  Positions, *)
(* queues and connections are the business of Reader, Hub and Client: here *)
(* every step succeeds unless a value makes it fail.                       *)
(***************************************************************************)
EXTENDS RowStore

CONSTANTS Scopes, Ids, Bodies, \* the texts a row is made of, by length
          Watched,             \* the scope the client watches
          Identities,          \* replica identities: "default", "full", "index"
          ToastBytes,          \* PostgreSQL moves longer texts out of the row
          MaxValueBytes, MaxTransactionBytes, MaxTransactionChanges,
          BatchRows, MaxMessageBytes, MaxCommits

VARIABLES identity, \* the table's replica identity
          work,     \* the rows as the open transaction sees them: key |-> body
          pending,  \* the decoder's pending changes, or NoTransaction
          images,   \* the committed rows after 0, 1, ... transactions
          log,      \* the batch of each committed transaction for the scope
          store, at, furthest, since, \* the client: rows, position, latest position, snapshot's cursor
          refused,  \* the decoder or the store returned an error
          cause     \* what about the last change justifies that

rowVars == << identity, work, pending, images, log, store, at, furthest, since, refused, cause >>

Keys == Scopes \X Ids
Columns == << "body", "scope", "id" >>
PrimaryKey == << "scope", "id" >>
NoTransaction == [changes |-> << >>, bytes |-> -1]
NoBody == -1  \* a NULL body

\* The values on the way: a decoded row, a key, a change, a pending transaction
\* and the client's rows.
DecodedRow == [1 .. 3 -> [kind : {"text", "null", "unchangedToast"}, text : Nat]]
ChangeKey == UNION {[names -> Nat] : names \in SUBSET Range(Columns)}
RowChange == [operation : {"insert", "update", "delete"}, key : ChangeKey, columns : {Columns},
              values : {<< >>} \cup DecodedRow]
PendingTx == [changes : Seq(RowChange), bytes : Int]
SdkValue == [text : Nat, null : BOOLEAN, unchanged : BOOLEAN]
SdkRow == UNION {[names -> SdkValue] : names \in SUBSET Range(Columns)}
SdkRows == UNION {[keys -> SdkRow] : keys \in SUBSET Keys}

\* An error is none of them.
RowPathAssumption ==
  /\ Scopes \cup Ids \cup Bodies \subseteq Nat
  /\ IsFiniteSet(Ids)
  /\ Watched \in Scopes
  /\ Identities \subseteq {"default", "full", "index"}
  /\ ToastBytes \in Nat /\ MaxValueBytes \in Nat /\ MaxMessageBytes \in Nat /\ MaxCommits \in Nat
  /\ MaxTransactionBytes \in Nat /\ MaxTransactionChanges \in Nat
  /\ BatchRows \in Nat \ {0}
  /\ Failed \notin DecodedRow /\ Failed \notin RowChange /\ Failed \notin PendingTx /\ Failed \notin Keys
  /\ \A names \in SUBSET Range(Columns) : Failed \notin [names -> Nat]
  /\ \A keys \in SUBSET Keys : Failed \notin [keys -> SdkRow]
ASSUME RowPathAssumption

\* The columns pgoutput flags: the primary key, every column, or the columns
\* of the chosen unique index, here one on id.
Info == newRelationInfo(Columns, CASE identity = "default" -> {"scope", "id"}
                                   [] identity = "full" -> {"body", "scope", "id"}
                                   [] identity = "index" -> {"id"})

\* Whether a change of the table carries the scope it is routed by.
ScopeInKey == identity # "index"

Body(b) == IF b = NoBody THEN Null ELSE Text(b)
Tuple(key, body) == << body, Text(key[1]), Text(key[2]) >>
KeyTuple(key) == IF identity = "index" THEN << Text(key[2]) >> ELSE << Text(key[1]), Text(key[2]) >>

\* Of a new row: a long text the UPDATE did not touch is not sent again.
Untouched(old, body) == old = body /\ body > ToastBytes
NewTuple(key, old, body) == Tuple(key, IF Untouched(old, body) THEN Toast ELSE Body(body))

\* The rows of the watched scope as a snapshot reads them.
ScopedRows(rows) ==
  {[body |-> Body(rows[key]), scope |-> Text(key[1]), id |-> Text(key[2])] :
     key \in {k \in DOMAIN rows : k[1] = Watched}}
SnapshotOf(rows) == Installed(ScopedRows(rows), PrimaryKey, BatchRows, MaxMessageBytes)

NoRows == [key \in {} |-> 0]

\* The table may hold a row from before the stream began; the client starts
\* from a snapshot.
RowInit ==
  /\ identity \in Identities
  /\ work \in {NoRows} \cup [{<< Watched, id >> : id \in Ids} -> Bodies \cup {NoBody}]
  /\ images = << work >>
  /\ pending = NoTransaction
  /\ log = << >> /\ store = SnapshotOf(work)
  /\ at = 0 /\ furthest = 0 /\ since = 0
  /\ refused = FALSE /\ cause = {}

-----------------------------------------------------------------------------
Begin ==
  /\ ~refused /\ pending = NoTransaction /\ Len(log) < MaxCommits
  /\ pending' = [changes |-> << >>, bytes |-> 0]
  /\ UNCHANGED << identity, work, images, log, store, at, furthest, since, refused, cause >>

\* What v0 does not support in the texts of a key, and in a row it is sent; a
\* body that is NULL or not sent is NoBody.
TextsOf(key) == IF identity = "index" THEN {key[2]} ELSE {key[1], key[2]}
Long(texts) == IF \E n \in texts : n > MaxValueBytes THEN {"long"} ELSE {}
UnfitKey(key) == Long(TextsOf(key)) \cup (IF 0 \in TextsOf(key) THEN {"emptyKey"} ELSE {})
Unfit(key, body) ==
  UnfitKey(key) \cup Long({body, key[1], key[2]})
    \cup (IF identity = "full" /\ body \in {NoBody, 0} THEN {"fullIdentity"} ELSE {})

\* ... and in the new row of an update.
UnfitNew(key, old, body) == Unfit(key, IF Untouched(old, body) THEN NoBody ELSE body)

Changed(whether) == IF whether THEN {"keyChange"} ELSE {}

\* A change the decoder has read: appended to the pending transaction, or the
\* error that ends the stream, which the same WAL would bring again.
Streamed(change, rows, causes) ==
  LET appended == IF change = Failed THEN Failed
                  ELSE appendChange(pending, change, MaxTransactionBytes, MaxTransactionChanges)
      limits == IF change = Failed THEN {}
                ELSE (IF Len(pending.changes) + 1 > MaxTransactionChanges THEN {"changes"} ELSE {})
                     \cup (IF pending.bytes + estimatedChangeBytes(change) > MaxTransactionBytes THEN {"bytes"} ELSE {})
  IN  /\ refused' = (appended = Failed)
      /\ cause' = causes \cup limits
      /\ IF refused' THEN UNCHANGED << work, pending >> ELSE pending' = appended /\ work' = rows
      /\ UNCHANGED << identity, images, log, store, at, furthest, since >>

Open == ~refused /\ pending # NoTransaction

Insert(key, body) ==
  /\ Open /\ \A other \in DOMAIN work : other # key /\ (identity = "index" => other[2] # key[2])
  /\ Streamed(decodeInsert(Info, Tuple(key, Body(body)), MaxValueBytes), WithRow(work, key, body),
              Unfit(key, body))

\* An update that keeps the key: the old row comes with full identity only, whose
\* key is the whole row.
Update(key, body) ==
  /\ Open /\ key \in DOMAIN work
  /\ LET old == IF identity = "full" THEN Tuple(key, Body(work[key])) ELSE NoTuple
     IN  Streamed(decodeUpdate(Info, old, NewTuple(key, work[key], body), MaxValueBytes),
                  WithRow(work, key, body),
                  UnfitNew(key, work[key], body) \cup
                    (IF identity = "full" THEN Unfit(key, work[key]) \cup Changed(body # work[key]) ELSE {}))

\* An update of a key column: the old key comes with every identity whose
\* columns it changes.
Rekey(key, new) ==
  /\ Open /\ key \in DOMAIN work /\ new \notin DOMAIN work
  /\ identity = "index" => \A other \in DOMAIN work \ {key} : other[2] # new[2]
  /\ LET old == IF identity = "full" THEN Tuple(key, Body(work[key]))
                ELSE IF KeyTuple(key) = KeyTuple(new) THEN NoTuple ELSE KeyTuple(key)
         rows == [other \in (DOMAIN work \ {key}) \cup {new} |-> IF other = new THEN work[key] ELSE work[other]]
     IN  Streamed(decodeUpdate(Info, old, NewTuple(new, work[key], work[key]), MaxValueBytes), rows,
                  UnfitNew(new, work[key], work[key]) \cup Changed(KeyTuple(key) # KeyTuple(new)))

\* The key alone in its own columns or in a row of NULLs, or the whole row.
Delete(key, whole) ==
  /\ Open /\ key \in DOMAIN work
  /\ LET nulled == [i \in DOMAIN Columns |-> IF i \in Range(Info.keyIndexes) THEN Tuple(key, Null)[i] ELSE Null]
         old == IF identity = "full" THEN Tuple(key, Body(work[key]))
                ELSE IF whole THEN nulled ELSE KeyTuple(key)
     IN  Streamed(decodeDelete(Info, old, MaxValueBytes), [other \in DOMAIN work \ {key} |-> work[other]],
                  IF identity = "full" THEN Unfit(key, work[key]) ELSE UnfitKey(key))

\* Hub.Accept routes a change by the scope column of its key; without one the
\* scope is the empty text.
RoutedTo(change) == IF "scope" \in DOMAIN change.key THEN change.key["scope"] ELSE 0

Routed(changes) ==
  LET routed[i \in 0 .. Len(changes)] ==
        IF i = 0 THEN << >>
        ELSE IF RoutedTo(changes[i]) = Watched THEN Append(routed[i - 1], changes[i]) ELSE routed[i - 1]
  IN  routed[Len(changes)]

CommitTx ==
  /\ Open
  /\ images' = Append(images, work)
  /\ log' = Append(log, Routed(pending.changes))
  /\ pending' = NoTransaction
  /\ UNCHANGED << identity, work, store, at, furthest, since, refused, cause >>

\* The client applies the next batch of the log.
Deliver ==
  /\ ~refused /\ at < Len(log)
  /\ LET batch == log[at + 1]
         applied == Apply(store, [i \in DOMAIN batch |-> convertChange(batch[i])], PrimaryKey)
     IN  IF applied = Failed
         THEN /\ refused' = TRUE /\ cause' = IF ScopeInKey THEN {} ELSE {"scopeNotInKey"}
              /\ UNCHANGED << store, at, furthest >>
         ELSE /\ store' = applied
              /\ at' = at + 1
              /\ furthest' = IF at' > furthest THEN at' ELSE furthest
              /\ UNCHANGED << refused, cause >>
  /\ UNCHANGED << identity, work, pending, images, log, since >>

\* After a reconnect batches can be delivered again, from the snapshot's cursor on.
Redeliver ==
  /\ ~refused
  /\ at' \in since .. at - 1
  /\ UNCHANGED << identity, work, pending, images, log, store, furthest, since, refused, cause >>

\* A new snapshot replaces the projection: the rows of every committed transaction.
\* Its cursor can precede them; what the rows hold already is skipped at first
\* (Snapshot.Covers), but not when the client resumes from the cursor.
Resnapshot ==
  /\ ~refused /\ since < Len(log)
  /\ store' = SnapshotOf(images[Len(images)])
  /\ at' = Len(log) /\ furthest' = Len(log) /\ since' \in since .. Len(log)
  /\ UNCHANGED << identity, work, pending, images, log, refused, cause >>

RowStep ==
  \/ Begin \/ CommitTx \/ Deliver \/ Redeliver \/ Resnapshot
  \/ \E key \in Keys :
       \/ \E body \in Bodies \cup {NoBody} : Insert(key, body) \/ Update(key, body)
       \/ \E new \in Keys : Rekey(key, new)
       \/ \E whole \in BOOLEAN : Delete(key, whole)

-----------------------------------------------------------------------------
(* Properties *)

\* At its latest position the client's rows are the table's rows of the scope,
\* value for value: through decoding, routing, conversion, packing, NULLs,
\* unchanged TOAST columns and batches applied again (store.go:108, "Re-applying
\* a batch leaves the same result").  A replica identity without the scope
\* column is excepted: its changes are routed to no watcher.
StoreMirrorsTable ==
  ScopeInKey /\ at = furthest =>
    LET rows == images[at + 1]
        scoped == {key \in DOMAIN rows : key[1] = Watched}
    IN  /\ DOMAIN store = scoped
        /\ \A key \in scoped :
             store[key] = [body |-> IF rows[key] = NoBody THEN Value(0, TRUE, FALSE) ELSE Value(rows[key], FALSE, FALSE),
                           scope |-> Value(key[1], FALSE, FALSE), id |-> Value(key[2], FALSE, FALSE)]

\* The stream is refused for what v0 does not support and for nothing else: a
\* changed key, an empty key text, a value or a transaction over its limit, and,
\* under full identity, where the whole row is the key, a changed row or one with
\* a NULL, an empty or an untouched long body.  Nothing of that gets past the
\* decoder, and no other change is refused (decoder_test.go:354 has an update sent
\* with its whole old row accepted if the key columns are as before; under full
\* identity these are all columns, relation.go:219).  In the store a watcher of the
\* empty scope refuses a change whose key has no scope column.
RefusedExactly == refused <=> cause # {}

\* The decoder never holds more of a transaction than its two limits
\* (decoder.go:285), and no text over the value limit gets past it.
PendingBounded ==
  /\ pending.bytes <= MaxTransactionBytes
  /\ Len(pending.changes) <= MaxTransactionChanges
  /\ \A b \in DOMAIN log : \A c \in DOMAIN log[b] : \A v \in Range(log[b][c].values) : v.text <= MaxValueBytes
=============================================================================
