------------------------------ MODULE Positions ------------------------------
(***************************************************************************)
(* Positions in the source's history: MVCC visibility by transaction ID    *)
(* (internal/cdc/visibility.go), cursors (internal/cdc/types.go) and their *)
(* form on the wire (internal/server/server.go).                           *)
(***************************************************************************)
EXTENDS Integers, Sequences, Functions

CONSTANTS XidBits,  \* width of a transaction ID on the stream (32 in PostgreSQL)
          Invalid   \* the result of an operation that returned an error

Wrap == 2^XidBits

\* The ID space has two halves, and a returned error is no value.
PositionsAssumption ==
  /\ XidBits \in Nat \ {0} /\ Wrap \in Nat \ {0} /\ Wrap = 2 * (Wrap \div 2)
  /\ Invalid \notin [xmin : Nat, xmax : Nat, inProgress : SUBSET Nat]
  /\ Invalid \notin [sourceID : Seq(Int), lsn : Nat] /\ Invalid \notin {-1, 0, 1}
ASSUME PositionsAssumption

(* A pg_snapshot "xmin:xmax:xip,...", its numbers parsed.  The text form is  *)
(* PostgreSQL's own; a number out of range is refused.                       *)
parseVisibility(xmin, xmax, xips) ==
  IF xmax < xmin \/ \E i \in DOMAIN xips : xips[i] < xmin \/ xips[i] >= xmax THEN Invalid
  ELSE [xmin |-> xmin, xmax |-> xmax, inProgress |-> Range(xips)]

\* int32(d) of a difference of uint32s.
Signed(d) == IF (d % Wrap) < Wrap \div 2 THEN d % Wrap ELSE (d % Wrap) - Wrap

\* Mutant: the difference is taken for an unsigned one.
WidenUnsigned(v, xid) == v.xmax + ((xid - v.xmax) % Wrap)

\* The 64-bit ID nearest to xmax whose low bits are xid.
widen(v, xid) ==
  LET full == v.xmax + Signed(xid - v.xmax)
  IN  IF full < 0 THEN 0 ELSE full

includes(v, xid) ==
  LET full == widen(v, xid)
  IN  /\ full < v.xmax
      /\ full < v.xmin \/ full \notin v.inProgress

-----------------------------------------------------------------------------
Cursor(sourceID, lsn) == [sourceID |-> sourceID, lsn |-> lsn]

Compare(c, other) ==
  IF c.sourceID # other.sourceID THEN Invalid
  ELSE IF c.lsn < other.lsn THEN -1 ELSE IF c.lsn > other.lsn THEN 1 ELSE 0

BytesAfter(c, other) ==
  IF c.sourceID # other.sourceID \/ c.lsn <= other.lsn THEN 0 ELSE c.lsn - other.lsn

Earlier(least, cursor) ==
  IF least = Invalid THEN Invalid
  ELSE LET order == Compare(least, cursor)
       IN  IF order = Invalid THEN Invalid ELSE IF order > 0 THEN cursor ELSE least

\* min after each of the cursors in turn.
MinCursor(cursors) ==
  LET min[i \in 1 .. Len(cursors)] == IF i = 1 THEN cursors[1] ELSE Earlier(min[i - 1], cursors[i])
  IN  IF cursors = << >> THEN Invalid ELSE min[Len(cursors)]

\* The position's own text: an LSN, or a text ParseLSN refuses (a negative number here).
ParseCursor(sourceID, text) ==
  IF sourceID = << >> \/ Len(text) # 1 \/ text[1] \notin Nat THEN Invalid
  ELSE Cursor(sourceID, text[1])

(* On the wire a cursor is its source ID, a separator and its position.  A   *)
(* text is a sequence of symbols: numbers, and Separator.                    *)
Separator == -1

\* Mutant: any source ID that is not empty.
AnySourceID(sourceID) == sourceID # << >>

\* server.New takes a source ID only when it is not empty and has no separator.
ValidSourceID(sourceID) == sourceID # << >> /\ Separator \notin Range(sourceID)

encodeCursor(serverID, cursor) == serverID \o << Separator, cursor.lsn >>

\* strings.Cut: at the first separator.
decodeCursor(serverID, text) ==
  LET cut == CHOOSE i \in DOMAIN text : text[i] = Separator /\ \A j \in 1 .. i - 1 : text[j] # Separator
  IN  IF Separator \notin Range(text) THEN Invalid
      ELSE IF SubSeq(text, 1, cut - 1) # serverID THEN Invalid
      ELSE ParseCursor(serverID, SubSeq(text, cut + 1, Len(text)))

CompareCursors(serverID, left, right) ==
  LET l == decodeCursor(serverID, left)
      r == decodeCursor(serverID, right)
  IN  IF l = Invalid \/ r = Invalid THEN Invalid ELSE Compare(l, r)
=============================================================================
