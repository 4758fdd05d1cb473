------------------------------ MODULE Relations ------------------------------
(***************************************************************************)
(* The shape of a relation and how two shapes differ                       *)
(* (internal/cdc/relation.go).  A Relation message has the table's oid,    *)
(* its replica identity and its columns; a column has a name (a number,    *)
(* which orders names), a type, and the flag of a replica-identity column. *)
(* The catalog's reading of the same table gives a shape of the same form. *)
(***************************************************************************)
EXTENDS Integers, Sequences, FiniteSets, Functions

\* slices.Sort of the names of a key.
Sorted(names) ==
  CHOOSE s \in [1 .. Cardinality(names) -> names] :
    Range(s) = names /\ \A i, j \in DOMAIN s : i < j => s[i] < s[j]

shapeOfRelation(message) ==
  LET key == {message.columns[i].name : i \in {j \in DOMAIN message.columns : message.columns[j].flag}}
  IN  [oid |-> message.oid,
       replicaIdentity |-> message.replicaIdentity,
       columns |-> [i \in DOMAIN message.columns |->
                      [name |-> message.columns[i].name, typeOID |-> message.columns[i].typeOID]],
       key |-> Sorted(key)]

\* The key the stream will flag, by replica identity.
projectionKey(table) ==
  CASE table.replicaIdentity = "d" -> table.primaryKey
    [] table.replicaIdentity = "f" -> {table.columns[i].name : i \in DOMAIN table.columns}
    [] table.replicaIdentity = "i" -> table.indexed
    [] OTHER -> {}

\* The shape the catalog says the stream will present.
projectionShape(table) ==
  [oid |-> table.oid, replicaIdentity |-> table.replicaIdentity, columns |-> table.columns,
   key |-> Sorted(projectionKey(table))]

\* Mutant: only the columns both shapes have are compared.
FirstDifferenceOfShared(s, actual, index) ==
  /\ index <= Len(s.columns) /\ index <= Len(actual.columns)
  /\ s.columns[index] # actual.columns[index]

\* Column index differs: dropped, added, renamed, moved or retyped.
DiffersAt(s, actual, index) ==
  \/ index > Len(actual.columns)
  \/ index > Len(s.columns)
  \/ s.columns[index].name # actual.columns[index].name
  \/ s.columns[index].typeOID # actual.columns[index].typeOID

\* "" when there is no difference; otherwise what the first one is about.
diff(s, actual) ==
  LET longest == IF Len(s.columns) > Len(actual.columns) THEN Len(s.columns) ELSE Len(actual.columns)
  IN  CASE s.oid # actual.oid -> "recreated"
        [] s.oid = actual.oid /\ s.replicaIdentity # actual.replicaIdentity -> "replica identity"
        [] s.oid = actual.oid /\ s.replicaIdentity = actual.replicaIdentity /\ s.key # actual.key -> "key"
        [] OTHER -> IF \E index \in 1 .. longest : DiffersAt(s, actual, index) THEN "column" ELSE ""
=============================================================================
