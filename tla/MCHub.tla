--------------------------------- MODULE MCHub ---------------------------------
(* Small instances of Hub: clients of one table and one scope.                 *)
EXTENDS HubInv

CONSTANTS c1, permissions, acme

SoloTable == [c \in {c1} |-> permissions]
SoloScope == [c \in {c1} |-> acme]

Tx(tables, incompatible) == [changes |-> tables \X {acme}, incompatible |-> incompatible]

\* A change to the scope, a transaction that concerns nobody, a table's new shape.
RelevantOnly == {Tx({permissions}, {})}
RelevantOrNot == RelevantOnly \cup {Tx({}, {})}
ShapeChanges == RelevantOnly \cup {Tx({}, {permissions})}
Everything == RelevantOrNot \cup ShapeChanges
================================================================================
