--------------------------------- MODULE Stream --------------------------------
(*******************************************************************************)
(* What a source's replication stream promises: its sink takes every published *)
(* transaction, in commit order and with none left out, and PostgreSQL may     *)
(* discard only WAL whose published transactions the sink has taken.  A        *)
(* transaction sent again changes nothing here, and PostgreSQL may forget how  *)
(* far it was told to go.  Module Reader implements this; module Hub is the    *)
(* sink.                                                                       *)
(*                                                                             *)
(* Transactions are numbered in commit order.  A WAL position is given by the  *)
(* number of transactions that commit before it.                               *)
(*******************************************************************************)
EXTENDS Integers

VARIABLES
    committed,  \* how many transactions the source has committed
    published,  \* the ones that change a published table
    taken,      \* the last transaction the sink has taken
    released    \* the slot's position: WAL before it may be discarded

vars == <<committed, published, taken, released>>

\* Nothing published at or before position p is still to be taken.
Covered(p) == \A n \in published : n <= p => n <= taken

Init ==
    /\ committed = 0 /\ published = {}
    /\ taken = 0 /\ released = 0

Commit ==
    /\ committed' = committed + 1
    /\ published' \in {published, published \cup {committed + 1}}
    /\ UNCHANGED <<taken, released>>

Take ==
    /\ \E n \in published :
          /\ n > taken
          /\ Covered(n - 1)
          /\ taken' = n
    /\ UNCHANGED <<committed, published, released>>

Release ==
    /\ \E p \in (released + 1)..committed :
          /\ Covered(p)
          /\ released' = p
    /\ UNCHANGED <<committed, published, taken>>

\* PostgreSQL restarts with the slot position it last saved.
Forget ==
    /\ \E p \in 0..(released - 1) : released' = p
    /\ UNCHANGED <<committed, published, taken>>

Next == Commit \/ Take \/ Release \/ Forget

Spec == Init /\ [][Next]_vars
================================================================================
