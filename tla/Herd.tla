------------------------------- MODULE Herd -------------------------------
(***************************************************************************)
(* What a player may expect of the animals and the dropped items of a      *)
(* world: a place holds one of them or none; a step takes at most one of   *)
(* them away, and what it leaves behind are items; a world is left empty,  *)
(* and comes back as it was kept.  EntityPool implements this.             *)
(***************************************************************************)
EXTENDS Naturals, FiniteSets

CONSTANT Place

Creature == {"item", "pig", "sheep", "shorn"}
Nobody   == [p \in Place |-> "none"]

VARIABLES herd,  \* who is where
          kept   \* the herd as the world was last saved

vars == <<herd, kept>>

TypeOK ==
    /\ herd \in [Place -> Creature \cup {"none"}]
    /\ kept \in [Place -> Creature \cup {"none"}]

Init == herd = Nobody /\ kept = Nobody

Empty == {p \in Place : herd[p] = "none"}

\* A creature appears where nobody was.
Appear ==
    /\ \E p \in Empty, c \in {"item", "pig", "sheep"} :
           herd' = [herd EXCEPT ![p] = c]
    /\ UNCHANGED kept

\* A creature dies or is picked up; up to two items are left behind.
Depart ==
    /\ \E p \in Place \ Empty, left \in SUBSET Empty :
           /\ Cardinality(left) <= 2
           /\ herd' = [q \in Place |-> IF q \in left THEN "item"
                                       ELSE IF q = p THEN "none" ELSE herd[q]]
    /\ UNCHANGED kept

\* A sheep loses its fleece, which is left behind as an item.
Shear ==
    /\ \E p \in Place, left \in SUBSET Empty :
           /\ herd[p] = "sheep"
           /\ Cardinality(left) <= 1
           /\ herd' = [q \in Place |-> IF q \in left THEN "item"
                                       ELSE IF q = p THEN "shorn" ELSE herd[q]]
    /\ UNCHANGED kept

\* A shorn sheep that grazes has its fleece again.
Regrow ==
    /\ \E p \in Place : herd[p] = "shorn" /\ herd' = [herd EXCEPT ![p] = "sheep"]
    /\ UNCHANGED kept

Keep   == kept' = herd /\ UNCHANGED herd
Leave  == herd' = Nobody /\ UNCHANGED kept
Return == herd = Nobody /\ herd' = kept /\ UNCHANGED kept

\* Saving and leaving is one step of the program.
KeepAndLeave == kept' = herd /\ herd' = Nobody

Next == Appear \/ Depart \/ Shear \/ Regrow \/ Keep \/ Leave \/ Return \/ KeepAndLeave

Spec == Init /\ [][Next]_vars

=============================================================================
