---------------------------- MODULE NewestEntries ----------------------------
(***************************************************************************)
(* What a resync buffer promises: of everything recorded since it was last *)
(* emptied it keeps the newest `Depth' entries, whatever ticks were left   *)
(* out in between.                                                         *)
(***************************************************************************)
EXTENDS Integers, FiniteSets

CONSTANTS Depth, Ticks, Views

VARIABLE kept    \* the view kept for a tick, for the ticks that are kept

Nothing == [t \in {} |-> t]

Newest(S) == {t \in S : Cardinality({u \in S : u > t}) < Depth}

Init == kept = Nothing

Record(t, v) ==
    /\ \A u \in DOMAIN kept : u < t
    /\ kept' = [u \in Newest(DOMAIN kept \cup {t}) |-> IF u = t THEN v ELSE kept[u]]

Forget == kept' = Nothing

Next == (\E t \in Ticks, v \in Views : Record(t, v)) \/ Forget

Spec == Init /\ [][Next]_kept

=============================================================================
