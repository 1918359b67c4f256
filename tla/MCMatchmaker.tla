---------------------------- MODULE MCMatchmaker ----------------------------
(* Instances of Matchmaker for TLC. *)
EXTENDS Matchmaker, TLC

\* Match ids and session ids are interchangeable.
IdSymmetry == Permutations(Matches) \cup Permutations(Sessions)

\* No operation reads more of a collected record than its status, so states
\* that differ in the rest of it are one state.
Kept(m, f) == IF status[m] = "collected" THEN {} ELSE f
UncollectedView ==
    <<status, age, store, bound, channel, closed, seeded \ {m \in Matches : status[m] = "collected"},
      [m \in Matches |-> Kept(m, <<seat[m], offer[m], alive[m]>>)],
      {f \in forfeited : status[f[1]] # "collected"}>>
=============================================================================
