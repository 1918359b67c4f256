----------------------------- MODULE MatchSeats -----------------------------
(***************************************************************************)
(* What the matchmaker promises about the seats of its matches, and all    *)
(* that its callers may rely on: a match is joined on its lowest open seat *)
(* and starts with its last, who plays in one match plays in no other, and *)
(* a match that is over stays over.  Matches that nobody joins may expire  *)
(* in any call, several at a time.                                         *)
(***************************************************************************)
EXTENDS Integers, Functions

CONSTANTS
    Matches,
    Players,
    Size,       \* the number of seats of a match
    Nobody

VARIABLE match  \* [status, seat, forfeited] for every match

Indices(m) == 0 .. Size[m] - 1

Empty(m) == [i \in Indices(m) |-> Nobody]

With(status, seat) == [status |-> status, seat |-> seat, forfeited |-> {}]

Over(m) == With("over", Empty(m))

Nothing == [m \in Matches |-> With("absent", Empty(m))]

Init == match = Nothing

----------------------------------------------------------------------------

Taken(m) == {i \in Indices(m) : match[m].seat[i] # Nobody}

Open(m) == Indices(m) \ Taken(m)

\* Who is in a match and has not given it up cannot enter another.
Idle ==
    {p \in Players :
        ~ \E m \in Matches : \E i \in Indices(m) \ match[m].forfeited : match[m].seat[i] = p}

\* What can become of a match that does not exist yet: one player opens it, or
\* the players of an earlier match meet again.
Created(m) == {With("filling", [Empty(m) EXCEPT ![0] = p]) : p \in Idle}

Reunited(m) == {With("filling", seat) : seat \in Injection(Indices(m), Idle)}

\* Of one that waits: a player takes the lowest open seat, or one leaves.
Joined(m) ==
    {With(IF Open(m) = {i} THEN "running" ELSE "filling", [match[m].seat EXCEPT ![i] = p]) :
        i \in {i \in Open(m) : \A j \in Open(m) : i <= j}, p \in Idle}

Left(m) ==
    {IF Taken(m) = {i} THEN Over(m) ELSE With("filling", [match[m].seat EXCEPT ![i] = Nobody]) :
        i \in Taken(m)}

\* Of one that runs: a player gives it up while another is in it, or it ends.
Forfeited(m) ==
    {[match[m] EXCEPT !.forfeited = @ \cup {i}] :
        i \in {i \in Indices(m) \ match[m].forfeited : Indices(m) \ match[m].forfeited # {i}}}

Outcomes(m) ==
    CASE match[m].status = "absent"  -> Created(m) \cup Reunited(m)
      [] match[m].status = "filling" -> Joined(m) \cup Left(m)
      [] match[m].status = "running" -> Forfeited(m) \cup {Over(m)}
      [] match[m].status = "over"    -> {}

Waiting == {m \in Matches : match[m].status = "filling"}

Without(gone) == [m \in Matches |-> IF m \in gone THEN Over(m) ELSE match[m]]

\* A call: waiting matches expire, and one match comes to one of its outcomes.
Call ==
    \E gone \in SUBSET Waiting :
        \/ match' = Without(gone)
        \/ \E m \in Matches \ gone : \E r \in Outcomes(m) : match' = [Without(gone) EXCEPT ![m] = r]

\* close()
Close == match' = Nothing

Next == Call \/ Close

Spec == Init /\ [][Next]_match

=============================================================================
