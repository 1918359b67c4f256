------------------------------ MODULE MCLobby ------------------------------
(***************************************************************************)
(* Three guests with two handles that differ only in case and one more,    *)
(* on two connections, a match of two seats and of three.                   *)
(***************************************************************************)
EXTENDS LobbyService, TLC

CONSTANTS ann, Ann, bob, duel, trio

MCKeyOf == (ann :> 1) @@ (Ann :> 1) @@ (bob :> 2)

MCCapacity == (duel :> 2) @@ (trio :> 3)

\* What a connection was told before it unsubscribed no longer matters.
LobbyView ==
    <<registry, connections, subscriptions, presence, ledger, match,
      [c \in subscriptions |-> told[c]]>>

LobbySymmetry == Permutations(Guests) \cup Permutations(Connections)

=============================================================================
