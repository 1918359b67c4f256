-------------------------- MODULE IdentityRegistry --------------------------
(***************************************************************************)
(* Guest identities and the handles they reserve                           *)
(* (matchmaking/src/internal/identityRegistry.ts).  A registry is a value, *)
(*   [record : Guests -> record, owner : Keys -> Guests \cup {NoGuest}],   *)
(* and an operation is an operator that yields the registry after it: the  *)
(* lobby service runs several of them within one call.                     *)
(*                                                                         *)
(* An id is never minted twice, so a released one stays "released".  The   *)
(* resume secret of a record is rotated by every restore; whether a claim  *)
(* carries the current one is part of the claim.  `lapsed' stands for      *)
(* now() - disconnectedAtMs >= graceMs.                                    *)
(***************************************************************************)
EXTENDS Integers, FiniteSets

CONSTANTS
    Guests,         \* guest player ids
    Handles,        \* valid handles
    KeyOf,          \* normalizeHandleKey: handles that differ in case share a key
    NoGuest, NoHandle

ASSUME GuestAssumption == NoGuest \notin Guests /\ NoHandle \notin Handles

ASSUME KeyAssumption == DOMAIN KeyOf = Handles

Keys == {KeyOf[h] : h \in Handles}

Unminted == [status |-> "unminted", handle |-> NoHandle, lapsed |-> FALSE]

Minted == [status |-> "active", handle |-> NoHandle, lapsed |-> FALSE]

Released == [status |-> "released", handle |-> NoHandle, lapsed |-> FALSE]

Empty == [record |-> [g \in Guests |-> Unminted], owner |-> [k \in Keys |-> NoGuest]]

----------------------------------------------------------------------------
(* Lookups *)

\* projectIdentity(g) !== undefined
Known(reg, g) == reg.record[g].status \in {"active", "grace"}

IsInGrace(reg, g) == reg.record[g].status = "grace"

Named(reg, g) == Known(reg, g) /\ reg.record[g].handle # NoHandle

Expired(reg) == {g \in Guests : IsInGrace(reg, g) /\ reg.record[g].lapsed}

\* handleOwners.get(key of h) is another guest.
TakenFor(reg, g, h) == reg.owner[KeyOf[h]] \notin {NoGuest, g}

----------------------------------------------------------------------------
(* Operations *)

\* sweepExpired: release the records whose grace is over, and their handles.
Swept(reg) ==
    LET gone == Expired(reg)
    IN  [record |-> [g \in Guests |-> IF g \in gone THEN Released ELSE reg.record[g]],
         owner  |-> [k \in Keys |-> IF reg.owner[k] \in gone THEN NoGuest ELSE reg.owner[k]]]

WithRecord(reg, g, r) == [record |-> [reg.record EXCEPT ![g] = r], owner |-> reg.owner]

\* mintIdentity
WithNew(reg, g) == WithRecord(reg, g, Minted)

\* restoreIdentity with the current secret, and reactivate.
Reactivated(reg, g) ==
    WithRecord(reg, g, [status |-> "active", handle |-> reg.record[g].handle, lapsed |-> FALSE])

Grace(reg, g, lapsed) ==
    [status |-> "grace", handle |-> reg.record[g].handle, lapsed |-> lapsed]

\* disconnect: an unknown id is ignored.
Disconnected(reg, g) ==
    IF Known(reg, g) THEN WithRecord(reg, g, Grace(reg, g, FALSE)) ELSE reg

Called(reg, g, h) ==
    [status |-> reg.record[g].status, handle |-> h, lapsed |-> reg.record[g].lapsed]

\* A rename that keeps the old reservation.
RenamedKeeping(reg, g, h) ==
    [record |-> [reg.record EXCEPT ![g] = Called(reg, g, h)],
     owner  |-> [reg.owner EXCEPT ![KeyOf[h]] = g]]

\* setHandle of a free handle: the reservation moves with the name.
Renamed(reg, g, h) ==
    [record |-> [reg.record EXCEPT ![g] = Called(reg, g, h)],
     owner  |-> [k \in Keys |-> IF k = KeyOf[h] THEN g
                                ELSE IF reg.owner[k] = g THEN NoGuest ELSE reg.owner[k]]]

\* The grace of everyone who is disconnected runs out.
Lapsed(reg) ==
    [record |-> [g \in Guests |-> IF IsInGrace(reg, g) THEN Grace(reg, g, TRUE) ELSE reg.record[g]],
     owner  |-> reg.owner]

----------------------------------------------------------------------------
(* What holds of a registry *)

RegistryTyped(reg) ==
    /\ reg.record \in [Guests -> [status : {"unminted", "active", "grace", "released"},
                                  handle : Handles \cup {NoHandle}, lapsed : BOOLEAN]]
    /\ reg.owner \in [Keys -> Guests \cup {NoGuest}]

\* The reservations are exactly the names: a key is owned by the one guest whose
\* handle has it, so no two guests have handles that differ only in case, and
\* none stays reserved for nobody (handleOwners against the records).
Exclusive(reg) ==
    \A g \in Guests, k \in Keys :
        reg.owner[k] = g <=> reg.record[g].handle # NoHandle /\ KeyOf[reg.record[g].handle] = k

=============================================================================
