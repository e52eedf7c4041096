----------------------------- MODULE RecordStore -----------------------------
(***************************************************************************)
(* What ninja's logs promise to the next build.  Records are given to a    *)
(* log one after the other, for a key each; what it has for a key is one   *)
(* of the records given for it, or none.  A log may lose what it has (the  *)
(* outputs are then built again), but it only ever moves on to the newest  *)
(* record of the same key: it makes nothing up, takes no record for that   *)
(* of another key, and goes back to no earlier one.                        *)
(***************************************************************************)
EXTENDS Naturals

CONSTANTS Key

VARIABLES
    given,  \* how many records were given for each key
    at      \* which of them the log has, 0 for none

StoreInit ==
    /\ given = [k \in Key |-> 0]
    /\ at = [k \in Key |-> 0]

\* New records are given, one for each key of a set.
Give ==
    /\ \E K \in SUBSET Key :
          given' = [k \in Key |-> IF k \in K THEN given[k] + 1 ELSE given[k]]
    /\ UNCHANGED at

\* What the log has for each key stays, is lost, or becomes the newest record.
Move ==
    /\ \A k \in Key : at'[k] \in {0, at[k], given[k]}
    /\ UNCHANGED given

StoreNext == Give \/ Move

StoreSpec == StoreInit /\ [][StoreNext]_<<given, at>>
=============================================================================
