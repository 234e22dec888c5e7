---------------------------- MODULE AtomicRecord ----------------------------
(***************************************************************************)
(* What a reader may expect of a record that is saved as a whole: it is    *)
(* there whole, as the last save left it, also when a save is given up or  *)
(* its process dies in the middle of it.  Only saves that run into each    *)
(* other may spoil it, until the next save that is alone.                  *)
(***************************************************************************)
EXTENDS Naturals

CONSTANT Saves   \* the saves there are, by number

VARIABLES
  value,    \* the save the record is from; 0: none
  intact,   \* the record can be read
  pending,  \* the saves that have begun
  collided  \* the last save to begin found another one under way

recordVars == <<value, intact, pending, collided>>

Begin(v) ==
  /\ pending' = pending \union {v}
  /\ collided' = (pending # {})
  /\ UNCHANGED <<value, intact>>

Complete(v) ==
  /\ v \in pending
  /\ value' = v /\ intact' = TRUE
  /\ pending' = pending \ {v}
  /\ UNCHANGED collided

Abandon(v) == pending' = pending \ {v} /\ UNCHANGED <<value, intact, collided>>

(* Which save the record is from then, one given up or none, is open. *)
Collide ==
  /\ collided
  /\ pending' \in SUBSET pending
  /\ intact' \in BOOLEAN /\ value' \in Saves \union {0}
  /\ UNCHANGED collided

Crash == pending' = {} /\ UNCHANGED <<value, intact, collided>>

Init == value = 0 /\ intact = TRUE /\ pending = {} /\ collided = FALSE

Next ==
  \/ \E v \in Saves : Begin(v)
  \/ \E v \in pending : Complete(v) \/ Abandon(v)
  \/ Collide \/ Crash

Spec == Init /\ [][Next]_recordVars
=============================================================================
