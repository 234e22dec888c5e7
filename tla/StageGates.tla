----------------------------- MODULE StageGates -----------------------------
(***************************************************************************)
(* What the stage gates of a run promise the people who review it, without *)
(* files, requests or threads: work is done behind one gate at a time, a   *)
(* gate is opened only by passing the one before it, and a publication     *)
(* carries the edition of the advertisement that was passed.               *)
(***************************************************************************)
EXTENDS Naturals, Sequences

CONSTANTS
  StageCount,  \* the stages are 1 .. StageCount, worked through in this order
  Delivery,    \* the stage that makes what is published
  Desk         \* the stage in whose review it is published

(* What the properties below need of the constants. *)
StagesInOrder ==
  /\ StageCount \in Nat
  /\ Delivery \in 1 .. StageCount
  /\ Desk \in 1 .. StageCount
  /\ Delivery < Desk

VARIABLES
  phase,    \* where each stage is
  edition,  \* which edition of its work each stage is at
  released  \* the editions published so far

gateVars == <<phase, edition, released>>

Steps == 1 .. StageCount

Phases == {"closed", "open", "review", "passed", "returned", "failed"}

GatesTypeOK ==
  /\ phase \in [Steps -> Phases]
  /\ edition \in [Steps -> Nat]
  /\ released \in Seq(Nat)

Move(s, from, to) ==
  /\ phase[s] = from
  /\ phase' = [phase EXCEPT ![s] = to]

Init ==
  /\ phase = [s \in Steps |-> "closed"]
  /\ edition = [s \in Steps |-> 1]
  /\ released = <<>>

Start == Move(1, "closed", "open") /\ UNCHANGED <<edition, released>>

Finish(s) == Move(s, "open", "review") /\ UNCHANGED <<edition, released>>

Fail(s) == Move(s, "open", "failed") /\ UNCHANGED <<edition, released>>

Pass(s) ==
  /\ phase[s] = "review"
  /\ s = Desk => released # <<>>
  /\ phase' = [t \in Steps |-> IF t = s THEN "passed"
                               ELSE IF t = s + 1 THEN "open" ELSE phase[t]]
  /\ UNCHANGED <<edition, released>>

(* Sending work back starts a new edition of it and of all that follows. *)
Return(s) ==
  /\ phase[s] \in {"review", "returned"}
  /\ phase' = [phase EXCEPT ![s] = "returned"]
  /\ edition' = [t \in Steps |-> IF t < s THEN edition[t] ELSE edition[t] + 1]
  /\ UNCHANGED released

Release ==
  /\ phase[Desk] = "review"
  /\ released' = Append(released, edition[Delivery])
  /\ UNCHANGED <<phase, edition>>

Next ==
  \/ Start \/ Release
  \/ \E s \in Steps : Finish(s) \/ Fail(s) \/ Pass(s) \/ Return(s)

Spec == Init /\ [][Next]_gateVars

-----------------------------------------------------------------------------
(* Everything before the stage at work has been passed, and nothing after   *)
(* it has been touched.                                                     *)
OneStageAtWork ==
  \A s, t \in Steps : s < t => phase[t] = "closed" \/ phase[s] = "passed"

(* Whatever was published is the edition of the delivery that was passed,   *)
(* and it can no longer be replaced by another one.                         *)
ReleasesAreFinal ==
  \A i \in DOMAIN released :
    phase[Delivery] = "passed" /\ released[i] = edition[Delivery]
=============================================================================
