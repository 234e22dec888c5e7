--------------------------- MODULE MCEvidenceReview ---------------------------
(* Three findings: one and other disagree on a subject, and again repeats   *)
(* the content of one under another subject.                                *)
EXTENDS EvidenceReview

CONSTANTS one, other, again, light, heavy, weight, price

MCFindings == {one, other, again}
MCContent == [f \in MCFindings |-> IF f = other THEN other ELSE one]
MCClaim == [f \in MCFindings |-> IF f = other THEN heavy ELSE light]
MCSubject == [f \in MCFindings |-> IF f = again THEN price ELSE weight]
MCPackages ==
  {[findings |-> <<one, other>>, claims |-> <<light, heavy>>],
   [findings |-> <<again, other>>, claims |-> <<heavy>>],
   [findings |-> <<again>>, claims |-> <<light, heavy>>],
   [findings |-> <<>>, claims |-> <<light>>]}
=============================================================================
