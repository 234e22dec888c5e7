-------------------------- MODULE MCStagedWorkflow --------------------------
(***************************************************************************)
(* What the documentation says of the stage gates and the code does not    *)
(* keep; each is refuted by a run of its own.                              *)
(***************************************************************************)
EXTENDS StagedWorkflow

(* "A new version voids the old approvals" (README.md, the stage statuses): *)
(* no approval takes effect once a newer version of its stage exists.       *)
NewVersionVoidsApprovals ==
  [][\A s \in Stages : gates'[s].status = "approved"
                         => gates'[s].version >= gates[s].version]_vars

(* "Reject and create a new version" (README.md, the list of endpoints): a  *)
(* stage sent back for revision comes up for review again.                  *)
RevisionComesBack ==
  \A s \in Producing : gates[s].status = "revision_required"
                         ~> gates[s].status = "pending_review"
=============================================================================
