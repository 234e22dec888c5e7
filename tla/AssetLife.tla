----------------------------- MODULE AssetLife ------------------------------
(***************************************************************************)
(* The life of the versions of the assets of one tenant, as the catalog    *)
(* shows it: a version is made with its content, becomes ready or fails,   *)
(* and one that was ready may be taken back, for good.                     *)
(***************************************************************************)
CONSTANTS
  Keys,      \* an asset and a version
  Contents,
  NoRow      \* the row of a version that was not made yet

VARIABLE rows

Over == {"failed", "quarantined", "archived"}

Make(k, content) ==
  /\ rows[k] = NoRow
  /\ rows' = [rows EXCEPT ![k] = [status |-> "pending", content |-> content]]

Settle(k) ==
  /\ rows[k].status = "pending"
  /\ \E status \in {"ready", "failed", "quarantined"} :
       rows' = [rows EXCEPT ![k].status = status]

(* A version that was taken back may be so again, with the other's reason  *)
(* lost.                                                                   *)
TakeBack(k) ==
  /\ rows[k].status \in {"ready"} \union Over
  /\ \E status \in Over : rows' = [rows EXCEPT ![k].status = status]

Init == rows = [k \in Keys |-> NoRow]

Next ==
  \E k \in Keys :
    \/ \E content \in Contents : Make(k, content)
    \/ Settle(k) \/ TakeBack(k)

Spec == Init /\ [][Next]_rows
=============================================================================
