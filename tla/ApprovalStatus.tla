--------------------------- MODULE ApprovalStatus ---------------------------
(* The status machine of an approval evidence row (evidence/store.py),      *)
(* shared by the store and by the components that drive its rows.           *)

Terminal == {"denied", "expired", "invalidated", "executed", "blocked", "error", "cancelled"}
Statuses == Terminal \cup {"pending", "approved"}

AllowedTransitions(status) ==
  CASE status = "pending"  -> Statuses \ {"pending"}
    [] status = "approved" -> {"executed", "blocked", "error", "invalidated"}
    [] OTHER               -> {}
=============================================================================
