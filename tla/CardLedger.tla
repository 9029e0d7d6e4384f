----------------------------- MODULE CardLedger -----------------------------
(***************************************************************************)
(* What the managed Approval Center promises, without claim files, probes  *)
(* and handler threads: a card is asked for by a running proxy and is      *)
(* decided at most once.  A human may decide it, and any process of the    *)
(* store expire it, at any time; its proxy withdraws it while the proxy    *)
(* runs; it is closed on the proxy's account only when the proxy has       *)
(* released its claim; and what a page confirms is decided in that step.   *)
(* An approval can still be revoked: by whoever read the card before it    *)
(* was approved, or as stale.  Every other decision stands.                *)
(***************************************************************************)
CONSTANTS Proxies, Cards, None

VARIABLES alive,     \* each proxy: "new", "live", "leaving" or "gone"
          asker,     \* the proxy of each card
          verdict,   \* what has become of each card
          confirmed  \* the decisions a page has confirmed

cardVars == <<alive, asker, verdict, confirmed>>

Decisions == {<<"approve", "approved">>, <<"deny", "denied">>}

CardInit ==
  /\ alive = [p \in Proxies |-> "new"]
  /\ asker = [r \in Cards |-> None]
  /\ verdict = [r \in Cards |-> "absent"]
  /\ confirmed = {}

Moves(p, from, to) ==
  /\ alive[p] = from
  /\ alive' = [alive EXCEPT ![p] = to]
  /\ UNCHANGED <<asker, verdict, confirmed>>

Ask(p, r) ==
  /\ alive[p] \in {"live", "leaving"} /\ asker[r] = None
  /\ asker' = [asker EXCEPT ![r] = p]
  /\ verdict' = [verdict EXCEPT ![r] = "pending"]
  /\ UNCHANGED <<alive, confirmed>>

Close(r, v) ==
  /\ verdict[r] = "pending"
  /\ verdict' = [verdict EXCEPT ![r] = v]
  /\ UNCHANGED <<alive, asker>>

\* The page may be lost on its way.
Decide(r, d) ==
  /\ Close(r, d[2])
  /\ confirmed' = confirmed \/ confirmed' = confirmed \cup {<<r, d[1]>>}

Expire(r) ==
  /\ Close(r, "expired")
  /\ UNCHANGED confirmed

Withdraw(r, v) ==
  /\ Close(r, v)
  /\ alive[asker[r]] \in {"live", "leaving"}
  /\ UNCHANGED confirmed

RetireGone(r) ==
  /\ Close(r, "owner_gone")
  /\ alive[asker[r]] \in {"leaving", "gone"}
  /\ UNCHANGED confirmed

\* The card was read before it was approved, or its approval has gone stale.
Revoke(r, v) ==
  /\ verdict[r] = "approved"
  /\ v = "owner_gone" => alive[asker[r]] \in {"leaving", "gone"}
  /\ verdict' = [verdict EXCEPT ![r] = v]
  /\ UNCHANGED <<alive, asker, confirmed>>

CardNext ==
  \/ \E p \in Proxies :
       \/ Moves(p, "new", "live") \/ Moves(p, "new", "gone")
       \/ Moves(p, "live", "leaving") \/ Moves(p, "live", "gone") \/ Moves(p, "leaving", "gone")
  \/ \E p \in Proxies, r \in Cards : Ask(p, r)
  \/ \E r \in Cards :
       \/ \E d \in Decisions : Decide(r, d)
       \/ \E v \in {"cancelled", "invalidated"} : Withdraw(r, v)
       \/ Expire(r) \/ RetireGone(r)
       \/ \E v \in {"invalidated", "owner_gone"} : Revoke(r, v)

CardSpec == CardInit /\ [][CardNext]_cardVars
=============================================================================
