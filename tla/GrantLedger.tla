---------------------------- MODULE GrantLedger ----------------------------
(***************************************************************************)
(* What an exact approval promises, without the store that keeps it: one   *)
(* human decision opens a grant, the grant pays for at most one retry, and *)
(* a grant that was spent or withdrawn is never on offer again.            *)
(***************************************************************************)
CONSTANT RequestIds

VARIABLES offered,  \* every grant a decision has ever opened
          open,     \* the grants a retry may still use
          spent     \* the pairs <<grant, retry>>

ledgerVars == <<offered, open, spent>>

LedgerInit ==
  /\ offered = {}
  /\ open = {}
  /\ spent = {}

Offer(g) ==
  /\ g \notin offered
  /\ offered' = offered \cup {g}
  /\ open' = open \cup {g}
  /\ UNCHANGED spent

Spend(g, c) ==
  /\ g \in open
  /\ \A p \in spent : p[2] # c
  /\ open' = open \ {g}
  /\ spent' = spent \cup {<<g, c>>}
  /\ UNCHANGED offered

Withdraw(g) ==
  /\ g \in open
  /\ open' = open \ {g}
  /\ UNCHANGED <<offered, spent>>

LedgerNext ==
  \E g \in RequestIds :
    \/ Offer(g)
    \/ Withdraw(g)
    \/ \E c \in RequestIds : Spend(g, c)

LedgerSpec == LedgerInit /\ [][LedgerNext]_ledgerVars
=============================================================================
