---------------------------- MODULE MCRuntimeGate ----------------------------
(***************************************************************************)
(* Instances of RuntimeGate for TLC: two requests the gate can be asked    *)
(* about, one of which the fallback lets through, two that cannot be put   *)
(* on the wire, and receipts that allow or block.                          *)
(***************************************************************************)
EXTENDS RuntimeGate

CONSTANTS read, write, odd, bare, r1, r2

Verdict(q, decision) == [request |-> q, decision |-> decision]
FallbackOf == [q \in {read, write, odd, bare} |-> IF q \in {read, odd} THEN "forward" ELSE "blocked"]
DefectOf == [q \in {read, write, odd, bare} |->
               CASE q = odd -> "contract" [] q = bare -> "missing" [] OTHER -> "none"]
Bodies == [d \in {r1, r2} |->
             IF d = r1 THEN Verdict(write, "forward")
                       ELSE Verdict(read, "blocked")]
=============================================================================
