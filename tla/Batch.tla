------------------------------- MODULE Batch -------------------------------
(***************************************************************************)
(* What cert-proxy-client promises to whoever starts it: it takes on       *)
(* exactly the domains it is asked for, settles each of them once, draws   *)
(* its conclusion when all are settled, and exits with 0 only if none has  *)
(* failed.  How many workers it has, and what they wait for, is not seen.  *)
(***************************************************************************)
EXTENDS Naturals, FiniteSets

VARIABLES
    wanted,     \* the domains the client is asked for
    result,     \* result[d]: what became of domain d, once it is taken on
    concluded,  \* has the sum been drawn?
    failures,   \* the sum: how many domains failed
    status      \* "running", or how the client ended

batchVars == <<wanted, result, concluded, failures, status>>

Init ==
    /\ result = <<>>
    /\ ~concluded
    /\ failures = 0
    /\ status = "running"

TakeOn ==
    /\ status = "running" /\ ~concluded
    /\ result = <<>>
    /\ result' = [d \in wanted |-> "open"]
    /\ UNCHANGED <<wanted, concluded, failures, status>>

Settle(d) ==
    /\ status = "running" /\ ~concluded
    /\ result[d] = "open"
    /\ \E r \in {"ok", "failed"} : result' = [result EXCEPT ![d] = r]
    /\ UNCHANGED <<wanted, concluded, failures, status>>

\* The shared hook may still follow, so that the status may come later.
Conclude ==
    /\ status = "running" /\ ~concluded
    /\ DOMAIN result = wanted
    /\ \A d \in wanted : result[d] # "open"
    /\ concluded' = TRUE
    /\ failures' = Cardinality({d \in wanted : result[d] = "failed"})
    /\ status' \in IF failures' # 0 THEN {"exit1"} ELSE {"running", "exit0"}
    /\ UNCHANGED <<wanted, result>>

\* An end before the domains are taken on, or after the conclusion.
End ==
    /\ status = "running"
    /\ concluded \/ result = <<>>
    /\ status' \in {"exit0", "exit1", "exit2"}
    /\ failures # 0 => status' = "exit1"
    /\ UNCHANGED <<wanted, result, concluded, failures>>

Next == TakeOn \/ (\E d \in DOMAIN result : Settle(d)) \/ Conclude \/ End

Spec == Init /\ [][Next]_batchVars

=============================================================================
