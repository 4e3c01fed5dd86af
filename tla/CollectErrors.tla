---------------------------- MODULE CollectErrors ----------------------------
(***************************************************************************)
(* What a multi-target command promises its caller, said without           *)
(* goroutines, channels or shared variables: every target ends in success  *)
(* or failure, independently of the others, and the command then returns   *)
(* an error naming exactly the targets that failed, or nil if none did     *)
(* (or reports that its answers could not be printed).                     *)
(***************************************************************************)
CONSTANT Targets
VARIABLES outcome,  \* outcome[t]: "pending", "ok" or "failed"
          blamed,   \* the targets the returned error counts
          verdict   \* "none" until the command returns, then "nil" or "error"

Init == /\ outcome = [t \in Targets |-> "pending"]
        /\ blamed = {}
        /\ verdict = "none"

Finish(t) ==
    /\ outcome[t] = "pending"
    /\ \E o \in {"ok", "failed"} : outcome' = [outcome EXCEPT ![t] = o]
    /\ UNCHANGED <<blamed, verdict>>

Failures == {t \in Targets : outcome[t] = "failed"}

Return ==
    /\ verdict = "none"
    /\ \A t \in Targets : outcome[t] # "pending"
    /\ blamed' = Failures
    /\ verdict' \in IF Failures = {} THEN {"nil", "error"} ELSE {"error"}
    /\ UNCHANGED outcome

Next == Return \/ \E t \in Targets : Finish(t)

Spec == Init /\ [][Next]_<<outcome, blamed, verdict>>
=============================================================================
