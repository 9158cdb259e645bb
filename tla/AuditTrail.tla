----------------------------- MODULE AuditTrail -----------------------------
(***************************************************************************)
(* What the audit log is for: one chain of entries that only ever grows.   *)
(* Each new entry follows the newest one, and an entry once written stays. *)
(* Archives, rotation and truncation are not visible here.  What an        *)
(* interruption (an error or a crash) may do is to leave the chain cut: an *)
(* entry written later may follow nothing.                                 *)
(***************************************************************************)
EXTENDS Naturals

VARIABLES
  trail,       \* the entries, each with the entry it follows (0: none)
  tip,         \* the newest entry
  interrupted  \* was there an error or a crash?

Init == trail = {} /\ tip = 0 /\ interrupted = FALSE

Record ==
  /\ tip' = tip + 1
  /\ \E p \in IF interrupted THEN {tip, 0} ELSE {tip} :
       trail' = trail \cup {[hash |-> tip + 1, pred |-> p]}
  /\ UNCHANGED interrupted

Interrupt ==
  /\ interrupted' = TRUE
  /\ UNCHANGED <<trail, tip>>

Spec == Init /\ [][Record \/ Interrupt]_<<trail, tip, interrupted>>

=============================================================================
