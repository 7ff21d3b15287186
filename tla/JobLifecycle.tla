---------------------------- MODULE JobLifecycle ----------------------------
(***************************************************************************)
(* What the OCR queue promises for each uploaded document, with no word    *)
(* about lists, leases or lost processes: a job waits, is tried, goes back *)
(* to waiting while it has tries left, and ends once, for good.            *)
(***************************************************************************)
EXTENDS Naturals

CONSTANTS Jobs, MaxAttempts

VARIABLES phase, tries

vars == <<phase, tries>>

Init == phase = [j \in Jobs |-> "absent"] /\ tries = [j \in Jobs |-> 0]

\* an upload that leaves the job to the queue, perhaps after a first try
Submit(j) ==
  /\ phase[j] = "absent"
  /\ phase' = [phase EXCEPT ![j] = "waiting"]
  /\ \E n \in {0, 1} : n < MaxAttempts /\ tries' = [tries EXCEPT ![j] = n]

\* an upload that answers at once
Answer(j) ==
  /\ phase[j] = "absent"
  /\ phase' = [phase EXCEPT ![j] = "over"]
  /\ tries' = [tries EXCEPT ![j] = 1]

Try(j) ==
  /\ phase[j] = "waiting" /\ tries[j] < MaxAttempts
  /\ phase' = [phase EXCEPT ![j] = "running"]
  /\ tries' = [tries EXCEPT ![j] = @ + 1]

GoBack(j) ==
  /\ phase[j] = "running" /\ tries[j] < MaxAttempts
  /\ phase' = [phase EXCEPT ![j] = "waiting"]
  /\ UNCHANGED tries

End(j) ==
  /\ phase[j] = "running"
  /\ phase' = [phase EXCEPT ![j] = "over"]
  /\ UNCHANGED tries

Proceed(j) == Try(j) \/ GoBack(j) \/ End(j)

Next == \E j \in Jobs : Submit(j) \/ Answer(j) \/ Proceed(j)

SafeSpec == Init /\ [][Next]_vars

Spec == SafeSpec /\ \A j \in Jobs : WF_vars(Proceed(j))
=============================================================================
