---------------------------- MODULE RequestLedger ----------------------------
(***************************************************************************)
(* What the request log promises to whoever reads it afterwards: a request *)
(* that was taken in has one RECEIVED record and at most one outcome, the  *)
(* outcome is the one the client was answered with, and only a request     *)
(* that was cut short has none.  Every request is eventually closed.       *)
(***************************************************************************)
EXTENDS Sequences

CONSTANT Requests

VARIABLES
  phase,      \* NEW, OPEN, SERVED, FAILED or CUT
  trail,      \* the records of each request
  keeping     \* the log could be opened

vars == <<phase, trail, keeping>>

Init ==
  /\ phase = [r \in Requests |-> "NEW"]
  /\ trail = [r \in Requests |-> << >>]
  /\ keeping \in BOOLEAN

Record(r, event) ==
  trail' = IF keeping THEN [trail EXCEPT ![r] = Append(@, event)] ELSE trail

Open(r) ==
  /\ phase[r] = "NEW"
  /\ phase' = [phase EXCEPT ![r] = "OPEN"]
  /\ Record(r, "RECEIVED")
  /\ UNCHANGED keeping

Answer(r) ==
  /\ phase[r] = "OPEN"
  /\ \E outcome \in {"SERVED", "FAILED"} :
       /\ phase' = [phase EXCEPT ![r] = outcome]
       /\ Record(r, outcome)
  /\ UNCHANGED keeping

(* The client goes away while its request is open.                         *)
Cut(r) ==
  /\ phase[r] = "OPEN"
  /\ phase' = [phase EXCEPT ![r] = "CUT"]
  /\ UNCHANGED <<trail, keeping>>

(* A restart cuts every open request and opens the log again.              *)
Restart ==
  /\ phase' = [r \in Requests |-> IF phase[r] = "OPEN" THEN "CUT" ELSE phase[r]]
  /\ keeping' \in BOOLEAN
  /\ UNCHANGED trail

Next == Restart \/ \E r \in Requests : Open(r) \/ Answer(r) \/ Cut(r)

Fairness == \A r \in Requests : WF_vars(Answer(r))

Safety == Init /\ [][Next]_vars

Spec == Safety /\ Fairness

=============================================================================
