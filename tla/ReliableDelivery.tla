-------------------------- MODULE ReliableDelivery --------------------------
(***************************************************************************)
(* What durable motion delivery promises: a trigger that was admitted is   *)
(* decided at least once before it is forgotten, or is given up in the     *)
(* open (a failed row remains); a trigger that was forgotten or given up   *)
(* never comes back.                                                       *)
(***************************************************************************)
CONSTANT Trigger

\* trigger -> idle, admitted, decided, settled or given up
VARIABLE phase

Move(t, from, to) == /\ phase[t] \in from
                     /\ phase' = [phase EXCEPT ![t] = to]

Init == phase = [t \in Trigger |-> "idle"]

Admit(t)  == Move(t, {"idle"}, "admitted")
Settle(t) == Move(t, {"decided"}, "settled")
GiveUp(t) == Move(t, {"admitted", "decided"}, "given up")

\* A burst of triggers is decided as one unit.
Decide(B) ==
  /\ \A t \in B : phase[t] # "idle"
  /\ phase' = [t \in Trigger |->
                 IF t \in B /\ phase[t] = "admitted" THEN "decided" ELSE phase[t]]

Next == \/ \E t \in Trigger : Admit(t) \/ Settle(t) \/ GiveUp(t)
        \/ \E B \in SUBSET Trigger : Decide(B)

Spec == Init /\ [][Next]_phase
=============================================================================
