-------------------------- MODULE ProposalLifecycle --------------------------
(***************************************************************************)
(* What a governor promises about each of its proposals: the phases it can *)
(* be in, and the only ways from one to the next.                          *)
(***************************************************************************)
EXTENDS Integers, Sequences

VARIABLE phase      \* the phase of each proposal, in order of creation

Phase == {"Pending", "Active", "Canceled", "Defeated", "Succeeded", "Queued",
          "Expired", "Executed"}

Leads ==
  {<<"Pending", "Active">>, <<"Pending", "Canceled">>,
   <<"Active", "Canceled">>, <<"Active", "Defeated">>, <<"Active", "Succeeded">>,
   <<"Succeeded", "Queued">>,
   <<"Queued", "Executed">>, <<"Queued", "Expired">>}

Init == phase = <<>>

Propose == phase' = Append(phase, "Pending")

Progress ==
  /\ Len(phase') = Len(phase)
  /\ \A p \in DOMAIN phase :
       phase'[p] = phase[p] \/ <<phase[p], phase'[p]>> \in Leads

Next == Propose \/ Progress

Spec == Init /\ [][Next]_phase
=============================================================================
