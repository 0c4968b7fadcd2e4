----------------------------- MODULE TenantSlot -----------------------------
(***************************************************************************)
(* What the claim plane promises a Tenant (ADR-0006, ADR-0057 (b) and (e)):*)
(* it has one slot.  A start requests it, one Voice Instance takes the     *)
(* request and may bring it live, and the slot is then held by that        *)
(* instance until it is released; it never passes to another instance and  *)
(* never returns to the queue.                                             *)
(***************************************************************************)
CONSTANTS Tenants, Workers

VARIABLE slot

Free == [state |-> "free"]
Requested == [state |-> "requested"]
Taken(w) == [state |-> "taken", host |-> w]
Live(w) == [state |-> "live", host |-> w]

Hosted == {Taken(w) : w \in Workers} \cup {Live(w) : w \in Workers}

Set(t, s) == slot' = [slot EXCEPT ![t] = s]

Init == slot = [t \in Tenants |-> Free]

Request(t) == slot[t] = Free /\ Set(t, Requested)

Withdraw(t) == slot[t] = Requested /\ Set(t, Free)

Take(t, w) == slot[t] = Requested /\ Set(t, Taken(w))

GoLive(t, w) == slot[t] = Taken(w) /\ Set(t, Live(w))

\* Ended, failed or presumed dead.  One sweep may release several slots.
Release(S) ==
  /\ S # {} /\ \A t \in S : slot[t] \in Hosted
  /\ slot' = [t \in Tenants |-> IF t \in S THEN Free ELSE slot[t]]

Next ==
  \/ \E t \in Tenants : \/ Request(t) \/ Withdraw(t)
                        \/ \E w \in Workers : Take(t, w) \/ GoLive(t, w)
  \/ \E S \in SUBSET Tenants : Release(S)

Spec == Init /\ [][Next]_slot
=============================================================================
