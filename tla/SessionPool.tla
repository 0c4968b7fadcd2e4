---------------------------- MODULE SessionPool ----------------------------
(***************************************************************************)
(* What the Session Manager promises its callers (ADR-0039, ADR-0057 (k)): *)
(* a process has K places for voice sessions and a Tenant takes at most    *)
(* one of them, from the moment its start is accepted until its session is *)
(* over; once the process is closing no place is taken again.              *)
(***************************************************************************)
EXTENDS FiniteSets, Integers

CONSTANTS Tenants, K

VARIABLES taken, open

Init == taken = {} /\ open = TRUE

Take(t) ==
  /\ open /\ t \notin taken /\ Cardinality(taken) < K
  /\ taken' = taken \cup {t} /\ UNCHANGED open

Leave(t) == t \in taken /\ taken' = taken \ {t} /\ UNCHANGED open

Close == open /\ open' = FALSE /\ UNCHANGED taken

Next == (\E t \in Tenants : Take(t) \/ Leave(t)) \/ Close

Spec == Init /\ [][Next]_<<taken, open>>
=============================================================================
