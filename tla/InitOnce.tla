------------------------------ MODULE InitOnce ------------------------------
(***************************************************************************)
(* What xew<Module>Init promises an application, free of how libraries are *)
(* searched: each wrangled module settles at most once, on one code; only  *)
(* success makes functions usable; the set of usable functions is fixed    *)
(* from then on; and every call of Init returns the code settled on.       *)
(* Translated from the early return and the single result of               *)
(* xew<Module>Init in auto/module.template.c.                              *)
(***************************************************************************)
CONSTANTS
  Module, Thread, Codes,
  Offers,     \* Offers[m]: the functions that m wraps
  Pending     \* no code yet

VARIABLES outcome, usable, answer
vars == <<outcome, usable, answer>>

Init ==
  /\ outcome = [m \in Module |-> Pending]
  /\ usable = [m \in Module |-> {}]
  /\ answer = [t \in Thread |-> [m \in Module |-> Pending]]

\* The first and only attempt to initialise m ends with a code.
Settle(m) ==
  /\ outcome[m] = Pending
  /\ \E c \in Codes, S \in SUBSET Offers[m] :
       /\ c # "SUCCESS" => S = {}
       /\ outcome' = [outcome EXCEPT ![m] = c]
       /\ usable' = [usable EXCEPT ![m] = S]
  /\ UNCHANGED answer

\* A call returns.
Tell(t, m) ==
  /\ outcome[m] # Pending
  /\ answer' = [answer EXCEPT ![t][m] = outcome[m]]
  /\ UNCHANGED <<outcome, usable>>

Next == \E m \in Module : Settle(m) \/ \E t \in Thread : Tell(t, m)

Spec == Init /\ [][Next]_vars
=============================================================================
