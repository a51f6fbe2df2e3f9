---------------------------- MODULE SharedWindow ----------------------------
(***************************************************************************)
(* What the coordinator promises of a shared rate-limit window, whatever   *)
(* the bookkeeping: an agent is told to go only when the window, as it is  *)
(* at that moment, covers its claim beside every other claim still open.   *)
(***************************************************************************)
EXTENDS TokenTotals

CONSTANTS Agents, Limit

VARIABLES
    free,       \* tokens left in the provider's window
    claims      \* tokens each agent may still charge, 0 without a claim

vars == <<free, claims>>

Init == free \in 0 .. Limit /\ claims = [a \in Agents |-> 0]

\* Reading the window may itself cost a few of its tokens.
Claim(a) ==
    /\ claims[a] = 0
    /\ \E n \in 1 .. Limit : claims' = [claims EXCEPT ![a] = n]
    /\ free' \in 0 .. free
    /\ Total(claims', Agents) <= free'

\* The claimed call is made, at no more than the claim, or fails for free.
Charge(a) ==
    /\ claims[a] > 0
    /\ claims' = [claims EXCEPT ![a] = 0]
    /\ free' \in 0 .. free /\ free - free' <= claims[a]

Change == free' \in 0 .. Limit /\ UNCHANGED claims

Next == (\E a \in Agents : Claim(a) \/ Charge(a)) \/ Change

Spec == Init /\ [][Next]_vars

=============================================================================
