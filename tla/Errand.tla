------------------------------- MODULE Errand -------------------------------
(***************************************************************************)
(* What a request to a panel promises the administrator who makes it, with *)
(* no network in it: it is carried out at most once and in the order of    *)
(* asking, it is called done only if it was, and what it was called stays. *)
(* A request whose outcome is unsure may still be carried out, but not     *)
(* after a later one.  RemoteRequests.tla is shown to implement it.        *)
(***************************************************************************)
EXTENDS Integers

CONSTANT Requests       \* numbers, in the order of asking

VARIABLES outcome,      \* what the administrator is told of each
          ran           \* those the panel has carried out

Init == outcome = [r \in Requests |-> "unasked"] /\ ran = {}

(* Asked, and perhaps found to be in vain at once.                         *)
Ask(r) ==
    /\ outcome[r] = "unasked"
    /\ \A q \in Requests : q < r => outcome[q] # "unasked"
    /\ \E o \in {"open", "unsure"} : outcome' = [outcome EXCEPT ![r] = o]
    /\ UNCHANGED ran

Run(r) ==
    /\ outcome[r] # "unasked"
    /\ \A q \in ran : q < r
    /\ ran' = ran \cup {r}
    /\ UNCHANGED outcome

(* The server gives up on some, or the panel's answer settles one.         *)
Settled(S, o) == outcome' = [r \in Requests |-> IF r \in S THEN o ELSE outcome[r]]

GiveUp(S) ==
    /\ \A r \in S : outcome[r] = "open"
    /\ Settled(S, "unsure")
    /\ UNCHANGED ran

Answer(r) ==
    /\ outcome[r] = "open"
    /\ \/ Settled({r}, "failed")
       \/ r \in ran /\ Settled({r}, "done")
    /\ UNCHANGED ran

Next ==
    \/ \E r \in Requests : Ask(r) \/ Run(r) \/ Answer(r)
    \/ \E S \in SUBSET Requests : GiveUp(S)

Spec == Init /\ [][Next]_<<outcome, ran>>
=============================================================================
