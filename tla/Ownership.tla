----------------------------- MODULE Ownership -----------------------------
(***************************************************************************)
(* What enrolment promises, with no protocol in it: every panel record is  *)
(* held by nobody or by one pair of secrets, a pair is recorded whole, and *)
(* a record that is held changes hands only by becoming free first (trust  *)
(* on first use).  Enrollment.tla is shown to implement it.                *)
(***************************************************************************)
CONSTANTS Panels,       \* panel ids
          Secrets,      \* one value for each pair of token and signing key
          Free          \* no secrets recorded

VARIABLE holder         \* holder[p]: the [token, key] recorded for panel p

Unheld == [token |-> Free, key |-> Free]

Init == holder = [p \in Panels |-> Unheld]

(* The first presenter of a complete pair takes a free record.             *)
Take(p, s) ==
    /\ holder[p] = Unheld
    /\ holder' = [holder EXCEPT ![p] = [token |-> s, key |-> s]]

(* The operator resets, reinstalls or removes the panel.                   *)
Release(p) == holder' = [holder EXCEPT ![p] = Unheld]

Next == \E p \in Panels : Release(p) \/ \E s \in Secrets : Take(p, s)

Spec == Init /\ [][Next]_holder
=============================================================================
