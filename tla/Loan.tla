-------------------------------- MODULE Loan --------------------------------
(***************************************************************************)
(* What saving power promises to whoever else sets the CPU's ceiling, with *)
(* no pages, files, failures or crashes in it.  The agent borrows: it      *)
(* looks at the ceiling before every write, notes the one it is to lower,  *)
(* lowers no other, and gives back what it noted if it saw the minimum.    *)
(* It writes nothing else, notes no ceiling of its own making, and forgets *)
(* what it owes only when it holds nothing down.                           *)
(*                                                                         *)
(* A look is no lock: what others set between a look and the write it      *)
(* leads to is overwritten.  IdlePower.tla is shown to implement this.     *)
(***************************************************************************)
EXTENDS Integers

CONSTANTS Min, Max,
          None       \* nothing is owed, nothing looked at

VARIABLES ceiling,
          owed,      \* what the ceiling is to go back to
          held,      \* the agent holds it down
          seen       \* the ceiling at the look that its next write acts on

loanVars == <<ceiling, owed, held, seen>>

Init == ceiling \in Min..Max /\ owed = None /\ held = FALSE /\ seen = None

Look == seen' = ceiling /\ UNCHANGED <<ceiling, owed, held>>

LookAway == seen' = None /\ UNCHANGED <<ceiling, owed, held>>

(* What somebody has set since an earlier loan is noted in its place.      *)
Note ==
    /\ ~held /\ ceiling # Min
    /\ seen' = ceiling /\ owed' = ceiling
    /\ UNCHANGED <<ceiling, held>>

Lower ==
    /\ owed # None /\ seen = owed
    /\ ceiling' = Min /\ held' = TRUE
    /\ seen' = None
    /\ UNCHANGED owed

GiveBack ==
    /\ owed # None /\ seen = Min
    /\ ceiling' = owed /\ held' = FALSE
    /\ seen' = None
    /\ UNCHANGED owed

Forget ==
    /\ ~held /\ seen = None
    /\ owed' = None
    /\ UNCHANGED <<ceiling, held, seen>>

Agent == Look \/ LookAway \/ Note \/ Lower \/ GiveBack \/ Forget

(* An administrator or another service, and the kernel when it boots.      *)
Set == ceiling' \in Min..Max /\ held' = FALSE /\ UNCHANGED <<owed, seen>>
Boot == ceiling' = Max /\ owed' = None /\ held' = FALSE /\ seen' = None

Next == Agent \/ Set \/ Boot

Spec == Init /\ [][Next]_loanVars
=============================================================================
