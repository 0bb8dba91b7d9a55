------------------------------ MODULE Installs ------------------------------
(***************************************************************************)
(* Installing onto a panel over SSH: provision_run starts a thread that    *)
(* runs the bootstrap (_run_install in server/app/main.py, bootstrap_lines *)
(* in server/app/ssh.py) and fills in a job, which a browser polls         *)
(* (provision_run_status).  The thread goes on between any two reads of    *)
(* that handler, and more installs push older jobs out.                    *)
(***************************************************************************)
EXTENDS Integers

CONSTANTS MaxInstalls,  \* bound: installs started, numbered in order
          MaxJobs       \* INSTALL_JOBS_MAX

ASSUME InstallsAssumption == MaxInstalls \in Nat /\ MaxJobs \in Nat \ {0}

Installs == 1..MaxInstalls

VARIABLES
    invite,   \* the panel's provisioning token is unused
    begun,    \* how many installs were started
    thread,   \* thread[i]: where _run_install is
    exit,     \* exit[i]: the status in the last line of its output, if any
    job,      \* job[i]: "ok" and "done"
    asking,   \* asking[i]: what the poll of its browser has read
    verdict   \* verdict[i]: what the browser showed in the end

installVars == <<invite, begun, thread, exit, job, asking, verdict>>

----------------------------------------------------------------------------
(* A job that newer ones pushed out is not found any more.                 *)
Kept(i) == i \in (begun - MaxJobs + 1)..begun

(* The token is still unused, though a thread may be about to use it.      *)
InstallBegins ==
    /\ invite /\ begun < MaxInstalls
    /\ begun' = begun + 1
    /\ thread' = [thread EXCEPT ![begun'] = "starting"]
    /\ asking' = [asking EXCEPT ![begun'] = "ready"]
    /\ UNCHANGED <<invite, exit, job, verdict>>

(* The thread looks its job up, and dies if it does not find it.           *)
LooksUp(i) ==
    /\ thread[i] = "starting"
    /\ thread' = [thread EXCEPT ![i] = IF Kept(i) THEN "connecting" ELSE "over"]
    /\ UNCHANGED <<invite, begun, exit, job, asking, verdict>>

(* The login and sudo are in order.                                        *)
LogsIn(i) ==
    /\ thread[i] = "connecting"
    /\ thread' = [thread EXCEPT ![i] = "fetching"]
    /\ UNCHANGED <<invite, begun, exit, job, asking, verdict>>

(* curl on the panel gets the script, which spends the token, or nothing;  *)
(* bash then has nothing to do.                                            *)
Fetches(i) ==
    /\ thread[i] = "fetching"
    /\ invite' = FALSE
    /\ thread' = [thread EXCEPT ![i] = IF invite THEN "running" ELSE "empty"]
    /\ UNCHANGED <<begun, exit, job, asking, verdict>>

(* The last line says how it ended: no login, no sudo, an exception, or    *)
(* the status of bash.                                                     *)
Exits(i, e) ==
    /\ thread[i] \in {"connecting", "fetching", "running", "empty"}
    /\ e = "zero" => thread[i] \in {"running", "empty"}
    /\ exit' = [exit EXCEPT ![i] = e]
    /\ thread' = [thread EXCEPT ![i] = "judging"]
    /\ UNCHANGED <<invite, begun, job, asking, verdict>>

Judges_DoneFirst(i) ==
    \/ /\ thread[i] = "judging"
       /\ job' = [job EXCEPT ![i].done = TRUE]
       /\ thread' = [thread EXCEPT ![i] = "closing"]
       /\ UNCHANGED <<invite, begun, exit, asking, verdict>>
    \/ /\ thread[i] = "closing"
       /\ job' = [job EXCEPT ![i].ok = (exit[i] = "zero")]
       /\ thread' = [thread EXCEPT ![i] = "over"]
       /\ UNCHANGED <<invite, begun, exit, asking, verdict>>

(* The finally clause sets "ok", and then "done".                          *)
Judges(i) ==
    \/ /\ thread[i] = "judging"
       /\ job' = [job EXCEPT ![i].ok = (exit[i] = "zero")]
       /\ thread' = [thread EXCEPT ![i] = "closing"]
       /\ UNCHANGED <<invite, begun, exit, asking, verdict>>
    \/ /\ thread[i] = "closing"
       /\ job' = [job EXCEPT ![i].done = TRUE]
       /\ thread' = [thread EXCEPT ![i] = "over"]
       /\ UNCHANGED <<invite, begun, exit, asking, verdict>>

----------------------------------------------------------------------------
Expires(i) ==
    /\ asking[i] = "ready" /\ ~Kept(i)
    /\ asking' = [asking EXCEPT ![i] = "told"]
    /\ verdict' = [verdict EXCEPT ![i] = "request failed"]
    /\ UNCHANGED <<invite, begun, thread, exit, job>>

(* provision_run_status reads "done", and then "ok".                       *)
ReadsDone(i) ==
    /\ asking[i] = "ready" /\ Kept(i)
    /\ job[i].done
    /\ asking' = [asking EXCEPT ![i] = "done"]
    /\ UNCHANGED <<invite, begun, thread, exit, job, verdict>>

ReadsOk(i) ==
    /\ asking[i] = "done"
    /\ asking' = [asking EXCEPT ![i] = "told"]
    /\ verdict' = [verdict EXCEPT ![i] = IF job[i].ok THEN "installed" ELSE "failed"]
    /\ UNCHANGED <<invite, begun, thread, exit, job>>

(* The token is used by hand, or a new one is issued.                      *)
InviteChanges ==
    /\ invite' = ~invite
    /\ UNCHANGED <<begun, thread, exit, job, asking, verdict>>

----------------------------------------------------------------------------
InstallsInit ==
    /\ invite = TRUE /\ begun = 0
    /\ thread = [i \in Installs |-> "none"]
    /\ exit = [i \in Installs |-> "none"]
    /\ job = [i \in Installs |-> [ok |-> FALSE, done |-> FALSE]]
    /\ asking = [i \in Installs |-> "none"]
    /\ verdict = [i \in Installs |-> "none"]

InstallEnds(i) == \E e \in {"zero", "other"} : Exits(i, e)

InstallStep(i) == LooksUp(i) \/ LogsIn(i) \/ Fetches(i) \/ InstallEnds(i) \/ Judges(i)

Polling(i) == Expires(i) \/ ReadsDone(i) \/ ReadsOk(i)

InstallsTypes ==
    /\ invite \in BOOLEAN /\ begun \in 0..MaxInstalls
    /\ thread \in [Installs -> {"none", "starting", "connecting", "fetching", "running",
                                "empty", "judging", "closing", "over"}]
    /\ exit \in [Installs -> {"none", "zero", "other"}]
    /\ job \in [Installs -> [ok : BOOLEAN, done : BOOLEAN]]
    /\ asking \in [Installs -> {"none", "ready", "done", "told"}]
    /\ verdict \in [Installs -> {"none", "installed", "failed", "request failed"}]
=============================================================================
