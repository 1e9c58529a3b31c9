---------------------------- MODULE TaskRegister ----------------------------
(***************************************************************************)
(* What the task store promises to those who ask for a task: its status    *)
(* is a durable register.  There is no memory, no database, no clean-up    *)
(* and no restart here; a status only changes along the edges of Follows,  *)
(* and only a deletion makes a task disappear.  One that comes back to the *)
(* queue after its deletion may be forgotten with it.  The promise ends    *)
(* with the first write that fails: the answer may then be an older one.   *)
(***************************************************************************)
CONSTANT Tasks

VARIABLES
  status,  \* what is answered
  failed   \* a write has failed

vars == <<status, failed>>

Ended == {"completed", "failed", "cancelled"}

Status == {"absent", "scheduled", "queued", "running", "paused"} \cup Ended

\* The types of the variables.
TypeOK == status \in [Tasks -> Status] /\ failed \in BOOLEAN

Init == status = [t \in Tasks |-> "absent"] /\ failed = FALSE

\* The statuses a task of status s may have next.  A task is scheduled or
\* queued only at its beginning: no step leads back.
Follows(s) ==
  CASE s = "absent"    -> {"scheduled", "queued", "running"}
    [] s = "scheduled" -> {"queued", "running", "failed", "cancelled"}
    [] s = "queued"    -> {"running", "paused", "failed", "cancelled"}
    [] s = "running"   -> {"paused"} \cup Ended
    [] s = "paused"    -> {"running"} \cup Ended
    [] OTHER           -> {"running", "cancelled"}

\* One step changes the status of any number of tasks: a sweep of the
\* scheduler or a batch does.
Change ==
  /\ status' \in [Tasks -> Status]
  /\ \A t \in Tasks : status'[t] = status[t] \/ status'[t] \in Follows(status[t])
  /\ failed = FALSE
  /\ UNCHANGED failed

Delete(t) ==
  /\ status[t] # "absent"
  /\ status' = [status EXCEPT ![t] = "absent"]
  /\ UNCHANGED failed

\* A coroutine that has begun after the deletion of its task shows the task
\* as queued, although nothing was saved: a restart forgets all of these.
Forget(S) ==
  /\ \A t \in S : status[t] = "queued"
  /\ status' = [t \in Tasks |-> IF t \in S THEN "absent" ELSE status[t]]
  /\ UNCHANGED failed

Fail ==
  /\ failed' = TRUE
  /\ status' \in [Tasks -> Status]

Next ==
  \/ Change
  \/ \E t \in Tasks : Delete(t)
  \/ \E S \in SUBSET Tasks : Forget(S)
  \/ Fail

Spec == Init /\ [][Next]_vars
=============================================================================
