----------------------------- MODULE JobPromise -----------------------------
(***************************************************************************)
(* What a queue of jobs promises: a job is taken, tried at most MaxTries   *)
(* times, and ends as sent or dropped for good.  It is dropped only after  *)
(* its last try or when nobody wants it any more, no failed try is lost or *)
(* counted twice, and giving a job back does not count.  Workers, claims,  *)
(* leases, crashes and delays are not visible here; one step may move many *)
(* jobs, as one statement does.                                            *)
(***************************************************************************)
EXTENDS Naturals

CONSTANTS
  JobIds,
  MaxTries

VARIABLES
  job,      \* job -> its state and, while it is open, the failed tries
  wanted    \* the jobs somebody still wants done

jobVars == <<job, wanted>>

Unasked == [state |-> "none", tries |-> 0]

JobInit ==
  /\ job = [j \in JobIds |-> Unasked]
  /\ wanted = {}

Is(j, state) == job[j].state = state
Becomes(j, state, tries) == job'[j] = [state |-> state, tries |-> tries]

(* Who adds a job may take it at once. *)
Add(j) == Is(j, "none") /\ (Becomes(j, "waiting", 0) \/ Becomes(j, "taken", 0))
Take(j) == Is(j, "waiting") /\ Becomes(j, "taken", job[j].tries)
GiveBack(j) == Is(j, "taken") /\ Becomes(j, "waiting", job[j].tries)
Send(j) == Is(j, "taken") /\ Becomes(j, "sent", 0)

FailTry(j) ==
  LET failed == job[j].tries + 1
  IN  /\ Is(j, "taken")
      /\ \/ failed < MaxTries /\ Becomes(j, "waiting", failed)
         \/ failed = MaxTries /\ Becomes(j, "dropped", 0)

Withdraw(j) == ~Is(j, "none") /\ j \notin wanted /\ Becomes(j, "dropped", 0)

Moves(j) == Add(j) \/ Take(j) \/ GiveBack(j) \/ Send(j) \/ FailTry(j) \/ Withdraw(j)

(* A job is wanted from the moment it is added, if at all. *)
JobNext ==
  \A j \in JobIds :
    /\ job'[j] = job[j] \/ Moves(j)
    /\ j \in wanted' => j \in wanted \/ Add(j)

Promise == JobInit /\ [][JobNext]_jobVars
=============================================================================
