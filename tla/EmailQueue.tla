------------------------------ MODULE EmailQueue ------------------------------
(***************************************************************************)
(* The outgoing mail of verification codes.  A request for a code stores   *)
(* the code and a job and then drains that job itself; the cron worker and *)
(* a passing status request drain whatever is due.  Drains of several      *)
(* instances share only the tables: a job is claimed by an update of its   *)
(* status, its outcome is written by its id alone, and a job whose drain   *)
(* died comes back after STALE_SENDING_MS.                                 *)
(*                                                                         *)
(* Time is counted in minutes left or passed, so a row needs no clock:     *)
(* wait is the time to next_attempt_at, age the time since updated_at,     *)
(* left the time to expires_at.  One address is modelled: jobs of others   *)
(* meet it only in the mail slot, which here is free or not.               *)
(*                                                                         *)
(* What the rows cannot know is what the mail server took: a send that     *)
(* timed out may have been accepted all the same, and so may one whose     *)
(* drain died before it could say so.  mailed counts that.                 *)
(***************************************************************************)
EXTENDS Selections

CONSTANTS
  LastMail,        \* how many codes the address asks for
  Drains,          \* concurrent drains, one per running request or worker
  MaxMailFaults,   \* drains that die on the way, and answers of the mail server lost
  CodeMinutes,     \* CODE_TTL_MS
  StaleMinutes,    \* STALE_SENDING_MS
  RetryDelay(_)    \* outboxRetryDelayMs: minutes to wait after n failures

ASSUME MailAssumption ==
  /\ {LastMail, MaxMailFaults} \subseteq Nat
  /\ {CodeMinutes, StaleMinutes} \subseteq Nat \ {0}
  /\ \A n \in 1..2 : RetryDelay(n) \in Nat \ {0}

VARIABLES
  mailCode,    \* email_verification_codes by id
  mailJob,     \* email_outbox by id; job j carries code j
  mailDrain,   \* the running drains
  mailFaults,
  mailed       \* history: how often the mail server took the mail of a job

mailVars == <<mailCode, mailJob, mailDrain, mailFaults, mailed>>

Mails == 1..LastMail
MailAttempts == 3       \* OUTBOX_MAX_ATTEMPTS
BatchSize == 5          \* OUTBOX_BATCH_MAX
PauseMinutes == 1       \* of a job put back without an attempt

(* left = CodeMinutes + 1 when issued; 0 is past the expiry. *)
NoCode == [state |-> "none", left |-> 0]
NoJob == [status |-> "none", attempts |-> 0, wait |-> 0, age |-> 0]
NoDrain == [pc |-> "idle", want |-> 0, todo |-> <<>>, age |-> 0]

Codes == [state : {"none", "live", "used", "gone"}, left : 0..(CodeMinutes + 1)]
Jobs == [status : {"none", "pending", "sending", "sent", "failed"},
         attempts : 0..MailAttempts, wait : Nat, age : 0..(StaleMinutes + 1)]
Claimed == [id : Mails, attempts : 0..MailAttempts]
DrainStates == [pc : {"idle", "claim", "next", "sent", "error", "void"},
                want : 0..LastMail, todo : Seq(Claimed), age : 0..StaleMinutes]

Minus(n) == IF n = 0 THEN 0 ELSE n - 1
Older(n) == IF n > StaleMinutes THEN n ELSE n + 1

MailRowsOK ==
  /\ mailCode \in [Mails -> Codes]
  /\ mailJob \in [Mails -> Jobs]
  /\ mailDrain \in [Drains -> DrainStates]
  /\ mailFaults \in 0..MaxMailFaults

MailTypeOK == MailRowsOK /\ mailed \in [Mails -> 0..(1 + MaxMailFaults)]

MailInit ==
  /\ mailCode = [j \in Mails |-> NoCode]
  /\ mailJob = [j \in Mails |-> NoJob]
  /\ mailDrain = [d \in Drains |-> NoDrain]
  /\ mailFaults = 0
  /\ mailed = [j \in Mails |-> 0]

Usable(j) == mailCode[j].state = "live" /\ mailCode[j].left > 0
DueMail(j) == mailJob[j].status = "pending" /\ mailJob[j].wait = 0
Stale(job) == job.status = "sending" /\ job.age > StaleMinutes

(* Mutant: every job being sent counts as left behind. *)
RecoveredAny(job) ==
  IF job.status = "sending"
  THEN [job EXCEPT !.status = "pending", !.wait = PauseMinutes, !.age = 0] ELSE job

(* Mutant: a job being sent is left to its drain. *)
RecoveredNever(job) == job

(* recoverStaleSending, the first statement of every drain. *)
Recovered(job) ==
  IF Stale(job)
  THEN [job EXCEPT !.status = "pending", !.wait = PauseMinutes, !.age = 0] ELSE job

At(d, pc) == mailDrain[d].pc = pc
Hand(d) == Head(mailDrain[d].todo)
Goto(d, pc) == mailDrain' = [mailDrain EXCEPT ![d].pc = pc]

Working(d, rows) ==
  [pc |-> "next", want |-> mailDrain[d].want, todo |-> rows, age |-> mailDrain[d].age]

(* The loop goes on with the next claimed job. *)
Done(d) ==
  LET rest == Tail(mailDrain[d].todo)
  IN  mailDrain' = [mailDrain EXCEPT ![d] =
        IF rest = <<>> THEN NoDrain ELSE Working(d, rest)]

Written(status, attempts, wait) ==
  [status |-> status, attempts |-> attempts, wait |-> wait, age |-> 0]

(* Mutant: a job that goes back starts over. *)
RequeuedAnew(row, wait) == Written("pending", 0, wait)

Requeued(row, wait) == Written("pending", row.attempts, wait)
----------------------------------------------------------------------------
(* A code is asked for, at most once a minute: used and expired codes of    *)
(* the address are deleted, the code and its job are inserted, and the      *)
(* request starts to drain the job.                                         *)
SendCode(d, j) ==
  /\ At(d, "idle")
  /\ mailCode[j].state = "none"
  /\ \A c \in 1..(j - 1) : mailCode[c].state # "none" /\ mailCode[c].left <= CodeMinutes
  /\ mailCode' = [c \in Mails |->
       IF c = j THEN [state |-> "live", left |-> CodeMinutes + 1]
       ELSE IF mailCode[c].state = "none" \/ Usable(c) THEN mailCode[c]
       ELSE [state |-> "gone", left |-> 0]]
  /\ mailJob' = [c \in Mails |->
       IF c = j THEN Written("pending", 0, 0) ELSE Recovered(mailJob[c])]
  /\ mailDrain' = [mailDrain EXCEPT ![d] =
       [pc |-> "claim", want |-> j, todo |-> <<>>, age |-> 0]]
  /\ UNCHANGED <<mailFaults, mailed>>

DueInOrder(jobs) ==
  Select([j \in Mails |-> j], {j \in Mails : jobs[j].status = "pending" /\ jobs[j].wait = 0})

First(s, n) == SubSeq(s, 1, IF Len(s) < n THEN Len(s) ELSE n)

(* The claimed jobs become sending and are the drain's from here.           *)
Claim(d, jobs, picked) ==
  /\ mailJob' = [j \in Mails |->
       IF \E i \in DOMAIN picked : picked[i] = j
       THEN [jobs[j] EXCEPT !.status = "sending", !.age = 0] ELSE jobs[j]]
  /\ mailDrain' = [mailDrain EXCEPT ![d] =
       IF picked = <<>> THEN NoDrain
       ELSE Working(d, [i \in DOMAIN picked |->
                          [id |-> picked[i], attempts |-> jobs[picked[i]].attempts]])]
  /\ UNCHANGED <<mailCode, mailFaults, mailed>>

(* Mutant: the claim forgets to ask for a pending job.                      *)
ClaimOwnAny(d) ==
  /\ At(d, "claim")
  /\ Claim(d, mailJob, <<mailDrain[d].want>>)

(* claimJobById: the request takes its own job, unless another drain did.   *)
ClaimOwn(d) ==
  /\ At(d, "claim")
  /\ LET j == mailDrain[d].want
     IN Claim(d, mailJob, IF mailJob[j].status = "pending" THEN <<j>> ELSE <<>>)

(* claimDueOutbox: the worker or a status request takes at most max jobs    *)
(* that are due, oldest first.  A run that finds nothing changes nothing    *)
(* and is left out.                                                         *)
ClaimDue(d, max) ==
  /\ At(d, "idle")
  /\ \E j \in Mails : DueMail(j) \/ Stale(mailJob[j])
  /\ LET jobs == [j \in Mails |-> Recovered(mailJob[j])]
     IN Claim(d, jobs, First(DueInOrder(jobs), max))

(* The budget is used up: every claimed job left goes back untried. *)
OverBudget(d) ==
  /\ At(d, "next")
  /\ LET rows == mailDrain[d].todo
     IN mailJob' = [j \in Mails |->
          IF \E i \in DOMAIN rows : rows[i].id = j
          THEN Requeued(rows[CHOOSE i \in DOMAIN rows : rows[i].id = j], PauseMinutes)
          ELSE mailJob[j]]
  /\ mailDrain' = [mailDrain EXCEPT ![d] = NoDrain]
  /\ UNCHANGED <<mailCode, mailFaults, mailed>>

(* fetchCodeRow: a code used, expired or deleted is not mailed.             *)
FailExpired(d) ==
  /\ At(d, "next") /\ ~Usable(Hand(d).id)
  /\ mailJob' = [mailJob EXCEPT ![Hand(d).id] =
                   [@ EXCEPT !.status = "failed", !.age = 0]]
  /\ Goto(d, "void")
  /\ UNCHANGED <<mailCode, mailFaults, mailed>>

(* voidCode: a code that will not arrive is spent. *)
VoidCode(d) ==
  /\ At(d, "void")
  /\ mailCode' = [mailCode EXCEPT ![Hand(d).id].state =
                    IF @ = "gone" THEN "gone" ELSE "used"]
  /\ Done(d)
  /\ UNCHANGED <<mailJob, mailFaults, mailed>>

(* acquireMailSlot gives up.                                                *)
SlotBusy(d) ==
  /\ At(d, "next") /\ Usable(Hand(d).id)
  /\ mailJob' = [mailJob EXCEPT ![Hand(d).id] = Requeued(Hand(d), PauseMinutes)]
  /\ Done(d)
  /\ UNCHANGED <<mailCode, mailFaults, mailed>>

Accepted(j) == mailed' = [mailed EXCEPT ![j] = @ + 1]

(* The slot is free, or a worker sends without one: the server accepts the  *)
(* mail or refuses it,                                                      *)
Deliver(d) ==
  /\ At(d, "next") /\ Usable(Hand(d).id)
  /\ \/ Goto(d, "sent") /\ Accepted(Hand(d).id)
     \/ Goto(d, "error") /\ UNCHANGED mailed
  /\ UNCHANGED <<mailCode, mailJob, mailFaults>>

(* or accepts it and the drain takes that for an error: sendWithTimeout did *)
(* not wait for it, or it could not be written down.                        *)
AnswerLost(d) ==
  /\ At(d, "next") /\ Usable(Hand(d).id)
  /\ mailFaults < MaxMailFaults
  /\ mailFaults' = mailFaults + 1
  /\ Goto(d, "error") /\ Accepted(Hand(d).id)
  /\ UNCHANGED <<mailCode, mailJob>>

MarkSent(d) ==
  /\ At(d, "sent")
  /\ mailJob' = [mailJob EXCEPT ![Hand(d).id] =
                   [@ EXCEPT !.status = "sent", !.age = 0]]
  /\ Done(d)
  /\ UNCHANGED <<mailCode, mailFaults, mailed>>

MarkError(d) ==
  /\ At(d, "error")
  /\ LET row == Hand(d)
         after == row.attempts + 1
     IN IF after >= MailAttempts
        THEN /\ mailJob' = [mailJob EXCEPT ![row.id] =
                              [@ EXCEPT !.status = "failed", !.age = 0]]
             /\ Goto(d, "void")
        ELSE /\ mailJob' = [mailJob EXCEPT ![row.id] =
                              Written("pending", after, RetryDelay(after))]
             /\ Done(d)
  /\ UNCHANGED <<mailCode, mailFaults, mailed>>

(* The newest code is typed in and spent. *)
UseCode(j) ==
  /\ Usable(j)
  /\ \A c \in (j + 1)..LastMail : mailCode[c].state \in {"none", "gone"}
  /\ mailCode' = [mailCode EXCEPT ![j].state = "used"]
  /\ UNCHANGED <<mailJob, mailDrain, mailFaults, mailed>>

MailCrash(d) ==
  /\ ~At(d, "idle")
  /\ mailFaults < MaxMailFaults
  /\ mailFaults' = mailFaults + 1
  /\ mailDrain' = [mailDrain EXCEPT ![d] = NoDrain]
  /\ UNCHANGED <<mailCode, mailJob, mailed>>

(* A minute passes.  The timeouts of a drain end it before its claims are   *)
(* stale.                                                                   *)
MailMinute ==
  /\ \A d \in Drains : mailDrain[d].age < StaleMinutes
  /\ mailCode' = [j \in Mails |-> [mailCode[j] EXCEPT !.left = Minus(@)]]
  /\ mailJob' = [j \in Mails |->
       [mailJob[j] EXCEPT !.wait = Minus(@),
                          !.age = IF mailJob[j].status = "sending" THEN Older(@) ELSE 0]]
  /\ mailDrain' = [d \in Drains |->
       IF At(d, "idle") THEN NoDrain ELSE [mailDrain[d] EXCEPT !.age = @ + 1]]
  /\ UNCHANGED <<mailFaults, mailed>>

TryMail(d) == FailExpired(d) \/ SlotBusy(d) \/ Deliver(d)

DrainStep(d) ==
  \/ ClaimOwn(d) \/ OverBudget(d) \/ TryMail(d)
  \/ MarkSent(d) \/ MarkError(d) \/ VoidCode(d)

MailNext ==
  \/ \E d \in Drains : DrainStep(d) \/ AnswerLost(d) \/ MailCrash(d)
  \/ \E d \in Drains, max \in {1, BatchSize} : ClaimDue(d, max)
  \/ \E d \in Drains, j \in Mails : SendCode(d, j)
  \/ \E j \in Mails : UseCode(j)
  \/ MailMinute

MailSpec == MailInit /\ [][MailNext]_mailVars
----------------------------------------------------------------------------
(* Two drains never work on the same job, although outcomes are written by  *)
(* id alone and the claim has no owner: what keeps them apart is the status *)
(* and that a claim outlives the drain that made it.                        *)
OneDrainPerMail ==
  \A d, e \in Drains : d # e =>
    \A i \in DOMAIN mailDrain[d].todo, k \in DOMAIN mailDrain[e].todo :
      mailDrain[d].todo[i].id # mailDrain[e].todo[k].id

(* A row as the job of a queue: a mail is wanted while its code counts.     *)
JobState ==
  [none |-> "none", pending |-> "waiting", sending |-> "taken", sent |-> "sent",
   failed |-> "dropped"]

MailAsJob(j) ==
  LET row == mailJob[j]
  IN  [state |-> JobState[row.status],
       tries |-> IF row.status \in {"pending", "sending"} THEN row.attempts ELSE 0]

Mailing == INSTANCE JobPromise WITH
  JobIds <- Mails, MaxTries <- MailAttempts,
  job <- [j \in Mails |-> MailAsJob(j)], wanted <- {j \in Mails : Usable(j)}

(* The rows of the jobs keep the promise of a queue, whatever requests, drains *)
(* and instance starts do to them: the counts of attempts that drains write *)
(* are true, a job that is settled stays so, and one whose code still counts *)
(* is not dropped before its attempts are used up.  It speaks of the rows    *)
(* only, not of what the mail server took.                                   *)
MailsKeepPromise == Mailing!Promise

(* What is written down as sent was taken by the mail server, and the server *)
(* takes a mail once, but for each drain that died and each answer that was *)
(* lost: two drains, a recovered job, a busy slot, a used-up budget or a    *)
(* refused attempt never mail a code once more.  (Each of those faults may: *)
(* the job starts again, and its code may still count.)                     *)
MailsAreCounted ==
  \A j \in Mails :
    /\ mailJob[j].status = "sent" => mailed[j] > 0
    /\ mailed[j] <= mailFaults + (IF mailJob[j].status \in {"sending", "sent"} THEN 1 ELSE 0)

(* Every job, through whatever drains, crashes and retries, ends as sent or *)
(* failed.                                                                  *)
MailsSettle == <>[](\A j \in Mails : mailJob[j].status \in {"none", "sent", "failed"})
============================================================================
