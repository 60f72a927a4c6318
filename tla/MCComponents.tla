---------------------------- MODULE MCComponents ----------------------------
(***************************************************************************)
(* The components that share no state with the others, checked together:   *)
(* a behaviour picks one of them at its start and runs that one alone.     *)
(* The fairness of each is stated here; the README says why the code gives *)
(* it.                                                                     *)
(***************************************************************************)
EXTENDS EmailQueue, DiagnosticQueue, BackupLease, DeviceCommands,
        PluginPairing, WriteQueue, AnnouncementReceipts

VARIABLE part

vars == <<mailVars, postVars, backupVars, deviceVars, pairVars, queueVars, ackVars, part>>

Parts == {"mail", "post", "backup", "device", "pair", "queue", "ack"}

(* Minutes to the second and the third attempt at a mail (1 and 5 in the    *)
(* code, where a code lives for 5).  As there, the code has expired before  *)
(* the third, and it has not when a job left behind is due again.           *)
Delay(n) == IF n = 1 THEN 1 ELSE 3

Init ==
  /\ part \in Parts
  /\ MailInit /\ PostInit /\ BackupInit /\ DeviceInit
  /\ PairInit /\ QueueInit /\ ReceiptInit

In(p) == part = p

(* A step of one component leaves the others alone. *)
Alone(p) ==
  /\ UNCHANGED part
  /\ IF p = "mail" THEN TRUE ELSE UNCHANGED mailVars
  /\ IF p = "post" THEN TRUE ELSE UNCHANGED postVars
  /\ IF p = "backup" THEN TRUE ELSE UNCHANGED backupVars
  /\ IF p = "device" THEN TRUE ELSE UNCHANGED deviceVars
  /\ IF p = "pair" THEN TRUE ELSE UNCHANGED pairVars
  /\ IF p = "queue" THEN TRUE ELSE UNCHANGED queueVars
  /\ IF p = "ack" THEN TRUE ELSE UNCHANGED ackVars

Next ==
  \/ In("mail") /\ MailNext /\ Alone("mail")
  \/ In("post") /\ PostNext /\ Alone("post")
  \/ In("backup") /\ BackupNext /\ Alone("backup")
  \/ In("device") /\ DeviceNext /\ Alone("device")
  \/ In("pair") /\ PairNext /\ Alone("pair")
  \/ In("queue") /\ QueueNext /\ Alone("queue")
  \/ In("ack") /\ ReceiptNext /\ Alone("ack")

(* What each component does by itself.  As only one of them runs, the       *)
(* actions of all can share a fairness condition.                           *)
Slots == Drains \cup Posters \cup Heartbeats \cup Polls \cup Flushes

Goes(s) ==
  \/ In("mail") /\ s \in Drains /\ DrainStep(s) /\ Alone("mail")
  \/ In("post") /\ s \in Posters /\ PosterStep(s) /\ Alone("post")
  \/ In("device") /\ s \in Heartbeats /\ BeatStep(s) /\ Alone("device")
  \/ In("pair") /\ s \in Polls /\ PollStep(s) /\ Alone("pair")
  \/ In("ack") /\ s \in Flushes /\ FlushStep(s) /\ Alone("ack")

Begins ==
  \/ In("mail") /\ (\E d \in Drains : ClaimDue(d, BatchSize)) /\ Alone("mail")
  \/ In("post") /\ (\E w \in Posters : ClaimBundles(w, 10)) /\ Alone("post")
  \/ In("device") /\ (\E h \in Heartbeats : SendBeat(h)) /\ Alone("device")
  \/ In("ack") /\ (\E f \in Flushes : PollFlush(f)) /\ Alone("ack")
  \/ In("pair") /\ (\E b \in Binders : BinderStep(b)) /\ Alone("pair")
  \/ In("queue") /\ (StartWrite \/ AnswerWrite \/ FinishWrite) /\ Alone("queue")

Passes ==
  \/ In("mail") /\ MailMinute /\ Alone("mail")
  \/ In("post") /\ PostMinute /\ Alone("post")
  \/ In("device") /\ (\E c \in Commands : PostTemporary(c)) /\ Alone("device")

Recurs ==
  \/ In("mail") /\ (\E d \in Drains : TryMail(d)) /\ Alone("mail")
  \/ In("post") /\ (\E w \in Posters : PostBundle(w)) /\ Alone("post")
  \/ In("device") /\ (\E c \in Commands : RunLate(c)) /\ Alone("device")
  \/ In("pair") /\ (\E q \in Polls, p \in Plugins : PairStatus(q, p)) /\ Alone("pair")

Fairness ==
  /\ \A s \in Slots : WF_vars(Goes(s))
  /\ WF_vars(Begins)
  /\ WF_vars(Passes)
  /\ SF_vars(Recurs)

Spec == Init /\ [][Next]_vars /\ Fairness
----------------------------------------------------------------------------
(* Every variable of the component that runs stays in its type, bounds of   *)
(* attempts, slots and counters included.                                   *)
TypeOK ==
  CASE part = "mail" -> MailTypeOK
    [] part = "post" -> PostTypeOK
    [] part = "backup" -> BackupTypeOK
    [] part = "device" -> DeviceTypeOK
    [] part = "pair" -> PairTypeOK
    [] part = "queue" -> QueueTypeOK
    [] OTHER -> ReceiptTypeOK
============================================================================
