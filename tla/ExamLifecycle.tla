--------------------------- MODULE ExamLifecycle ---------------------------
(***************************************************************************)
(* The lifecycle of exams in the server's database and every process that  *)
(* writes it: the lazy system advance, the requests of administrators, the *)
(* saves of clients and the reset of all exams.                            *)
(*                                                                         *)
(* Each process is a request handler of a stateless server.  It reads, and *)
(* later writes, with statements that are atomic one by one; between two   *)
(* of them any other handler may run.  What a handler has read stays in    *)
(* its own record, so a decision may rest on rows that have changed since. *)
(***************************************************************************)
EXTENDS ExamRules

CONSTANTS
  Workers,    \* concurrent calls of advanceExamLifecycle
  Requests,   \* HTTP requests of administrators, each sent once
  Saves,      \* HTTP saves of clients, each sent once
  Actions,    \* the actions administrators ask for
  Keys,       \* idempotency keys
  Edits,      \* the kinds of edits clients make
  Bases,      \* what the saves of clients are guarded by
  Windows,    \* the <<start, end>> windows clients choose
  Instances,  \* server instances that start meanwhile
  MaxClock,   \* bound: the last instant of the clock
  MaxResets   \* bound: how often the exam data is reset

ASSUME ProcessAssumption ==
  /\ Actions \subseteq Operations \cup Transitions \cup {"copy"}
  /\ Windows \subseteq Nat \X Nat
  /\ Bases \subseteq {"revision", "version", "blank"}
  /\ Null \notin Keys
  /\ Null \notin Actions
  /\ MaxClock \in Nat
  /\ MaxResets \in Nat

VARIABLES
  clock,      \* Date.now(), shared by all instances
  majors,     \* exam_data.majors, by exam
  version,    \* exam_data.updated_at
  revision,   \* exam_data.revisions.major
  records,    \* exam_records, by exam
  opLog,      \* the keyed rows of exam_record_operations
  autoLog,    \* how many system rows it holds, by phase and exam
  applied,    \* snapshot writes carrying each key (history)
  worker,     \* the advance calls
  request,    \* the administrators' requests
  save,       \* the clients' saves
  resets,     \* resets done so far
  instance    \* the instances that start

db == <<majors, version, revision, records, opLog, autoLog, applied>>
vars == <<clock, db, worker, request, save, resets, instance>>

Max2(a, b) == IF a < b THEN b ELSE a

WorkerState ==
  [step : {"idle", "due", "snapshot", "commit"}, phase : Phases, at : Nat,
   due : Tables, majors : Snapshots, version : Nat]

RequestState ==
  [step : {"new", "plan", "snapshot", "commit", "project", "done"},
   action : Actions \cup {Null}, exam : Exams \cup {Null},
   key : Keys \cup {Null}, at : Nat, row : Record \cup {Null},
   majors : Snapshots, version : Nat,
   reply : {"none", "ok", "replayed", "conflict", "refused"}]

SaveState ==
  [step : {"new", "editing", "write", "project", "done"},
   base : {"revision", "version"}, majors : Snapshots,
   carriesMajors : BOOLEAN, revision : Nat, version : Nat, at : Nat,
   reply : {"none", "ok", "conflict"}]

InstanceState == [step : {"cold", "project", "up"}, majors : Snapshots]

LogEntry == [key : Keys, action : Actions, exam : Exams, result : Exams]

TypeOK ==
  /\ clock \in Nat
  /\ majors \in Snapshots
  /\ version \in Nat
  /\ revision \in Nat
  /\ records \in Tables
  /\ opLog \subseteq LogEntry
  /\ autoLog \in [Phases -> [Exams -> Nat]]
  /\ applied \in [Keys -> Nat]
  /\ worker \in [Workers -> WorkerState]
  /\ request \in [Requests -> RequestState]
  /\ save \in [Saves -> SaveState]
  /\ resets \in Nat
  /\ instance \in [Instances -> InstanceState]

----------------------------------------------------------------------------
IdleWorker ==
  [step |-> "idle", phase |-> "start", at |-> 0, due |-> Nothing,
   majors |-> Nothing, version |-> 0]

NewRequest ==
  [step |-> "new", action |-> Null, exam |-> Null, key |-> Null, at |-> 0,
   row |-> Null, majors |-> Nothing, version |-> 0, reply |-> "none"]

NewSave ==
  [step |-> "new", base |-> "version", majors |-> Nothing, carriesMajors |-> FALSE,
   revision |-> 0, version |-> 0, at |-> 0, reply |-> "none"]

(* A quick exam is created with its window; a formal one may get it later. *)
WindowsOf(e) == IF e \in Quick THEN Windows ELSE Windows \cup {<<Null, Null>>}

(* Some exams have been created and projected; nothing has happened yet. *)
Init ==
  /\ clock = 0
  /\ \E E \in SUBSET Exams, window \in [Exams -> Windows \cup {<<Null, Null>>}] :
       /\ \A e \in E : window[e] \in WindowsOf(e)
       /\ majors = [e \in Exams |->
            IF e \in E THEN NewMajor(FALSE, window[e][1], window[e][2]) ELSE Null]
  /\ version = 1
  /\ revision = 1
  /\ records = Projected(majors, Nothing)
  /\ opLog = {}
  /\ autoLog = [p \in Phases |-> [e \in Exams |-> 0]]
  /\ applied = [k \in Keys |-> 0]
  /\ worker = [w \in Workers |-> IdleWorker]
  /\ request = [r \in Requests |-> NewRequest]
  /\ save = [s \in Saves |-> NewSave]
  /\ resets = 0
  /\ instance = [i \in Instances |-> [step |-> "cold", majors |-> Nothing]]

Tick ==
  /\ clock < MaxClock
  /\ clock' = clock + 1
  /\ UNCHANGED <<db, worker, request, save, resets, instance>>

(* Mutant: updated_at is the time of the write, whatever it was before. *)
WriteSnapshotAtTime(next, at) ==
  /\ majors' = next
  /\ version' = Max2(at, version)
  /\ revision' = revision + 1

(* Mutant: the revision of the exams is bumped by saves only. *)
WriteSnapshotUnrevised(next, at) ==
  /\ majors' = next
  /\ version' = Max2(at, version + 1)
  /\ revision' = revision

(* Every write of exam_data.majors outside a save bumps both counters.      *)
WriteSnapshot(next, at) ==
  /\ majors' = next
  /\ version' = Max2(at, version + 1)
  /\ revision' = revision + 1

(* Advances and requests commit under one advisory lock, one at a time.     *)
(* Their transactions are single steps but for that of a lost request.      *)
LockFree == \A r \in Requests : request[r].step # "project"

(* A projection of a snapshot read earlier, perhaps no longer the stored one.*)
LateProjection(seen) ==
  /\ records' = Projected(seen, records)
  /\ UNCHANGED <<majors, version, revision, opLog, autoLog, applied>>

----------------------------------------------------------------------------
(* advanceExamLifecycle: three phases, each one a query for due rows, a     *)
(* read of the snapshot and one transaction per due row.                    *)

Advance(w) ==
  /\ worker[w].step = "idle"
  /\ worker' = [worker EXCEPT ![w] = [IdleWorker EXCEPT !.step = "due",
                                                        !.at = clock]]
  /\ UNCHANGED <<clock, db, request, save, resets, instance>>

(* The heartbeat of a device that shows an exam: nothing is started.        *)
Heartbeat(w) ==
  /\ worker[w].step = "idle"
  /\ worker' = [worker EXCEPT ![w] = [IdleWorker EXCEPT !.step = "due",
                                       !.phase = "end", !.at = clock]]
  /\ UNCHANGED <<clock, db, request, save, resets, instance>>

(* Mutant: a call whose phase has nothing due returns. *)
PhaseDoneAtOnce(wk) == IdleWorker

(* Mutant: finished quick exams are left to the heartbeats. *)
PhaseDoneAtEnd(wk) ==
  IF wk.phase # "start" THEN IdleWorker
  ELSE [IdleWorker EXCEPT !.step = "due", !.at = wk.at, !.phase = "end"]

(* What remains of call wk once its current phase has no row left. *)
PhaseDone(wk) ==
  IF wk.phase = "archive" THEN IdleWorker
  ELSE [IdleWorker EXCEPT !.step = "due", !.at = wk.at,
          !.phase = IF wk.phase = "start" THEN "end" ELSE "archive"]

DueRows(phase, at) == {e \in Held(records) : Due(phase, e, records[e], at)}

SelectDue(w) ==
  LET wk == worker[w]
      rows == DueRows(wk.phase, wk.at)
  IN  /\ wk.step = "due"
      /\ worker' = [worker EXCEPT ![w] =
           IF rows = {} THEN PhaseDone(wk)
           ELSE [wk EXCEPT !.step = "snapshot",
                           !.due = [e \in Exams |-> IF e \in rows THEN records[e] ELSE Null]]]
      /\ UNCHANGED <<clock, db, request, save, resets, instance>>

(* Mutant: the query does not ask for updated_at. *)
ReadForAdvanceWithoutVersion(w) ==
  /\ worker[w].step = "snapshot"
  /\ worker' = [worker EXCEPT ![w] =
                  [@ EXCEPT !.step = "commit", !.majors = majors]]
  /\ UNCHANGED <<clock, db, request, save, resets, instance>>

ReadForAdvance(w) ==
  /\ worker[w].step = "snapshot"
  /\ worker' = [worker EXCEPT ![w] = [@ EXCEPT
                  !.step = "commit", !.majors = majors, !.version = version]]
  /\ UNCHANGED <<clock, db, request, save, resets, instance>>

RowDone(wk, e) ==
  IF Held(wk.due) = {e} THEN PhaseDone(wk) ELSE [wk EXCEPT !.due[e] = Null]

(* The exam has left the snapshot: nothing to advance. *)
SkipRow(w, e) ==
  /\ worker[w].step = "commit"
  /\ e \in Held(worker[w].due) \ Held(worker[w].majors)
  /\ worker' = [worker EXCEPT ![w] = RowDone(worker[w], e)]
  /\ UNCHANGED <<clock, db, request, save, resets, instance>>

AdvancedMajors(wk, e) ==
  [wk.majors EXCEPT ![e] = SystemMajor(wk.phase, @, wk.due[e])]

(* commitSystemTransition: the snapshot is written and the log row inserted *)
(* when the version still matches; the record only if it is still due.      *)
WriteTransition(wk, e) ==
  /\ wk.step = "commit" /\ LockFree
  /\ e \in Held(wk.due) \cap Held(wk.majors)
  /\ wk.version = version
  /\ WriteSnapshot(AdvancedMajors(wk, e), wk.at)
  /\ autoLog' = [autoLog EXCEPT ![wk.phase][e] = @ + 1]
  /\ UNCHANGED <<clock, opLog, applied, request, save, resets, instance>>

(* Mutant: the loop takes the new version and keeps the copy it had. *)
CommitRowKeepingCopy(w, e) ==
  LET wk == worker[w]
  IN  /\ WriteTransition(wk, e)
      /\ Due(wk.phase, e, records[e], wk.at)
      /\ records' = [records EXCEPT ![e] =
                       SystemRecord(wk.phase, @, wk.due[e])]
      /\ worker' = [worker EXCEPT ![w] =
           RowDone([wk EXCEPT !.version = version'], e)]

CommitRow(w, e) ==
  LET wk == worker[w]
  IN  /\ WriteTransition(wk, e)
      /\ Due(wk.phase, e, records[e], wk.at)
      /\ records' = [records EXCEPT ![e] =
                       SystemRecord(wk.phase, @, wk.due[e])]
      /\ worker' = [worker EXCEPT ![w] =
           RowDone([wk EXCEPT !.majors = AdvancedMajors(wk, e),
                              !.version = version'], e)]

(* The row is no longer due, yet its snapshot and log writes stay; the call *)
(* keeps the copy and the version it had.                                   *)
CommitStaleRow(w, e) ==
  LET wk == worker[w]
  IN  /\ WriteTransition(wk, e)
      /\ ~Due(wk.phase, e, records[e], wk.at)
      /\ worker' = [worker EXCEPT ![w] = RowDone(wk, e)]
      /\ UNCHANGED records

LoseRow(w, e) ==
  LET wk == worker[w]
  IN  /\ wk.step = "commit" /\ LockFree
      /\ e \in Held(wk.due) \cap Held(wk.majors)
      /\ wk.version # version
      /\ worker' = [worker EXCEPT ![w] = RowDone(wk, e)]
      /\ UNCHANGED <<clock, db, request, save, resets, instance>>

WorkerStep(w) ==
  \/ SelectDue(w)
  \/ ReadForAdvance(w)
  \/ \E e \in Exams : \/ SkipRow(w, e)
                      \/ CommitRow(w, e)
                      \/ CommitStaleRow(w, e)
                      \/ LoseRow(w, e)

----------------------------------------------------------------------------
(* handleRecordAction. *)

(* A new identifier is random: nobody else holds it, nor ever will.         *)
Fresh(e) ==
  /\ records[e] = Null /\ majors[e] = Null
  /\ \A s \in Saves : save[s].majors[e] = Null
  /\ \A w \in Workers : worker[w].majors[e] = Null
  /\ \A r \in Requests : request[r].majors[e] = Null
  /\ \A i \in Instances : instance[i].majors[e] = Null

Logged(key) == \E entry \in opLog : entry.key = key

Answered(rq, reply) ==
  [NewRequest EXCEPT !.step = "done", !.key = rq.key, !.reply = reply]

Reply(r, reply) ==
  request' = [request EXCEPT ![r] = Answered(request[r], reply)]

(* The request arrives, takes the write slot and looks its key up: a key    *)
(* already logged is replayed, or refused if it was used for something else.*)
Submit(r) ==
  /\ request[r].step = "new"
  /\ \E action \in Actions, e \in Held(records), key \in Keys \cup {Null} :
       LET rq == [NewRequest EXCEPT !.step = "plan", !.action = action,
                    !.exam = e, !.key = key, !.at = clock]
           same == {entry \in opLog : entry.key = key /\ entry.action = action
                                      /\ entry.exam = e}
       IN /\ action \in {"copy", "extend"} => key # Null
          /\ request' = [request EXCEPT ![r] =
               IF ~Logged(key) THEN rq
               ELSE Answered(rq, IF same # {} THEN "replayed" ELSE "refused")]
  /\ UNCHANGED <<clock, db, worker, save, resets, instance>>

ReadRecord(r) ==
  LET rq == request[r]
      row == records[rq.exam]
  IN  /\ rq.step = "plan"
      /\ IF rq.action = "copy" \/ Permitted(rq.action, rq.exam, row, rq.at)
         THEN request' = [request EXCEPT ![r] =
                           [@ EXCEPT !.step = "snapshot", !.row = row]]
         ELSE Reply(r, "refused")
      /\ UNCHANGED <<clock, db, worker, save, resets, instance>>

(* RECORD_NOT_IN_SNAPSHOT unless the exam is there; a copy does not care.   *)
ReadForAction(r) ==
  /\ request[r].step = "snapshot"
  /\ IF request[r].action = "copy" \/ request[r].exam \in Held(majors)
     THEN request' = [request EXCEPT ![r] = [@ EXCEPT
                        !.step = "commit", !.majors = majors, !.version = version]]
     ELSE Reply(r, "refused")
  /\ UNCHANGED <<clock, db, worker, save, resets, instance>>

(* Mutant: the patch of an operation reaches the record only. *)
ChangedMajorUnpatched(rq, major) == MarkedMajor(rq.action, major)

ChangedMajor(rq, major) ==
  Apply(MarkedMajor(rq.action, major),
        OperationPatch(rq.action, rq.row, rq.at))

ChangedRecord(rq, current) ==
  Apply(MarkedRecord(rq.action, current, NextStatus(rq.action, rq.row)),
        OperationPatch(rq.action, rq.row, rq.at))

LogOperation(rq, result) ==
  opLog' = IF rq.key = Null \/ Logged(rq.key) THEN opLog
           ELSE opLog \cup {[key |-> rq.key, action |-> rq.action,
                             exam |-> rq.exam, result |-> result]}

CountApplied(rq) ==
  applied' = IF rq.key = Null THEN applied
             ELSE [applied EXCEPT ![rq.key] = @ + 1]

(* The snapshot, the log row and the record in one statement, and then the  *)
(* projection in the same transaction.  The record is only written when the *)
(* log row was: a key that was logged meanwhile leaves the row to the       *)
(* projection and is answered as a replay.                                  *)
CommitAction(r) ==
  LET rq == request[r]
      next == [rq.majors EXCEPT ![rq.exam] = ChangedMajor(rq, @)]
      won == ~Logged(rq.key)
      row == [records EXCEPT ![rq.exam] = ChangedRecord(rq, @)]
  IN  /\ rq.step = "commit" /\ rq.action # "copy" /\ LockFree
      /\ rq.version = version
      /\ WriteSnapshot(next, rq.at)
      /\ LogOperation(rq, rq.exam)
      /\ CountApplied(rq)
      /\ records' = Projected(next, IF won THEN row ELSE records)
      /\ Reply(r, IF won THEN "ok" ELSE "replayed")
      /\ UNCHANGED <<clock, autoLog, worker, save, resets, instance>>

(* Somebody else wrote the snapshot first: the statement matches no row and *)
(* so locks none.  The projection that follows in the transaction takes its *)
(* own view of the snapshot (exam_data is not locked), ...                  *)
LoseAction(r) ==
  /\ request[r].step = "commit" /\ request[r].action # "copy" /\ LockFree
  /\ request[r].version # version
  /\ request' = [request EXCEPT ![r] =
       [Answered(@, "none") EXCEPT !.step = "project", !.majors = majors]]
  /\ UNCHANGED <<clock, db, worker, save, resets, instance>>

(* ... and waits for the rows that others are writing.  Without a key the   *)
(* answer is a conflict; with one the handler takes the lost version for a  *)
(* lost race on the key.                                                    *)
ProjectLost(r) ==
  LET rq == request[r]
  IN  /\ rq.step = "project"
      /\ LateProjection(rq.majors)
      /\ Reply(r, IF rq.key = Null THEN "conflict" ELSE "replayed")
      /\ UNCHANGED <<clock, worker, save, resets, instance>>

(* A copy is a draft under a fresh identifier, without a projection run.    *)
CommitCopy(r, e) ==
  LET rq == request[r]
      copy == NewMajor(TRUE, Null, Null)
      won == ~Logged(rq.key)
  IN  /\ rq.step = "commit" /\ rq.action = "copy" /\ LockFree
      /\ e \notin Quick /\ Fresh(e)
      /\ rq.version = version
      /\ WriteSnapshot([rq.majors EXCEPT ![e] = copy], rq.at)
      /\ LogOperation(rq, e)
      /\ CountApplied(rq)
      /\ records' = IF won THEN [records EXCEPT ![e] = Inserted(e, copy)]
                    ELSE records
      /\ Reply(r, IF won THEN "ok" ELSE "conflict")
      /\ UNCHANGED <<clock, autoLog, worker, save, resets, instance>>

LoseCopy(r) ==
  /\ request[r].step = "commit" /\ request[r].action = "copy" /\ LockFree
  /\ request[r].version # version
  /\ Reply(r, "conflict")
  /\ UNCHANGED <<clock, db, worker, save, resets, instance>>

RequestStep(r) ==
  \/ ReadRecord(r)
  \/ ReadForAction(r)
  \/ CommitAction(r)
  \/ LoseAction(r)
  \/ ProjectLost(r)
  \/ \E e \in Exams : CommitCopy(r, e)
  \/ LoseCopy(r)

----------------------------------------------------------------------------
(* handleExamDataPost, as a client uses it. *)

(* The client loads a snapshot to edit, with its version and revision.      *)
(* Clients that know revisions guard the domains they write by revision,    *)
(* older ones guard the whole row by its version.                           *)
Fetch(s) ==
  /\ save[s].step = "new"
  /\ \E base \in Bases \ {"blank"} :
       save' = [save EXCEPT ![s] = [NewSave EXCEPT !.step = "editing",
                  !.base = base, !.majors = majors, !.revision = revision,
                  !.version = version]]
  /\ UNCHANGED <<clock, db, worker, request, resets, instance>>

(* A client edits before it has ever loaded a snapshot: its base is 0.      *)
EditBlank(s) ==
  /\ save[s].step = "new"
  /\ "blank" \in Bases
  /\ save' = [save EXCEPT ![s] = [NewSave EXCEPT !.step = "editing"]]
  /\ UNCHANGED <<clock, db, worker, request, resets, instance>>

(* The edits of the exam pages, on the client's copy. *)
Edited(copy, edit, e, w) ==
  CASE edit = "create" -> [copy EXCEPT ![e] = NewMajor(FALSE, w[1], w[2])]
    [] edit = "delete" -> [copy EXCEPT ![e] = Null]
    [] edit = "reschedule" ->
         [copy EXCEPT ![e].startAt = w[1], ![e].endAt = w[2]]
    [] edit = "endQuick" -> [copy EXCEPT ![e].actualEndAt = clock]
    [] OTHER -> copy

Editable(copy, edit, e) ==
  \/ edit = "create" /\ copy[e] = Null /\ Fresh(e)
  \/ edit \in {"delete", "reschedule"} /\ copy[e] # Null
  \/ edit = "endQuick" /\ copy[e] # Null /\ e \in Quick
  \/ edit = "other"

(* Fields the client's copy may lack: older clients drop what they do not   *)
(* know, and whatever is missing would erase the server's value.            *)
Stripped(copy) ==
  [e \in Exams |->
     IF copy[e] = Null THEN Null
     ELSE [copy[e] EXCEPT !.actualStartAt = Null, !.pausedAt = Null,
                          !.pausedMs = 0, !.archived = FALSE]]

(* A client that knows revisions sends the exams only when it edited them;  *)
(* they are sanitized against the snapshot of this moment.                  *)
Arrived(sv, sent, edit, e, window, rescheduled) ==
  LET carries == edit # "other" \/ sv.base = "version"
  IN  [sv EXCEPT
         !.step = "write", !.at = clock, !.carriesMajors = carries,
         !.majors = IF carries
                    THEN Sanitized(majors, Edited(sent, edit, e, window), rescheduled)
                    ELSE Nothing]

ReadForSave(s) ==
  /\ save[s].step = "editing"
  /\ \E edit \in Edits, e \in Exams, rescheduled \in BOOLEAN,
        sent \in {save[s].majors, Stripped(save[s].majors)} :
       /\ Editable(save[s].majors, edit, e)
       /\ rescheduled => edit = "reschedule"
       /\ \E w \in WindowsOf(e) :
            save' = [save EXCEPT ![s] = Arrived(@, sent, edit, e, w, rescheduled)]
  /\ UNCHANGED <<clock, db, worker, request, resets, instance>>

(* The WHERE clause of the update; a base of 0 matches every row.           *)
Matches(sv) ==
  IF sv.base = "revision" THEN sv.revision = revision
  ELSE sv.version = 0 \/ sv.version = version

WriteSave(s) ==
  LET sv == save[s]
      next == IF sv.carriesMajors THEN sv.majors ELSE majors
  IN  /\ sv.step = "write"
      /\ sv.carriesMajors => Matches(sv)
      /\ majors' = next
      /\ version' = Max2(sv.at, version + 1)
      /\ revision' = IF next = majors THEN revision ELSE revision + 1
      /\ records' = Projected(next, records)
      /\ save' = [save EXCEPT ![s] = [NewSave EXCEPT !.step = "done",
                                                     !.reply = "ok"]]
      /\ UNCHANGED <<clock, opLog, autoLog, applied, worker, request, resets, instance>>

(* Like a lost action, a rejected save still projects. *)
RejectSave(s) ==
  LET sv == save[s]
  IN  /\ sv.step = "write"
      /\ sv.carriesMajors => ~Matches(sv)
      /\ save' = [save EXCEPT ![s] = [NewSave EXCEPT !.step = "project",
                                                     !.majors = majors]]
      /\ UNCHANGED <<clock, db, worker, request, resets, instance>>

ProjectRejected(s) ==
  /\ save[s].step = "project"
  /\ LateProjection(save[s].majors)
  /\ save' = [save EXCEPT ![s] = [NewSave EXCEPT !.step = "done",
                                                 !.reply = "conflict"]]
  /\ UNCHANGED <<clock, worker, request, resets, instance>>

SaveStep(s) ==
  \/ ReadForSave(s)
  \/ WriteSave(s)
  \/ RejectSave(s)
  \/ ProjectRejected(s)

----------------------------------------------------------------------------
(* handleResetData with the category of exams: unconditional, and the       *)
(* records stay.                                                            *)
ResetData ==
  /\ resets < MaxResets
  /\ resets' = resets + 1
  /\ WriteSnapshot(Nothing, clock)
  /\ UNCHANGED <<clock, records, opLog, autoLog, applied, worker, request, save,
                 instance>>

(* An instance that starts projects the snapshot once more, in one statement *)
(* that sees the snapshot as it was when the statement began.               *)
StartInstance(i) ==
  /\ instance[i].step = "cold"
  /\ instance' = [instance EXCEPT ![i] = [step |-> "project", majors |-> majors]]
  /\ UNCHANGED <<clock, db, worker, request, save, resets>>

ProjectAtStart(i) ==
  /\ instance[i].step = "project"
  /\ LateProjection(instance[i].majors)
  /\ instance' = [instance EXCEPT ![i] = [step |-> "up", majors |-> Nothing]]
  /\ UNCHANGED <<clock, worker, request, save, resets>>

Next ==
  \/ Tick
  \/ \E w \in Workers : Advance(w) \/ Heartbeat(w) \/ WorkerStep(w)
  \/ \E r \in Requests : Submit(r) \/ RequestStep(r)
  \/ \E s \in Saves : Fetch(s) \/ EditBlank(s) \/ SaveStep(s)
  \/ ResetData
  \/ \E i \in Instances : StartInstance(i) \/ ProjectAtStart(i)

Spec == Init /\ [][Next]_vars

(* Devices send heartbeats for as long as they run, and each one calls      *)
(* advanceExamLifecycle; a handler that has begun runs to its end.          *)
Fairness ==
  /\ WF_vars(Tick)
  /\ \A w \in Workers : SF_vars(Advance(w)) /\ WF_vars(WorkerStep(w))
  /\ \A r \in Requests : WF_vars(RequestStep(r))
  /\ \A s \in Saves : WF_vars(SaveStep(s))
  /\ \A i \in Instances : WF_vars(ProjectAtStart(i))

FairSpec == Spec /\ Fairness

----------------------------------------------------------------------------
(* Properties. *)

Over(status) == status \in {"ended", "archived"}
Rank(status) ==
  CASE status = "draft" -> 0 [] status = "published" -> 1
    [] status = "ended" -> 2 [] OTHER -> 3

(* Optimistic concurrency rests on this: whoever has read the snapshot and  *)
(* still sees the same updated_at holds exactly the stored majors, also     *)
(* inside the loop of an advance that has already committed some rows.      *)
CopiesAreCurrent ==
  /\ \A w \in Workers : worker[w].step = "commit" =>
       /\ worker[w].version <= version
       /\ worker[w].version = version => worker[w].majors = majors
  /\ \A r \in Requests : request[r].step = "commit" =>
       /\ request[r].version <= version
       /\ request[r].version = version => request[r].majors = majors

(* A record that is over is over in the snapshot classrooms read, unless    *)
(* the exam has left it: nobody keeps showing an exam the office has ended. *)
EndedRecordEndedInSnapshot ==
  \A e \in Held(records) \cap Held(majors) :
    Over(records[e].status) => majors[e].actualEndAt # Null

(* The same for the start, which the advance writes to both.                *)
StartedRecordStartedInSnapshot ==
  \A e \in Held(records) \cap Held(majors) :
    records[e].actualStartAt # Null => majors[e].actualStartAt # Null

(* planExamOperation promises that a paused exam has been started; so it is *)
(* for the row and for the major, whoever paused and started it.            *)
PausedIsStarted ==
  /\ \A e \in Held(records) :
       records[e].pausedAt # Null => records[e].actualStartAt # Null
  /\ \A e \in Held(majors) :
       majors[e].pausedAt # Null => majors[e].actualStartAt # Null

(* An archived row says when it was archived: the projection never leaves   *)
(* status archived beside an empty archived_at.                             *)
ArchivedHasTimestamp ==
  \A e \in Held(records) : records[e].status = "archived" => records[e].archived

(* Every change of the exams moves updated_at and the revision forward, so  *)
(* neither kind of client can save over something it has not seen.          *)
ChangesAreVersioned ==
  [][/\ version' >= version /\ revision' >= revision
     /\ majors' # majors => version' > version /\ revision' > revision]_vars

(* An exam that is over never becomes live again, not even when a request   *)
(* that saw it live commits after the end.                                  *)
OverIsFinal ==
  [][\A e \in Held(records) :
       Over(records[e].status) => e \in Held(records') /\ Over(records'[e].status)]_vars

(* What a record says of the actual start and end stays said: a projection  *)
(* of a snapshot from before the start or the end takes neither back.       *)
HistoryIsKept ==
  [][\A e \in Held(records) :
       /\ records[e].actualStartAt # Null => records'[e].actualStartAt # Null
       /\ records[e].actualEndAt # Null => records'[e].actualEndAt # Null]_vars

Saved(s) ==
  /\ save[s].step = "write" /\ save'[s].step = "done"
  /\ save[s].base = "revision" \/ save[s].version # 0

(* A save that names its base changes no running state of an exam it keeps: *)
(* what background actions wrote between the client's read and its save     *)
(* survives, and so does the end of a formal exam.                          *)
SaveKeepsLifecycle ==
  [][\A s \in Saves : Saved(s) =>
       \A e \in Held(majors) \cap Held(majors') :
         /\ majors'[e].actualStartAt = majors[e].actualStartAt
         /\ majors'[e].pausedAt = majors[e].pausedAt
         /\ majors'[e].pausedMs = majors[e].pausedMs
         /\ majors'[e].archived = majors[e].archived
         /\ e \notin Quick => majors'[e].actualEndAt = majors[e].actualEndAt]_vars

(* An archived exam is read-only for such saves: none edits or removes it,  *)
(* even if it was archived after the client read it.                        *)
ArchivedIsFrozen ==
  [][\A s \in Saves : Saved(s) =>
       \A e \in Held(majors) : majors[e].archived => majors'[e] = majors[e]]_vars

(* A transaction of the advance or of a request changes one exam: whatever  *)
(* others wrote to the rest of the document is still there.                 *)
OneExamPerTransaction ==
  [][worker' # worker \/ request' # request =>
       \A e, f \in Exams :
         majors'[e] # majors[e] /\ majors'[f] # majors[f] => e = f]_vars

(* Once an exam in the snapshot is due to start it is started, or no longer *)
(* due because somebody moved, ended or removed it.                         *)
InPlay(e) == e \in Held(records) \cap Held(majors)
IsDue(phase, e) == InPlay(e) /\ Due(phase, e, records[e], clock)

DueExamsStart == \A e \in Exams : IsDue("start", e) ~> ~IsDue("start", e)

(* Likewise for the end of a started exam, *)
DueExamsEnd == \A e \in Exams : IsDue("end", e) ~> ~IsDue("end", e)

(* and for the archiving of quick exams. *)
FinishedQuickExamsAreArchived ==
  \A e \in Quick : IsDue("archive", e) ~> ~IsDue("archive", e)

(* What the code says of itself and does not keep. *)

(* Each exam is started by the system once and logged once.                 *)
AutoStartLoggedOnce == \A e \in Exams : autoLog["start"][e] <= 1

(* handleRecordConsistency: the projection may run ahead of the snapshot,   *)
(* but a status behind it or another window is drift.                       *)
Drifted(e) ==
  LET wanted == Inserted(e, majors[e])
  IN  \/ Rank(records[e].status) < Rank(wanted.status)
      \/ records[e].startAt # wanted.startAt
      \/ records[e].endAt # wanted.endAt
      \/ wanted.archived /\ ~records[e].archived

(* No transaction leaves drift between snapshot and projection behind.      *)
NoDrift == \A e \in Held(majors) \cap Held(records) : ~Drifted(e)

(* Only unarchive takes an exam out of the archive.                         *)
OnlyUnarchiveLeavesArchive ==
  [][\A e \in Held(records) :
       records[e].status = "archived" /\ records'[e].status # "archived" =>
         \E r \in Requests : /\ request[r].step = "commit"
                             /\ request'[r].step = "done"
                             /\ request[r].action = "unarchive"]_vars

(* A request answered as a replay repeats an operation that was carried out.*)
ReplayMeansDone ==
  \A r \in Requests : request[r].reply = "replayed" => Logged(request[r].key)

(* An idempotency key is carried out at most once.                          *)
KeyAppliedOnce == \A k \in Keys : applied[k] <= 1
============================================================================
