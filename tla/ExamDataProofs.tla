--------------------------- MODULE ExamDataProofs ---------------------------
(***************************************************************************)
(* The two tables of the exams, for any number of handlers and clients.    *)
(*                                                                         *)
(* exam_data, first: every change of the exams is versioned, so a handler  *)
(* that still sees the version it read holds the stored exams, so its      *)
(* commit changes the one exam it is about and overwrites nobody else's    *)
(* work, and a client's save leaves the running state of the exams alone.  *)
(*                                                                         *)
(* exam_records, second: what its rows keep, whoever writes them and       *)
(* however old the snapshot or the row the writer has read: a start, an    *)
(* end, and the time of archiving.                                         *)
(***************************************************************************)
EXTENDS ExamLifecycleProofs


VersionedStep ==
  /\ version' >= version /\ revision' >= revision
  /\ majors' # majors => version' > version /\ revision' > revision

LEMMA WorkerStepVersioned ==
  ASSUME IInv, NEW w \in Workers, Advance(w) \/ Heartbeat(w) \/ WorkerStep(w)
  PROVE  VersionedStep
<1>1. version \in Nat /\ revision \in Nat
  BY DEF IInv, TypeOK
<1>2. CASE \E e \in Exams : CommitRow(w, e) \/ CommitStaleRow(w, e)
  <2>1. PICK e \in Exams : WriteTransition(worker[w], e)
    BY <1>2 DEF CommitRow, CommitStaleRow
  <2>2. /\ version' \in Nat /\ revision' \in Nat
        /\ version' > version /\ revision' > revision
    BY <2>1, WriteTransitionType
  <2> QED
    BY <1>1, <2>2 DEF VersionedStep
<1>3. CASE UNCHANGED db
  BY <1>1, <1>3 DEF VersionedStep, db
<1> QED
  BY <1>2, <1>3
  DEF WorkerStep, Advance, Heartbeat, SelectDue, ReadForAdvance, SkipRow, LoseRow

LEMMA RequestStepVersioned ==
  ASSUME IInv, NEW r \in Requests, Submit(r) \/ RequestStep(r)
  PROVE  VersionedStep
<1>1. version \in Nat /\ revision \in Nat
  BY DEF IInv, TypeOK
<1>2. CASE CommitAction(r) \/ \E e \in Exams : CommitCopy(r, e)
  <2>1. /\ IInv' /\ version' > version /\ revision' > revision
    BY <1>2, CommitActionInvariant, CommitCopyInvariant
  <2>2. version' \in Nat /\ revision' \in Nat
    BY <2>1 DEF IInv, TypeOK
  <2> QED
    BY <1>1, <2>1, <2>2 DEF VersionedStep
<1>3. CASE UNCHANGED <<majors, version, revision>>
  BY <1>1, <1>3 DEF VersionedStep
<1> QED
  BY <1>2, <1>3
  DEF RequestStep, Submit, ReadRecord, ReadForAction, LoseAction, ProjectLost,
      LoseCopy, LateProjection, db

LEMMA SaveStepVersioned ==
  ASSUME IInv, NEW s \in Saves, Fetch(s) \/ EditBlank(s) \/ SaveStep(s)
  PROVE  VersionedStep
<1>1. version \in Nat /\ revision \in Nat
  BY DEF IInv, TypeOK
<1>2. CASE WriteSave(s)
  <2>1. /\ IInv' /\ version' > version /\ revision' >= revision
        /\ majors' # majors => revision' > revision
    BY <1>2, WriteSaveInvariant
  <2>2. version' \in Nat /\ revision' \in Nat
    BY <2>1 DEF IInv, TypeOK
  <2> QED
    BY <1>1, <2>1, <2>2 DEF VersionedStep
<1>3. CASE UNCHANGED <<majors, version, revision>>
  BY <1>1, <1>3 DEF VersionedStep
<1> QED
  BY <1>2, <1>3
  DEF SaveStep, Fetch, EditBlank, ReadForSave, RejectSave, ProjectRejected,
      LateProjection, db

LEMMA NextVersioned == IInv /\ [Next]_vars => VersionedStep
<1> SUFFICES ASSUME IInv, [Next]_vars PROVE VersionedStep
  OBVIOUS
<1>1. version \in Nat /\ revision \in Nat
  BY DEF IInv, TypeOK
<1>2. CASE Tick \/ UNCHANGED vars
  BY <1>1, <1>2 DEF Tick, vars, db, VersionedStep
<1>3. CASE ResetData
  <2>1. IInv' /\ version' > version /\ revision' > revision
    BY <1>3, ResetInvariant
  <2>2. version' \in Nat /\ revision' \in Nat
    BY <2>1 DEF IInv, TypeOK
  <2> QED
    BY <1>1, <2>1, <2>2 DEF VersionedStep
<1>4. CASE \E i \in Instances : StartInstance(i) \/ ProjectAtStart(i)
  BY <1>1, <1>4 DEF StartInstance, ProjectAtStart, LateProjection, db, VersionedStep
<1> QED
  BY <1>2, <1>3, <1>4, WorkerStepVersioned, RequestStepVersioned, SaveStepVersioned
  DEF Next

(* Every change of the exams, whoever makes it, moves updated_at and the    *)
(* revision forward: no clock that stands still or runs back hides it from  *)
(* a client that guards its save by either of them.                         *)
THEOREM ChangesVersioned == Spec => ChangesAreVersioned
<1>1. IInv /\ [Next]_vars =>
        [/\ version' >= version /\ revision' >= revision
         /\ majors' # majors => version' > version /\ revision' > revision]_vars
  BY NextVersioned DEF VersionedStep
<1> QED
  BY <1>1, InductiveInvariant, PTL DEF Spec, ChangesAreVersioned

----------------------------------------------------------------------------
(* Whoever is about to commit with the current version holds the current    *)
(* exams.  x is a call of the advance or a request.                         *)
Holds(x, v, m) ==
  x.step = "commit" => x.version <= v /\ (x.version = v => x.majors = m)

CInv == IInv /\ CopiesAreCurrent

LEMMA CopiesByHolder ==
  CopiesAreCurrent <=>
    /\ \A w \in Workers : Holds(worker[w], version, majors)
    /\ \A r \in Requests : Holds(request[r], version, majors)
  BY DEF CopiesAreCurrent, Holds

LEMMA VersionTypes ==
  ASSUME IInv
  PROVE  /\ version \in Nat
         /\ \A w \in Workers : worker[w].version \in Nat
         /\ \A r \in Requests : request[r].version \in Nat
  BY DEF IInv, TypeOK, WorkerState, RequestState

(* A copy read before the step does not become wrong by it.                 *)
LEMMA HoldsStays ==
  ASSUME VersionedStep, version \in Nat, version' \in Nat,
         NEW x, x.version \in Nat, Holds(x, version, majors)
  PROVE  Holds(x, version', majors')
  BY DEF Holds, VersionedStep

LEMMA WorkerCopies ==
  ASSUME CInv, IInv', VersionedStep, NEW w \in Workers, NEW wk,
         worker' = [worker EXCEPT ![w] = wk], UNCHANGED request,
         Holds(wk, version', majors')
  PROVE  CopiesAreCurrent'
<1>1. \A x \in Workers : Holds(worker[x], version', majors')
  BY HoldsStays, VersionTypes, CopiesByHolder DEF CInv, IInv, TypeOK
<1>2. \A r \in Requests : Holds(request[r], version', majors')
  BY HoldsStays, VersionTypes, CopiesByHolder DEF CInv, IInv, TypeOK
<1>3. \A x \in Workers : worker'[x] = IF x = w THEN wk ELSE worker[x]
  BY DEF CInv, IInv, TypeOK
<1>4. \A x \in Workers : Holds(worker'[x], version', majors')
  BY <1>1, <1>3
<1> QED
  BY <1>2, <1>4 DEF CopiesAreCurrent, Holds

LEMMA RequestCopies ==
  ASSUME CInv, IInv', VersionedStep, NEW r \in Requests, NEW rq,
         request' = [request EXCEPT ![r] = rq], UNCHANGED worker,
         Holds(rq, version', majors')
  PROVE  CopiesAreCurrent'
<1>1. \A x \in Requests : Holds(request[x], version', majors')
  BY HoldsStays, VersionTypes, CopiesByHolder DEF CInv, IInv, TypeOK
<1>2. \A w \in Workers : Holds(worker[w], version', majors')
  BY HoldsStays, VersionTypes, CopiesByHolder DEF CInv, IInv, TypeOK
<1>3. \A x \in Requests : request'[x] = IF x = r THEN rq ELSE request[x]
  BY DEF CInv, IInv, TypeOK
<1>4. \A x \in Requests : Holds(request'[x], version', majors')
  BY <1>1, <1>3
<1> QED
  BY <1>2, <1>4 DEF CopiesAreCurrent, Holds

LEMMA OtherCopies ==
  ASSUME CInv, IInv', VersionedStep, UNCHANGED <<worker, request>>
  PROVE  CopiesAreCurrent'
<1>1. \A x \in Requests : Holds(request[x], version', majors')
  BY HoldsStays, VersionTypes, CopiesByHolder DEF CInv, IInv, TypeOK
<1>2. \A w \in Workers : Holds(worker[w], version', majors')
  BY HoldsStays, VersionTypes, CopiesByHolder DEF CInv, IInv, TypeOK
<1> QED
  BY <1>1, <1>2 DEF CopiesAreCurrent, Holds

LEMMA RowDoneHolds ==
  ASSUME NEW wk \in WorkerState, NEW e \in Exams, NEW v, NEW m, Holds(wk, v, m)
  PROVE  Holds(RowDone(wk, e), v, m)
<1>1. CASE Held(wk.due) = {e}
  BY <1>1, PhaseDoneSound DEF RowDone, Holds
<1>2. CASE Held(wk.due) # {e}
  <2>1. RowDone(wk, e) = [wk EXCEPT !.due = [wk.due EXCEPT ![e] = Null]]
    BY <1>2 DEF RowDone
  <2>2. /\ RowDone(wk, e).step = wk.step
        /\ RowDone(wk, e).version = wk.version
        /\ RowDone(wk, e).majors = wk.majors
    BY <2>1 DEF WorkerState
  <2> QED
    BY <2>2 DEF Holds
<1> QED
  BY <1>1, <1>2

LEMMA WorkerStepCopies ==
  ASSUME CInv, IInv', VersionedStep, NEW w \in Workers,
         Advance(w) \/ Heartbeat(w) \/ WorkerStep(w)
  PROVE  CopiesAreCurrent'
<1> DEFINE wk == worker[w]
<1>1. /\ IInv /\ wk \in WorkerState /\ Holds(wk, version, majors)
      /\ version \in Nat /\ version' \in Nat /\ wk.version \in Nat
  BY CopiesByHolder, VersionTypes DEF CInv, IInv, TypeOK
<1>2. Holds(wk, version', majors')
  BY <1>1, HoldsStays
<1>3. CASE Advance(w) \/ Heartbeat(w)
  <2> DEFINE start == [IdleWorker EXCEPT !.step = "due", !.at = clock]
             end == [IdleWorker EXCEPT !.step = "due", !.phase = "end", !.at = clock]
  <2>1. PICK new \in {start, end} :
          worker' = [worker EXCEPT ![w] = new] /\ UNCHANGED request
    BY <1>3 DEF Advance, Heartbeat
  <2>2. start.step = "due" /\ end.step = "due"
    BY DEF IdleWorker
  <2> HIDE DEF start, end
  <2>3. Holds(new, version', majors')
    BY <2>1, <2>2 DEF Holds
  <2> QED
    BY <2>1, <2>3, WorkerCopies
<1>4. CASE SelectDue(w)
  <2> DEFINE rows == DueRows(wk.phase, wk.at)
             due == [e \in Exams |-> IF e \in rows THEN records[e] ELSE Null]
             next == [wk EXCEPT !.step = "snapshot", !.due = due]
             new == IF rows = {} THEN PhaseDone(wk) ELSE next
  <2>1. worker' = [worker EXCEPT ![w] = new] /\ UNCHANGED request
    BY <1>4 DEF SelectDue
  <2>2. next.step = "snapshot"
    BY <1>1 DEF WorkerState
  <2> HIDE DEF next
  <2>3. new.step # "commit"
    BY <1>1, <2>2, PhaseDoneSound
  <2> HIDE DEF new
  <2>4. Holds(new, version', majors')
    BY <2>3 DEF Holds
  <2> QED
    BY <2>1, <2>4, WorkerCopies
<1>5. CASE ReadForAdvance(w)
  <2> DEFINE new == [wk EXCEPT !.step = "commit", !.majors = majors,
                               !.version = version]
  <2>1. worker' = [worker EXCEPT ![w] = new] /\ UNCHANGED <<request, majors, version>>
    BY <1>5 DEF ReadForAdvance, db, CInv, IInv, TypeOK
  <2>2. new.majors = majors /\ new.version = version
    BY <1>1 DEF WorkerState
  <2> HIDE DEF new
  <2>3. Holds(new, version', majors')
    BY <1>1, <2>1, <2>2 DEF Holds
  <2> QED
    BY <2>1, <2>3, WorkerCopies
<1>6. CASE \E e \in Exams : SkipRow(w, e) \/ LoseRow(w, e) \/ CommitStaleRow(w, e)
  <2>1. PICK e \in Exams : worker' = [worker EXCEPT ![w] = RowDone(wk, e)]
                           /\ UNCHANGED request
    BY <1>6 DEF SkipRow, LoseRow, CommitStaleRow, WriteTransition
  <2>2. Holds(RowDone(wk, e), version', majors')
    BY <1>1, <1>2, RowDoneHolds
  <2> QED
    BY <2>1, <2>2, WorkerCopies
<1>7. CASE \E e \in Exams : CommitRow(w, e)
  <2>1. PICK e \in Exams : CommitRow(w, e)
    BY <1>7
  <2> DEFINE new == [wk EXCEPT !.majors = AdvancedMajors(wk, e), !.version = version']
  <2>2. WriteTransition(wk, e) /\ UNCHANGED request
        /\ worker' = [worker EXCEPT ![w] = RowDone(new, e)]
    BY <2>1 DEF CommitRow, WriteTransition
  <2>3. AdvancedMajors(wk, e) \in Snapshots /\ majors' = AdvancedMajors(wk, e)
    BY <1>1, <2>2, WriteTransitionType
  <2>4. new \in WorkerState /\ new.majors = majors' /\ new.version = version'
    BY <1>1, <2>3 DEF WorkerState
  <2> HIDE DEF new
  <2>5. Holds(new, version', majors')
    BY <1>1, <2>4 DEF Holds
  <2>6. Holds(RowDone(new, e), version', majors')
    BY <2>4, <2>5, RowDoneHolds
  <2> QED
    BY <2>2, <2>6, WorkerCopies
<1> QED
  BY <1>3, <1>4, <1>5, <1>6, <1>7 DEF WorkerStep

LEMMA RequestStepCopies ==
  ASSUME CInv, IInv', VersionedStep, NEW r \in Requests, Submit(r) \/ RequestStep(r)
  PROVE  CopiesAreCurrent'
<1> DEFINE rq == request[r]
<1>1. /\ IInv /\ rq \in RequestState /\ version \in Nat /\ request \in [Requests -> RequestState]
  BY VersionTypes DEF CInv, IInv, TypeOK
<1>2. \A x, reply : Answered(x, reply).step = "done"
  BY DEF Answered, NewRequest
<1>3. CASE Submit(r)
  <2>1. PICK new : request' = [request EXCEPT ![r] = new] /\ UNCHANGED worker
                   /\ new.step # "commit"
    <3>1. PICK action \in Actions, e \in Held(records), key \in Keys \cup {Null},
               reply \in {"replayed", "refused"} :
            LET q == [NewRequest EXCEPT !.step = "plan", !.action = action,
                        !.exam = e, !.key = key, !.at = clock]
            IN  request' = [request EXCEPT ![r] =
                  IF ~Logged(key) THEN q ELSE Answered(q, reply)]
      BY <1>3 DEF Submit
    <3> DEFINE q == [NewRequest EXCEPT !.step = "plan", !.action = action,
                        !.exam = e, !.key = key, !.at = clock]
               new == IF ~Logged(key) THEN q ELSE Answered(q, reply)
    <3>2. q.step = "plan"
      BY DEF NewRequest
    <3> HIDE DEF q
    <3>3. new.step # "commit"
      BY <1>2, <3>2
    <3>4. request' = [request EXCEPT ![r] = new]
      BY <3>1 DEF q
    <3>5. UNCHANGED worker
      BY <1>3 DEF Submit
    <3> HIDE DEF new
    <3> QED
      BY <3>3, <3>4, <3>5
  <2>2. Holds(new, version', majors')
    BY <2>1 DEF Holds
  <2> QED
    BY <2>1, <2>2, RequestCopies
<1>4. CASE ReadRecord(r)
  <2> DEFINE next == [rq EXCEPT !.step = "snapshot", !.row = records[rq.exam]]
  <2>1. next.step = "snapshot" /\ UNCHANGED worker
    BY <1>1, <1>4 DEF ReadRecord, RequestState
  <2>2. \/ request' = [request EXCEPT ![r] = next]
        \/ request' = [request EXCEPT ![r] = Answered(rq, "refused")]
    BY <1>1, <1>4 DEF ReadRecord, Reply
  <2> HIDE DEF next
  <2>3. Holds(next, version', majors') /\ Holds(Answered(rq, "refused"), version', majors')
    BY <1>2, <2>1 DEF Holds
  <2> QED
    BY <2>1, <2>2, <2>3, RequestCopies
<1>5. CASE ReadForAction(r)
  <2> DEFINE next == [rq EXCEPT !.step = "commit", !.majors = majors,
                                !.version = version]
  <2>1. UNCHANGED <<worker, majors, version>>
    BY <1>5 DEF ReadForAction, db
  <2>2. next.majors = majors /\ next.version = version
    BY <1>1 DEF RequestState
  <2>3. \/ request' = [request EXCEPT ![r] = next]
        \/ request' = [request EXCEPT ![r] = Answered(rq, "refused")]
    BY <1>1, <1>5 DEF ReadForAction, Reply
  <2> HIDE DEF next
  <2>4. Holds(next, version', majors') /\ Holds(Answered(rq, "refused"), version', majors')
    BY <1>1, <1>2, <2>1, <2>2 DEF Holds
  <2> QED
    BY <2>1, <2>3, <2>4, RequestCopies
<1>6. CASE \/ CommitAction(r) \/ ProjectLost(r) \/ LoseCopy(r)
           \/ \E e \in Exams : CommitCopy(r, e)
  <2>1. PICK reply : request' = [request EXCEPT ![r] = Answered(rq, reply)]
                     /\ UNCHANGED worker
    BY <1>6 DEF CommitAction, ProjectLost, LoseCopy, CommitCopy, Reply
  <2>2. Holds(Answered(rq, reply), version', majors')
    BY <1>2 DEF Holds
  <2> QED
    BY <2>1, <2>2, RequestCopies
<1>7. CASE LoseAction(r)
  <2> DEFINE answer == Answered(rq, "none")
             next == [answer EXCEPT !.step = "project", !.majors = majors]
  <2>1. answer \in RequestState
    BY <1>1, ReplySound
  <2>2. next.step = "project"
    BY <2>1 DEF RequestState
  <2>3. request' = [request EXCEPT ![r] = next] /\ UNCHANGED worker
    BY <1>1, <1>7 DEF LoseAction
  <2> HIDE DEF next
  <2>4. Holds(next, version', majors')
    BY <2>2 DEF Holds
  <2> QED
    BY <2>3, <2>4, RequestCopies
<1> QED
  BY <1>3, <1>4, <1>5, <1>6, <1>7 DEF RequestStep

LEMMA NextCopies == CInv /\ [Next]_vars => CInv'
<1> SUFFICES ASSUME CInv, [Next]_vars PROVE CopiesAreCurrent'
  BY NextInvariant DEF CInv
<1>1. IInv' /\ VersionedStep
  BY NextInvariant, NextVersioned DEF CInv
<1>2. CASE \E w \in Workers : Advance(w) \/ Heartbeat(w) \/ WorkerStep(w)
  BY <1>1, <1>2, WorkerStepCopies
<1>3. CASE \E r \in Requests : Submit(r) \/ RequestStep(r)
  BY <1>1, <1>3, RequestStepCopies
<1>4. CASE \E s \in Saves : Fetch(s) \/ EditBlank(s) \/ SaveStep(s)
  <2>1. UNCHANGED <<worker, request>>
    BY <1>4 DEF Fetch, EditBlank, SaveStep, ReadForSave, WriteSave, RejectSave,
                ProjectRejected
  <2> QED
    BY <1>1, <2>1, OtherCopies
<1>5. CASE Tick \/ ResetData \/ UNCHANGED vars
  <2>1. UNCHANGED <<worker, request>>
    BY <1>5 DEF Tick, ResetData, vars
  <2> QED
    BY <1>1, <2>1, OtherCopies
<1>6. CASE \E i \in Instances : StartInstance(i) \/ ProjectAtStart(i)
  <2>1. UNCHANGED <<worker, request>>
    BY <1>6 DEF StartInstance, ProjectAtStart
  <2> QED
    BY <1>1, <2>1, OtherCopies
<1> QED
  BY <1>2, <1>3, <1>4, <1>5, <1>6 DEF Next

LEMMA InitialCopies == Init => CInv
<1> SUFFICES ASSUME Init PROVE CInv
  OBVIOUS
<1>1. /\ \A w \in Workers : worker[w].step = "idle"
      /\ \A r \in Requests : request[r].step = "new"
  BY DEF Init, IdleWorker, NewRequest
<1> QED
  BY <1>1, InitialInvariant DEF CInv, CopiesAreCurrent

(* Every handler about to commit either holds the stored exams or will lose *)
(* the comparison of versions, however many handlers run and wherever they  *)
(* are interrupted: the check on updated_at is enough.                      *)
THEOREM CopiesCurrent == Spec => []CopiesAreCurrent
<1>1. Spec => []CInv
  BY InitialCopies, NextCopies, PTL DEF Spec
<1>2. CInv => CopiesAreCurrent
  BY DEF CInv
<1> QED
  BY <1>1, <1>2, PTL

----------------------------------------------------------------------------
(* The exams a step may change. *)
OneChanged ==
  \A e, f \in Exams : majors'[e] # majors[e] /\ majors'[f] # majors[f] => e = f

LEMMA WorkerStepOne ==
  ASSUME CInv, NEW w \in Workers, Advance(w) \/ Heartbeat(w) \/ WorkerStep(w)
  PROVE  OneChanged
<1>1. CASE \E e \in Exams : CommitRow(w, e) \/ CommitStaleRow(w, e)
  <2>1. PICK e \in Exams : WriteTransition(worker[w], e)
    BY <1>1 DEF CommitRow, CommitStaleRow
  <2>2. worker[w].majors = majors /\ majors \in Snapshots
    BY <2>1 DEF WriteTransition, CInv, CopiesAreCurrent, IInv, TypeOK
  <2>3. majors' = AdvancedMajors(worker[w], e)
    BY <2>1, WriteTransitionType DEF CInv
  <2>4. \A x \in Exams : x # e => majors'[x] = majors[x]
    BY <2>2, <2>3 DEF AdvancedMajors, Snapshots
  <2> QED
    BY <2>4 DEF OneChanged
<1>2. CASE UNCHANGED majors
  BY <1>2 DEF OneChanged
<1> QED
  BY <1>1, <1>2
  DEF WorkerStep, Advance, Heartbeat, SelectDue, ReadForAdvance, SkipRow, LoseRow, db

LEMMA RequestStepOne ==
  ASSUME CInv, NEW r \in Requests, Submit(r) \/ RequestStep(r)
  PROVE  OneChanged
<1>1. CASE CommitAction(r) \/ \E e \in Exams : CommitCopy(r, e)
  <2>1. PICK e, major : majors' = [request[r].majors EXCEPT ![e] = major]
    BY <1>1 DEF CommitAction, CommitCopy, WriteSnapshot
  <2>2. request[r].majors = majors /\ majors \in Snapshots
    BY <1>1 DEF CommitAction, CommitCopy, CInv, CopiesAreCurrent, IInv, TypeOK
  <2>3. \A x \in Exams : x # e => majors'[x] = majors[x]
    BY <2>1, <2>2 DEF Snapshots
  <2> QED
    BY <2>3 DEF OneChanged
<1>2. CASE UNCHANGED majors
  BY <1>2 DEF OneChanged
<1> QED
  BY <1>1, <1>2
  DEF RequestStep, Submit, ReadRecord, ReadForAction, LoseAction, ProjectLost,
      LoseCopy, LateProjection, db

LEMMA NextOne ==
  ASSUME CInv, [Next]_vars, worker' # worker \/ request' # request
  PROVE  OneChanged
<1>1. ~Tick /\ ~ResetData /\ ~UNCHANGED vars
  BY DEF Tick, ResetData, vars
<1>2. \A s \in Saves : ~(Fetch(s) \/ EditBlank(s) \/ SaveStep(s))
  BY DEF Fetch, EditBlank, SaveStep, ReadForSave, WriteSave, RejectSave,
         ProjectRejected
<1>3. \A i \in Instances : ~(StartInstance(i) \/ ProjectAtStart(i))
  BY DEF StartInstance, ProjectAtStart
<1> QED
  BY <1>1, <1>2, <1>3, WorkerStepOne, RequestStepOne DEF Next

(* A transaction of the advance or of an administrator's request changes    *)
(* one exam of the document it writes back whole: no interleaving makes it  *)
(* overwrite what another handler has written to any other exam.            *)
THEOREM OneExam == Spec => OneExamPerTransaction
<1>1. CInv /\ [Next]_vars =>
        [worker' # worker \/ request' # request =>
           \A e, f \in Exams :
             majors'[e] # majors[e] /\ majors'[f] # majors[f] => e = f]_vars
  BY NextOne DEF OneChanged
<1> QED
  BY <1>1, InitialCopies, NextCopies, PTL DEF Spec, OneExamPerTransaction
----------------------------------------------------------------------------
(* What the saves of clients leave alone, however old the copy they edit    *)
(* and however much of it they drop.                                        *)

(* What the server takes from a client of an exam it holds. *)
KeepsRunning(e, major, sent) ==
  /\ sent.actualStartAt = major.actualStartAt
  /\ sent.pausedAt = major.pausedAt
  /\ sent.pausedMs = major.pausedMs
  /\ sent.archived = major.archived
  /\ e \notin Quick => sent.actualEndAt = major.actualEndAt
  /\ major.actualEndAt # Null => sent.actualEndAt # Null

Respects(sent, stored) ==
  \A e \in Held(stored) :
    /\ stored[e].archived => sent[e] = stored[e]
    /\ sent[e] # Null => KeepsRunning(e, stored[e], sent[e])

(* A save whose guard would match was checked against what is stored. *)
Guarded(sv, v, r) ==
  IF sv.base = "revision" THEN sv.revision = r ELSE sv.version # 0 /\ sv.version = v

SaveSound(sv, v, r, stored) ==
  sv.step \in {"editing", "write"} =>
    /\ sv.version <= v /\ sv.revision <= r
    /\ Guarded(sv, v, r) =>
         /\ sv.step = "editing" => sv.majors = stored
         /\ sv.step = "write" /\ sv.carriesMajors => Respects(sv.majors, stored)

SInv == IInv /\ \A s \in Saves : SaveSound(save[s], version, revision, majors)
----------------------------------------------------------------------------
LEMMA PreservedTells ==
  ASSUME NEW e \in Exams, NEW server \in Major, NEW sent \in Major,
         NEW rescheduled \in BOOLEAN
  PROVE  LET kept == Preserved(e, server, sent, rescheduled)
         IN /\ kept.actualStartAt = server.actualStartAt
            /\ kept.pausedAt = server.pausedAt
            /\ kept.pausedMs = server.pausedMs
            /\ kept.archived = server.archived
            /\ kept.actualEndAt = IF e \in Quick THEN sent.actualEndAt ELSE server.actualEndAt
            /\ kept.endAt = ResolvedEndAt(server, sent, rescheduled)
            /\ kept.draft = sent.draft /\ kept.startAt = sent.startAt
            /\ kept \in Major
<1>1. /\ ResolvedEndAt(server, sent, rescheduled) \in OptTime
      /\ (IF e \in Quick THEN sent.actualEndAt ELSE server.actualEndAt) \in OptTime
  BY DEF Major, ResolvedEndAt
<1>2. /\ server.actualStartAt \in OptTime /\ server.pausedAt \in OptTime
      /\ server.pausedMs \in Nat /\ server.archived \in BOOLEAN
  BY DEF Major
<1> QED
  BY <1>1, <1>2 DEF Preserved, Major

LEMMA PreservedKeeps ==
  ASSUME NEW e \in Exams, NEW server \in Major, NEW sent \in Major,
         NEW rescheduled \in BOOLEAN,
         server.actualEndAt # Null => sent.actualEndAt # Null
  PROVE  KeepsRunning(e, server, Preserved(e, server, sent, rescheduled))
<1> DEFINE kept == Preserved(e, server, sent, rescheduled)
<1>1. /\ kept.actualStartAt = server.actualStartAt
      /\ kept.pausedAt = server.pausedAt
      /\ kept.pausedMs = server.pausedMs
      /\ kept.archived = server.archived
      /\ kept.actualEndAt = IF e \in Quick THEN sent.actualEndAt ELSE server.actualEndAt
  BY PreservedTells
<1> HIDE DEF kept
<1>2. KeepsRunning(e, server, kept)
  <2>1. server.actualEndAt # Null => kept.actualEndAt # Null
    BY <1>1
  <2> QED
    BY <1>1, <2>1, Zenon DEF KeepsRunning
<1> QED
  BY <1>2 DEF kept

LEMMA SameMajor ==
  ASSUME NEW a \in Major, NEW b \in Major,
         a.draft = b.draft, a.startAt = b.startAt, a.endAt = b.endAt,
         a.actualStartAt = b.actualStartAt, a.actualEndAt = b.actualEndAt,
         a.pausedAt = b.pausedAt, a.pausedMs = b.pausedMs, a.archived = b.archived
  PROVE  a = b
<1>1. \A m \in Major :
        m = [draft |-> m.draft, startAt |-> m.startAt, endAt |-> m.endAt,
             actualStartAt |-> m.actualStartAt, actualEndAt |-> m.actualEndAt,
             pausedAt |-> m.pausedAt, pausedMs |-> m.pausedMs, archived |-> m.archived]
  BY DEF Major
<1> QED
  BY <1>1, Zenon

(* An exam that was not edited comes through unchanged. *)
LEMMA PreservedSame ==
  ASSUME NEW e \in Exams, NEW major \in Major, NEW rescheduled \in BOOLEAN
  PROVE  Preserved(e, major, major, rescheduled) = major
<1> DEFINE kept == Preserved(e, major, major, rescheduled)
<1>1. major.endAt \in Nat \cup {Null}
  BY DEF Major, OptTime
<1>2. ResolvedEndAt(major, major, rescheduled) = major.endAt
  BY <1>1 DEF ResolvedEndAt
<1>3. /\ kept \in Major /\ kept.draft = major.draft /\ kept.startAt = major.startAt
      /\ kept.endAt = major.endAt /\ kept.actualStartAt = major.actualStartAt
      /\ kept.actualEndAt = major.actualEndAt /\ kept.pausedAt = major.pausedAt
      /\ kept.pausedMs = major.pausedMs /\ kept.archived = major.archived
  BY <1>2, PreservedTells
<1> HIDE DEF kept
<1>4. major = kept
  BY <1>3, SameMajor, Zenon
<1> QED
  BY <1>4 DEF kept

(* No edit takes an end back, and only a creation adds an exam. *)
LEMMA EditedTells ==
  ASSUME NEW copy \in Snapshots, NEW sent \in {copy, Stripped(copy)}, NEW edit,
         NEW e \in Exams, NEW w \in WindowsOf(e), Editable(copy, edit, e),
         clock \in Nat, NEW x \in Exams, Edited(sent, edit, e, w)[x] # Null
  PROVE  /\ copy[x] # Null /\ copy[x].actualEndAt # Null =>
              Edited(sent, edit, e, w)[x].actualEndAt # Null
         /\ copy[x] = Null => x = e /\ edit = "create"
<1>1. /\ sent \in Snapshots
      /\ copy[x] = Null => sent[x] = Null
      /\ copy[x] # Null => sent[x].actualEndAt = copy[x].actualEndAt
  <2>1. CASE sent = copy
    BY <2>1
  <2>2. CASE sent = Stripped(copy)
    <3>1. Stripped(copy) \in Snapshots
      BY StrippedType
    <3>2. copy[x] = Null => sent[x] = Null
      BY <2>2 DEF Stripped
    <3>3. ASSUME copy[x] # Null PROVE sent[x].actualEndAt = copy[x].actualEndAt
      <4>1. copy[x] \in Major
        BY <3>3 DEF Snapshots
      <4> QED
        BY <2>2, <3>3, <4>1 DEF Stripped, Major
    <3> QED
      BY <2>2, <3>1, <3>2, <3>3
  <2> QED
    BY <2>1, <2>2
<1>2. CASE edit = "create"
  BY <1>1, <1>2 DEF Edited, Editable, Snapshots
<1>3. CASE edit = "delete"
  BY <1>1, <1>3 DEF Edited, Editable, Snapshots
<1>4. CASE edit = "reschedule"
  BY <1>1, <1>4 DEF Edited, Editable, Snapshots, Major
<1>5. CASE edit = "endQuick"
  BY <1>1, <1>5, ExamAssumption DEF Edited, Editable, Snapshots, Major
<1>6. CASE edit = "other"
  BY <1>1, <1>6 DEF Edited
<1> QED
  BY <1>2, <1>3, <1>4, <1>5, <1>6 DEF Editable

(* What arrives from a client that edited the stored exams respects them.   *)
LEMMA SanitizedRespects ==
  ASSUME majors \in Snapshots, clock \in Nat, NEW sent \in {majors, Stripped(majors)},
         NEW edit, NEW e \in Exams, NEW w \in WindowsOf(e), Editable(majors, edit, e),
         NEW rescheduled \in BOOLEAN
  PROVE  Respects(Sanitized(majors, Edited(sent, edit, e, w), rescheduled), majors)
<1> DEFINE edited == Edited(sent, edit, e, w)
           frozen == Frozen(majors, edited)
           kept == Sanitized(majors, edited, rescheduled)
<1>1. sent \in Snapshots /\ (edit \in {"reschedule", "endQuick"} => sent[e] # Null)
  BY StrippedType DEF Editable
<1>2. edited \in Snapshots
  BY <1>1, EditedType
<1> SUFFICES ASSUME NEW x \in Held(majors)
             PROVE  /\ majors[x].archived => kept[x] = majors[x]
                    /\ kept[x] # Null => KeepsRunning(x, majors[x], kept[x])
  BY DEF Respects
<1>3. x \in Exams /\ majors[x] # Null /\ majors[x] \in Major
  BY DEF Held, Snapshots
<1>4. frozen[x] = IF majors[x].archived THEN majors[x] ELSE edited[x]
  BY <1>3 DEF Frozen
<1>5. kept[x] = IF frozen[x] # Null
                THEN Preserved(x, majors[x], frozen[x], rescheduled) ELSE Null
  BY <1>3 DEF Sanitized, PreserveServerLifecycleFields
<1>6. edited[x] # Null /\ majors[x].actualEndAt # Null => edited[x].actualEndAt # Null
  <2> SUFFICES ASSUME edited[x] # Null, majors[x].actualEndAt # Null
               PROVE  edited[x].actualEndAt # Null
    OBVIOUS
  <2> QED
    BY <1>3, EditedTells
<1>7. edited[x] # Null => edited[x] \in Major
  BY <1>2, <1>3 DEF Snapshots
<1> HIDE DEF edited, frozen, kept
<1>8. CASE majors[x].archived
  <2>1. kept[x] = majors[x]
    BY <1>3, <1>4, <1>5, <1>8, PreservedSame
  <2> QED
    BY <2>1 DEF KeepsRunning
<1>9. CASE ~majors[x].archived /\ edited[x] # Null
  <2>1. frozen[x] = edited[x] /\ edited[x] \in Major
        /\ kept[x] = Preserved(x, majors[x], edited[x], rescheduled)
    BY <1>4, <1>5, <1>7, <1>9
  <2>2. KeepsRunning(x, majors[x], kept[x])
    <3>1. majors[x].actualEndAt # Null => edited[x].actualEndAt # Null
      BY <1>6, <1>9
    <3> QED
      BY <1>3, <2>1, <3>1, PreservedKeeps, Zenon
  <2> QED
    BY <1>9, <2>2
<1>10. CASE ~majors[x].archived /\ edited[x] = Null
  BY <1>4, <1>5, <1>10
<1> QED
  BY <1>8, <1>9, <1>10
----------------------------------------------------------------------------
(* A save that does not move stays sound. *)
LEMMA SoundStays ==
  ASSUME IInv, IInv', VersionedStep, NEW sv \in SaveState,
         SaveSound(sv, version, revision, majors)
  PROVE  SaveSound(sv, version', revision', majors')
<1>1. /\ version \in Nat /\ version' \in Nat /\ revision \in Nat /\ revision' \in Nat
      /\ sv.version \in Nat /\ sv.revision \in Nat
  BY DEF IInv, TypeOK, SaveState
<1> SUFFICES ASSUME sv.step \in {"editing", "write"}
             PROVE  /\ sv.version <= version' /\ sv.revision <= revision'
                    /\ Guarded(sv, version', revision') =>
                         majors' = majors /\ Guarded(sv, version, revision)
  BY DEF SaveSound
<1>2. sv.version <= version /\ sv.revision <= revision
  BY DEF SaveSound
<1> QED
  BY <1>1, <1>2 DEF Guarded, VersionedStep

LEMMA SaveMovesSound ==
  ASSUME SInv, IInv', VersionedStep, NEW s \in Saves, NEW sv,
         save' = [save EXCEPT ![s] = sv], SaveSound(sv, version', revision', majors')
  PROVE  SInv'
<1>1. save \in [Saves -> SaveState]
  BY DEF SInv, IInv, TypeOK
<1>2. \A t \in Saves : save'[t] = IF t = s THEN sv ELSE save[t]
  BY <1>1
<1>3. \A t \in Saves : SaveSound(save[t], version', revision', majors')
  BY <1>1, SoundStays DEF SInv
<1> QED
  BY <1>2, <1>3 DEF SInv

LEMMA SavesStaySound ==
  ASSUME SInv, IInv', VersionedStep, UNCHANGED save
  PROVE  SInv'
<1>1. save \in [Saves -> SaveState]
  BY DEF SInv, IInv, TypeOK
<1>2. \A t \in Saves : SaveSound(save[t], version', revision', majors')
  BY <1>1, SoundStays DEF SInv
<1> QED
  BY <1>2 DEF SInv

LEMMA ReadForSaveSound ==
  ASSUME SInv, IInv', VersionedStep, NEW s \in Saves, ReadForSave(s)
  PROVE  SInv'
<1> DEFINE old == save[s]
<1>1. old \in SaveState /\ majors \in Snapshots /\ clock \in Nat
      /\ SaveSound(old, version, revision, majors)
  BY DEF SInv, IInv, TypeOK
<1>2. PICK edit \in Edits, e \in Exams, rescheduled \in BOOLEAN,
           sent \in {old.majors, Stripped(old.majors)} :
        /\ Editable(old.majors, edit, e)
        /\ \E w \in WindowsOf(e) :
             save' = [save EXCEPT ![s] = Arrived(@, sent, edit, e, w, rescheduled)]
  BY DEF ReadForSave
<1>3. PICK w \in WindowsOf(e) :
        save' = [save EXCEPT ![s] = Arrived(@, sent, edit, e, w, rescheduled)]
  BY <1>2
<1> DEFINE new == Arrived(old, sent, edit, e, w, rescheduled)
           kept == Sanitized(majors, Edited(sent, edit, e, w), rescheduled)
<1>4. /\ new.step = "write" /\ new.base = old.base
      /\ new.version = old.version /\ new.revision = old.revision
      /\ new.carriesMajors => new.majors = kept
  BY <1>1 DEF Arrived, SaveState
<1>5. save' = [save EXCEPT ![s] = new] /\ old.step = "editing"
      /\ UNCHANGED <<version, revision, majors>>
  BY <1>3 DEF ReadForSave, SInv, IInv, TypeOK, db
<1>6. ASSUME Guarded(old, version, revision) PROVE Respects(kept, majors)
  <2>1. old.majors = majors
    BY <1>1, <1>5, <1>6 DEF SaveSound
  <2>2. sent \in {majors, Stripped(majors)} /\ Editable(majors, edit, e)
    BY <1>2, <2>1
  <2> QED
    BY <1>1, <2>2, SanitizedRespects
<1> HIDE DEF new, kept, old
<1>7. SaveSound(new, version', revision', majors')
  <2>1. Guarded(new, version, revision) <=> Guarded(old, version, revision)
    BY <1>4 DEF Guarded
  <2> QED
    BY <1>1, <1>4, <1>5, <1>6, <2>1 DEF SaveSound
<1> QED
  BY <1>5, <1>7, SaveMovesSound

LEMMA SaveStepSound ==
  ASSUME SInv, IInv', VersionedStep, NEW s \in Saves,
         Fetch(s) \/ EditBlank(s) \/ SaveStep(s)
  PROVE  SInv'
<1>1. save[s] \in SaveState /\ version \in Nat /\ revision \in Nat
  BY DEF SInv, IInv, TypeOK
<1>2. CASE Fetch(s)
  <2>1. PICK base \in Bases \ {"blank"} :
          save' = [save EXCEPT ![s] = [NewSave EXCEPT !.step = "editing",
                     !.base = base, !.majors = majors, !.revision = revision,
                     !.version = version]]
    BY <1>2 DEF Fetch
  <2> DEFINE new == [NewSave EXCEPT !.step = "editing", !.base = base, !.majors = majors,
                       !.revision = revision, !.version = version]
  <2>2. new.step = "editing" /\ new.majors = majors /\ new.revision = revision
        /\ new.version = version
    BY DEF NewSave
  <2>3. UNCHANGED <<version, revision, majors>>
    BY <1>2 DEF Fetch, db
  <2> HIDE DEF new
  <2>4. SaveSound(new, version', revision', majors')
    BY <1>1, <2>2, <2>3 DEF SaveSound
  <2> QED
    BY <2>1, <2>4, SaveMovesSound DEF new
<1>3. CASE EditBlank(s)
  <2> DEFINE new == [NewSave EXCEPT !.step = "editing"]
  <2>1. new.step = "editing" /\ new.version = 0 /\ new.revision = 0 /\ new.base = "version"
    BY DEF NewSave
  <2>2. save' = [save EXCEPT ![s] = new] /\ UNCHANGED <<version, revision, majors>>
    BY <1>3 DEF EditBlank, db
  <2> HIDE DEF new
  <2>3. SaveSound(new, version', revision', majors')
    BY <1>1, <2>1, <2>2 DEF SaveSound, Guarded
  <2> QED
    BY <2>2, <2>3, SaveMovesSound
<1>4. CASE WriteSave(s) \/ RejectSave(s) \/ ProjectRejected(s)
  <2>1. PICK new \in {[NewSave EXCEPT !.step = "done", !.reply = "ok"],
                      [NewSave EXCEPT !.step = "project", !.majors = majors],
                      [NewSave EXCEPT !.step = "done", !.reply = "conflict"]} :
          save' = [save EXCEPT ![s] = new]
    BY <1>4 DEF WriteSave, RejectSave, ProjectRejected
  <2>2. new.step \in {"done", "project"}
    BY <2>1 DEF NewSave
  <2>3. SaveSound(new, version', revision', majors')
    BY <2>2 DEF SaveSound
  <2> QED
    BY <2>1, <2>3, SaveMovesSound
<1> QED
  BY <1>2, <1>3, <1>4, ReadForSaveSound DEF SaveStep

LEMMA OnlySavesSave ==
  [Next]_vars => save' = save \/ \E s \in Saves : Fetch(s) \/ EditBlank(s) \/ SaveStep(s)
<1> SUFFICES ASSUME [Next]_vars,
                    ~\E s \in Saves : Fetch(s) \/ EditBlank(s) \/ SaveStep(s)
             PROVE  save' = save
  OBVIOUS
<1>1. CASE \E w \in Workers : Advance(w) \/ Heartbeat(w) \/ WorkerStep(w)
  BY <1>1
  DEF WorkerStep, Advance, Heartbeat, SelectDue, ReadForAdvance, SkipRow, CommitRow,
      CommitStaleRow, LoseRow, WriteTransition
<1>2. CASE \E r \in Requests : Submit(r) \/ RequestStep(r)
  BY <1>2
  DEF Submit, RequestStep, ReadRecord, ReadForAction, CommitAction, LoseAction, ProjectLost,
      CommitCopy, LoseCopy
<1>3. CASE Tick \/ ResetData \/ (\E i \in Instances : StartInstance(i) \/ ProjectAtStart(i))
  BY <1>3 DEF Tick, ResetData, StartInstance, ProjectAtStart
<1>4. CASE UNCHANGED vars
  BY <1>4 DEF vars
<1> QED
  BY <1>1, <1>2, <1>3, <1>4 DEF Next

LEMMA OnlyRequestsRequest ==
  [Next]_vars => request' = request \/ \E r \in Requests : Submit(r) \/ RequestStep(r)
<1> SUFFICES ASSUME [Next]_vars, ~\E r \in Requests : Submit(r) \/ RequestStep(r)
             PROVE  request' = request
  OBVIOUS
<1>1. CASE \E w \in Workers : Advance(w) \/ Heartbeat(w) \/ WorkerStep(w)
  BY <1>1
  DEF WorkerStep, Advance, Heartbeat, SelectDue, ReadForAdvance, SkipRow, CommitRow,
      CommitStaleRow, LoseRow, WriteTransition
<1>2. CASE \E s \in Saves : Fetch(s) \/ EditBlank(s) \/ SaveStep(s)
  BY <1>2
  DEF Fetch, EditBlank, SaveStep, ReadForSave, WriteSave, RejectSave, ProjectRejected
<1>3. CASE Tick \/ ResetData \/ (\E i \in Instances : StartInstance(i) \/ ProjectAtStart(i))
  BY <1>3 DEF Tick, ResetData, StartInstance, ProjectAtStart
<1>4. CASE UNCHANGED vars
  BY <1>4 DEF vars
<1> QED
  BY <1>1, <1>2, <1>3, <1>4 DEF Next

LEMMA OnlyInstancesStart ==
  [Next]_vars =>
    instance' = instance \/ \E i \in Instances : StartInstance(i) \/ ProjectAtStart(i)
<1> SUFFICES ASSUME [Next]_vars,
                    ~\E i \in Instances : StartInstance(i) \/ ProjectAtStart(i)
             PROVE  instance' = instance
  OBVIOUS
<1>1. CASE \E w \in Workers : Advance(w) \/ Heartbeat(w) \/ WorkerStep(w)
  BY <1>1
  DEF WorkerStep, Advance, Heartbeat, SelectDue, ReadForAdvance, SkipRow, CommitRow,
      CommitStaleRow, LoseRow, WriteTransition
<1>2. CASE \E r \in Requests : Submit(r) \/ RequestStep(r)
  BY <1>2
  DEF Submit, RequestStep, ReadRecord, ReadForAction, CommitAction, LoseAction, ProjectLost,
      CommitCopy, LoseCopy
<1>3. CASE \E s \in Saves : Fetch(s) \/ EditBlank(s) \/ SaveStep(s)
  BY <1>3
  DEF Fetch, EditBlank, SaveStep, ReadForSave, WriteSave, RejectSave, ProjectRejected
<1>4. CASE Tick \/ ResetData \/ UNCHANGED vars
  BY <1>4 DEF Tick, ResetData, vars
<1> QED
  BY <1>1, <1>2, <1>3, <1>4 DEF Next

LEMMA NextSound == SInv /\ [Next]_vars => SInv'
<1> SUFFICES ASSUME SInv, [Next]_vars PROVE SInv'
  OBVIOUS
<1>1. IInv' /\ VersionedStep
  BY NextInvariant, NextVersioned DEF SInv
<1>2. CASE \E s \in Saves : Fetch(s) \/ EditBlank(s) \/ SaveStep(s)
  BY <1>1, <1>2, SaveStepSound
<1>3. CASE UNCHANGED save
  BY <1>1, <1>3, SavesStaySound
<1> QED
  BY <1>2, <1>3, OnlySavesSave

LEMMA InitialSound == Init => SInv
<1> SUFFICES ASSUME Init PROVE SInv
  OBVIOUS
<1>1. \A s \in Saves : save[s].step = "new"
  BY DEF Init, NewSave
<1> QED
  BY <1>1, InitialInvariant DEF SInv, SaveSound

LEMMA SavesSound == Spec => []SInv
  BY InitialSound, NextSound, PTL DEF Spec
----------------------------------------------------------------------------
(* What is written by a save that names its base. *)
LEMMA SavedRespects ==
  ASSUME SInv, [Next]_vars, NEW s \in Saves, Saved(s)
  PROVE  Respects(majors', majors)
<1>1. save \in [Saves -> SaveState]
  BY DEF SInv, IInv, TypeOK
<1>2. ASSUME NEW t \in Saves, NEW sv, save' = [save EXCEPT ![t] = sv] PROVE t = s
  BY <1>1, <1>2 DEF Saved
<1>3. ~RejectSave(s)
  <2>1. [NewSave EXCEPT !.step = "project", !.majors = majors].step = "project"
    BY DEF NewSave
  <2> QED
    BY <1>1, <2>1 DEF RejectSave, Saved
<1>4. ~Fetch(s) /\ ~EditBlank(s) /\ ~ReadForSave(s) /\ ~ProjectRejected(s)
  BY DEF Fetch, EditBlank, ReadForSave, ProjectRejected, Saved
<1>5. \E t \in Saves : Fetch(t) \/ EditBlank(t) \/ SaveStep(t)
  <2>1. save' # save
    BY DEF Saved
  <2> QED
    BY <2>1, OnlySavesSave
<1>6. WriteSave(s)
  <2>1. PICK t \in Saves : Fetch(t) \/ EditBlank(t) \/ SaveStep(t)
    BY <1>5
  <2>2. \E sv : save' = [save EXCEPT ![t] = sv]
    BY <2>1 DEF Fetch, EditBlank, SaveStep, ReadForSave, WriteSave, RejectSave, ProjectRejected
  <2>3. t = s
    BY <1>2, <2>2
  <2> QED
    BY <1>3, <1>4, <2>1, <2>3 DEF SaveStep
<1>7. CASE ~save[s].carriesMajors
  BY <1>6, <1>7 DEF WriteSave, Respects, KeepsRunning, Held
<1>8. CASE save[s].carriesMajors
  <2>1. majors' = save[s].majors /\ Matches(save[s]) /\ save[s].step = "write"
    BY <1>6, <1>8 DEF WriteSave
  <2>2. Guarded(save[s], version, revision)
    BY <2>1 DEF Saved, Matches, Guarded
  <2>3. SaveSound(save[s], version, revision, majors)
    BY DEF SInv
  <2> QED
    BY <1>8, <2>1, <2>2, <2>3 DEF SaveSound
<1> QED
  BY <1>7, <1>8

(* A save that names its base changes nothing of the running state of the   *)
(* exams it keeps, and takes no end from a formal exam: for any clients,    *)
(* with copies of any age and however much they drop of them.               *)
THEOREM SavesKeepLifecycle == Spec => SaveKeepsLifecycle
<1>1. SInv /\ [Next]_vars =>
        [\A s \in Saves : Saved(s) =>
           \A e \in Held(majors) \cap Held(majors') :
             /\ majors'[e].actualStartAt = majors[e].actualStartAt
             /\ majors'[e].pausedAt = majors[e].pausedAt
             /\ majors'[e].pausedMs = majors[e].pausedMs
             /\ majors'[e].archived = majors[e].archived
             /\ e \notin Quick => majors'[e].actualEndAt = majors[e].actualEndAt]_vars
  BY SavedRespects, Zenon DEF Respects, KeepsRunning, Held
<1> QED
  BY <1>1, SavesSound, PTL DEF Spec, SaveKeepsLifecycle

(* No such save edits or removes an exam that is archived, even if it was   *)
(* archived after the client or the server read it.                         *)
THEOREM ArchiveFrozen == Spec => ArchivedIsFrozen
<1>1. SInv /\ [Next]_vars =>
        [\A s \in Saves : Saved(s) =>
           \A e \in Held(majors) : majors[e].archived => majors'[e] = majors[e]]_vars
  BY SavedRespects, Zenon DEF Respects
<1> QED
  BY <1>1, SavesSound, PTL DEF Spec, ArchivedIsFrozen
----------------------------------------------------------------------------
(* One exam, told by a row or a major: b has started and ended if a has.    *)
Kept(a, b) ==
  /\ a.actualStartAt # Null => b.actualStartAt # Null
  /\ a.actualEndAt # Null => b.actualEndAt # Null

Stamped(row) == row.status = "archived" => row.archived

LEMMA CoalesceKeeps ==
  \A a, b : /\ a # Null => Coalesce(a, b) # Null
            /\ b # Null => Coalesce(a, b) # Null
            /\ Coalesce(a, b) # Null => a # Null \/ b # Null
  BY DEF Coalesce

(* Patches only add to the story, and to every teller the same.             *)
LEMMA ApplyTells ==
  ASSUME NEW p \in Patch, NEW x \in Major \cup Record
  PROVE  /\ Apply(x, p).actualStartAt = Coalesce(p.actualStartAt, x.actualStartAt)
         /\ Apply(x, p).actualEndAt = Coalesce(p.actualEndAt, x.actualEndAt)
         /\ Apply(x, p).pausedAt = IF p.hasPausedAt THEN p.pausedAt ELSE x.pausedAt
         /\ x \in Record => Apply(x, p).status = x.status
         /\ Apply(x, p).archived = x.archived
  BY DEF Apply, Major, Record

LEMMA UpsertedTells ==
  ASSUME NEW e \in Exams, NEW row \in Record, NEW major \in Major
  PROVE  LET up == Upserted(e, row, major)
         IN /\ up.status = MergedStatus(row.status, InitialStatus(e, major))
            /\ up.actualStartAt = Coalesce(major.actualStartAt, row.actualStartAt)
            /\ up.actualEndAt = Coalesce(major.actualEndAt, row.actualEndAt)
            /\ up.pausedAt = row.pausedAt
            /\ up.archived = (row.archived \/ major.archived)
  BY DEF Upserted, Record

LEMMA UpsertedKeeps ==
  ASSUME NEW e \in Exams, NEW row \in Record, NEW major \in Major
  PROVE  /\ Kept(row, Upserted(e, row, major))
         /\ Stamped(row) => Stamped(Upserted(e, row, major))
<1>1. Kept(row, Upserted(e, row, major))
  BY UpsertedTells, CoalesceKeeps DEF Kept
<1>2. Upserted(e, row, major).status = "archived" => row.status = "archived"
  BY UpsertedTells DEF MergedStatus, InitialStatus
<1>3. row.archived => Upserted(e, row, major).archived
  BY UpsertedTells, Zenon
<1> QED
  BY <1>1, <1>2, <1>3, Zenon DEF Stamped

LEMMA InsertedStamped ==
  ASSUME NEW e \in Exams, NEW major \in Major PROVE Stamped(Inserted(e, major))
  BY DEF Stamped, Inserted, InitialStatus

LEMMA ProjectedKeeps ==
  ASSUME NEW snapshot \in Snapshots, NEW rows \in Tables
  PROVE  /\ \A e \in Held(rows) : Kept(rows[e], Projected(snapshot, rows)[e])
         /\ (\A e \in Held(rows) : Stamped(rows[e])) =>
              \A e \in Held(Projected(snapshot, rows)) : Stamped(Projected(snapshot, rows)[e])
<1> DEFINE after == Projected(snapshot, rows)
<1>1. ASSUME NEW e \in Exams
      PROVE  \/ snapshot[e] = Null /\ after[e] = rows[e]
             \/ snapshot[e] \in Major /\ rows[e] = Null /\ after[e] = Inserted(e, snapshot[e])
             \/ snapshot[e] \in Major /\ rows[e] \in Record
                /\ after[e] = Upserted(e, rows[e], snapshot[e])
  BY <1>1 DEF Projected, Snapshots, Tables
<1>2. ASSUME NEW e \in Held(rows) PROVE Kept(rows[e], after[e])
  BY <1>1, UpsertedKeeps DEF Held, Kept
<1>3. ASSUME \A e \in Held(rows) : Stamped(rows[e]), NEW e \in Held(after)
      PROVE  Stamped(after[e])
  <2>1. e \in Exams /\ after[e] # Null
    BY <1>3 DEF Held
  <2>2. CASE snapshot[e] = Null /\ after[e] = rows[e]
    <3>1. e \in Held(rows)
      BY <2>1, <2>2 DEF Held
    <3> QED
      BY <1>3, <2>2, <3>1, Zenon
  <2>3. CASE snapshot[e] \in Major /\ after[e] = Inserted(e, snapshot[e])
    BY <2>1, <2>3, InsertedStamped, Zenon
  <2>4. CASE /\ snapshot[e] \in Major /\ rows[e] \in Record
             /\ after[e] = Upserted(e, rows[e], snapshot[e])
    <3>1. Stamped(rows[e])
      BY <1>3, <2>1, <2>4, ExamAssumption DEF Held
    <3> QED
      BY <2>1, <2>4, <3>1, UpsertedKeeps, Zenon
  <2> QED
    BY <1>1, <2>1, <2>2, <2>3, <2>4
<1> QED
  BY <1>2, <1>3

(* The system's transitions, *)
LEMMA SystemRecordTells ==
  ASSUME NEW phase \in Phases, NEW e \in Exams, NEW due \in Record, NEW at \in Nat,
         Due(phase, e, due, at), NEW row \in Record
  PROVE  LET p == SystemPatch(phase, due)
             after == SystemRecord(phase, row, due)
         IN /\ after.actualStartAt = Coalesce(p.actualStartAt, row.actualStartAt)
            /\ after.actualEndAt = Coalesce(p.actualEndAt, row.actualEndAt)
            /\ after.pausedAt = IF p.hasPausedAt THEN p.pausedAt ELSE row.pausedAt
            /\ after.status = CASE phase = "start" -> "published"
                                [] phase = "end" -> "ended" [] OTHER -> "archived"
            /\ phase = "archive" => after.archived
<1>1. SystemPatch(phase, due) \in Patch
  BY SystemPatchType
<1>2. Apply(row, SystemPatch(phase, due)) \in Record
  BY <1>1, ApplyRecordType
<1> QED
  BY <1>1, <1>2, ApplyTells DEF SystemRecord, Record

LEMMA SystemRecordKeeps ==
  ASSUME NEW phase \in Phases, NEW e \in Exams, NEW due \in Record, NEW at \in Nat,
         Due(phase, e, due, at), NEW row \in Record
  PROVE  /\ Kept(row, SystemRecord(phase, row, due))
         /\ Stamped(SystemRecord(phase, row, due))
<1>1. Kept(row, SystemRecord(phase, row, due))
  BY SystemRecordTells, CoalesceKeeps DEF Kept
<1>2. Stamped(SystemRecord(phase, row, due))
  BY SystemRecordTells DEF Stamped, Phases
<1> QED
  BY <1>1, <1>2

(* and the actions, planned on one row and carried out on another.          *)
LEMMA ChangedRecordTells ==
  ASSUME NEW rq, rq.action \in Operations \cup Transitions, rq.exam \in Exams,
         rq.row \in Record, rq.at \in Nat,
         Permitted(rq.action, rq.exam, rq.row, rq.at), NEW row \in Record
  PROVE  LET p == OperationPatch(rq.action, rq.row, rq.at)
             after == ChangedRecord(rq, row)
         IN /\ p \in Patch
            /\ after.actualStartAt = Coalesce(p.actualStartAt, row.actualStartAt)
            /\ after.actualEndAt = Coalesce(p.actualEndAt, row.actualEndAt)
            /\ after.pausedAt = IF p.hasPausedAt THEN p.pausedAt ELSE row.pausedAt
            /\ after.status = NextStatus(rq.action, rq.row)
            /\ rq.action = "archive" => after.archived
<1> DEFINE marked == MarkedRecord(rq.action, row, NextStatus(rq.action, rq.row))
<1>1. OperationPatch(rq.action, rq.row, rq.at) \in Patch
  BY OperationPatchType
<1>2. NextStatus(rq.action, rq.row) \in Statuses
  BY DEF NextStatus, Record, Statuses
<1>3. /\ marked \in Record /\ marked.status = NextStatus(rq.action, rq.row)
      /\ marked.actualStartAt = row.actualStartAt
      /\ marked.actualEndAt = row.actualEndAt /\ marked.pausedAt = row.pausedAt
      /\ rq.action = "archive" => marked.archived
  BY <1>2 DEF MarkedRecord, Record
<1>4. ChangedRecord(rq, row) = Apply(marked, OperationPatch(rq.action, rq.row, rq.at))
  BY DEF ChangedRecord
<1> HIDE DEF marked
<1> QED
  BY <1>1, <1>3, <1>4, ApplyTells

LEMMA ChangedRecordKeeps ==
  ASSUME NEW rq, rq.action \in Operations \cup Transitions, rq.exam \in Exams,
         rq.row \in Record, rq.at \in Nat,
         Permitted(rq.action, rq.exam, rq.row, rq.at), NEW row \in Record
  PROVE  Kept(row, ChangedRecord(rq, row)) /\ Stamped(ChangedRecord(rq, row))
<1>1. Kept(row, ChangedRecord(rq, row))
  BY ChangedRecordTells, CoalesceKeeps DEF Kept
<1>2. NextStatus(rq.action, rq.row) = "archived" => rq.action = "archive"
  BY DEF NextStatus, Permitted, Operations, Transitions
<1>3. Stamped(ChangedRecord(rq, row))
  BY <1>2, ChangedRecordTells DEF Stamped
<1> QED
  BY <1>1, <1>3
----------------------------------------------------------------------------
(* A step that keeps what every row says, and stamps what it archives.      *)
RowsKeep ==
  /\ \A e \in Held(records) : records'[e] # Null /\ Kept(records[e], records'[e])
  /\ ArchivedHasTimestamp => ArchivedHasTimestamp'

LEMMA StampedRows ==
  ArchivedHasTimestamp <=> \A e \in Held(records) : Stamped(records[e])
  BY DEF ArchivedHasTimestamp, Stamped

LEMMA SameRows == ASSUME UNCHANGED records PROVE RowsKeep
  BY DEF RowsKeep, Held, Kept, ArchivedHasTimestamp

(* Rows changed, and then projected. *)
LEMMA ProjectedRows ==
  ASSUME IInv, NEW snapshot \in Snapshots, NEW rows \in Tables,
         \A e \in Held(records) : rows[e] # Null /\ Kept(records[e], rows[e]),
         ArchivedHasTimestamp => \A e \in Held(rows) : Stamped(rows[e]),
         records' = Projected(snapshot, rows)
  PROVE  RowsKeep
<1>1. ASSUME NEW e \in Held(records)
      PROVE  records'[e] # Null /\ Kept(records[e], records'[e])
  <2>1. e \in Held(rows) /\ e \in Exams
    BY <1>1 DEF Held
  <2>2. records'[e] # Null
    BY <2>1, ProjectionKeepsRecords DEF Held
  <2>3. Kept(rows[e], records'[e])
    BY <2>1, ProjectedKeeps
  <2> QED
    BY <2>2, <2>3 DEF Kept
<1>2. ASSUME ArchivedHasTimestamp PROVE ArchivedHasTimestamp'
  <2>1. \A e \in Held(records') : Stamped(records'[e])
    BY <1>2, ProjectedKeeps
  <2> QED
    BY <2>1 DEF ArchivedHasTimestamp, Stamped
<1> QED
  BY <1>1, <1>2 DEF RowsKeep

(* One row written. *)
LEMMA OneRow ==
  ASSUME records \in Tables, NEW e \in Exams, NEW row \in Record, Stamped(row),
         records[e] # Null => Kept(records[e], row)
  PROVE  LET rows == [records EXCEPT ![e] = row]
         IN /\ rows \in Tables
            /\ \A x \in Held(records) : rows[x] # Null /\ Kept(records[x], rows[x])
            /\ ArchivedHasTimestamp => \A x \in Held(rows) : Stamped(rows[x])
<1> DEFINE rows == [records EXCEPT ![e] = row]
<1>1. rows \in Tables /\ row # Null /\ \A x \in Exams : rows[x] = IF x = e THEN row ELSE records[x]
  BY ExamAssumption DEF Tables
<1> HIDE DEF rows
<1>2. \A x \in Held(records) : rows[x] # Null /\ Kept(records[x], rows[x])
  BY <1>1 DEF Held, Kept
<1>3. ArchivedHasTimestamp => \A x \in Held(rows) : Stamped(rows[x])
  BY <1>1 DEF Held, ArchivedHasTimestamp, Stamped
<1> QED
  BY <1>1, <1>2, <1>3 DEF rows

LEMMA WorkerStepKeeps ==
  ASSUME IInv, NEW w \in Workers, Advance(w) \/ Heartbeat(w) \/ WorkerStep(w)
  PROVE  RowsKeep
<1>1. ASSUME NEW e \in Exams, CommitRow(w, e) PROVE RowsKeep
  <2> DEFINE wk == worker[w]
             row == SystemRecord(wk.phase, records[e], wk.due[e])
  <2>1. wk \in WorkerState /\ wk.due \in Tables /\ records \in Tables
        /\ wk.phase \in Phases /\ wk.at \in Nat
    BY DEF IInv, TypeOK, WorkerState
  <2>2. wk.due[e] \in Record /\ wk.due[e] # Null
    BY <1>1, <2>1 DEF CommitRow, WriteTransition, Held, Tables
  <2>3. records[e] \in Record /\ Due(wk.phase, e, wk.due[e], wk.at)
    BY <2>1, <2>2 DEF IInv, RowsDue, Tables
  <2>4. row \in Record /\ Kept(records[e], row) /\ Stamped(row)
    BY <2>1, <2>2, <2>3, SystemRecordType, SystemRecordKeeps
  <2>5. records' = [records EXCEPT ![e] = row]
    BY <1>1 DEF CommitRow
  <2> HIDE DEF wk, row
  <2>6. /\ \A x \in Held(records) : records'[x] # Null /\ Kept(records[x], records'[x])
        /\ ArchivedHasTimestamp => \A x \in Held(records') : Stamped(records'[x])
    BY <2>1, <2>4, <2>5, OneRow
  <2> QED
    BY <2>6 DEF RowsKeep, ArchivedHasTimestamp, Stamped
<1>2. CASE UNCHANGED records
  BY <1>2, SameRows
<1> QED
  BY <1>1, <1>2
  DEF WorkerStep, Advance, Heartbeat, SelectDue, ReadForAdvance, SkipRow, LoseRow,
      CommitStaleRow, db

LEMMA LateProjectionKeeps ==
  ASSUME IInv, NEW seen \in Snapshots, LateProjection(seen) PROVE RowsKeep
<1>1. records \in Tables /\ records' = Projected(seen, records)
  BY DEF LateProjection, IInv, TypeOK
<1>2. \A e \in Held(records) : records[e] # Null /\ Kept(records[e], records[e])
  BY DEF Held, Kept
<1> QED
  BY <1>1, <1>2, StampedRows, ProjectedRows

LEMMA RequestStepKeeps ==
  ASSUME IInv, NEW r \in Requests, Submit(r) \/ RequestStep(r)
  PROVE  RowsKeep
<1> DEFINE rq == request[r]
<1>1. rq \in RequestState /\ records \in Tables /\ rq.majors \in Snapshots /\ rq.at \in Nat
  BY DEF IInv, TypeOK, RequestState
<1>2. CASE CommitAction(r)
  <2> DEFINE next == [rq.majors EXCEPT ![rq.exam] = ChangedMajor(rq, @)]
             row == ChangedRecord(rq, records[rq.exam])
             rows == [records EXCEPT ![rq.exam] = row]
  <2>1. rq.step = "commit" /\ rq.action # "copy"
    BY <1>2 DEF CommitAction
  <2>2. /\ rq.exam \in Exams /\ rq.action \in Actions /\ records[rq.exam] # Null
        /\ rq.row \in Record /\ Permitted(rq.action, rq.exam, rq.row, rq.at)
        /\ rq.majors[rq.exam] # Null
    BY <2>1 DEF IInv, Planned
  <2>3. rq.action \in Operations \cup Transitions
    BY <2>1, <2>2, ProcessAssumption
  <2>4. records[rq.exam] \in Record /\ rq.majors[rq.exam] \in Major
    BY <1>1, <2>2 DEF Tables, Snapshots
  <2>5. next \in Snapshots /\ row \in Record
    BY <1>1, <2>2, <2>3, <2>4, ChangedType DEF Snapshots
  <2>6. Kept(records[rq.exam], row) /\ Stamped(row)
    BY <1>1, <2>2, <2>3, <2>4, ChangedRecordKeeps
  <2>7. records' = Projected(next, IF ~Logged(rq.key) THEN rows ELSE records)
    BY <1>2 DEF CommitAction
  <2> HIDE DEF rq, next, row
  <2>8. /\ rows \in Tables
        /\ \A x \in Held(records) : rows[x] # Null /\ Kept(records[x], rows[x])
        /\ ArchivedHasTimestamp => \A x \in Held(rows) : Stamped(rows[x])
    BY <1>1, <2>2, <2>5, <2>6, OneRow
  <2> HIDE DEF rows
  <2>9. \A e \in Held(records) : records[e] # Null /\ Kept(records[e], records[e])
    BY DEF Held, Kept
  <2>10. CASE ~Logged(rq.key)
    BY <2>5, <2>7, <2>8, <2>10, ProjectedRows
  <2>11. CASE Logged(rq.key)
    BY <1>1, <2>5, <2>7, <2>9, <2>11, StampedRows, ProjectedRows
  <2> QED
    BY <2>10, <2>11
<1>3. ASSUME NEW e \in Exams, CommitCopy(r, e) PROVE RowsKeep
  <2> DEFINE row == Inserted(e, NewMajor(TRUE, Null, Null))
  <2>1. NewMajor(TRUE, Null, Null) \in Major
    BY NewMajorType DEF OptTime
  <2>2. row \in Record /\ Stamped(row)
    BY <2>1, InsertedType, InsertedStamped
  <2>3. records[e] = Null /\ (records' = [records EXCEPT ![e] = row] \/ records' = records)
    BY <1>3 DEF CommitCopy, Fresh
  <2> HIDE DEF row
  <2>4. CASE records' = [records EXCEPT ![e] = row]
    <3>1. /\ \A x \in Held(records) : records'[x] # Null /\ Kept(records[x], records'[x])
          /\ ArchivedHasTimestamp => \A x \in Held(records') : Stamped(records'[x])
      BY <1>1, <2>2, <2>3, <2>4, OneRow
    <3> QED
      BY <3>1 DEF RowsKeep, ArchivedHasTimestamp, Stamped
  <2> QED
    BY <2>3, <2>4, SameRows
<1>4. CASE ProjectLost(r)
  BY <1>1, <1>4, LateProjectionKeeps DEF ProjectLost
<1>5. CASE UNCHANGED records
  BY <1>5, SameRows
<1> QED
  BY <1>2, <1>3, <1>4, <1>5
  DEF RequestStep, Submit, ReadRecord, ReadForAction, LoseAction, LoseCopy, db

LEMMA NextKeeps == IInv /\ [Next]_vars => RowsKeep
<1> SUFFICES ASSUME IInv, [Next]_vars PROVE RowsKeep
  OBVIOUS
<1>1. CASE \E w \in Workers : Advance(w) \/ Heartbeat(w) \/ WorkerStep(w)
  BY <1>1, WorkerStepKeeps
<1>2. CASE \E r \in Requests : Submit(r) \/ RequestStep(r)
  BY <1>2, RequestStepKeeps
<1>3. ASSUME NEW s \in Saves, Fetch(s) \/ EditBlank(s) \/ SaveStep(s) PROVE RowsKeep
  <2>1. save[s] \in SaveState /\ save[s].majors \in Snapshots
        /\ majors \in Snapshots /\ records \in Tables
    BY DEF IInv, TypeOK, SaveState
  <2>2. CASE WriteSave(s)
    <3>1. PICK next \in Snapshots : records' = Projected(next, records)
      BY <2>1, <2>2 DEF WriteSave
    <3>2. \A e \in Held(records) : records[e] # Null /\ Kept(records[e], records[e])
      BY DEF Held, Kept
    <3> QED
      BY <2>1, <3>1, <3>2, StampedRows, ProjectedRows
  <2>3. CASE ProjectRejected(s)
    BY <2>1, <2>3, LateProjectionKeeps DEF ProjectRejected
  <2>4. CASE UNCHANGED records
    BY <2>4, SameRows
  <2> QED
    BY <1>3, <2>2, <2>3, <2>4 DEF SaveStep, Fetch, EditBlank, ReadForSave, RejectSave, db
<1>4. ASSUME NEW i \in Instances, StartInstance(i) \/ ProjectAtStart(i) PROVE RowsKeep
  <2>1. instance[i].majors \in Snapshots
    BY DEF IInv, TypeOK, InstanceState
  <2>2. CASE ProjectAtStart(i)
    BY <2>1, <2>2, LateProjectionKeeps DEF ProjectAtStart
  <2>3. CASE StartInstance(i)
    BY <2>3, SameRows DEF StartInstance, db
  <2> QED
    BY <1>4, <2>2, <2>3
<1>5. CASE Tick \/ ResetData \/ UNCHANGED vars
  BY <1>5, SameRows DEF Tick, ResetData, vars, db
<1> QED
  BY <1>1, <1>2, <1>3, <1>4, <1>5 DEF Next

(* No writer takes back a start or an end that a row tells of, nor does it  *)
(* remove the row: not the late projection of a snapshot from before them,  *)
(* nor an action planned on an older row.                                   *)
THEOREM HistoryKept == Spec => HistoryIsKept
<1>1. IInv /\ [Next]_vars =>
        [\A e \in Held(records) :
           /\ records[e].actualStartAt # Null => records'[e].actualStartAt # Null
           /\ records[e].actualEndAt # Null => records'[e].actualEndAt # Null]_vars
  BY NextKeeps DEF RowsKeep, Kept
<1> QED
  BY <1>1, InductiveInvariant, PTL DEF Spec, HistoryIsKept

(* An archived row has the time of its archiving, whatever was projected    *)
(* and whichever actions overtook each other.                               *)
THEOREM ArchiveStamped == Spec => []ArchivedHasTimestamp
<1>1. Init => ArchivedHasTimestamp
  <2> SUFFICES ASSUME Init PROVE ArchivedHasTimestamp
    OBVIOUS
  <2>1. majors \in Snapshots
    BY InitialInvariant DEF IInv, TypeOK
  <2>2. records = Projected(majors, Nothing) /\ Held(Nothing) = {}
    BY DEF Init, Held, Nothing
  <2> QED
    BY <2>1, <2>2, NothingType, ProjectedKeeps, StampedRows
<1>2. IInv /\ ArchivedHasTimestamp /\ [Next]_vars => ArchivedHasTimestamp'
  BY NextKeeps DEF RowsKeep
<1> QED
  BY <1>1, <1>2, InductiveInvariant, PTL DEF Spec
=============================================================================
