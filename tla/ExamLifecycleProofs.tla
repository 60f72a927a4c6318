------------------------ MODULE ExamLifecycleProofs ------------------------
(***************************************************************************)
(* Proofs about ExamLifecycle, for any sets of exams, processes, keys and  *)
(* windows: the type invariant, and the optimistic concurrency on which    *)
(* every write of the snapshot rests.                                      *)
(***************************************************************************)
EXTENDS ExamLifecycle, TLAPS

----------------------------------------------------------------------------
(* The rules of ExamRules keep their types. *)

LEMMA NothingType == Nothing \in Snapshots /\ Nothing \in Tables
  BY DEF Nothing, Snapshots, Tables

(* A new major is a major.                                                  *)
LEMMA NewMajorType ==
  ASSUME NEW d \in BOOLEAN, NEW a \in OptTime, NEW b \in OptTime
  PROVE  NewMajor(d, a, b) \in Major
  BY DEF NewMajor, Major, OptTime

LEMMA ElapsedType ==
  ASSUME NEW a \in Nat, NEW b \in Nat PROVE Elapsed(a, b) \in Nat
  BY DEF Elapsed

LEMMA CoalesceType ==
  ASSUME NEW a \in OptTime
  PROVE  /\ \A b \in OptTime : Coalesce(a, b) \in OptTime
         /\ \A b \in Nat : Coalesce(a, b) \in Nat
  BY DEF Coalesce, OptTime

LEMMA ApplyMajorType ==
  ASSUME NEW x \in Major, NEW p \in Patch PROVE Apply(x, p) \in Major
<1>1. /\ Coalesce(p.actualStartAt, x.actualStartAt) \in OptTime
      /\ Coalesce(p.actualEndAt, x.actualEndAt) \in OptTime
      /\ Coalesce(p.endAt, x.endAt) \in OptTime
  BY CoalesceType DEF Major, Patch
<1>2. Coalesce(p.pausedMs, x.pausedMs) \in Nat
  BY CoalesceType DEF Major, Patch
<1>3. (IF p.hasPausedAt THEN p.pausedAt ELSE x.pausedAt) \in OptTime
  BY DEF Major, Patch
<1> QED
  BY <1>1, <1>2, <1>3 DEF Apply, Major

LEMMA ApplyRecordType ==
  ASSUME NEW x \in Record, NEW p \in Patch PROVE Apply(x, p) \in Record
<1>1. /\ Coalesce(p.actualStartAt, x.actualStartAt) \in OptTime
      /\ Coalesce(p.actualEndAt, x.actualEndAt) \in OptTime
      /\ Coalesce(p.endAt, x.endAt) \in OptTime
  BY CoalesceType DEF Record, Patch
<1>2. Coalesce(p.pausedMs, x.pausedMs) \in Nat
  BY CoalesceType DEF Record, Patch
<1>3. (IF p.hasPausedAt THEN p.pausedAt ELSE x.pausedAt) \in OptTime
  BY DEF Record, Patch
<1> QED
  BY <1>1, <1>2, <1>3 DEF Apply, Record

LEMMA NoPatchType == NoPatch \in Patch
  BY DEF NoPatch, Patch, OptTime

LEMMA SettledPauseType ==
  ASSUME NEW row \in Record, NEW at \in Nat PROVE SettledPause(row, at) \in Nat
<1>1. CASE row.pausedAt = Null
  BY <1>1 DEF SettledPause, Record
<1>2. CASE row.pausedAt # Null
  <2>1. row.pausedAt \in Nat /\ row.pausedMs \in Nat
    BY <1>2 DEF Record, OptTime
  <2>2. Elapsed(row.pausedAt, at) \in Nat
    BY <2>1, ElapsedType
  <2> QED
    BY <1>2, <2>1, <2>2 DEF SettledPause
<1> QED
  BY <1>1, <1>2

LEMMA EndPatchType ==
  ASSUME NEW row \in Record, NEW at \in Nat PROVE EndPatch(row, at) \in Patch
<1>1. SettledPause(row, at) \in Nat
  BY SettledPauseType
<1> QED
  BY <1>1 DEF EndPatch, NoPatch, Patch, OptTime

(* Only permitted operations are planned, and those yield patches.          *)
LEMMA OperationPatchType ==
  ASSUME NEW action \in Operations \cup Transitions, NEW e \in Exams,
         NEW row \in Record, NEW at \in Nat, Permitted(action, e, row, at)
  PROVE  OperationPatch(action, row, at) \in Patch
<1>1. CASE action = "pause"
  <2>1. BackfilledStart(row, at) \in OptTime
    BY DEF BackfilledStart, Record, OptTime
  <2> QED
    BY <1>1, <2>1 DEF OperationPatch, NoPatch, Patch, OptTime
<1>2. CASE action = "resume"
  <2>1. SettledPause(row, at) \in Nat
    BY SettledPauseType
  <2> QED
    BY <1>2, <2>1 DEF OperationPatch, NoPatch, Patch, OptTime
<1>3. CASE action = "extend"
  <2>1. row.endAt \in Nat
    BY <1>3 DEF Permitted, Record, OptTime
  <2>2. row.endAt + Extension \in Nat
    BY <2>1, ExamAssumption
  <2> QED
    BY <1>3, <2>2 DEF OperationPatch, NoPatch, Patch, OptTime
<1>4. CASE action = "end"
  BY <1>4, EndPatchType DEF OperationPatch
<1>5. CASE action \notin {"pause", "resume", "extend", "end"}
  BY <1>5, NoPatchType DEF OperationPatch
<1> QED
  BY <1>1, <1>2, <1>3, <1>4, <1>5

(* So do the steps of the system on rows that are due.                      *)
LEMMA SystemPatchType ==
  ASSUME NEW phase \in Phases, NEW e \in Exams, NEW row \in Record,
         NEW at \in Nat, Due(phase, e, row, at)
  PROVE  SystemPatch(phase, row) \in Patch
<1>1. CASE phase = "start"
  BY <1>1 DEF SystemPatch, NoPatch, Patch, OptTime, Record
<1>2. CASE phase = "end"
  <2>1. row.endAt + row.pausedMs \in Nat
    BY <1>2 DEF Due, Record, OptTime
  <2> QED
    BY <1>2, <2>1, EndPatchType DEF SystemPatch
<1>3. CASE phase = "archive"
  BY <1>3, NoPatchType DEF SystemPatch
<1> QED
  BY <1>1, <1>2, <1>3 DEF Phases

LEMMA SystemMajorType ==
  ASSUME NEW phase \in Phases, NEW e \in Exams, NEW row \in Record,
         NEW at \in Nat, Due(phase, e, row, at), NEW major \in Major
  PROVE  SystemMajor(phase, major, row) \in Major
<1>1. Apply(major, SystemPatch(phase, row)) \in Major
  BY SystemPatchType, ApplyMajorType
<1> QED
  BY <1>1 DEF SystemMajor, Major

LEMMA SystemRecordType ==
  ASSUME NEW phase \in Phases, NEW e \in Exams, NEW row \in Record,
         NEW at \in Nat, Due(phase, e, row, at), NEW current \in Record
  PROVE  SystemRecord(phase, current, row) \in Record
<1>1. Apply(current, SystemPatch(phase, row)) \in Record
  BY SystemPatchType, ApplyRecordType
<1> QED
  BY <1>1 DEF SystemRecord, Record, Statuses

LEMMA InsertedType ==
  ASSUME NEW e \in Exams, NEW major \in Major
  PROVE  Inserted(e, major) \in Record
  BY ExamAssumption DEF Inserted, Record, Major, OptTime, InitialStatus, Statuses

LEMMA UpsertedType ==
  ASSUME NEW e \in Exams, NEW row \in Record, NEW major \in Major
  PROVE  Upserted(e, row, major) \in Record
<1>1. MergedStatus(row.status, InitialStatus(e, major)) \in Statuses
  BY DEF MergedStatus, InitialStatus, Record, Statuses
<1>2. /\ Coalesce(major.actualStartAt, row.actualStartAt) \in OptTime
      /\ Coalesce(major.actualEndAt, row.actualEndAt) \in OptTime
  BY CoalesceType DEF Record, Major
<1> QED
  BY <1>1, <1>2 DEF Upserted, Record, Major

(* The projection of a snapshot onto a table is a table.                    *)
LEMMA ProjectedType ==
  ASSUME NEW snapshot \in Snapshots, NEW rows \in Tables
  PROVE  Projected(snapshot, rows) \in Tables
  BY InsertedType, UpsertedType DEF Projected, Snapshots, Tables

LEMMA SanitizedType ==
  ASSUME NEW current \in Snapshots, NEW submitted \in Snapshots,
         NEW rescheduled \in BOOLEAN
  PROVE  Sanitized(current, submitted, rescheduled) \in Snapshots
<1>1. Frozen(current, submitted) \in Snapshots
  BY DEF Frozen, Snapshots
<1>2. ASSUME NEW e \in Exams, NEW a \in Major, NEW b \in Major
      PROVE  Preserved(e, a, b, rescheduled) \in Major
  <2>1. /\ ResolvedEndAt(a, b, rescheduled) \in OptTime
        /\ (IF e \in Quick THEN b.actualEndAt ELSE a.actualEndAt) \in OptTime
    BY DEF Major, ResolvedEndAt
  <2>2. /\ a.actualStartAt \in OptTime /\ a.pausedAt \in OptTime
        /\ a.pausedMs \in Nat /\ a.archived \in BOOLEAN
    BY DEF Major
  <2> QED
    BY <2>1, <2>2 DEF Preserved, Major
<1> QED
  BY <1>1, <1>2 DEF Sanitized, PreserveServerLifecycleFields, Snapshots

----------------------------------------------------------------------------
(* The inductive invariant: beside the types, the rows a call of the        *)
(* advance holds were due when it chose them, a request that has read its   *)
(* record holds a permitted plan, and the records they speak of exist.      *)

RowsDue(wk, rows) ==
  \A e \in Exams : wk.due[e] # Null =>
    rows[e] # Null /\ Due(wk.phase, e, wk.due[e], wk.at)

Planned(rq, rows) ==
  /\ rq.step \in {"plan", "snapshot", "commit"} =>
       rq.exam \in Exams /\ rq.action \in Actions /\ rows[rq.exam] # Null
  /\ rq.step \in {"snapshot", "commit"} /\ rq.action # "copy" =>
       rq.row \in Record /\ Permitted(rq.action, rq.exam, rq.row, rq.at)
  /\ rq.step = "commit" /\ rq.action # "copy" => rq.majors[rq.exam] # Null

IInv ==
  /\ TypeOK
  /\ \A w \in Workers : RowsDue(worker[w], records)
  /\ \A r \in Requests : Planned(request[r], records)

RecordsStay == \A e \in Exams : records[e] # Null => records'[e] # Null

LEMMA ProjectionKeepsRecords ==
  ASSUME NEW snapshot \in Snapshots, NEW rows \in Tables, NEW e \in Exams,
         rows[e] # Null
  PROVE  Projected(snapshot, rows)[e] # Null
<1>1. rows[e] \in Record
  BY DEF Tables
<1>2. CASE snapshot[e] = Null
  BY <1>1, <1>2 DEF Projected
<1>3. CASE snapshot[e] # Null
  <2>1. Upserted(e, rows[e], snapshot[e]) \in Record
    BY <1>1, <1>3, UpsertedType DEF Snapshots
  <2> QED
    BY <1>3, <2>1, ExamAssumption DEF Projected
<1> QED
  BY <1>2, <1>3

(* Calls and requests that do not move keep what they hold while records    *)
(* stay; one that moves has to answer for itself.                           *)
LEMMA WorkersStay ==
  ASSUME IInv, RecordsStay, UNCHANGED worker
  PROVE  \A w \in Workers : RowsDue(worker'[w], records')
  BY DEF IInv, RecordsStay, RowsDue

LEMMA WorkerMoves ==
  ASSUME IInv, RecordsStay, NEW w \in Workers, NEW wk,
         worker' = [worker EXCEPT ![w] = wk], RowsDue(wk, records')
  PROVE  \A x \in Workers : RowsDue(worker'[x], records')
<1>1. \A x \in Workers : worker'[x] = IF x = w THEN wk ELSE worker[x]
  BY DEF IInv, TypeOK
<1> QED
  BY <1>1 DEF IInv, RecordsStay, RowsDue

LEMMA RequestsStay ==
  ASSUME IInv, RecordsStay, UNCHANGED request
  PROVE  \A r \in Requests : Planned(request'[r], records')
  BY DEF IInv, RecordsStay, Planned

LEMMA RequestMoves ==
  ASSUME IInv, RecordsStay, NEW r \in Requests, NEW rq,
         request' = [request EXCEPT ![r] = rq], Planned(rq, records')
  PROVE  \A x \in Requests : Planned(request'[x], records')
<1>1. \A x \in Requests : request'[x] = IF x = r THEN rq ELSE request[x]
  BY DEF IInv, TypeOK
<1> QED
  BY <1>1 DEF IInv, RecordsStay, Planned

LEMMA IdleWorkerSound ==
  /\ IdleWorker \in WorkerState
  /\ \A rows : RowsDue(IdleWorker, rows)
<1>1. IdleWorker \in WorkerState
  BY NothingType DEF IdleWorker, WorkerState, Phases
<1>2. \A rows : RowsDue(IdleWorker, rows)
  BY DEF IdleWorker, RowsDue, Nothing
<1> QED
  BY <1>1, <1>2

LEMMA PhaseDoneSound ==
  ASSUME NEW wk \in WorkerState
  PROVE  /\ PhaseDone(wk) \in WorkerState
         /\ \A rows : RowsDue(PhaseDone(wk), rows)
         /\ PhaseDone(wk).step \in {"idle", "due"}
<1>1. PhaseDone(wk) \in WorkerState
  BY NothingType DEF PhaseDone, IdleWorker, WorkerState, Phases
<1>2. PhaseDone(wk).due = Nothing /\ PhaseDone(wk).step \in {"idle", "due"}
  BY DEF PhaseDone, IdleWorker
<1> QED
  BY <1>1, <1>2 DEF RowsDue, Nothing

LEMMA RowDoneSound ==
  ASSUME NEW wk \in WorkerState, NEW e \in Exams, NEW rows, RowsDue(wk, rows)
  PROVE  /\ RowDone(wk, e) \in WorkerState
         /\ RowsDue(RowDone(wk, e), rows)
<1>1. CASE Held(wk.due) = {e}
  BY <1>1, PhaseDoneSound DEF RowDone
<1>2. CASE Held(wk.due) # {e}
  <2>1. [wk.due EXCEPT ![e] = Null] \in Tables
    BY DEF WorkerState, Tables
  <2>2. RowDone(wk, e) = [wk EXCEPT !.due = [wk.due EXCEPT ![e] = Null]]
    BY <1>2 DEF RowDone
  <2>3. RowDone(wk, e) \in WorkerState
    BY <2>1, <2>2 DEF WorkerState
  <2>4. \A x \in Exams : RowDone(wk, e).due[x] # Null =>
          RowDone(wk, e).due[x] = wk.due[x]
    BY <2>2 DEF WorkerState, Tables
  <2>5. RowDone(wk, e).phase = wk.phase /\ RowDone(wk, e).at = wk.at
    BY <2>2 DEF WorkerState
  <2> QED
    BY <2>3, <2>4, <2>5 DEF RowsDue
<1> QED
  BY <1>1, <1>2

----------------------------------------------------------------------------
(* The invariant holds initially and every step of Next preserves it: first *)
(* the clock and the advance, ...                                           *)

LEMMA InitialInvariant == Init => IInv
<1> SUFFICES ASSUME Init PROVE IInv
  OBVIOUS
<1>1. majors \in Snapshots
  <2>1. PICK E \in SUBSET Exams, window \in [Exams -> Windows \cup {<<Null, Null>>}] :
          majors = [e \in Exams |->
            IF e \in E THEN NewMajor(FALSE, window[e][1], window[e][2]) ELSE Null]
    BY DEF Init
  <2>2. \A e \in Exams : window[e][1] \in OptTime /\ window[e][2] \in OptTime
    BY ProcessAssumption DEF OptTime
  <2>3. \A e \in Exams : NewMajor(FALSE, window[e][1], window[e][2]) \in Major
    BY <2>2, NewMajorType
  <2> QED
    BY <2>1, <2>3 DEF Snapshots
<1>2. records \in Tables
  BY <1>1, NothingType, ProjectedType DEF Init
<1>3. NewRequest \in RequestState
  BY NothingType DEF NewRequest, RequestState
<1>4. NewSave \in SaveState
  BY NothingType DEF NewSave, SaveState
<1>5. TypeOK
  BY <1>1, <1>2, <1>3, <1>4, IdleWorkerSound, NothingType
  DEF Init, TypeOK, InstanceState
<1>6. \A w \in Workers : RowsDue(worker[w], records)
  BY IdleWorkerSound DEF Init
<1>7. \A r \in Requests : Planned(request[r], records)
  BY DEF Init, NewRequest, Planned
<1> QED
  BY <1>5, <1>6, <1>7 DEF IInv

(* A write of the snapshot bumps both counters.                             *)
LEMMA WriteSnapshotType ==
  ASSUME IInv, NEW next \in Snapshots, NEW at \in Nat, WriteSnapshot(next, at)
  PROVE  /\ majors' \in Snapshots /\ version' \in Nat /\ revision' \in Nat
         /\ version' > version /\ revision' > revision
  BY DEF IInv, TypeOK, WriteSnapshot, Max2

(* So does a projection, of whatever snapshot, and no record gets lost.     *)
LEMMA LateProjectionType ==
  ASSUME IInv, NEW seen \in Snapshots, LateProjection(seen)
  PROVE  /\ majors' \in Snapshots /\ version' \in Nat /\ revision' \in Nat
         /\ records' \in Tables /\ RecordsStay
         /\ UNCHANGED <<majors, version, revision, opLog, autoLog, applied>>
<1>1. /\ UNCHANGED <<majors, version, revision, opLog, autoLog, applied>>
      /\ records' = Projected(seen, records)
  BY DEF LateProjection
<1>2. /\ majors \in Snapshots /\ version \in Nat /\ revision \in Nat
      /\ records \in Tables
  BY DEF IInv, TypeOK
<1>3. records' \in Tables /\ RecordsStay
  BY <1>1, <1>2, ProjectedType, ProjectionKeepsRecords DEF RecordsStay
<1> QED
  BY <1>1, <1>2, <1>3

LEMMA StutterInvariant == IInv /\ UNCHANGED vars => IInv'
  BY DEF IInv, TypeOK, vars, db, RowsDue, Planned

LEMMA TickInvariant == IInv /\ Tick => IInv'
<1> SUFFICES ASSUME IInv, Tick PROVE IInv'
  OBVIOUS
<1>1. TypeOK'
  BY DEF IInv, TypeOK, Tick, db
<1>2. RecordsStay
  BY DEF Tick, db, RecordsStay
<1> QED
  BY <1>1, <1>2, WorkersStay, RequestsStay DEF IInv, Tick

(* A step that only moves one call of the advance.                          *)
LEMMA WorkerOnly ==
  ASSUME IInv, NEW w \in Workers, NEW wk \in WorkerState,
         worker' = [worker EXCEPT ![w] = wk], RowsDue(wk, records),
         UNCHANGED <<clock, db, request, save, resets, instance>>
  PROVE  IInv'
<1>1. TypeOK'
  BY DEF IInv, TypeOK, db
<1>2. RecordsStay /\ RowsDue(wk, records')
  BY DEF RecordsStay, db
<1> QED
  BY <1>1, <1>2, WorkerMoves, RequestsStay DEF IInv

LEMMA AdvanceInvariant ==
  ASSUME IInv, NEW w \in Workers, Advance(w) \/ Heartbeat(w)
  PROVE  IInv'
<1>1. UNCHANGED <<clock, db, request, save, resets, instance>>
  BY DEF Advance, Heartbeat
<1>2. CASE Advance(w)
  <2> DEFINE wk == [IdleWorker EXCEPT !.step = "due", !.at = clock]
  <2>1. wk \in WorkerState /\ RowsDue(wk, records)
    BY NothingType DEF IdleWorker, WorkerState, Phases, RowsDue, Nothing, IInv, TypeOK
  <2>2. worker' = [worker EXCEPT ![w] = wk]
    BY <1>2 DEF Advance
  <2> HIDE DEF wk
  <2> QED
    BY <1>1, <2>1, <2>2, WorkerOnly
<1>3. CASE Heartbeat(w)
  <2> DEFINE wk == [IdleWorker EXCEPT !.step = "due", !.phase = "end", !.at = clock]
  <2>1. wk \in WorkerState /\ RowsDue(wk, records)
    BY NothingType DEF IdleWorker, WorkerState, Phases, RowsDue, Nothing, IInv, TypeOK
  <2>2. worker' = [worker EXCEPT ![w] = wk]
    BY <1>3 DEF Heartbeat
  <2> HIDE DEF wk
  <2> QED
    BY <1>1, <2>1, <2>2, WorkerOnly
<1> QED
  BY <1>2, <1>3

LEMMA SelectDueInvariant ==
  ASSUME IInv, NEW w \in Workers, SelectDue(w)
  PROVE  IInv'
<1> DEFINE old == worker[w]
           rows == DueRows(old.phase, old.at)
           due == [e \in Exams |-> IF e \in rows THEN records[e] ELSE Null]
           wk == IF rows = {} THEN PhaseDone(old)
                 ELSE [old EXCEPT !.step = "snapshot", !.due = due]
<1>1. worker' = [worker EXCEPT ![w] = wk]
      /\ UNCHANGED <<clock, db, request, save, resets, instance>>
  BY DEF SelectDue
<1>2. old \in WorkerState /\ records \in Tables
  BY DEF IInv, TypeOK
<1>3. due \in Tables
  BY <1>2 DEF Tables
<1>4. CASE rows = {}
  <2>1. wk = PhaseDone(old)
    BY <1>4
  <2> QED
    BY <1>1, <1>2, <2>1, PhaseDoneSound, WorkerOnly
<1>5. CASE rows # {}
  <2> DEFINE new == [old EXCEPT !.step = "snapshot", !.due = due]
  <2>1. wk = new
    BY <1>5
  <2>2. new \in WorkerState
    BY <1>2, <1>3 DEF WorkerState
  <2>3. new.due = due /\ new.phase = old.phase /\ new.at = old.at
    BY <1>2 DEF WorkerState
  <2>4. \A e \in Exams : due[e] # Null =>
          due[e] = records[e] /\ Due(old.phase, e, records[e], old.at)
    BY DEF DueRows
  <2> HIDE DEF new, due
  <2>5. RowsDue(new, records)
    BY <2>3, <2>4 DEF RowsDue
  <2> QED
    BY <1>1, <2>1, <2>2, <2>5, WorkerOnly
<1> QED
  BY <1>4, <1>5

LEMMA ReadForAdvanceInvariant ==
  ASSUME IInv, NEW w \in Workers, ReadForAdvance(w)
  PROVE  IInv'
<1> DEFINE old == worker[w]
           wk == [old EXCEPT !.step = "commit", !.majors = majors,
                             !.version = version]
<1>1. old \in WorkerState /\ majors \in Snapshots /\ version \in Nat
  BY DEF IInv, TypeOK
<1>2. wk \in WorkerState /\ wk.due = old.due /\ wk.phase = old.phase
      /\ wk.at = old.at
  BY <1>1 DEF WorkerState
<1>3. worker' = [worker EXCEPT ![w] = wk]
      /\ UNCHANGED <<clock, db, request, save, resets, instance>>
  BY DEF ReadForAdvance, IInv, TypeOK
<1> HIDE DEF wk
<1>4. RowsDue(wk, records)
  BY <1>2 DEF RowsDue, IInv
<1> QED
  BY <1>2, <1>3, <1>4, WorkerOnly

LEMMA PassedRowInvariant ==
  ASSUME IInv, NEW w \in Workers, NEW e \in Exams, SkipRow(w, e) \/ LoseRow(w, e)
  PROVE  IInv'
<1>1. worker[w] \in WorkerState /\ RowsDue(worker[w], records)
  BY DEF IInv, TypeOK
<1>2. worker' = [worker EXCEPT ![w] = RowDone(worker[w], e)]
      /\ UNCHANGED <<clock, db, request, save, resets, instance>>
  BY DEF SkipRow, LoseRow
<1> QED
  BY <1>1, <1>2, RowDoneSound, WorkerOnly

LEMMA WriteTransitionType ==
  ASSUME IInv, NEW w \in Workers, NEW e \in Exams, WriteTransition(worker[w], e)
  PROVE  /\ AdvancedMajors(worker[w], e) \in Snapshots
         /\ majors' = AdvancedMajors(worker[w], e)
         /\ version' \in Nat /\ revision' \in Nat
         /\ version' > version /\ revision' > revision
         /\ autoLog' \in [Phases -> [Exams -> Nat]]
<1> DEFINE wk == worker[w]
<1>1. wk \in WorkerState /\ wk.phase \in Phases /\ wk.at \in Nat
      /\ wk.due \in Tables /\ wk.majors \in Snapshots
  BY DEF IInv, TypeOK, WorkerState
<1>2. wk.due[e] \in Record /\ wk.majors[e] \in Major
  BY <1>1 DEF WriteTransition, Held, Tables, Snapshots
<1>3. Due(wk.phase, e, wk.due[e], wk.at)
  BY <1>2, ExamAssumption DEF IInv, RowsDue
<1>4. SystemMajor(wk.phase, wk.majors[e], wk.due[e]) \in Major
  BY <1>1, <1>2, <1>3, SystemMajorType
<1>5. AdvancedMajors(wk, e) \in Snapshots
  BY <1>1, <1>4 DEF AdvancedMajors, Snapshots
<1>6. autoLog' \in [Phases -> [Exams -> Nat]]
  <2>1. autoLog \in [Phases -> [Exams -> Nat]]
    BY DEF IInv, TypeOK
  <2>2. [autoLog[wk.phase] EXCEPT ![e] = @ + 1] \in [Exams -> Nat]
    BY <1>1, <2>1
  <2>3. autoLog' = [autoLog EXCEPT ![wk.phase] = [autoLog[wk.phase] EXCEPT ![e] = @ + 1]]
    BY DEF WriteTransition
  <2> QED
    BY <1>1, <2>1, <2>2, <2>3
<1>7. WriteSnapshot(AdvancedMajors(wk, e), wk.at)
  BY DEF WriteTransition
<1>8. majors' = AdvancedMajors(wk, e)
  BY <1>7 DEF WriteSnapshot
<1> QED
  BY <1>1, <1>5, <1>6, <1>7, <1>8, WriteSnapshotType

LEMMA CommitRowInvariant ==
  ASSUME IInv, NEW w \in Workers, NEW e \in Exams, CommitRow(w, e)
  PROVE  IInv'
<1> DEFINE wk == worker[w]
           new == [wk EXCEPT !.majors = AdvancedMajors(wk, e), !.version = version']
           row == SystemRecord(wk.phase, records[e], wk.due[e])
<1>1. WriteTransition(wk, e)
  BY DEF CommitRow
<1>2. wk \in WorkerState /\ wk.due \in Tables /\ records \in Tables
      /\ wk.phase \in Phases /\ wk.at \in Nat
  BY DEF IInv, TypeOK, WorkerState
<1>3. wk.due[e] \in Record /\ wk.due[e] # Null
  BY <1>1, <1>2 DEF WriteTransition, Held, Tables
<1>4. records[e] \in Record /\ Due(wk.phase, e, wk.due[e], wk.at)
  BY <1>2, <1>3 DEF IInv, RowsDue, Tables
<1>5. row \in Record
  BY <1>2, <1>3, <1>4, SystemRecordType
<1>6. records' = [records EXCEPT ![e] = row]
  BY DEF CommitRow
<1>7. records' \in Tables
  BY <1>2, <1>5, <1>6 DEF Tables
<1>8. RecordsStay
  BY <1>2, <1>5, <1>6, ExamAssumption DEF RecordsStay, Tables
<1>9. new \in WorkerState /\ new.due = wk.due /\ new.phase = wk.phase
      /\ new.at = wk.at
  BY <1>1, <1>2, WriteTransitionType DEF WorkerState
<1>10. worker' = [worker EXCEPT ![w] = RowDone(new, e)]
  BY DEF CommitRow
<1> HIDE DEF new, row
<1>11. RowsDue(new, records')
  BY <1>8, <1>9 DEF RowsDue, IInv, RecordsStay
<1>12. RowDone(new, e) \in WorkerState /\ RowsDue(RowDone(new, e), records')
  BY <1>9, <1>11, RowDoneSound
<1>13. UNCHANGED <<clock, opLog, applied, request, save, resets, instance>>
  BY <1>1 DEF WriteTransition
<1>14. TypeOK'
  BY <1>1, <1>7, <1>10, <1>12, <1>13, WriteTransitionType DEF TypeOK, IInv
<1> QED
  BY <1>8, <1>10, <1>12, <1>13, <1>14, WorkerMoves, RequestsStay DEF IInv

LEMMA CommitStaleRowInvariant ==
  ASSUME IInv, NEW w \in Workers, NEW e \in Exams, CommitStaleRow(w, e)
  PROVE  IInv'
<1>1. WriteTransition(worker[w], e) /\ UNCHANGED records
      /\ worker' = [worker EXCEPT ![w] = RowDone(worker[w], e)]
  BY DEF CommitStaleRow
<1>2. worker[w] \in WorkerState /\ RowsDue(worker[w], records')
  BY <1>1 DEF IInv, TypeOK
<1>3. RowDone(worker[w], e) \in WorkerState
      /\ RowsDue(RowDone(worker[w], e), records')
  BY <1>2, RowDoneSound
<1>4. UNCHANGED <<clock, opLog, applied, request, save, resets, instance>>
  BY <1>1 DEF WriteTransition
<1>5. TypeOK'
  BY <1>1, <1>3, <1>4, WriteTransitionType DEF TypeOK, IInv
<1>6. RecordsStay
  BY <1>1 DEF RecordsStay
<1> QED
  BY <1>1, <1>3, <1>4, <1>5, <1>6, WorkerMoves, RequestsStay DEF IInv

LEMMA WorkerStepInvariant ==
  ASSUME IInv, NEW w \in Workers, WorkerStep(w)
  PROVE  IInv'
  BY SelectDueInvariant, ReadForAdvanceInvariant, PassedRowInvariant,
     CommitRowInvariant, CommitStaleRowInvariant DEF WorkerStep

----------------------------------------------------------------------------
(* ... then the requests of administrators, ...                             *)

LEMMA RequestOnly ==
  ASSUME IInv, NEW r \in Requests, NEW rq \in RequestState,
         request' = [request EXCEPT ![r] = rq], Planned(rq, records),
         UNCHANGED <<clock, db, worker, save, resets, instance>>
  PROVE  IInv'
<1>1. TypeOK'
  BY DEF IInv, TypeOK, db
<1>2. RecordsStay /\ Planned(rq, records')
  BY DEF RecordsStay, db
<1> QED
  BY <1>1, <1>2, RequestMoves, WorkersStay DEF IInv

(* A request that has been answered plans nothing any more.                 *)
LEMMA AnsweredSound ==
  ASSUME NEW rq, rq.key \in Keys \cup {Null},
         NEW reply \in {"none", "ok", "replayed", "conflict", "refused"}
  PROVE  /\ Answered(rq, reply) \in RequestState
         /\ Answered(rq, reply).step = "done"
         /\ \A rows : Planned(Answered(rq, reply), rows)
<1>1. Answered(rq, reply) \in RequestState /\ Answered(rq, reply).step = "done"
  BY NothingType DEF Answered, NewRequest, RequestState
<1> QED
  BY <1>1 DEF Planned

LEMMA SubmitInvariant ==
  ASSUME IInv, NEW r \in Requests, Submit(r)
  PROVE  IInv'
<1>1. PICK action \in Actions, e \in Held(records), key \in Keys \cup {Null},
           reply \in {"replayed", "refused"} :
        LET rq == [NewRequest EXCEPT !.step = "plan", !.action = action,
                     !.exam = e, !.key = key, !.at = clock]
        IN  request' = [request EXCEPT ![r] =
              IF ~Logged(key) THEN rq ELSE Answered(rq, reply)]
  BY DEF Submit
<1> DEFINE rq == [NewRequest EXCEPT !.step = "plan", !.action = action,
                    !.exam = e, !.key = key, !.at = clock]
           new == IF ~Logged(key) THEN rq ELSE Answered(rq, reply)
<1>2. e \in Exams /\ records[e] # Null /\ clock \in Nat
  BY DEF Held, IInv, TypeOK
<1>3. rq \in RequestState /\ rq.step = "plan" /\ rq.exam = e /\ rq.action = action
      /\ rq.key = key
  BY <1>2, NothingType DEF NewRequest, RequestState
<1>4. request' = [request EXCEPT ![r] = new]
  BY <1>1
<1>5. UNCHANGED <<clock, db, worker, save, resets, instance>>
  BY DEF Submit
<1> HIDE DEF rq
<1>6. new \in RequestState /\ Planned(new, records)
  <2>1. Planned(rq, records)
    BY <1>2, <1>3 DEF Planned
  <2>2. Answered(rq, reply) \in RequestState /\ Planned(Answered(rq, reply), records)
    BY <1>2, <1>3, AnsweredSound
  <2> QED
    BY <1>3, <2>1, <2>2
<1> HIDE DEF new
<1> QED
  BY <1>4, <1>5, <1>6, RequestOnly

(* Whatever a request holds when it is answered, the answer is sound.       *)
LEMMA ReplySound ==
  ASSUME IInv, NEW r \in Requests,
         NEW reply \in {"none", "ok", "replayed", "conflict", "refused"}
  PROVE  /\ Answered(request[r], reply) \in RequestState
         /\ \A rows : Planned(Answered(request[r], reply), rows)
<1>1. request[r] \in RequestState
  BY DEF IInv, TypeOK
<1>2. /\ request[r].action \in Actions \cup {Null}
      /\ request[r].exam \in Exams \cup {Null}
      /\ request[r].key \in Keys \cup {Null}
  BY <1>1 DEF RequestState
<1> QED
  BY <1>2, AnsweredSound

LEMMA ReadRecordInvariant ==
  ASSUME IInv, NEW r \in Requests, ReadRecord(r)
  PROVE  IInv'
<1> DEFINE rq == request[r]
           row == records[rq.exam]
           new == [rq EXCEPT !.step = "snapshot", !.row = row]
<1>1. UNCHANGED <<clock, db, worker, save, resets, instance>> /\ rq.step = "plan"
  BY DEF ReadRecord
<1>2. rq \in RequestState /\ records \in Tables
  BY DEF IInv, TypeOK
<1>3. rq.exam \in Exams /\ rq.action \in Actions /\ row \in Record /\ row # Null
  BY <1>1, <1>2 DEF IInv, Planned, Tables
<1>4. CASE rq.action = "copy" \/ Permitted(rq.action, rq.exam, row, rq.at)
  <2>1. request' = [request EXCEPT ![r] = new]
    BY <1>4 DEF ReadRecord, IInv, TypeOK
  <2>2. new \in RequestState /\ new.step = "snapshot" /\ new.row = row
        /\ new.action = rq.action /\ new.exam = rq.exam /\ new.at = rq.at
    BY <1>2, <1>3 DEF RequestState
  <2> HIDE DEF new
  <2>3. Planned(new, records)
    BY <1>3, <1>4, <2>2 DEF Planned
  <2> QED
    BY <1>1, <2>1, <2>2, <2>3, RequestOnly
<1>5. CASE ~(rq.action = "copy" \/ Permitted(rq.action, rq.exam, row, rq.at))
  <2>1. request' = [request EXCEPT ![r] = Answered(rq, "refused")]
    BY <1>5 DEF ReadRecord, Reply
  <2> QED
    BY <1>1, <2>1, ReplySound, RequestOnly
<1> QED
  BY <1>4, <1>5

LEMMA ReadForActionInvariant ==
  ASSUME IInv, NEW r \in Requests, ReadForAction(r)
  PROVE  IInv'
<1> DEFINE rq == request[r]
           new == [rq EXCEPT !.step = "commit", !.majors = majors,
                             !.version = version]
<1>1. UNCHANGED <<clock, db, worker, save, resets, instance>> /\ rq.step = "snapshot"
  BY DEF ReadForAction
<1>2. rq \in RequestState /\ majors \in Snapshots /\ version \in Nat
  BY DEF IInv, TypeOK
<1>3. CASE rq.action = "copy" \/ rq.exam \in Held(majors)
  <2>1. request' = [request EXCEPT ![r] = new]
    BY <1>3 DEF ReadForAction, IInv, TypeOK
  <2>2. new \in RequestState /\ new.step = "commit" /\ new.row = rq.row
        /\ new.action = rq.action /\ new.exam = rq.exam /\ new.at = rq.at
        /\ new.majors = majors
    BY <1>2 DEF RequestState
  <2> HIDE DEF new
  <2>3. Planned(new, records)
    BY <1>1, <1>3, <2>2 DEF Planned, IInv, Held
  <2> QED
    BY <1>1, <2>1, <2>2, <2>3, RequestOnly
<1>4. CASE ~(rq.action = "copy" \/ rq.exam \in Held(majors))
  <2>1. request' = [request EXCEPT ![r] = Answered(rq, "refused")]
    BY <1>4 DEF ReadForAction, Reply
  <2> QED
    BY <1>1, <2>1, ReplySound, RequestOnly
<1> QED
  BY <1>3, <1>4

(* A step that answers a request and leaves the clock, the calls of the     *)
(* advance and the saves alone.                                             *)
LEMMA AnsweredStep ==
  ASSUME IInv, NEW r \in Requests,
         NEW reply \in {"none", "ok", "replayed", "conflict", "refused"},
         Reply(r, reply), RecordsStay, records' \in Tables, majors' \in Snapshots,
         version' \in Nat, revision' \in Nat,
         opLog' \subseteq LogEntry, applied' \in [Keys -> Nat],
         UNCHANGED <<clock, autoLog, worker, save, resets, instance>>
  PROVE  IInv'
<1>1. request' = [request EXCEPT ![r] = Answered(request[r], reply)]
  BY DEF Reply
<1>2. /\ Answered(request[r], reply) \in RequestState
      /\ Planned(Answered(request[r], reply), records')
  BY ReplySound
<1>3. TypeOK'
  BY <1>1, <1>2 DEF IInv, TypeOK
<1> QED
  BY <1>1, <1>2, <1>3, WorkersStay, RequestMoves DEF IInv

LEMMA LoggedType ==
  ASSUME IInv, NEW rq \in RequestState, rq.action \in Actions, rq.exam \in Exams,
         NEW result \in Exams
  PROVE  /\ LogOperation(rq, result) => opLog' \subseteq LogEntry
         /\ CountApplied(rq) => applied' \in [Keys -> Nat]
<1>1. rq.key \in Keys \cup {Null} /\ opLog \subseteq LogEntry
      /\ applied \in [Keys -> Nat]
  BY DEF IInv, TypeOK, RequestState
<1>2. LogOperation(rq, result) => opLog' \subseteq LogEntry
  BY <1>1 DEF LogOperation, LogEntry
<1>3. CountApplied(rq) => applied' \in [Keys -> Nat]
  BY <1>1 DEF CountApplied
<1> QED
  BY <1>2, <1>3

LEMMA ChangedType ==
  ASSUME NEW rq, rq.action \in Operations \cup Transitions, rq.exam \in Exams,
         rq.row \in Record, rq.at \in Nat,
         Permitted(rq.action, rq.exam, rq.row, rq.at)
  PROVE  /\ \A major \in Major : ChangedMajor(rq, major) \in Major
         /\ \A row \in Record : ChangedRecord(rq, row) \in Record
<1>1. OperationPatch(rq.action, rq.row, rq.at) \in Patch
  BY OperationPatchType
<1>2. \A major \in Major : MarkedMajor(rq.action, major) \in Major
  BY DEF MarkedMajor, Major
<1>3. NextStatus(rq.action, rq.row) \in Statuses
  BY DEF NextStatus, Record, Statuses
<1>4. \A row \in Record :
        MarkedRecord(rq.action, row, NextStatus(rq.action, rq.row)) \in Record
  BY <1>3 DEF MarkedRecord, Record
<1> QED
  BY <1>1, <1>2, <1>4, ApplyMajorType, ApplyRecordType
  DEF ChangedMajor, ChangedRecord

LEMMA CommitActionInvariant ==
  ASSUME IInv, NEW r \in Requests, CommitAction(r)
  PROVE  /\ IInv'
         /\ version' > version /\ revision' > revision
<1> DEFINE rq == request[r]
           next == [rq.majors EXCEPT ![rq.exam] = ChangedMajor(rq, @)]
           won == ~Logged(rq.key)
           row == [records EXCEPT ![rq.exam] = ChangedRecord(rq, @)]
           base == IF won THEN row ELSE records
<1>1. rq.step = "commit" /\ rq.action # "copy"
      /\ UNCHANGED <<clock, autoLog, worker, save, resets, instance>>
  BY DEF CommitAction
<1>2. rq \in RequestState /\ records \in Tables /\ rq.majors \in Snapshots
      /\ rq.at \in Nat
  BY DEF IInv, TypeOK, RequestState
<1>3. /\ rq.exam \in Exams /\ rq.action \in Actions /\ records[rq.exam] # Null
      /\ rq.row \in Record /\ Permitted(rq.action, rq.exam, rq.row, rq.at)
      /\ rq.majors[rq.exam] # Null
  BY <1>1 DEF IInv, Planned
<1>4. rq.action \in Operations \cup Transitions
  BY <1>1, <1>3, ProcessAssumption
<1>5. records[rq.exam] \in Record /\ rq.majors[rq.exam] \in Major
  BY <1>2, <1>3 DEF Tables, Snapshots
<1>6. /\ ChangedMajor(rq, rq.majors[rq.exam]) \in Major
      /\ ChangedRecord(rq, records[rq.exam]) \in Record
  BY <1>2, <1>3, <1>4, <1>5, ChangedType
<1>7. next \in Snapshots
  BY <1>2, <1>6 DEF Snapshots
<1>8. row \in Tables /\ \A e \in Exams : records[e] # Null => row[e] # Null
  BY <1>2, <1>6, ExamAssumption DEF Tables
<1>9. base \in Tables /\ \A e \in Exams : records[e] # Null => base[e] # Null
  BY <1>2, <1>8
<1>10. /\ WriteSnapshot(next, rq.at) /\ LogOperation(rq, rq.exam)
       /\ CountApplied(rq) /\ records' = Projected(next, base)
       /\ Reply(r, IF won THEN "ok" ELSE "replayed")
  BY DEF CommitAction
<1> HIDE DEF next, row, base
<1>11. records' \in Tables /\ RecordsStay
  BY <1>7, <1>9, <1>10, ProjectedType, ProjectionKeepsRecords DEF RecordsStay
<1>12. /\ majors' \in Snapshots /\ version' \in Nat /\ revision' \in Nat
       /\ version' > version /\ revision' > revision
  BY <1>2, <1>7, <1>10, WriteSnapshotType
<1>13. opLog' \subseteq LogEntry /\ applied' \in [Keys -> Nat]
  BY <1>2, <1>3, <1>10, LoggedType
<1>14. (IF won THEN "ok" ELSE "replayed") \in {"ok", "replayed"}
  OBVIOUS
<1> QED
  BY <1>1, <1>10, <1>11, <1>12, <1>13, <1>14, AnsweredStep

LEMMA LoseActionInvariant ==
  ASSUME IInv, NEW r \in Requests, LoseAction(r)
  PROVE  IInv'
<1> DEFINE answer == Answered(request[r], "none")
           new == [answer EXCEPT !.step = "project", !.majors = majors]
<1>1. answer \in RequestState /\ majors \in Snapshots
  BY ReplySound DEF IInv, TypeOK
<1>2. new \in RequestState /\ new.step = "project"
  BY <1>1 DEF RequestState
<1>3. request' = [request EXCEPT ![r] = new]
      /\ UNCHANGED <<clock, db, worker, save, resets, instance>>
  BY DEF LoseAction, IInv, TypeOK
<1> HIDE DEF new
<1>4. Planned(new, records)
  BY <1>2 DEF Planned
<1> QED
  BY <1>2, <1>3, <1>4, RequestOnly

LEMMA ProjectLostInvariant ==
  ASSUME IInv, NEW r \in Requests, ProjectLost(r)
  PROVE  IInv'
<1>1. request[r].majors \in Snapshots
  BY DEF IInv, TypeOK, RequestState
<1>2. LateProjection(request[r].majors)
      /\ UNCHANGED <<clock, worker, save, resets, instance>>
  BY DEF ProjectLost
<1>3. /\ majors' \in Snapshots /\ version' \in Nat /\ revision' \in Nat
      /\ records' \in Tables /\ RecordsStay
      /\ UNCHANGED <<majors, version, revision, opLog, autoLog, applied>>
  BY <1>1, <1>2, LateProjectionType
<1>4. opLog' \subseteq LogEntry /\ applied' \in [Keys -> Nat]
  BY <1>3 DEF IInv, TypeOK
<1>5. PICK reply \in {"conflict", "replayed"} : Reply(r, reply)
  BY DEF ProjectLost
<1> QED
  BY <1>2, <1>3, <1>4, <1>5, AnsweredStep

LEMMA CommitCopyInvariant ==
  ASSUME IInv, NEW r \in Requests, NEW e \in Exams, CommitCopy(r, e)
  PROVE  /\ IInv'
         /\ version' > version /\ revision' > revision
<1> DEFINE rq == request[r]
           copy == NewMajor(TRUE, Null, Null)
           next == [rq.majors EXCEPT ![e] = copy]
           won == ~Logged(rq.key)
<1>1. rq.step = "commit" /\ UNCHANGED <<clock, autoLog, worker, save, resets, instance>>
  BY DEF CommitCopy
<1>2. rq \in RequestState /\ records \in Tables /\ rq.majors \in Snapshots
      /\ rq.at \in Nat
  BY DEF IInv, TypeOK, RequestState
<1>3. copy \in Major
  BY NewMajorType DEF OptTime
<1>4. next \in Snapshots
  BY <1>2, <1>3 DEF Snapshots
<1>5. /\ WriteSnapshot(next, rq.at) /\ LogOperation(rq, e) /\ CountApplied(rq)
      /\ records' = IF won THEN [records EXCEPT ![e] = Inserted(e, copy)]
                    ELSE records
      /\ Reply(r, IF won THEN "ok" ELSE "conflict")
  BY DEF CommitCopy
<1> HIDE DEF copy, next
<1>6. Inserted(e, copy) \in Record /\ Inserted(e, copy) # Null
  BY <1>3, InsertedType, ExamAssumption
<1>7. records' \in Tables /\ RecordsStay
  BY <1>2, <1>5, <1>6 DEF Tables, RecordsStay
<1>8. /\ majors' \in Snapshots /\ version' \in Nat /\ revision' \in Nat
      /\ version' > version /\ revision' > revision
  BY <1>2, <1>4, <1>5, WriteSnapshotType
<1>9. rq.exam \in Exams /\ rq.action \in Actions
  BY <1>1 DEF IInv, Planned
<1>10. opLog' \subseteq LogEntry /\ applied' \in [Keys -> Nat]
  BY <1>2, <1>5, <1>9, LoggedType
<1>11. (IF won THEN "ok" ELSE "conflict") \in {"ok", "conflict"}
  OBVIOUS
<1> QED
  BY <1>1, <1>5, <1>7, <1>8, <1>10, <1>11, AnsweredStep

LEMMA LoseCopyInvariant ==
  ASSUME IInv, NEW r \in Requests, LoseCopy(r)
  PROVE  IInv'
<1>1. /\ UNCHANGED <<clock, db, worker, save, resets, instance>>
      /\ request' = [request EXCEPT ![r] = Answered(request[r], "conflict")]
  BY DEF LoseCopy, Reply
<1> QED
  BY <1>1, ReplySound, RequestOnly

LEMMA RequestStepInvariant ==
  ASSUME IInv, NEW r \in Requests, Submit(r) \/ RequestStep(r)
  PROVE  IInv'
  BY SubmitInvariant, ReadRecordInvariant, ReadForActionInvariant,
     CommitActionInvariant, LoseActionInvariant, ProjectLostInvariant,
     CommitCopyInvariant, LoseCopyInvariant DEF RequestStep

----------------------------------------------------------------------------
(* ... and the saves of clients, which leave the requests and the calls of  *)
(* the advance alone.                                                       *)

LEMMA SaveMoves ==
  ASSUME IInv, NEW s \in Saves, NEW sv \in SaveState,
         save' = [save EXCEPT ![s] = sv], RecordsStay, records' \in Tables,
         majors' \in Snapshots, version' \in Nat, revision' \in Nat,
         UNCHANGED <<clock, opLog, autoLog, applied, worker, request, resets, instance>>
  PROVE  IInv'
<1>1. TypeOK'
  BY DEF IInv, TypeOK
<1> QED
  BY <1>1, WorkersStay, RequestsStay DEF IInv

LEMMA SaveOnly ==
  ASSUME IInv, NEW s \in Saves, NEW sv \in SaveState,
         save' = [save EXCEPT ![s] = sv],
         UNCHANGED <<clock, db, worker, request, resets, instance>>
  PROVE  IInv'
<1>1. RecordsStay /\ UNCHANGED <<majors, version, revision, records, opLog, autoLog, applied>>
  BY DEF db, RecordsStay
<1>2. records' \in Tables /\ majors' \in Snapshots /\ version' \in Nat /\ revision' \in Nat
  BY <1>1 DEF IInv, TypeOK
<1> QED
  BY <1>1, <1>2, SaveMoves

LEMMA NewSaveType == NewSave \in SaveState
  BY NothingType DEF NewSave, SaveState

LEMMA BeginSaveInvariant ==
  ASSUME IInv, NEW s \in Saves, Fetch(s) \/ EditBlank(s)
  PROVE  IInv'
<1>1. UNCHANGED <<clock, db, worker, request, resets, instance>>
  BY DEF Fetch, EditBlank
<1>2. CASE Fetch(s)
  <2>1. PICK base \in Bases \ {"blank"} :
          save' = [save EXCEPT ![s] = [NewSave EXCEPT !.step = "editing",
                     !.base = base, !.majors = majors, !.revision = revision,
                     !.version = version]]
    BY <1>2 DEF Fetch
  <2>2. base \in {"revision", "version"}
    BY ProcessAssumption
  <2>3. [NewSave EXCEPT !.step = "editing", !.base = base, !.majors = majors,
                        !.revision = revision, !.version = version] \in SaveState
    BY <2>2, NewSaveType DEF NewSave, SaveState, IInv, TypeOK
  <2> QED
    BY <1>1, <2>1, <2>3, SaveOnly
<1>3. CASE EditBlank(s)
  <2>1. [NewSave EXCEPT !.step = "editing"] \in SaveState
    BY NewSaveType DEF SaveState
  <2> QED
    BY <1>1, <1>3, <2>1, SaveOnly DEF EditBlank
<1> QED
  BY <1>2, <1>3

LEMMA StrippedType ==
  ASSUME NEW copy \in Snapshots
  PROVE  /\ Stripped(copy) \in Snapshots
         /\ \A e \in Exams : copy[e] # Null => Stripped(copy)[e] # Null
<1>1. ASSUME NEW major \in Major
      PROVE  [major EXCEPT !.actualStartAt = Null, !.pausedAt = Null,
                           !.pausedMs = 0, !.archived = FALSE] \in Major
  BY DEF Major, OptTime
<1> QED
  BY <1>1, ExamAssumption DEF Stripped, Snapshots

LEMMA EditedType ==
  ASSUME NEW copy \in Snapshots, NEW edit, NEW e \in Exams, NEW w \in WindowsOf(e),
         edit \in {"reschedule", "endQuick"} => copy[e] # Null, clock \in Nat
  PROVE  Edited(copy, edit, e, w) \in Snapshots
<1>1. w[1] \in OptTime /\ w[2] \in OptTime
  BY ProcessAssumption DEF WindowsOf, OptTime
<1>2. CASE edit = "create"
  <2>1. NewMajor(FALSE, w[1], w[2]) \in Major
    BY <1>1, NewMajorType
  <2> QED
    BY <1>2, <2>1 DEF Edited, Snapshots
<1>3. CASE edit = "delete"
  BY <1>3 DEF Edited, Snapshots
<1>4. CASE edit = "reschedule"
  <2>1. copy[e] \in Major
    BY <1>4 DEF Snapshots
  <2> DEFINE one == [copy EXCEPT ![e] = [copy[e] EXCEPT !.startAt = w[1]]]
  <2>2. [copy[e] EXCEPT !.startAt = w[1]] \in Major
    BY <1>1, <2>1 DEF Major
  <2>3. one \in Snapshots /\ one[e] \in Major
    BY <2>2 DEF Snapshots
  <2>4. Edited(copy, edit, e, w) = [one EXCEPT ![e] = [one[e] EXCEPT !.endAt = w[2]]]
    BY <1>4 DEF Edited
  <2> HIDE DEF one
  <2>5. [one[e] EXCEPT !.endAt = w[2]] \in Major
    BY <1>1, <2>3 DEF Major
  <2> QED
    BY <2>3, <2>4, <2>5 DEF Snapshots
<1>5. CASE edit = "endQuick"
  <2>1. [copy[e] EXCEPT !.actualEndAt = clock] \in Major
    BY <1>5 DEF Snapshots, Major, OptTime
  <2>2. Edited(copy, edit, e, w) = [copy EXCEPT ![e] = [copy[e] EXCEPT !.actualEndAt = clock]]
    BY <1>5 DEF Edited
  <2> QED
    BY <2>1, <2>2 DEF Snapshots
<1>6. CASE edit \notin {"create", "delete", "reschedule", "endQuick"}
  BY <1>6 DEF Edited
<1> QED
  BY <1>2, <1>3, <1>4, <1>5, <1>6

LEMMA ReadForSaveInvariant ==
  ASSUME IInv, NEW s \in Saves, ReadForSave(s)
  PROVE  IInv'
<1> DEFINE old == save[s]
<1>1. old \in SaveState /\ old.majors \in Snapshots /\ majors \in Snapshots
      /\ clock \in Nat
  BY DEF IInv, TypeOK, SaveState
<1>2. PICK edit \in Edits, e \in Exams, rescheduled \in BOOLEAN,
           sent \in {old.majors, Stripped(old.majors)} :
        /\ Editable(old.majors, edit, e)
        /\ \E w \in WindowsOf(e) :
             save' = [save EXCEPT ![s] = Arrived(@, sent, edit, e, w, rescheduled)]
  BY DEF ReadForSave
<1>3. PICK w \in WindowsOf(e) :
        save' = [save EXCEPT ![s] = Arrived(@, sent, edit, e, w, rescheduled)]
  BY <1>2
<1>4. sent \in Snapshots
      /\ (edit \in {"reschedule", "endQuick"} => sent[e] # Null)
  BY <1>1, <1>2, StrippedType DEF Editable
<1>5. Edited(sent, edit, e, w) \in Snapshots
  BY <1>1, <1>4, EditedType
<1>6. Sanitized(majors, Edited(sent, edit, e, w), rescheduled) \in Snapshots
  BY <1>1, <1>5, SanitizedType
<1> DEFINE new == Arrived(old, sent, edit, e, w, rescheduled)
<1>7. new \in SaveState
  BY <1>1, <1>6, NothingType DEF Arrived, SaveState
<1>8. save' = [save EXCEPT ![s] = new]
      /\ UNCHANGED <<clock, db, worker, request, resets, instance>>
  BY <1>3 DEF ReadForSave, IInv, TypeOK
<1> HIDE DEF new
<1> QED
  BY <1>7, <1>8, SaveOnly

LEMMA WriteSaveInvariant ==
  ASSUME IInv, NEW s \in Saves, WriteSave(s)
  PROVE  /\ IInv'
         /\ version' > version /\ revision' >= revision
         /\ majors' # majors => revision' > revision
<1> DEFINE sv == save[s]
           next == IF sv.carriesMajors THEN sv.majors ELSE majors
<1>1. /\ majors \in Snapshots /\ sv.majors \in Snapshots /\ sv.at \in Nat
      /\ version \in Nat /\ revision \in Nat /\ records \in Tables
  BY DEF IInv, TypeOK, SaveState
<1>2. /\ majors' = next
      /\ version' = Max2(sv.at, version + 1)
      /\ revision' = IF next = majors THEN revision ELSE revision + 1
      /\ records' = Projected(next, records)
      /\ UNCHANGED <<clock, opLog, autoLog, applied, worker, request, resets, instance>>
  BY DEF WriteSave
<1>3. next \in Snapshots
  BY <1>1
<1>4. save' = [save EXCEPT ![s] = [NewSave EXCEPT !.step = "done", !.reply = "ok"]]
  BY DEF WriteSave
<1>5. [NewSave EXCEPT !.step = "done", !.reply = "ok"] \in SaveState
  BY NewSaveType DEF SaveState
<1> HIDE DEF next
<1>6. /\ version' \in Nat /\ revision' \in Nat /\ version' > version
      /\ revision' >= revision /\ (majors' # majors => revision' > revision)
  BY <1>1, <1>2 DEF Max2
<1>7. records' \in Tables /\ RecordsStay
  BY <1>1, <1>2, <1>3, ProjectedType, ProjectionKeepsRecords DEF RecordsStay
<1> QED
  BY <1>2, <1>3, <1>4, <1>5, <1>6, <1>7, SaveMoves

LEMMA RejectSaveInvariant ==
  ASSUME IInv, NEW s \in Saves, RejectSave(s)
  PROVE  IInv'
<1>1. [NewSave EXCEPT !.step = "project", !.majors = majors] \in SaveState
  BY NewSaveType DEF SaveState, IInv, TypeOK
<1> QED
  BY <1>1, SaveOnly DEF RejectSave

LEMMA ProjectRejectedInvariant ==
  ASSUME IInv, NEW s \in Saves, ProjectRejected(s)
  PROVE  IInv'
<1>1. save[s].majors \in Snapshots
  BY DEF IInv, TypeOK, SaveState
<1>2. /\ LateProjection(save[s].majors)
      /\ UNCHANGED <<clock, worker, request, resets, instance>>
      /\ save' = [save EXCEPT ![s] = [NewSave EXCEPT !.step = "done",
                                                     !.reply = "conflict"]]
  BY DEF ProjectRejected
<1>3. [NewSave EXCEPT !.step = "done", !.reply = "conflict"] \in SaveState
  BY NewSaveType DEF SaveState
<1>4. /\ majors' \in Snapshots /\ version' \in Nat /\ revision' \in Nat
      /\ records' \in Tables /\ RecordsStay
      /\ UNCHANGED <<majors, version, revision, opLog, autoLog, applied>>
  BY <1>1, <1>2, LateProjectionType
<1> QED
  BY <1>2, <1>3, <1>4, SaveMoves

LEMMA SaveStepInvariant ==
  ASSUME IInv, NEW s \in Saves, Fetch(s) \/ EditBlank(s) \/ SaveStep(s)
  PROVE  IInv'
  BY BeginSaveInvariant, ReadForSaveInvariant, WriteSaveInvariant,
     RejectSaveInvariant, ProjectRejectedInvariant DEF SaveStep

LEMMA ResetInvariant ==
  ASSUME IInv, ResetData
  PROVE  /\ IInv'
         /\ version' > version /\ revision' > revision
<1>1. clock \in Nat
  BY DEF IInv, TypeOK
<1>2. WriteSnapshot(Nothing, clock)
      /\ UNCHANGED <<clock, records, opLog, autoLog, applied, worker, request, save,
                     instance>>
      /\ resets' = resets + 1
  BY DEF ResetData
<1>3. /\ majors' \in Snapshots /\ version' \in Nat /\ revision' \in Nat
      /\ version' > version /\ revision' > revision
  BY <1>1, <1>2, NothingType, WriteSnapshotType
<1>4. TypeOK'
  BY <1>2, <1>3 DEF IInv, TypeOK
<1>5. RecordsStay
  BY <1>2 DEF RecordsStay
<1> QED
  BY <1>2, <1>3, <1>4, <1>5, WorkersStay, RequestsStay DEF IInv

LEMMA InstanceInvariant ==
  ASSUME IInv, NEW i \in Instances, StartInstance(i) \/ ProjectAtStart(i)
  PROVE  IInv'
<1>1. CASE StartInstance(i)
  <2>1. instance' \in [Instances -> InstanceState]
    BY <1>1 DEF StartInstance, IInv, TypeOK, InstanceState
  <2>2. UNCHANGED <<clock, db, worker, request, save, resets>>
    BY <1>1 DEF StartInstance
  <2>3. TypeOK' /\ RecordsStay
    BY <2>1, <2>2 DEF IInv, TypeOK, db, RecordsStay
  <2> QED
    BY <2>2, <2>3, WorkersStay, RequestsStay DEF IInv
<1>2. CASE ProjectAtStart(i)
  <2>1. /\ LateProjection(instance[i].majors)
        /\ UNCHANGED <<clock, worker, request, save, resets>>
    BY <1>2 DEF ProjectAtStart
  <2>2. instance' \in [Instances -> InstanceState]
    BY <1>2, NothingType DEF ProjectAtStart, IInv, TypeOK, InstanceState
  <2>3. instance[i].majors \in Snapshots
    BY DEF IInv, TypeOK, InstanceState
  <2>4. /\ majors' \in Snapshots /\ version' \in Nat /\ revision' \in Nat
        /\ records' \in Tables /\ RecordsStay
        /\ UNCHANGED <<majors, version, revision, opLog, autoLog, applied>>
    BY <2>1, <2>3, LateProjectionType
  <2>5. TypeOK'
    BY <2>1, <2>2, <2>4 DEF IInv, TypeOK
  <2> QED
    BY <2>1, <2>4, <2>5, WorkersStay, RequestsStay DEF IInv
<1> QED
  BY <1>1, <1>2

LEMMA NextInvariant == IInv /\ [Next]_vars => IInv'
<1> SUFFICES ASSUME IInv, [Next]_vars PROVE IInv'
  OBVIOUS
<1>1. CASE Tick
  BY <1>1, TickInvariant
<1>2. CASE \E w \in Workers : Advance(w) \/ Heartbeat(w) \/ WorkerStep(w)
  BY <1>2, AdvanceInvariant, WorkerStepInvariant
<1>3. CASE \E r \in Requests : Submit(r) \/ RequestStep(r)
  BY <1>3, RequestStepInvariant
<1>4. CASE \E s \in Saves : Fetch(s) \/ EditBlank(s) \/ SaveStep(s)
  BY <1>4, SaveStepInvariant
<1>5. CASE ResetData
  BY <1>5, ResetInvariant
<1>6. CASE \E i \in Instances : StartInstance(i) \/ ProjectAtStart(i)
  BY <1>6, InstanceInvariant
<1>7. CASE UNCHANGED vars
  BY <1>7, StutterInvariant
<1> QED
  BY <1>1, <1>2, <1>3, <1>4, <1>5, <1>6, <1>7 DEF Next

(* The invariant holds in every reachable state, ...                        *)
THEOREM InductiveInvariant == Spec => []IInv
  BY InitialInvariant, NextInvariant, PTL DEF Spec

(* ... and with it the types: no handler, however its reads and writes      *)
(* interleave with others', computes a pause or an end that is not a time,  *)
(* patches a record that is gone or writes a snapshot that is not one.      *)
THEOREM TypeCorrect == Spec => []TypeOK
<1>1. IInv => TypeOK
  BY DEF IInv
<1> QED
  BY <1>1, InductiveInvariant, PTL
=============================================================================
