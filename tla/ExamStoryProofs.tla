-------------------------- MODULE ExamStoryProofs --------------------------
(***************************************************************************)
(* The snapshot and the records tell one story of every exam: what has     *)
(* ended or started in the rows has done so in the snapshot, what is over  *)
(* stays over, and nobody pauses what has not started.  Proved for any     *)
(* number of handlers, clients and starting instances; only that a start   *)
(* in the rows is in the snapshot needs clients that have loaded a         *)
(* snapshot before they save one.                                          *)
(***************************************************************************)
EXTENDS ExamDataProofs

RowSound(row) == Over(row.status) => row.actualEndAt # Null

MajorSound(m) == m.archived = TRUE => m.actualEndAt # Null

(* What a tells of an exam, b tells too.  A client that never loaded a      *)
(* snapshot may put an archived exam back as it was before a start.         *)
Told(a, b) ==
  /\ a.actualEndAt # Null => b.actualEndAt # Null
  /\ a.actualStartAt # Null =>
       b.actualStartAt # Null \/ ("blank" \in Bases /\ b.actualEndAt # Null)

(* What rows and the snapshots still to be projected say of an exam, the    *)
(* stored snapshot docs says too.                                           *)
Story(rows, docs, late) ==
  /\ \A e \in Held(rows) : RowSound(rows[e])
  /\ \A e \in Held(docs) : MajorSound(docs[e])
  /\ \A e \in Held(rows) \cap Held(docs) : Told(rows[e], docs[e])
  /\ \A x \in late : \A e \in Held(x) \cap Held(docs) : Told(x[e], docs[e])

LEMMA KeptKeeps ==
  /\ \A a : Kept(a, a)
  /\ \A a, b, c : Kept(a, b) /\ Kept(b, c) => Kept(a, c)
  BY DEF Kept

LEMMA ToldTells ==
  /\ \A a : Told(a, a)
  /\ \A a, b : Kept(a, b) => Told(a, b)
  /\ \A a, b, c : Told(a, b) /\ Told(b, c) => Told(a, c)
  BY DEF Kept, Told

(* Of an exam that is over a blank save may keep no more than its end. *)
LEMMA EndTells ==
  ASSUME "blank" \in Bases, NEW a, NEW b, b.actualEndAt # Null
  PROVE  Told(a, b)
  BY DEF Told
----------------------------------------------------------------------------
(* The projection of a snapshot the story knows. *)
LEMMA UpsertedStory ==
  ASSUME NEW e \in Exams, NEW row \in Record, NEW major \in Major, RowSound(row)
  PROVE  /\ RowSound(Upserted(e, row, major))
         /\ \A m : Told(row, m) /\ Told(major, m) => Told(Upserted(e, row, major), m)
         /\ Over(row.status) \/ major.actualEndAt # Null =>
              Over(Upserted(e, row, major).status)
<1> DEFINE up == Upserted(e, row, major)
<1>1. /\ up.status = MergedStatus(row.status, InitialStatus(e, major))
      /\ up.actualStartAt = Coalesce(major.actualStartAt, row.actualStartAt)
      /\ up.actualEndAt = Coalesce(major.actualEndAt, row.actualEndAt)
      /\ up.pausedAt = row.pausedAt
  BY UpsertedTells
<1>2. InitialStatus(e, major) = "ended" <=> major.actualEndAt # Null
  BY DEF InitialStatus
<1>3. InitialStatus(e, major) \in {"draft", "published", "ended"}
  BY DEF InitialStatus
<1> HIDE DEF up
<1>4. Over(up.status) <=> Over(row.status) \/ major.actualEndAt # Null
  BY <1>1, <1>2, <1>3 DEF Over, MergedStatus
<1>5. RowSound(up)
  BY <1>1, <1>4, CoalesceKeeps DEF RowSound
<1>6. ASSUME NEW m, Told(row, m), Told(major, m) PROVE Told(up, m)
  BY <1>1, <1>6, CoalesceKeeps DEF Told
<1> QED
  BY <1>4, <1>5, <1>6 DEF up

LEMMA InsertedStory ==
  ASSUME NEW e \in Exams, NEW major \in Major
  PROVE  /\ RowSound(Inserted(e, major))
         /\ \A m : Told(major, m) => Told(Inserted(e, major), m)
  BY DEF Inserted, InitialStatus, RowSound, Over, Told

LEMMA ProjectedStory ==
  ASSUME NEW rows \in Tables, NEW docs \in Snapshots, NEW late, NEW x \in Snapshots,
         Story(rows, docs, late),
         \A e \in Held(x) \cap Held(docs) : Told(x[e], docs[e])
  PROVE  /\ Story(Projected(x, rows), docs, late)
         /\ \A e \in Held(rows) :
              Over(rows[e].status) \/ (x[e] # Null /\ x[e].actualEndAt # Null) =>
                Over(Projected(x, rows)[e].status)
<1> DEFINE after == Projected(x, rows)
<1>1. ASSUME NEW e \in Exams
      PROVE  \/ x[e] = Null /\ after[e] = rows[e]
             \/ x[e] \in Major /\ x[e] # Null /\ rows[e] = Null /\ after[e] = Inserted(e, x[e])
             \/ x[e] \in Major /\ x[e] # Null /\ rows[e] \in Record /\ rows[e] # Null
                /\ after[e] = Upserted(e, rows[e], x[e])
  BY <1>1 DEF Projected, Snapshots, Tables
<1> HIDE DEF after
<1>2. ASSUME NEW e \in Held(after)
      PROVE  /\ RowSound(after[e])
             /\ docs[e] # Null => Told(after[e], docs[e])
  <2>1. e \in Exams /\ after[e] # Null
    BY <1>2 DEF Held
  <2>2. rows[e] # Null => RowSound(rows[e]) /\ (docs[e] # Null => Told(rows[e], docs[e]))
    BY <2>1 DEF Story, Held
  <2>3. x[e] # Null /\ docs[e] # Null => Told(x[e], docs[e])
    BY <2>1 DEF Held
  <2> QED
    BY <1>1, <2>1, <2>2, <2>3, UpsertedStory, InsertedStory
<1>3. Story(after, docs, late)
  BY <1>2 DEF Story, Held
<1>4. ASSUME NEW e \in Held(rows),
             Over(rows[e].status) \/ (x[e] # Null /\ x[e].actualEndAt # Null)
      PROVE  Over(after[e].status)
  <2>1. e \in Exams /\ rows[e] # Null /\ RowSound(rows[e])
    BY <1>4 DEF Held, Story
  <2> QED
    BY <1>1, <1>4, <2>1, UpsertedStory
<1> QED
  BY <1>3, <1>4 DEF after

Untold(e, rows, late) == rows[e] = Null /\ \A x \in late : x[e] = Null

(* The major written goes on with the story of e: it keeps what the stored  *)
(* one had, or nobody has told of e, or a blank save puts back one that is  *)
(* over.                                                                    *)
GoesOn(e, docs, major, rows, late) ==
  \/ docs[e] # Null /\ Kept(docs[e], major)
  \/ docs[e] = Null /\ Untold(e, rows, late)
  \/ "blank" \in Bases /\ major.actualEndAt # Null

(* The snapshot written. *)
LEMMA WrittenStory ==
  ASSUME NEW rows \in Tables, NEW docs \in Snapshots, NEW late, NEW next \in Snapshots,
         Story(rows, docs, late),
         \A e \in Held(next) : MajorSound(next[e]) /\ GoesOn(e, docs, next[e], rows, late)
  PROVE  Story(rows, next, late)
<1>1. ASSUME NEW e \in Held(rows) \cap Held(next) PROVE Told(rows[e], next[e])
  BY <1>1, ToldTells, EndTells DEF Story, Held, GoesOn, Untold
<1>2. ASSUME NEW x \in late, NEW e \in Held(x) \cap Held(next) PROVE Told(x[e], next[e])
  BY <1>2, ToldTells, EndTells DEF Story, Held, GoesOn, Untold
<1> QED
  BY <1>1, <1>2 DEF Story

(* A row written. *)
LEMMA RowStory ==
  ASSUME NEW rows \in Tables, NEW docs, NEW late, NEW e \in Exams, NEW row,
         Story(rows, docs, late), RowSound(row),
         docs[e] # Null => Told(row, docs[e])
  PROVE  Story([rows EXCEPT ![e] = row], docs, late)
<1> DEFINE after == [rows EXCEPT ![e] = row]
<1>1. \A x \in Exams : after[x] = IF x = e THEN row ELSE rows[x]
  BY DEF Tables
<1> HIDE DEF after
<1>2. Story(after, docs, late)
  BY <1>1 DEF Story, Held
<1> QED
  BY <1>2 DEF after

LEMMA LateStory ==
  ASSUME NEW rows, NEW docs, NEW late, NEW more, Story(rows, docs, late),
         more \subseteq late \cup {docs}
  PROVE  Story(rows, docs, more)
  BY ToldTells DEF Story, Held
----------------------------------------------------------------------------
(* What the system writes to the snapshot and to the row. *)
LEMMA SystemMajorTells ==
  ASSUME NEW phase \in Phases, NEW e \in Exams, NEW due \in Record, NEW at \in Nat,
         Due(phase, e, due, at), NEW major \in Major
  PROVE  LET p == SystemPatch(phase, due)
             after == SystemMajor(phase, major, due)
         IN /\ after.actualStartAt = Coalesce(p.actualStartAt, major.actualStartAt)
            /\ after.actualEndAt = Coalesce(p.actualEndAt, major.actualEndAt)
            /\ after.pausedAt = IF p.hasPausedAt THEN p.pausedAt ELSE major.pausedAt
<1>1. SystemPatch(phase, due) \in Patch
  BY SystemPatchType
<1>2. Apply(major, SystemPatch(phase, due)) \in Major
  BY <1>1, ApplyMajorType
<1> QED
  BY <1>1, <1>2, ApplyTells DEF SystemMajor, Major

LEMMA SystemPatchTells ==
  ASSUME NEW phase \in Phases, NEW due
  PROVE  LET p == SystemPatch(phase, due)
         IN /\ p.hasPausedAt => phase = "end" /\ p.pausedAt = Null
            /\ p.actualEndAt # Null => phase = "end"
            /\ phase = "end" => p.actualEndAt = due.endAt + due.pausedMs
  BY DEF SystemPatch, EndPatch, NoPatch, Phases

LEMMA SystemMajorStory ==
  ASSUME NEW phase \in Phases, NEW e \in Exams, NEW due \in Record, NEW at \in Nat,
         Due(phase, e, due, at), NEW major \in Major, MajorSound(major),
         phase = "archive" => major.actualEndAt # Null
  PROVE  /\ Kept(major, SystemMajor(phase, major, due))
         /\ MajorSound(SystemMajor(phase, major, due))
<1> DEFINE after == SystemMajor(phase, major, due)
<1>1. Kept(major, after)
  BY SystemMajorTells, CoalesceKeeps DEF Kept
<1>2. after.archived = TRUE => major.archived = TRUE \/ phase = "archive"
  <2>1. Apply(major, SystemPatch(phase, due)) \in Major
    BY SystemPatchType, ApplyMajorType
  <2>2. Apply(major, SystemPatch(phase, due)).archived = major.archived
    BY SystemPatchType, ApplyTells
  <2>3. after.archived = (Apply(major, SystemPatch(phase, due)).archived \/ phase = "archive")
    BY <2>1 DEF SystemMajor, Major
  <2> QED
    BY <2>2, <2>3, Zenon
<1> HIDE DEF after
<1>3. MajorSound(after)
  BY <1>1, <1>2 DEF MajorSound, Kept
<1> QED
  BY <1>1, <1>3 DEF after

LEMMA SystemRecordStory ==
  ASSUME NEW phase \in Phases, NEW e \in Exams, NEW due \in Record, NEW at \in Nat,
         Due(phase, e, due, at), NEW major \in Major, NEW row \in Record,
         RowSound(row), Due(phase, e, row, at), Told(row, major)
  PROVE  /\ RowSound(SystemRecord(phase, row, due))
         /\ Told(SystemRecord(phase, row, due), SystemMajor(phase, major, due))
         /\ Over(row.status) => Over(SystemRecord(phase, row, due).status)
<1> DEFINE p == SystemPatch(phase, due)
           after == SystemRecord(phase, row, due)
           next == SystemMajor(phase, major, due)
<1>1. /\ after.actualStartAt = Coalesce(p.actualStartAt, row.actualStartAt)
      /\ after.actualEndAt = Coalesce(p.actualEndAt, row.actualEndAt)
      /\ after.status = CASE phase = "start" -> "published"
                          [] phase = "end" -> "ended" [] OTHER -> "archived"
  BY SystemRecordTells
<1>2. /\ next.actualStartAt = Coalesce(p.actualStartAt, major.actualStartAt)
      /\ next.actualEndAt = Coalesce(p.actualEndAt, major.actualEndAt)
  BY SystemMajorTells
<1>3. phase = "end" => p.actualEndAt # Null
  <2>1. phase = "end" => due.endAt + due.pausedMs \in Nat
    BY DEF Due, Record, OptTime
  <2> QED
    BY <2>1, SystemPatchTells, ExamAssumption
<1>4. /\ phase = "start" => row.status = "published"
      /\ phase = "archive" => row.actualEndAt # Null
  BY DEF Due
<1> HIDE DEF p, after, next
<1>5. RowSound(after)
  BY <1>1, <1>3, <1>4, CoalesceKeeps DEF RowSound, Over, Phases
<1>6. Told(after, next)
  BY <1>1, <1>2, CoalesceKeeps DEF Told
<1>7. Over(row.status) => Over(after.status)
  BY <1>1, <1>4 DEF Over, Phases
<1> QED
  BY <1>5, <1>6, <1>7 DEF after, next

(* What an action writes to both. *)
LEMMA ChangedMajorTells ==
  ASSUME NEW rq, rq.action \in Operations \cup Transitions, rq.exam \in Exams,
         rq.row \in Record, rq.at \in Nat,
         Permitted(rq.action, rq.exam, rq.row, rq.at), NEW major \in Major
  PROVE  LET p == OperationPatch(rq.action, rq.row, rq.at)
             after == ChangedMajor(rq, major)
         IN /\ after.actualStartAt = Coalesce(p.actualStartAt, major.actualStartAt)
            /\ after.actualEndAt = Coalesce(p.actualEndAt, major.actualEndAt)
            /\ after.pausedAt = IF p.hasPausedAt THEN p.pausedAt ELSE major.pausedAt
<1> DEFINE marked == MarkedMajor(rq.action, major)
<1>1. OperationPatch(rq.action, rq.row, rq.at) \in Patch
  BY OperationPatchType
<1>2. /\ marked \in Major
      /\ marked.actualStartAt = major.actualStartAt
      /\ marked.actualEndAt = major.actualEndAt /\ marked.pausedAt = major.pausedAt
  BY DEF MarkedMajor, Major
<1>3. ChangedMajor(rq, major) = Apply(marked, OperationPatch(rq.action, rq.row, rq.at))
  BY DEF ChangedMajor
<1> HIDE DEF marked
<1> QED
  BY <1>1, <1>2, <1>3, ApplyTells

LEMMA OperationPatchTells ==
  ASSUME NEW action \in Operations \cup Transitions, NEW e \in Exams,
         NEW row \in Record, NEW at \in Nat, Permitted(action, e, row, at)
  PROVE  LET p == OperationPatch(action, row, at)
         IN /\ p.hasPausedAt /\ p.pausedAt # Null =>
                 p.actualStartAt # Null \/ row.actualStartAt # Null
            /\ Over(NextStatus(action, row)) =>
                 p.actualEndAt # Null \/ Over(row.status)
<1>1. at # Null
  BY ExamAssumption
<1>2. CASE action = "pause"
  BY <1>1, <1>2 DEF OperationPatch, NoPatch, BackfilledStart, NextStatus, Over, Reached
<1>3. CASE action = "resume"
  BY <1>3 DEF OperationPatch, NoPatch, NextStatus
<1>4. CASE action = "extend"
  BY <1>4 DEF OperationPatch, NoPatch, NextStatus
<1>5. CASE action = "end"
  BY <1>1, <1>5 DEF OperationPatch, EndPatch, NoPatch
<1>6. CASE action \in {"publish", "archive", "unarchive"}
  BY <1>6 DEF OperationPatch, NoPatch, NextStatus, Permitted, Over
<1> QED
  BY <1>2, <1>3, <1>4, <1>5, <1>6 DEF Operations, Transitions

LEMMA ChangedArchives ==
  ASSUME NEW rq, rq.action \in Operations \cup Transitions, rq.exam \in Exams,
         rq.row \in Record, rq.at \in Nat,
         Permitted(rq.action, rq.exam, rq.row, rq.at), NEW major \in Major
  PROVE  ChangedMajor(rq, major).archived = TRUE =>
           major.archived = TRUE \/ rq.action = "archive"
<1> DEFINE marked == MarkedMajor(rq.action, major)
           p == OperationPatch(rq.action, rq.row, rq.at)
<1>1. p \in Patch
  BY OperationPatchType
<1>2. /\ marked \in Major
      /\ marked.archived = ((major.archived /\ rq.action \notin {"publish", "unarchive"})
                            \/ rq.action = "archive")
  BY DEF MarkedMajor, Major
<1>3. ChangedMajor(rq, major) = Apply(marked, p)
  BY DEF ChangedMajor
<1> HIDE DEF marked, p
<1>4. ChangedMajor(rq, major).archived = marked.archived
  BY <1>1, <1>2, <1>3, ApplyTells
<1> QED
  BY <1>2, <1>4, Zenon

LEMMA ChangedStory ==
  ASSUME NEW rq, rq.action \in Operations \cup Transitions, rq.exam \in Exams,
         rq.row \in Record, rq.at \in Nat,
         Permitted(rq.action, rq.exam, rq.row, rq.at), RowSound(rq.row),
         NEW major \in Major, MajorSound(major), Told(rq.row, major)
  PROVE  /\ Kept(major, ChangedMajor(rq, major))
         /\ MajorSound(ChangedMajor(rq, major))
         /\ \A row \in Record :
              RowSound(row) /\ Kept(rq.row, row) /\ Told(row, major) =>
                /\ RowSound(ChangedRecord(rq, row))
                /\ Told(ChangedRecord(rq, row), ChangedMajor(rq, major))
<1> DEFINE p == OperationPatch(rq.action, rq.row, rq.at)
           next == ChangedMajor(rq, major)
<1>1. /\ next.actualStartAt = Coalesce(p.actualStartAt, major.actualStartAt)
      /\ next.actualEndAt = Coalesce(p.actualEndAt, major.actualEndAt)
  BY ChangedMajorTells
<1>2. Over(NextStatus(rq.action, rq.row)) => p.actualEndAt # Null \/ Over(rq.row.status)
  BY OperationPatchTells
<1>3. /\ next.archived = TRUE => major.archived = TRUE \/ rq.action = "archive"
      /\ rq.action = "archive" => rq.row.actualEndAt # Null
  BY ChangedArchives DEF Permitted, RowSound, Over
<1> HIDE DEF next
<1>4. Kept(major, next)
  BY <1>1, CoalesceKeeps DEF Kept
<1>5. MajorSound(next)
  BY <1>3, <1>4 DEF MajorSound, Kept, Told
<1>6. ASSUME NEW row \in Record, RowSound(row), Kept(rq.row, row), Told(row, major)
      PROVE  RowSound(ChangedRecord(rq, row)) /\ Told(ChangedRecord(rq, row), next)
  <2> DEFINE after == ChangedRecord(rq, row)
  <2>1. /\ after.actualStartAt = Coalesce(p.actualStartAt, row.actualStartAt)
        /\ after.actualEndAt = Coalesce(p.actualEndAt, row.actualEndAt)
        /\ after.status = NextStatus(rq.action, rq.row)
    BY ChangedRecordTells
  <2> HIDE DEF p, after
  <2>2. RowSound(after)
    BY <1>2, <1>6, <2>1, CoalesceKeeps DEF RowSound, Kept
  <2>3. Told(after, next)
    BY <1>1, <1>6, <2>1, CoalesceKeeps DEF Told
  <2> QED
    BY <2>2, <2>3 DEF after
<1> QED
  BY <1>4, <1>5, <1>6 DEF next
----------------------------------------------------------------------------
(* The snapshots that handlers have read and will still project.            *)
LateOf(f) == {f[i].majors : i \in {j \in DOMAIN f : f[j].step = "project"}}
Late == LateOf(save) \cup LateOf(request) \cup LateOf(instance)

(* A major nobody has touched since a client made it. *)
Newborn(m) ==
  /\ m.actualStartAt = Null /\ m.actualEndAt = Null
  /\ m.pausedAt = Null /\ m.archived = FALSE

(* The exams a save that will be accepted creates are new to everybody.     *)
Creates(sv, v, r, docs, rows, late) ==
  sv.step = "write" /\ sv.carriesMajors /\ Guarded(sv, v, r) =>
    \A e \in Held(sv.majors) :
      docs[e] = Null => Newborn(sv.majors[e]) /\ Untold(e, rows, late)

(* A save whose client never loaded a snapshot matches every version.       *)
Blank(sv) ==
  sv.step \in {"editing", "write"} /\ sv.base # "revision" /\ sv.version = 0

PutBack(m) == m.archived = TRUE /\ m.actualEndAt # Null

(* It holds archived exams, which the server has put back into it, and the  *)
(* one it creates, which nobody else can have until it is written.          *)
BlankSound(s, sv, saves, docs, rows, late) ==
  Blank(sv) =>
    /\ "blank" \in Bases
    /\ sv.step = "editing" => sv.majors = Nothing
    /\ sv.step = "write" => \A e \in Held(sv.majors) :
         \/ PutBack(sv.majors[e])
         \/ /\ Newborn(sv.majors[e]) /\ docs[e] = Null /\ Untold(e, rows, late)
            /\ \A t \in Saves : t # s => saves[t].majors[e] = Null

(* The row a request was planned on is one the table has come from, and so  *)
(* are the rows an advance found due.                                       *)
Lasts(a, b) == Kept(a, b) /\ (Over(a.status) => Over(b.status))

Recalls(rq, rows) ==
  rq.step \in {"snapshot", "commit"} /\ rq.action # "copy" =>
    Lasts(rq.row, rows[rq.exam]) /\ RowSound(rq.row)

DueKept(wk, rows) == \A e \in Held(wk.due) : Lasts(wk.due[e], rows[e])

LEMMA LastsLasts ==
  /\ \A a : Lasts(a, a)
  /\ \A a, b, c : Lasts(a, b) /\ Lasts(b, c) => Lasts(a, c)
  BY DEF Lasts, Kept

TInv ==
  /\ SInv /\ CopiesAreCurrent
  /\ version > 0
  /\ \A s \in Saves : BlankSound(s, save[s], save, majors, records, Late)
  /\ \A s \in Saves : Creates(save[s], version, revision, majors, records, Late)
  /\ Story(records, majors, Late)
  /\ \A r \in Requests : Recalls(request[r], records)
  /\ \A w \in Workers : DueKept(worker[w], records)

(* What a step does to the rows, told with the snapshots that were late     *)
(* before it.                                                               *)
StoryStep ==
  /\ Story(records', majors', Late)
  /\ \A e \in Held(records) : Over(records[e].status) => Over(records'[e].status)
  /\ \A e \in Held(records') :
       records[e] # Null \/ majors'[e] # Null \/ \E x \in Late : x[e] # Null

RowsLast ==
  \A e \in Held(records) : records'[e] # Null /\ Lasts(records[e], records'[e])

LEMMA TTypes ==
  ASSUME TInv
  PROVE  /\ IInv /\ CInv /\ SInv
         /\ majors \in Snapshots /\ records \in Tables
         /\ version \in Nat /\ revision \in Nat /\ clock \in Nat
         /\ save \in [Saves -> SaveState]
         /\ request \in [Requests -> RequestState]
         /\ instance \in [Instances -> InstanceState]
         /\ worker \in [Workers -> WorkerState]
  BY DEF TInv, SInv, CInv, IInv, TypeOK

LEMMA LateTypes ==
  ASSUME TInv
  PROVE  Late \subseteq Snapshots
  BY TTypes DEF Late, LateOf, SaveState, RequestState, InstanceState

LEMMA ProjectedFrom ==
  ASSUME NEW x, NEW rows, NEW e \in Exams, Projected(x, rows)[e] # Null
  PROVE  rows[e] # Null \/ x[e] # Null
  BY DEF Projected

(* Nothing told, nothing changed. *)
LEMMA SameStory ==
  ASSUME TInv, UNCHANGED <<majors, records>>
  PROVE  StoryStep
  BY DEF TInv, StoryStep, Held

LEMMA LateStep ==
  ASSUME TInv, NEW seen \in Late, LateProjection(seen)
  PROVE  StoryStep
<1>1. seen \in Snapshots /\ majors \in Snapshots /\ records \in Tables
  BY LateTypes, TTypes
<1>2. records' = Projected(seen, records) /\ majors' = majors
  BY DEF LateProjection
<1>3. Story(records, majors, Late)
  BY DEF TInv
<1>4. \A e \in Held(seen) \cap Held(majors) : Told(seen[e], majors[e])
  BY <1>3 DEF Story
<1> DEFINE late == Late
<1> HIDE DEF late
<1>5. /\ Story(Projected(seen, records), majors, late)
      /\ \A e \in Held(records) :
           Over(records[e].status) => Over(Projected(seen, records)[e].status)
  BY <1>1, <1>3, <1>4, ProjectedStory DEF late
<1>6. \A e \in Held(records') : records[e] # Null \/ seen[e] # Null
  BY <1>2, ProjectedFrom DEF Held
<1> QED
  BY <1>2, <1>5, <1>6 DEF StoryStep, late

LEMMA WorkerStory ==
  ASSUME TInv, NEW w \in Workers, Advance(w) \/ Heartbeat(w) \/ WorkerStep(w)
  PROVE  StoryStep
<1> DEFINE wk == worker[w]
<1>1. /\ IInv /\ majors \in Snapshots /\ records \in Tables /\ wk \in WorkerState
      /\ wk.due \in Tables /\ wk.phase \in Phases /\ wk.at \in Nat
      /\ Story(records, majors, Late)
  BY TTypes DEF TInv, WorkerState
<1>2. ASSUME NEW e \in Exams, WriteTransition(wk, e)
      PROVE  /\ wk.due[e] \in Record /\ records[e] \in Record /\ records[e] # Null
             /\ Due(wk.phase, e, wk.due[e], wk.at)
             /\ majors[e] \in Major /\ majors[e] # Null /\ MajorSound(majors[e])
             /\ majors' \in Snapshots
             /\ majors'[e] = SystemMajor(wk.phase, majors[e], wk.due[e])
             /\ Kept(majors[e], majors'[e])
             /\ \A x \in Exams : x # e => majors'[x] = majors[x]
             /\ Story(records, majors', Late)
  <2>1. wk.majors = majors
    BY <1>2 DEF WriteTransition, TInv, CopiesAreCurrent
  <2>2. e \in Held(wk.due) /\ e \in Held(majors)
    BY <1>2, <2>1 DEF WriteTransition
  <2>3. wk.due[e] \in Record /\ majors[e] \in Major /\ majors[e] # Null
    BY <1>1, <2>2 DEF Held, Tables, Snapshots
  <2>4. records[e] # Null /\ records[e] \in Record /\ Due(wk.phase, e, wk.due[e], wk.at)
    BY <1>1, <2>2 DEF IInv, RowsDue, Held, Tables
  <2>5. MajorSound(majors[e])
    BY <1>1, <2>2 DEF Story
  <2>6. majors' = AdvancedMajors(wk, e) /\ majors' \in Snapshots
    BY <1>1, <1>2, WriteTransitionType
  <2>7. /\ majors'[e] = SystemMajor(wk.phase, majors[e], wk.due[e])
        /\ \A x \in Exams : x # e => majors'[x] = majors[x]
    BY <1>1, <2>1, <2>6 DEF AdvancedMajors, Snapshots
  <2>8. wk.phase = "archive" => majors[e].actualEndAt # Null
    <3>1. Kept(wk.due[e], records[e])
      BY <2>2 DEF TInv, DueKept, Lasts
    <3>2. Told(records[e], majors[e])
      BY <1>1, <2>2, <2>4 DEF Story, Held
    <3> QED
      BY <2>4, <3>1, <3>2 DEF Due, Kept, Told
  <2>9. Kept(majors[e], majors'[e]) /\ MajorSound(majors'[e])
    BY <1>1, <2>3, <2>4, <2>5, <2>7, <2>8, SystemMajorStory
  <2> DEFINE next == majors'
             late == Late
  <2>10. ASSUME NEW x \in Held(next)
         PROVE  MajorSound(next[x]) /\ GoesOn(x, majors, next[x], records, late)
    <3>1. CASE x = e
      BY <2>3, <2>9, <3>1 DEF GoesOn
    <3>2. CASE x # e
      BY <1>1, <2>7, <2>10, <3>2, KeptKeeps DEF Held, Story, GoesOn
    <3> QED
      BY <3>1, <3>2
  <2>11. next \in Snapshots /\ Story(records, majors, late)
    BY <1>1, <2>6
  <2> HIDE DEF next, late
  <2>12. Story(records, next, late)
    BY <1>1, <2>10, <2>11, WrittenStory
  <2> QED
    BY <2>3, <2>4, <2>5, <2>6, <2>7, <2>9, <2>12 DEF next, late
<1>3. ASSUME NEW e \in Exams, CommitRow(w, e) PROVE StoryStep
  <2> DEFINE row == SystemRecord(wk.phase, records[e], wk.due[e])
             next == majors'
             late == Late
  <2>1. /\ WriteTransition(wk, e) /\ Due(wk.phase, e, records[e], wk.at)
        /\ records' = [records EXCEPT ![e] = row]
    BY <1>3 DEF CommitRow
  <2>2. RowSound(records[e]) /\ Told(records[e], majors[e])
    BY <1>1, <1>2, <2>1 DEF Story, Held
  <2>3. /\ RowSound(row)
        /\ Told(row, SystemMajor(wk.phase, majors[e], wk.due[e]))
        /\ Over(records[e].status) => Over(row.status)
    BY <1>1, <1>2, <2>1, <2>2, SystemRecordStory
  <2>4. Told(row, next[e]) /\ Story(records, next, late)
    BY <1>2, <2>1, <2>3
  <2> HIDE DEF row, next, late
  <2>5. Story(records', next, late)
    BY <1>1, <2>1, <2>3, <2>4, RowStory
  <2>6. \A x \in Exams : records'[x] = IF x = e THEN row ELSE records[x]
    BY <1>1, <2>1 DEF Tables
  <2>7. records[e] # Null
    BY <1>2, <2>1
  <2> QED
    BY <2>3, <2>5, <2>6, <2>7 DEF StoryStep, Held, next, late
<1>4. ASSUME NEW e \in Exams, CommitStaleRow(w, e) PROVE StoryStep
  <2>1. WriteTransition(wk, e) /\ records' = records
    BY <1>4 DEF CommitStaleRow
  <2>2. Story(records, majors', Late)
    BY <1>2, <2>1
  <2> QED
    BY <2>1, <2>2 DEF StoryStep, Held
<1>5. CASE UNCHANGED db
  BY <1>5, SameStory DEF db
<1> QED
  BY <1>3, <1>4, <1>5
  DEF WorkerStep, Advance, Heartbeat, SelectDue, ReadForAdvance, SkipRow, LoseRow
----------------------------------------------------------------------------
(* The requests of administrators. *)
LEMMA CommitActionStory ==
  ASSUME TInv, NEW r \in Requests, CommitAction(r)
  PROVE  StoryStep
<1> DEFINE rq == request[r]
           e == rq.exam
           next == [rq.majors EXCEPT ![rq.exam] = ChangedMajor(rq, @)]
           row == ChangedRecord(rq, records[rq.exam])
           rows == [records EXCEPT ![rq.exam] = row]
           base == IF ~Logged(rq.key) THEN rows ELSE records
           late == Late
<1>1. /\ rq.step = "commit" /\ rq.action # "copy" /\ rq.version = version
      /\ majors' = next /\ records' = Projected(next, base)
  BY DEF CommitAction, WriteSnapshot
<1>2. /\ IInv /\ majors \in Snapshots /\ records \in Tables /\ rq \in RequestState
      /\ rq.at \in Nat /\ Story(records, majors, Late)
  BY TTypes DEF TInv, RequestState
<1>3. rq.majors = majors
  BY <1>1 DEF TInv, CopiesAreCurrent
<1>4. /\ e \in Exams /\ rq.action \in Actions /\ records[e] # Null
      /\ rq.row \in Record /\ Permitted(rq.action, e, rq.row, rq.at)
      /\ majors[e] # Null
  BY <1>1, <1>2, <1>3 DEF IInv, Planned
<1>5. rq.action \in Operations \cup Transitions
  BY <1>1, <1>4, ProcessAssumption
<1>6. records[e] \in Record /\ majors[e] \in Major
  BY <1>2, <1>4 DEF Tables, Snapshots
<1>7. /\ MajorSound(majors[e]) /\ RowSound(records[e]) /\ Told(records[e], majors[e])
  BY <1>2, <1>4 DEF Story, Held
<1>8. Kept(rq.row, records[e]) /\ RowSound(rq.row)
  BY <1>1 DEF TInv, Recalls, Lasts
<1>9. Told(rq.row, majors[e])
  BY <1>7, <1>8, ToldTells
<1>10. /\ Kept(majors[e], ChangedMajor(rq, majors[e]))
       /\ MajorSound(ChangedMajor(rq, majors[e]))
       /\ RowSound(row) /\ Told(row, ChangedMajor(rq, majors[e]))
  BY <1>2, <1>4, <1>5, <1>6, <1>7, <1>8, <1>9, ChangedStory
<1>11. ChangedMajor(rq, majors[e]) \in Major /\ row \in Record
  BY <1>2, <1>4, <1>5, <1>6, ChangedType
<1>12. /\ next \in Snapshots
       /\ \A x \in Exams : next[x] = IF x = e THEN ChangedMajor(rq, majors[e]) ELSE majors[x]
  BY <1>2, <1>3, <1>4, <1>11 DEF Snapshots
<1>13. /\ rows \in Tables
       /\ \A x \in Exams : rows[x] = IF x = e THEN row ELSE records[x]
  BY <1>2, <1>4, <1>11 DEF Tables
<1>14. Story(records, majors, late)
  BY <1>2
<1> HIDE DEF rq, e, next, row, late
<1>15. ASSUME NEW x \in Held(next)
       PROVE  MajorSound(next[x]) /\ GoesOn(x, majors, next[x], records, late)
  <2>1. CASE x = e
    BY <1>4, <1>10, <1>12, <2>1 DEF GoesOn
  <2>2. CASE x # e
    BY <1>12, <1>14, <1>15, <2>2, KeptKeeps DEF Held, Story, GoesOn
  <2> QED
    BY <2>1, <2>2
<1>16. Story(records, next, late)
  BY <1>2, <1>12, <1>14, <1>15, WrittenStory
<1>17. Story(rows, next, late)
  <2>1. next[e] # Null => Told(row, next[e])
    BY <1>4, <1>10, <1>12
  <2>2. Story([records EXCEPT ![e] = row], next, late)
    BY <1>2, <1>4, <1>10, <1>16, <2>1, RowStory
  <2> QED
    BY <2>2 DEF e
<1> HIDE DEF rows
<1>18. base \in Tables /\ Story(base, next, late)
  BY <1>2, <1>13, <1>16, <1>17
<1>19. \A x \in Held(records) :
         base[x] # Null /\ (Over(records[x].status) =>
                              Over(base[x].status) \/ (x = e /\ next[e].actualEndAt # Null))
  <2>1. Over(records[e].status) => next[e].actualEndAt # Null
    BY <1>4, <1>7, <1>10, <1>12 DEF RowSound, Kept, Told
  <2>2. row # Null
    BY <1>11, ExamAssumption
  <2> QED
    BY <1>13, <2>1, <2>2 DEF Held
<1>20. \A x \in Held(base) : records[x] # Null
  BY <1>4, <1>13 DEF Held
<1>21. next[e] # Null
  BY <1>4, <1>11, <1>12, ExamAssumption
<1> HIDE DEF base
<1>22. \A x \in Held(next) \cap Held(next) : Told(next[x], next[x])
  BY ToldTells
<1>23. /\ Story(Projected(next, base), next, late)
       /\ \A x \in Held(base) :
            Over(base[x].status) \/ (next[x] # Null /\ next[x].actualEndAt # Null) =>
              Over(Projected(next, base)[x].status)
  BY <1>12, <1>18, <1>22, ProjectedStory
<1>24. \A x \in Held(records) : Over(records[x].status) => Over(records'[x].status)
  BY <1>1, <1>19, <1>21, <1>23 DEF Held
<1>25. \A x \in Held(records') : records[x] # Null \/ majors'[x] # Null
  BY <1>1, <1>20, ProjectedFrom DEF Held
<1> QED
  BY <1>1, <1>23, <1>24, <1>25 DEF StoryStep, late

(* A fresh identifier is unknown to everybody. *)
LEMMA FreshUntold ==
  ASSUME TInv, NEW e \in Exams, Fresh(e)
  PROVE  majors[e] = Null /\ Untold(e, records, Late)
<1>1. majors[e] = Null /\ records[e] = Null
  BY DEF Fresh
<1>2. \A x \in Late : x[e] = Null
  BY TTypes DEF Fresh, Late, LateOf
<1> QED
  BY <1>1, <1>2 DEF Untold

LEMMA CommitCopyStory ==
  ASSUME TInv, NEW r \in Requests, NEW e \in Exams, CommitCopy(r, e)
  PROVE  StoryStep
<1> DEFINE rq == request[r]
           copy == NewMajor(TRUE, Null, Null)
           row == Inserted(e, copy)
           next == [rq.majors EXCEPT ![e] = copy]
           late == Late
<1>1. /\ rq.step = "commit" /\ rq.version = version /\ Fresh(e)
      /\ majors' = next
      /\ records' = [records EXCEPT ![e] = row] \/ records' = records
  BY DEF CommitCopy, WriteSnapshot
<1>2. /\ majors \in Snapshots /\ records \in Tables /\ Story(records, majors, Late)
      /\ copy \in Major
  BY TTypes, NewMajorType DEF TInv, OptTime
<1>3. rq.majors = majors
  BY <1>1 DEF TInv, CopiesAreCurrent
<1>4. /\ next \in Snapshots
      /\ \A x \in Exams : next[x] = IF x = e THEN copy ELSE majors[x]
  BY <1>2, <1>3 DEF Snapshots
<1>5. MajorSound(copy) /\ copy # Null
  BY <1>2, ExamAssumption DEF MajorSound, NewMajor
<1>6. RowSound(row) /\ Told(row, copy)
  BY <1>2, InsertedStory, ToldTells
<1>7. majors[e] = Null /\ Untold(e, records, late)
  BY <1>1, FreshUntold
<1>8. Story(records, majors, late)
  BY <1>2
<1> HIDE DEF rq, copy, row, next, late
<1>9. ASSUME NEW x \in Held(next)
      PROVE  MajorSound(next[x]) /\ GoesOn(x, majors, next[x], records, late)
  <2>1. CASE x = e
    BY <1>4, <1>5, <1>7, <2>1 DEF GoesOn
  <2>2. CASE x # e
    BY <1>4, <1>8, <1>9, <2>2, KeptKeeps DEF Held, Story, GoesOn
  <2> QED
    BY <2>1, <2>2
<1>10. Story(records, next, late)
  BY <1>2, <1>4, <1>8, <1>9, WrittenStory
<1>11. Story([records EXCEPT ![e] = row], next, late)
  BY <1>2, <1>4, <1>6, <1>10, RowStory
<1>12. Story(records', next, late)
  BY <1>1, <1>10, <1>11
<1>13. \A x \in Exams : x # e => records'[x] = records[x]
  BY <1>1, <1>2 DEF Tables
<1>14. next[e] # Null
  BY <1>4, <1>5
<1> QED
  BY <1>1, <1>7, <1>12, <1>13, <1>14 DEF StoryStep, Held, late, Untold

LEMMA RequestStory ==
  ASSUME TInv, NEW r \in Requests, Submit(r) \/ RequestStep(r)
  PROVE  StoryStep
<1>1. CASE ProjectLost(r)
  <2>1. request[r].majors \in Late
    BY <1>1, TTypes DEF ProjectLost, Late, LateOf
  <2> QED
    BY <1>1, <2>1, LateStep DEF ProjectLost
<1>2. CASE UNCHANGED <<majors, records>>
  BY <1>2, SameStory
<1> QED
  BY <1>1, <1>2, CommitActionStory, CommitCopyStory
  DEF RequestStep, Submit, ReadRecord, ReadForAction, LoseAction, LoseCopy, db
----------------------------------------------------------------------------
(* The saves of clients. *)
LEMMA WriteSaveStory ==
  ASSUME TInv, NEW s \in Saves, WriteSave(s)
  PROVE  StoryStep
<1> DEFINE sv == save[s]
           next == IF sv.carriesMajors THEN sv.majors ELSE majors
           late == Late
<1>1. /\ sv.step = "write" /\ (sv.carriesMajors => Matches(sv))
      /\ majors' = next /\ records' = Projected(next, records)
  BY DEF WriteSave
<1>2. /\ majors \in Snapshots /\ records \in Tables /\ Story(records, majors, late)
      /\ sv.majors \in Snapshots
      /\ SaveSound(sv, version, revision, majors)
      /\ BlankSound(s, sv, save, majors, records, late)
      /\ Creates(sv, version, revision, majors, records, late)
  BY TTypes DEF TInv, SInv, SaveState
<1>3. sv.carriesMajors => Guarded(sv, version, revision) \/ Blank(sv)
  BY <1>1, <1>2 DEF Matches, Guarded, Blank
<1> HIDE DEF sv, late
<1>4. next \in Snapshots
  BY <1>2
<1>5. ASSUME NEW e \in Held(next)
      PROVE  MajorSound(next[e]) /\ GoesOn(e, majors, next[e], records, late)
  <2>1. CASE ~sv.carriesMajors
    BY <1>2, <1>5, <2>1, KeptKeeps DEF Story, Held, GoesOn
  <2>2. CASE sv.carriesMajors /\ Blank(sv)
    BY <1>1, <1>2, <1>5, <2>2 DEF BlankSound, PutBack, Newborn, MajorSound, GoesOn
  <2>3. CASE sv.carriesMajors /\ Guarded(sv, version, revision) /\ majors[e] = Null
    BY <1>1, <1>2, <1>5, <2>3 DEF Creates, Newborn, MajorSound, GoesOn
  <2>4. CASE sv.carriesMajors /\ Guarded(sv, version, revision) /\ majors[e] # Null
    <3>1. KeepsRunning(e, majors[e], sv.majors[e]) /\ MajorSound(majors[e])
      BY <1>1, <1>2, <1>5, <2>4 DEF SaveSound, Respects, Held, Story
    <3> QED
      BY <2>4, <3>1 DEF KeepsRunning, MajorSound, Kept, GoesOn
  <2> QED
    BY <1>3, <2>1, <2>2, <2>3, <2>4
<1> HIDE DEF next
<1>6. Story(records, next, late)
  BY <1>2, <1>4, <1>5, WrittenStory
<1>7. \A x \in Held(next) \cap Held(next) : Told(next[x], next[x])
  BY ToldTells
<1>8. /\ Story(Projected(next, records), next, late)
      /\ \A e \in Held(records) :
           Over(records[e].status) => Over(Projected(next, records)[e].status)
  BY <1>2, <1>4, <1>6, <1>7, ProjectedStory
<1>9. \A e \in Held(records') : records[e] # Null \/ majors'[e] # Null
  BY <1>1, ProjectedFrom DEF Held
<1> QED
  BY <1>1, <1>8, <1>9 DEF StoryStep, late

LEMMA SaveStory ==
  ASSUME TInv, NEW s \in Saves, Fetch(s) \/ EditBlank(s) \/ SaveStep(s)
  PROVE  StoryStep
<1>1. CASE ProjectRejected(s)
  <2>1. save[s].majors \in Late
    BY <1>1, TTypes DEF ProjectRejected, Late, LateOf
  <2> QED
    BY <1>1, <2>1, LateStep DEF ProjectRejected
<1>2. CASE UNCHANGED <<majors, records>>
  BY <1>2, SameStory
<1> QED
  BY <1>1, <1>2, WriteSaveStory
  DEF SaveStep, Fetch, EditBlank, ReadForSave, RejectSave, db

LEMMA NextStory ==
  ASSUME TInv, [Next]_vars
  PROVE  StoryStep
<1>1. ASSUME NEW i \in Instances, StartInstance(i) \/ ProjectAtStart(i) PROVE StoryStep
  <2>1. CASE ProjectAtStart(i)
    <3>1. instance[i].majors \in Late
      BY <2>1, TTypes DEF ProjectAtStart, Late, LateOf
    <3> QED
      BY <2>1, <3>1, LateStep DEF ProjectAtStart
  <2>2. CASE StartInstance(i)
    BY <2>2, SameStory DEF StartInstance, db
  <2> QED
    BY <1>1, <2>1, <2>2
<1>2. CASE ResetData
  <2>1. majors' = Nothing /\ records' = records /\ Story(records, majors, Late)
    BY <1>2 DEF ResetData, WriteSnapshot, TInv
  <2>2. Held(Nothing) = {}
    BY DEF Held, Nothing
  <2> QED
    BY <2>1, <2>2 DEF StoryStep, Story, Held
<1>3. CASE Tick \/ UNCHANGED vars
  BY <1>3, SameStory DEF Tick, vars, db
<1> QED
  BY <1>1, <1>2, <1>3, WorkerStory, RequestStory, SaveStory DEF Next
----------------------------------------------------------------------------
(* What the handlers remember. *)
LEMMA LateMoves ==
  ASSUME NEW D, NEW R, NEW f \in [D -> R], NEW i \in D, NEW x, NEW m,
         x.step = "project" => x.majors = m
  PROVE  LateOf([f EXCEPT ![i] = x]) \subseteq LateOf(f) \cup {m}
<1> DEFINE g == [f EXCEPT ![i] = x]
<1>1. DOMAIN g = D /\ DOMAIN f = D /\ \A j \in D : g[j] = IF j = i THEN x ELSE f[j]
  OBVIOUS
<1> HIDE DEF g
<1>2. LateOf(g) \subseteq LateOf(f) \cup {m}
  BY <1>1 DEF LateOf
<1> QED
  BY <1>2 DEF g

(* What a request remembers after its step. *)
Remembered(r) ==
  \E rq : /\ request' = [request EXCEPT ![r] = rq]
          /\ rq.step = "project" => rq.majors = majors'
          /\ Recalls(rq, records')

LEMMA RequestRemembers ==
  ASSUME TInv, NEW r \in Requests, Submit(r) \/ RequestStep(r)
  PROVE  Remembered(r)
<1> DEFINE old == request[r]
<1>1. /\ IInv /\ old \in RequestState /\ request \in [Requests -> RequestState]
      /\ records \in Tables /\ Story(records, majors, Late) /\ Recalls(old, records)
  BY TTypes DEF TInv
<1>2. \A x, reply : Answered(x, reply).step = "done"
  BY DEF Answered, NewRequest
<1>3. ASSUME NEW x, NEW reply, request' = [request EXCEPT ![r] = Answered(x, reply)]
      PROVE  Remembered(r)
  <2> DEFINE new == Answered(x, reply)
  <2>1. new.step = "done"
    BY <1>2
  <2>2. request' = [request EXCEPT ![r] = new]
    BY <1>3
  <2> HIDE DEF new
  <2>3. Recalls(new, records')
    BY <2>1 DEF Recalls
  <2> QED
    BY <2>1, <2>2, <2>3 DEF Remembered
<1>4. CASE Submit(r)
  <2>1. PICK action \in Actions, e \in Held(records), key \in Keys \cup {Null},
             reply \in {"replayed", "refused"} :
          LET q == [NewRequest EXCEPT !.step = "plan", !.action = action,
                      !.exam = e, !.key = key, !.at = clock]
          IN  request' = [request EXCEPT ![r] =
                IF ~Logged(key) THEN q ELSE Answered(q, reply)]
    BY <1>4 DEF Submit
  <2> DEFINE q == [NewRequest EXCEPT !.step = "plan", !.action = action,
                      !.exam = e, !.key = key, !.at = clock]
  <2>2. q.step = "plan"
    BY DEF NewRequest
  <2>3. \/ request' = [request EXCEPT ![r] = q]
        \/ request' = [request EXCEPT ![r] = Answered(q, reply)]
    BY <2>1
  <2> HIDE DEF q
  <2>4. Recalls(q, records')
    BY <2>2 DEF Recalls
  <2>5. CASE request' = [request EXCEPT ![r] = q]
    BY <2>2, <2>4, <2>5 DEF Remembered
  <2> QED
    BY <1>3, <2>3, <2>5
<1>5. CASE ReadRecord(r)
  <2> DEFINE next == [old EXCEPT !.step = "snapshot", !.row = records[old.exam]]
  <2>1. /\ next.step = "snapshot" /\ next.row = records[old.exam] /\ next.exam = old.exam
        /\ old.step = "plan" /\ records' = records
    BY <1>1, <1>5 DEF ReadRecord, RequestState, db
  <2>2. \/ request' = [request EXCEPT ![r] = next]
        \/ request' = [request EXCEPT ![r] = Answered(old, "refused")]
    BY <1>1, <1>5 DEF ReadRecord, Reply
  <2>3. old.exam \in Held(records)
    BY <1>1, <2>1 DEF IInv, Planned, Held
  <2> HIDE DEF next, old
  <2>4. Recalls(next, records')
    BY <1>1, <2>1, <2>3, LastsLasts DEF Recalls, Story
  <2>5. CASE request' = [request EXCEPT ![r] = next]
    BY <2>1, <2>4, <2>5 DEF Remembered
  <2> QED
    BY <1>3, <2>2, <2>5
<1>6. CASE ReadForAction(r)
  <2> DEFINE next == [old EXCEPT !.step = "commit", !.majors = majors,
                                 !.version = version]
  <2>1. /\ next.step = "commit" /\ next.row = old.row /\ next.exam = old.exam
        /\ next.action = old.action /\ old.step = "snapshot" /\ records' = records
    BY <1>1, <1>6 DEF ReadForAction, RequestState, db
  <2>2. \/ request' = [request EXCEPT ![r] = next]
        \/ request' = [request EXCEPT ![r] = Answered(old, "refused")]
    BY <1>1, <1>6 DEF ReadForAction, Reply
  <2> HIDE DEF next, old
  <2>3. Recalls(next, records')
    BY <1>1, <2>1 DEF Recalls
  <2>4. CASE request' = [request EXCEPT ![r] = next]
    BY <2>1, <2>3, <2>4 DEF Remembered
  <2> QED
    BY <1>3, <2>2, <2>4
<1>7. CASE LoseAction(r)
  <2> DEFINE answer == Answered(old, "none")
             next == [answer EXCEPT !.step = "project", !.majors = majors]
  <2>1. answer \in RequestState
    BY <1>1, ReplySound
  <2>2. next.step = "project" /\ next.majors = majors /\ majors' = majors
    BY <1>7, <2>1 DEF RequestState, LoseAction, db
  <2>3. request' = [request EXCEPT ![r] = next]
    BY <1>1, <1>7 DEF LoseAction
  <2> HIDE DEF next
  <2>4. Recalls(next, records')
    BY <2>2 DEF Recalls
  <2> QED
    BY <2>2, <2>3, <2>4 DEF Remembered
<1>8. CASE \/ CommitAction(r) \/ ProjectLost(r) \/ LoseCopy(r)
           \/ \E e \in Exams : CommitCopy(r, e)
  <2>1. PICK reply : request' = [request EXCEPT ![r] = Answered(old, reply)]
    BY <1>8 DEF CommitAction, ProjectLost, LoseCopy, CommitCopy, Reply
  <2> QED
    BY <1>3, <2>1
<1> QED
  BY <1>4, <1>5, <1>6, <1>7, <1>8 DEF RequestStep

----------------------------------------------------------------------------
(* What a save remembers, and what it will create. *)
LEMMA CreatesLate ==
  ASSUME NEW sv, NEW v, NEW r, NEW docs, NEW rows, NEW late, NEW more,
         Creates(sv, v, r, docs, rows, late), more \subseteq late \cup {docs}
  PROVE  Creates(sv, v, r, docs, rows, more)
  BY DEF Creates, Untold

LEMMA CreatesStays ==
  ASSUME TInv, IInv', VersionedStep, StoryStep, NEW s \in Saves
  PROVE  Creates(save[s], version', revision', majors', records', Late)
<1> DEFINE sv == save[s]
           late == Late
<1>1. /\ sv \in SaveState /\ version \in Nat /\ revision \in Nat
      /\ version' \in Nat /\ revision' \in Nat /\ sv.version \in Nat /\ sv.revision \in Nat
      /\ SaveSound(sv, version, revision, majors)
      /\ Creates(sv, version, revision, majors, records, late)
  BY TTypes DEF TInv, SInv, IInv, TypeOK, SaveState
<1>2. \A e \in Held(records') :
        records[e] # Null \/ majors'[e] # Null \/ \E x \in late : x[e] # Null
  BY DEF StoryStep
<1> HIDE DEF sv, late
<1> SUFFICES ASSUME sv.step = "write", sv.carriesMajors, Guarded(sv, version', revision'),
                    NEW e \in Held(sv.majors), majors'[e] = Null
             PROVE  Newborn(sv.majors[e]) /\ Untold(e, records', late)
  BY DEF Creates, sv, late
<1>3. sv.version <= version /\ sv.revision <= revision
  BY <1>1 DEF SaveSound
<1>4. majors' = majors /\ Guarded(sv, version, revision)
  BY <1>1, <1>3 DEF Guarded, VersionedStep
<1>5. Newborn(sv.majors[e]) /\ Untold(e, records, late)
  BY <1>1, <1>4 DEF Creates
<1>6. records'[e] = Null
  BY <1>2, <1>5 DEF Untold, Held
<1> QED
  BY <1>5, <1>6 DEF Untold

(* What comes of a client's copy when it arrives. *)
SentFrom(copy, kept) ==
  \E edit \in Edits, e \in Exams, rescheduled \in BOOLEAN,
     sent \in {copy, Stripped(copy)} :
    /\ Editable(copy, edit, e)
    /\ \E w \in WindowsOf(e) :
         kept = Sanitized(majors, Edited(sent, edit, e, w), rescheduled)

LEMMA SentTells ==
  ASSUME majors \in Snapshots, clock \in Nat, NEW copy \in Snapshots, NEW kept,
         SentFrom(copy, kept), NEW x \in Exams, copy[x] = Null
  PROVE  /\ majors[x] = Null /\ kept[x] # Null => Fresh(x) /\ Newborn(kept[x])
         /\ majors[x] # Null /\ kept[x] # Null =>
              majors[x].archived = TRUE /\ kept[x] = majors[x]
<1>1. PICK edit \in Edits, e \in Exams, rescheduled \in BOOLEAN,
           sent \in {copy, Stripped(copy)} :
        /\ Editable(copy, edit, e)
        /\ \E w \in WindowsOf(e) :
             kept = Sanitized(majors, Edited(sent, edit, e, w), rescheduled)
  BY DEF SentFrom
<1>2. PICK w \in WindowsOf(e) :
        kept = Sanitized(majors, Edited(sent, edit, e, w), rescheduled)
  BY <1>1
<1> DEFINE edited == Edited(sent, edit, e, w)
           frozen == Frozen(majors, edited)
<1>3. sent \in Snapshots
  BY StrippedType
<1>4. edited[x] # Null => x = e /\ edit = "create"
  BY <1>1, EditedTells
<1>5. edited[x] # Null => Fresh(x)
  BY <1>1, <1>4 DEF Editable
<1>6. edited[x] # Null => Newborn(edited[x])
  <2>1. edit = "create" => Edited(sent, edit, e, w)[e] = NewMajor(FALSE, w[1], w[2])
    BY <1>3 DEF Edited, Snapshots
  <2>2. Newborn(NewMajor(FALSE, w[1], w[2]))
    BY DEF Newborn, NewMajor
  <2> QED
    BY <1>4, <2>1, <2>2
<1> HIDE DEF edited
<1>7. frozen[x] = IF majors[x] # Null /\ majors[x].archived THEN majors[x] ELSE edited[x]
  BY DEF Frozen
<1>8. kept[x] = IF majors[x] # Null /\ frozen[x] # Null
                THEN Preserved(x, majors[x], frozen[x], rescheduled) ELSE frozen[x]
  BY <1>2 DEF Sanitized, PreserveServerLifecycleFields, edited
<1> HIDE DEF frozen
<1>9. CASE majors[x] = Null
  BY <1>5, <1>6, <1>7, <1>8, <1>9
<1>10. CASE majors[x] # Null
  <2>1. majors[x] \in Major /\ majors[x].archived \in BOOLEAN
    BY <1>10 DEF Snapshots, Major
  <2>2. edited[x] = Null
    BY <1>5, <1>10 DEF Fresh
  <2>3. kept[x] # Null => frozen[x] # Null
    BY <1>8
  <2>4. kept[x] # Null => majors[x].archived
    BY <1>7, <2>2, <2>3
  <2>5. majors[x].archived => frozen[x] = majors[x]
    BY <1>7, <1>10
  <2>6. majors[x].archived => kept[x] = majors[x]
    BY <1>8, <1>10, <2>1, <2>5, PreservedSame
  <2> QED
    BY <1>10, <2>1, <2>4, <2>6, Zenon
<1> QED
  BY <1>9, <1>10

(* A save once its edit has arrived. *)
LEMMA ArrivedTells ==
  ASSUME TInv, NEW s \in Saves, ReadForSave(s)
  PROVE  \E sv : /\ save' = [save EXCEPT ![s] = sv] /\ sv.step = "write"
                 /\ sv.base = save[s].base /\ sv.version = save[s].version
                 /\ sv.revision = save[s].revision
                 /\ \A x \in Held(sv.majors) : save[s].majors[x] = Null =>
                      /\ majors[x] = Null => Fresh(x) /\ Newborn(sv.majors[x])
                      /\ majors[x] # Null =>
                           majors[x].archived = TRUE /\ sv.majors[x] = majors[x]
<1> DEFINE old == save[s]
<1>1. /\ old \in SaveState /\ old.majors \in Snapshots /\ majors \in Snapshots
      /\ clock \in Nat /\ save \in [Saves -> SaveState]
  BY TTypes DEF SaveState
<1>2. PICK edit \in Edits, e \in Exams, rescheduled \in BOOLEAN,
           sent \in {old.majors, Stripped(old.majors)} :
        /\ Editable(old.majors, edit, e)
        /\ \E w \in WindowsOf(e) :
             save' = [save EXCEPT ![s] = Arrived(@, sent, edit, e, w, rescheduled)]
  BY DEF ReadForSave
<1>3. PICK w \in WindowsOf(e) :
        save' = [save EXCEPT ![s] = Arrived(@, sent, edit, e, w, rescheduled)]
  BY <1>2
<1> DEFINE new == Arrived(old, sent, edit, e, w, rescheduled)
           kept == Sanitized(majors, Edited(sent, edit, e, w), rescheduled)
<1>4. /\ new.step = "write" /\ new.base = old.base
      /\ new.version = old.version /\ new.revision = old.revision
      /\ new.majors = kept \/ new.majors = Nothing
  BY <1>1 DEF Arrived, SaveState
<1>5. save' = [save EXCEPT ![s] = new]
  BY <1>1, <1>3
<1>6. ASSUME NEW x \in Exams, kept[x] # Null, old.majors[x] = Null
      PROVE  /\ majors[x] = Null => Fresh(x) /\ Newborn(kept[x])
             /\ majors[x] # Null => majors[x].archived = TRUE /\ kept[x] = majors[x]
  <2>1. SentFrom(old.majors, kept)
    BY <1>2 DEF SentFrom
  <2> HIDE DEF old, kept
  <2> QED
    BY <1>1, <1>6, <2>1, SentTells
<1> HIDE DEF new, kept
<1>7. \A x \in Held(new.majors) : old.majors[x] = Null =>
        /\ majors[x] = Null => Fresh(x) /\ Newborn(new.majors[x])
        /\ majors[x] # Null => majors[x].archived = TRUE /\ new.majors[x] = majors[x]
  BY <1>4, <1>6 DEF Held, Nothing
<1> QED
  BY <1>4, <1>5, <1>7

(* What save s knows after a step of its own. *)
Known(s, sv) ==
  /\ Creates(sv, version', revision', majors', records', Late)
  /\ BlankSound(s, sv, save, majors', records', Late)

LEMMA ReadForSaveKnows ==
  ASSUME TInv, NEW s \in Saves, ReadForSave(s)
  PROVE  \E sv : save' = [save EXCEPT ![s] = sv] /\ sv.step # "project" /\ Known(s, sv)
<1> DEFINE old == save[s]
           late == Late
<1>1. /\ old \in SaveState /\ majors \in Snapshots
      /\ SaveSound(old, version, revision, majors)
      /\ BlankSound(s, old, save, majors, records, late)
      /\ \A x \in Held(majors) : MajorSound(majors[x])
  BY TTypes DEF TInv, SInv, Story
<1>2. PICK sv : /\ save' = [save EXCEPT ![s] = sv] /\ sv.step = "write"
                /\ sv.base = old.base /\ sv.version = old.version
                /\ sv.revision = old.revision
                /\ \A x \in Held(sv.majors) : old.majors[x] = Null =>
                     /\ majors[x] = Null => Fresh(x) /\ Newborn(sv.majors[x])
                     /\ majors[x] # Null =>
                          majors[x].archived = TRUE /\ sv.majors[x] = majors[x]
  BY ArrivedTells
<1>3. old.step = "editing" /\ UNCHANGED <<version, revision, majors, records>>
  BY DEF ReadForSave, db
<1>4. \A x \in Exams : Fresh(x) =>
        Untold(x, records, late) /\ \A t \in Saves : save[t].majors[x] = Null
  BY FreshUntold DEF Fresh
<1> HIDE DEF old, late
<1>5. Creates(sv, version', revision', majors', records', late)
  <2> SUFFICES ASSUME Guarded(sv, version, revision), NEW x \in Held(sv.majors),
                      majors[x] = Null
               PROVE  Newborn(sv.majors[x]) /\ Untold(x, records, late)
    BY <1>3 DEF Creates
  <2>1. Guarded(old, version, revision)
    BY <1>2 DEF Guarded
  <2>2. old.majors = majors
    BY <1>1, <1>3, <2>1 DEF SaveSound
  <2> QED
    BY <1>2, <1>4, <2>2 DEF Held
<1>6. BlankSound(s, sv, save, majors', records', late)
  <2> SUFFICES ASSUME Blank(sv)
               PROVE  /\ "blank" \in Bases
                      /\ \A x \in Held(sv.majors) :
                           \/ PutBack(sv.majors[x])
                           \/ /\ Newborn(sv.majors[x]) /\ majors[x] = Null
                              /\ Untold(x, records, late)
                              /\ \A t \in Saves : t # s => save[t].majors[x] = Null
    BY <1>2, <1>3 DEF BlankSound
  <2>1. "blank" \in Bases /\ old.majors = Nothing
    BY <1>1, <1>2, <1>3 DEF Blank, BlankSound
  <2>2. ASSUME NEW x \in Held(sv.majors), majors[x] # Null PROVE PutBack(sv.majors[x])
    BY <1>1, <1>2, <2>1, <2>2 DEF Held, Nothing, MajorSound, PutBack
  <2>3. ASSUME NEW x \in Held(sv.majors), majors[x] = Null
        PROVE  Newborn(sv.majors[x]) /\ Fresh(x)
    BY <1>2, <2>1, <2>3 DEF Held, Nothing
  <2> QED
    BY <1>4, <2>1, <2>2, <2>3 DEF Held
<1> QED
  BY <1>2, <1>5, <1>6 DEF Known, late

LEMMA SaveRemembers ==
  ASSUME TInv, NEW s \in Saves, Fetch(s) \/ EditBlank(s) \/ SaveStep(s)
  PROVE  \E sv : /\ save' = [save EXCEPT ![s] = sv]
                 /\ sv.step = "project" => sv.majors = majors'
                 /\ Known(s, sv)
<1>1. save[s] \in SaveState /\ version \in Nat /\ version > 0
  BY TTypes DEF TInv
<1>2. CASE Fetch(s)
  <2>1. PICK base \in Bases \ {"blank"} :
          save' = [save EXCEPT ![s] = [NewSave EXCEPT !.step = "editing",
                     !.base = base, !.majors = majors, !.revision = revision,
                     !.version = version]]
    BY <1>2 DEF Fetch
  <2> DEFINE new == [NewSave EXCEPT !.step = "editing", !.base = base, !.majors = majors,
                       !.revision = revision, !.version = version]
  <2>2. new.step = "editing" /\ new.version = version
    BY DEF NewSave
  <2>3. save' = [save EXCEPT ![s] = new]
    BY <2>1
  <2> HIDE DEF new
  <2>4. Known(s, new)
    BY <1>1, <2>2 DEF Known, BlankSound, Blank, Creates
  <2> QED
    BY <2>2, <2>3, <2>4
<1>3. CASE EditBlank(s)
  <2> DEFINE new == [NewSave EXCEPT !.step = "editing"]
  <2>1. new.step = "editing" /\ new.majors = Nothing
    BY DEF NewSave
  <2>2. save' = [save EXCEPT ![s] = new] /\ "blank" \in Bases
    BY <1>3 DEF EditBlank
  <2> HIDE DEF new
  <2>3. Known(s, new)
    BY <2>1, <2>2 DEF Known, BlankSound, Creates
  <2> QED
    BY <2>1, <2>2, <2>3
<1>4. CASE WriteSave(s) \/ ProjectRejected(s)
  <2>1. PICK new \in {[NewSave EXCEPT !.step = "done", !.reply = "ok"],
                      [NewSave EXCEPT !.step = "done", !.reply = "conflict"]} :
          save' = [save EXCEPT ![s] = new]
    BY <1>4 DEF WriteSave, ProjectRejected
  <2>2. new.step = "done"
    BY <2>1 DEF NewSave
  <2>3. Known(s, new)
    BY <2>2 DEF Known, BlankSound, Blank, Creates
  <2> QED
    BY <2>1, <2>2, <2>3
<1>5. CASE RejectSave(s)
  <2> DEFINE new == [NewSave EXCEPT !.step = "project", !.majors = majors]
  <2>1. new.step = "project" /\ new.majors = majors
    BY DEF NewSave
  <2>2. save' = [save EXCEPT ![s] = new] /\ majors' = majors
    BY <1>5 DEF RejectSave, db
  <2> HIDE DEF new
  <2>3. Known(s, new)
    BY <2>1 DEF Known, BlankSound, Blank, Creates
  <2> QED
    BY <2>1, <2>2, <2>3
<1>6. CASE ReadForSave(s)
  BY <1>6, ReadForSaveKnows
<1> QED
  BY <1>2, <1>3, <1>4, <1>5, <1>6 DEF SaveStep
----------------------------------------------------------------------------
(* An exam that a blank save creates is nobody else's until it is written.  *)
SavesLearn ==
  \A t \in Saves : \A e \in Held(save'[t].majors) :
    save[t].majors[e] # Null \/ majors[e] # Null \/ Fresh(e)

DocsLearn ==
  \A e \in Held(majors') :
    \/ majors[e] # Null \/ Fresh(e)
    \/ \E t \in Saves : WriteSave(t) /\ save[t].majors[e] # Null

LEMMA NextSavesLearn ==
  ASSUME TInv, [Next]_vars
  PROVE  SavesLearn
<1>1. save \in [Saves -> SaveState]
  BY TTypes
<1>2. ASSUME NEW s \in Saves, Fetch(s) \/ EditBlank(s) \/ SaveStep(s)
      PROVE  SavesLearn
  <2>1. \E sv : /\ save' = [save EXCEPT ![s] = sv]
                /\ \A e \in Held(sv.majors) :
                     save[s].majors[e] # Null \/ majors[e] # Null \/ Fresh(e)
    <3>1. CASE ReadForSave(s)
      BY <3>1, ArrivedTells
    <3>2. CASE ~ReadForSave(s)
      <4>1. PICK sv : /\ save' = [save EXCEPT ![s] = sv]
                      /\ sv.majors = Nothing \/ sv.majors = majors
        <5>1. /\ [NewSave EXCEPT !.step = "editing"].majors = Nothing
              /\ [NewSave EXCEPT !.step = "done", !.reply = "ok"].majors = Nothing
              /\ [NewSave EXCEPT !.step = "done", !.reply = "conflict"].majors = Nothing
              /\ [NewSave EXCEPT !.step = "project", !.majors = majors].majors = majors
              /\ \A base : [NewSave EXCEPT !.step = "editing", !.base = base,
                              !.majors = majors, !.revision = revision,
                              !.version = version].majors = majors
          BY DEF NewSave
        <5> QED
          BY <1>2, <3>2, <5>1
          DEF SaveStep, Fetch, EditBlank, WriteSave, RejectSave, ProjectRejected
      <4> QED
        BY <4>1 DEF Held, Nothing
    <3> QED
      BY <3>1, <3>2
  <2>2. PICK sv : /\ save' = [save EXCEPT ![s] = sv]
                  /\ \A e \in Held(sv.majors) :
                       save[s].majors[e] # Null \/ majors[e] # Null \/ Fresh(e)
    BY <2>1
  <2>3. \A t \in Saves : save'[t] = IF t = s THEN sv ELSE save[t]
    BY <1>1, <2>2
  <2> QED
    BY <2>2, <2>3 DEF SavesLearn, Held
<1>3. CASE UNCHANGED save
  BY <1>3 DEF SavesLearn, Held
<1> QED
  BY <1>2, <1>3, OnlySavesSave

LEMMA NextDocsLearn ==
  ASSUME TInv, [Next]_vars
  PROVE  DocsLearn
<1>1. /\ majors \in Snapshots
      /\ \A w \in Workers : worker[w] \in WorkerState
      /\ \A r \in Requests : request[r] \in RequestState
  BY TTypes
<1>2. CASE UNCHANGED majors
  BY <1>2 DEF DocsLearn, Held
<1>3. ASSUME NEW w \in Workers, NEW e \in Exams, CommitRow(w, e) \/ CommitStaleRow(w, e)
      PROVE  DocsLearn
  <2>1. WriteTransition(worker[w], e)
    BY <1>3 DEF CommitRow, CommitStaleRow
  <2>2. worker[w].majors = majors
    BY <2>1 DEF WriteTransition, TInv, CopiesAreCurrent
  <2>3. majors' = AdvancedMajors(worker[w], e) /\ majors[e] # Null
    BY <2>1, <2>2 DEF WriteTransition, WriteSnapshot, Held
  <2>4. \A x \in Exams : x # e => majors'[x] = majors[x]
    BY <1>1, <2>2, <2>3 DEF AdvancedMajors, Snapshots
  <2> QED
    BY <2>3, <2>4 DEF DocsLearn, Held
<1>4. ASSUME NEW r \in Requests, CommitAction(r) \/ \E e \in Exams : CommitCopy(r, e)
      PROVE  DocsLearn
  <2>1. PICK e, major :
          /\ e \in Exams
          /\ majors' = [request[r].majors EXCEPT ![e] = major]
          /\ Fresh(e) \/ request[r].majors[e] # Null
    <3>1. CASE CommitAction(r)
      <4>1. request[r].exam \in Exams /\ request[r].majors[request[r].exam] # Null
        BY <3>1, TTypes DEF CommitAction, IInv, Planned
      <4>2. majors' = [request[r].majors EXCEPT
                         ![request[r].exam] =
                           ChangedMajor(request[r], request[r].majors[request[r].exam])]
        BY <3>1 DEF CommitAction, WriteSnapshot
      <4> QED
        BY <4>1, <4>2
    <3>2. CASE \E e \in Exams : CommitCopy(r, e)
      BY <3>2 DEF CommitCopy, WriteSnapshot
    <3> QED
      BY <1>4, <3>1, <3>2
  <2>2. request[r].majors = majors
    BY <1>4 DEF CommitAction, CommitCopy, TInv, CopiesAreCurrent
  <2>3. \A x \in Exams : x # e => majors'[x] = majors[x]
    BY <1>1, <2>1, <2>2 DEF Snapshots
  <2> QED
    BY <2>1, <2>2, <2>3 DEF DocsLearn, Held
<1>5. ASSUME NEW s \in Saves, WriteSave(s)
      PROVE  DocsLearn
  <2>1. majors' = save[s].majors \/ majors' = majors
    BY <1>5 DEF WriteSave
  <2> QED
    BY <1>5, <2>1 DEF DocsLearn, Held
<1>6. CASE ResetData
  BY <1>6 DEF ResetData, WriteSnapshot, DocsLearn, Held, Nothing
<1>7. \A w \in Workers : Advance(w) \/ Heartbeat(w) \/ WorkerStep(w) =>
        \/ UNCHANGED majors
        \/ \E e \in Exams : CommitRow(w, e) \/ CommitStaleRow(w, e)
  BY DEF Advance, Heartbeat, WorkerStep, SelectDue, ReadForAdvance, SkipRow, LoseRow, db
<1>8. \A r \in Requests : Submit(r) \/ RequestStep(r) =>
        \/ UNCHANGED majors
        \/ CommitAction(r) \/ \E e \in Exams : CommitCopy(r, e)
  BY DEF Submit, RequestStep, ReadRecord, ReadForAction, LoseAction, ProjectLost,
         LoseCopy, LateProjection, db
<1>9. \A s \in Saves : Fetch(s) \/ EditBlank(s) \/ SaveStep(s) =>
        UNCHANGED majors \/ WriteSave(s)
  BY DEF Fetch, EditBlank, SaveStep, ReadForSave, RejectSave, ProjectRejected,
         LateProjection, db
<1>10. Tick \/ UNCHANGED vars \/ (\E i \in Instances : StartInstance(i) \/ ProjectAtStart(i)) =>
         UNCHANGED majors
  BY DEF Tick, StartInstance, ProjectAtStart, LateProjection, db, vars
<1> QED
  BY <1>2, <1>3, <1>4, <1>5, <1>6, <1>7, <1>8, <1>9, <1>10 DEF Next

LEMMA BlankStays ==
  ASSUME TInv, StoryStep, SavesLearn, DocsLearn, NEW s \in Saves, save'[s] = save[s]
  PROVE  BlankSound(s, save[s], save', majors', records', Late)
<1> DEFINE sv == save[s]
           late == Late
<1>1. BlankSound(s, sv, save, majors, records, late)
  BY DEF TInv
<1>2. \A e \in Held(records') :
        records[e] # Null \/ majors'[e] # Null \/ \E x \in late : x[e] # Null
  BY DEF StoryStep
<1> SUFFICES ASSUME Blank(sv), sv.step = "write", NEW e \in Held(sv.majors),
                    ~PutBack(sv.majors[e])
             PROVE  /\ majors'[e] = Null /\ Untold(e, records', late)
                    /\ \A t \in Saves : t # s => save'[t].majors[e] = Null
  BY <1>1 DEF BlankSound
<1>3. /\ majors[e] = Null /\ Untold(e, records, late)
      /\ \A t \in Saves : t # s => save[t].majors[e] = Null
  BY <1>1 DEF BlankSound
<1>4. e \in Exams /\ sv.majors[e] # Null /\ ~Fresh(e)
  BY DEF Held, Fresh
<1>5. ~WriteSave(s)
  <2>1. [NewSave EXCEPT !.step = "done", !.reply = "ok"].step = "done"
    BY DEF NewSave
  <2>2. save \in [Saves -> SaveState]
    BY TTypes
  <2> QED
    BY <2>1, <2>2 DEF WriteSave
<1> HIDE DEF sv, late
<1>6. majors'[e] = Null
  BY <1>3, <1>4, <1>5 DEF DocsLearn, Held
<1>7. Untold(e, records', late)
  BY <1>2, <1>3, <1>4, <1>6 DEF Untold, Held
<1>8. \A t \in Saves : t # s => save'[t].majors[e] = Null
  BY <1>3, <1>4 DEF SavesLearn, Held
<1> QED
  BY <1>6, <1>7, <1>8

LEMMA BlankLate ==
  ASSUME NEW s, NEW sv, NEW saves, NEW docs, NEW rows, NEW late, NEW more,
         BlankSound(s, sv, saves, docs, rows, late), more \subseteq late \cup {docs}
  PROVE  BlankSound(s, sv, saves, docs, rows, more)
  BY DEF BlankSound, Untold
----------------------------------------------------------------------------
(* The invariant is inductive. *)
LEMMA RecallsStays ==
  ASSUME TInv, RowsLast, NEW r \in Requests
  PROVE  Recalls(request[r], records')
<1> DEFINE rq == request[r]
<1>1. Recalls(rq, records) /\ Planned(rq, records)
  BY TTypes DEF TInv, IInv
<1>2. \A e \in Held(records) : Lasts(records[e], records'[e])
  BY DEF RowsLast
<1> HIDE DEF rq
<1>3. Recalls(rq, records')
  BY <1>1, <1>2, LastsLasts DEF Recalls, Planned, Held
<1> QED
  BY <1>3 DEF rq

(* Steps that change what one save, one request or one instance remembers,  *)
(* or none.                                                                 *)
LEMMA LateGrows ==
  ASSUME TInv, [Next]_vars
  PROVE  Late' \subseteq Late \cup {majors'}
<1>1. /\ save \in [Saves -> SaveState] /\ request \in [Requests -> RequestState]
      /\ instance \in [Instances -> InstanceState]
  BY TTypes
<1>2. ASSUME NEW s \in Saves, Fetch(s) \/ EditBlank(s) \/ SaveStep(s)
      PROVE  Late' \subseteq Late \cup {majors'}
  <2>1. PICK sv : /\ save' = [save EXCEPT ![s] = sv]
                  /\ sv.step = "project" => sv.majors = majors'
    BY <1>2, SaveRemembers
  <2>2. UNCHANGED <<request, instance>>
    BY <1>2 DEF Fetch, EditBlank, SaveStep, ReadForSave, WriteSave, RejectSave,
                ProjectRejected
  <2>3. LateOf(save') \subseteq LateOf(save) \cup {majors'}
    BY <1>1, <2>1, LateMoves
  <2> QED
    BY <2>2, <2>3 DEF Late
<1>3. ASSUME NEW r \in Requests, Submit(r) \/ RequestStep(r)
      PROVE  Late' \subseteq Late \cup {majors'}
  <2>1. PICK rq : /\ request' = [request EXCEPT ![r] = rq]
                  /\ rq.step = "project" => rq.majors = majors'
    BY <1>3, RequestRemembers DEF Remembered
  <2>2. UNCHANGED <<save, instance>>
    BY <1>3 DEF Submit, RequestStep, ReadRecord, ReadForAction, CommitAction, LoseAction,
                ProjectLost, CommitCopy, LoseCopy
  <2>3. LateOf(request') \subseteq LateOf(request) \cup {majors'}
    BY <1>1, <2>1, LateMoves
  <2> QED
    BY <2>2, <2>3 DEF Late
<1>4. ASSUME NEW i \in Instances, StartInstance(i) \/ ProjectAtStart(i)
      PROVE  Late' \subseteq Late \cup {majors'}
  <2>1. PICK x : /\ instance' = [instance EXCEPT ![i] = x]
                 /\ x.step = "project" => x.majors = majors'
    <3> DEFINE reading == [step |-> "project", majors |-> majors]
               up == [step |-> "up", majors |-> Nothing]
    <3>1. CASE StartInstance(i)
      <4>1. instance' = [instance EXCEPT ![i] = reading] /\ reading.majors = majors'
        BY <3>1 DEF StartInstance, db
      <4> QED
        BY <4>1
    <3>2. CASE ProjectAtStart(i)
      <4>1. instance' = [instance EXCEPT ![i] = up] /\ up.step # "project"
        BY <3>2 DEF ProjectAtStart
      <4> QED
        BY <4>1
    <3> QED
      BY <1>4, <3>1, <3>2
  <2>2. UNCHANGED <<save, request>>
    BY <1>4 DEF StartInstance, ProjectAtStart
  <2>3. LateOf(instance') \subseteq LateOf(instance) \cup {majors'}
    BY <1>1, <2>1, LateMoves
  <2> QED
    BY <2>2, <2>3 DEF Late
<1>5. CASE UNCHANGED <<save, request, instance>>
  BY <1>5 DEF Late
<1>6. instance' = instance \/ \E i \in Instances : StartInstance(i) \/ ProjectAtStart(i)
  BY OnlyInstancesStart
<1> QED
  BY <1>2, <1>3, <1>4, <1>5, <1>6, OnlySavesSave, OnlyRequestsRequest

LEMMA SavesTold ==
  ASSUME TInv, IInv', VersionedStep, StoryStep, [Next]_vars
  PROVE  \A s \in Saves :
           /\ Creates(save'[s], version', revision', majors', records', Late)
           /\ BlankSound(s, save'[s], save', majors', records', Late)
<1>1. \A s \in Saves : Creates(save[s], version', revision', majors', records', Late)
  BY CreatesStays
<1>2. \A s \in Saves : save'[s] = save[s] =>
        BlankSound(s, save[s], save', majors', records', Late)
  BY BlankStays, NextSavesLearn, NextDocsLearn
<1>3. ASSUME NEW s \in Saves, Fetch(s) \/ EditBlank(s) \/ SaveStep(s),
             NEW t \in Saves
      PROVE  /\ Creates(save'[t], version', revision', majors', records', Late)
             /\ BlankSound(t, save'[t], save', majors', records', Late)
  <2>1. PICK sv : save' = [save EXCEPT ![s] = sv] /\ Known(s, sv)
    BY <1>3, SaveRemembers
  <2>2. \A x \in Saves : save'[x] = IF x = s THEN sv ELSE save[x]
    BY <2>1, TTypes
  <2>3. BlankSound(s, sv, save', majors', records', Late)
    BY <2>1, <2>2 DEF Known, BlankSound
  <2> QED
    BY <1>1, <1>2, <2>1, <2>2, <2>3 DEF Known
<1>4. CASE UNCHANGED save
  BY <1>1, <1>2, <1>4
<1> QED
  BY <1>3, <1>4, OnlySavesSave

LEMMA RequestsTold ==
  ASSUME TInv, RowsLast, [Next]_vars
  PROVE  \A r \in Requests : Recalls(request'[r], records')
<1>1. \A r \in Requests : Recalls(request[r], records')
  BY RecallsStays
<1>2. ASSUME NEW r \in Requests, Submit(r) \/ RequestStep(r), NEW x \in Requests
      PROVE  Recalls(request'[x], records')
  <2>1. PICK rq : request' = [request EXCEPT ![r] = rq] /\ Recalls(rq, records')
    BY <1>2, RequestRemembers DEF Remembered
  <2>2. request'[x] = IF x = r THEN rq ELSE request[x]
    BY <2>1, TTypes
  <2> QED
    BY <1>1, <2>1, <2>2
<1>3. CASE UNCHANGED request
  BY <1>1, <1>3
<1> QED
  BY <1>2, <1>3, OnlyRequestsRequest

(* The rows an advance found due. *)
LEMMA PhaseDoneDue == ASSUME NEW wk PROVE PhaseDone(wk).due = Nothing
  BY DEF PhaseDone, IdleWorker

LEMMA RowDoneDue ==
  ASSUME NEW wk \in WorkerState, NEW e \in Exams, NEW rows, DueKept(wk, rows)
  PROVE  DueKept(RowDone(wk, e), rows)
<1>1. CASE Held(wk.due) = {e}
  BY <1>1, PhaseDoneDue DEF RowDone, DueKept, Held, Nothing
<1>2. CASE Held(wk.due) # {e}
  <2> DEFINE due == [wk.due EXCEPT ![e] = Null]
  <2>1. wk.due \in [Exams -> Record \cup {Null}]
    BY DEF WorkerState, Tables
  <2>2. \A x \in Exams : due[x] = IF x = e THEN Null ELSE wk.due[x]
    BY <2>1
  <2> HIDE DEF due
  <2>3. RowDone(wk, e) = [wk EXCEPT !.due = due]
    BY <1>2 DEF RowDone, due
  <2>4. RowDone(wk, e).due = due
    BY <2>3 DEF WorkerState
  <2> QED
    BY <2>2, <2>4 DEF DueKept, Held
<1> QED
  BY <1>1, <1>2

LEMMA WorkerRemembers ==
  ASSUME TInv, RowsLast, NEW w \in Workers, Advance(w) \/ Heartbeat(w) \/ WorkerStep(w)
  PROVE  \E wk : worker' = [worker EXCEPT ![w] = wk] /\ DueKept(wk, records')
<1> DEFINE old == worker[w]
<1>1. /\ old \in WorkerState /\ old.due \in Tables /\ worker \in [Workers -> WorkerState]
      /\ \A e \in Held(old.due) : e \in Held(records) /\ Lasts(old.due[e], records[e])
  BY TTypes DEF TInv, DueKept, IInv, RowsDue, Held, WorkerState
<1>2. \A e \in Held(records) : Lasts(records[e], records'[e])
  BY DEF RowsLast
<1>3. DueKept(old, records')
  BY <1>1, <1>2, LastsLasts DEF DueKept
<1>4. CASE Advance(w) \/ Heartbeat(w)
  <2> DEFINE start == [IdleWorker EXCEPT !.step = "due", !.at = clock]
             end == [IdleWorker EXCEPT !.step = "due", !.phase = "end", !.at = clock]
  <2>1. PICK new \in {start, end} : worker' = [worker EXCEPT ![w] = new]
    BY <1>4 DEF Advance, Heartbeat
  <2>2. start.due = Nothing /\ end.due = Nothing
    BY DEF IdleWorker
  <2> HIDE DEF start, end
  <2> QED
    BY <2>1, <2>2 DEF DueKept, Held, Nothing
<1>5. CASE SelectDue(w)
  <2> DEFINE rows == DueRows(old.phase, old.at)
             due == [e \in Exams |-> IF e \in rows THEN records[e] ELSE Null]
             next == [old EXCEPT !.step = "snapshot", !.due = due]
  <2>1. /\ worker' = [worker EXCEPT ![w] = IF rows = {} THEN PhaseDone(old) ELSE next]
        /\ records' = records
    BY <1>5 DEF SelectDue, db
  <2>2. next.due = due
    BY <1>1 DEF WorkerState
  <2>3. \A e \in Held(due) : due[e] = records[e]
    BY DEF Held
  <2> HIDE DEF next, due, rows
  <2>4. DueKept(next, records')
    BY <2>1, <2>2, <2>3, LastsLasts DEF DueKept
  <2>5. DueKept(PhaseDone(old), records')
    BY PhaseDoneDue DEF DueKept, Held, Nothing
  <2> QED
    BY <2>1, <2>4, <2>5
<1>6. CASE ReadForAdvance(w)
  <2> DEFINE new == [old EXCEPT !.step = "commit", !.majors = majors, !.version = version]
  <2>1. worker' = [worker EXCEPT ![w] = new]
    BY <1>1, <1>6 DEF ReadForAdvance
  <2>2. new.due = old.due
    BY <1>1 DEF WorkerState
  <2> HIDE DEF new
  <2>3. DueKept(new, records')
    BY <1>3, <2>2 DEF DueKept
  <2> QED
    BY <2>1, <2>3
<1>7. CASE \E e \in Exams : SkipRow(w, e) \/ LoseRow(w, e) \/ CommitStaleRow(w, e)
  <2>1. PICK e \in Exams : worker' = [worker EXCEPT ![w] = RowDone(old, e)]
    BY <1>7 DEF SkipRow, LoseRow, CommitStaleRow
  <2>2. DueKept(RowDone(old, e), records')
    BY <1>1, <1>3, RowDoneDue
  <2> QED
    BY <2>1, <2>2
<1>8. CASE \E e \in Exams : CommitRow(w, e)
  <2>1. PICK e \in Exams : CommitRow(w, e)
    BY <1>8
  <2> DEFINE new == [old EXCEPT !.majors = AdvancedMajors(old, e), !.version = version']
  <2>2. WriteTransition(old, e) /\ worker' = [worker EXCEPT ![w] = RowDone(new, e)]
    BY <2>1 DEF CommitRow
  <2>3. AdvancedMajors(old, e) \in Snapshots /\ version' \in Nat
    BY <1>1, <2>2, TTypes, WriteTransitionType
  <2>4. new \in WorkerState /\ new.due = old.due
    BY <1>1, <2>3 DEF WorkerState
  <2> HIDE DEF new
  <2>5. DueKept(new, records')
    BY <1>3, <2>4 DEF DueKept
  <2>6. DueKept(RowDone(new, e), records')
    BY <2>4, <2>5, RowDoneDue
  <2> QED
    BY <2>2, <2>6
<1> QED
  BY <1>4, <1>5, <1>6, <1>7, <1>8 DEF WorkerStep

LEMMA OnlyWorkersWork ==
  [Next]_vars =>
    worker' = worker \/ \E w \in Workers : Advance(w) \/ Heartbeat(w) \/ WorkerStep(w)
<1> SUFFICES ASSUME [Next]_vars,
                    ~\E w \in Workers : Advance(w) \/ Heartbeat(w) \/ WorkerStep(w)
             PROVE  worker' = worker
  OBVIOUS
<1>1. CASE \E r \in Requests : Submit(r) \/ RequestStep(r)
  BY <1>1
  DEF Submit, RequestStep, ReadRecord, ReadForAction, CommitAction, LoseAction, ProjectLost,
      CommitCopy, LoseCopy
<1>2. CASE \E s \in Saves : Fetch(s) \/ EditBlank(s) \/ SaveStep(s)
  BY <1>2
  DEF Fetch, EditBlank, SaveStep, ReadForSave, WriteSave, RejectSave, ProjectRejected
<1>3. CASE Tick \/ ResetData \/ (\E i \in Instances : StartInstance(i) \/ ProjectAtStart(i))
  BY <1>3 DEF Tick, ResetData, StartInstance, ProjectAtStart
<1>4. CASE UNCHANGED vars
  BY <1>4 DEF vars
<1> QED
  BY <1>1, <1>2, <1>3, <1>4 DEF Next

LEMMA WorkersTold ==
  ASSUME TInv, RowsLast, [Next]_vars
  PROVE  \A w \in Workers : DueKept(worker'[w], records')
<1>1. ASSUME NEW w \in Workers PROVE DueKept(worker[w], records')
  <2>1. \A e \in Held(worker[w].due) : e \in Held(records) /\ Lasts(worker[w].due[e], records[e])
    BY TTypes DEF TInv, DueKept, IInv, RowsDue, Held
  <2>2. \A e \in Held(records) : Lasts(records[e], records'[e])
    BY DEF RowsLast
  <2> QED
    BY <2>1, <2>2, LastsLasts DEF DueKept
<1>2. ASSUME NEW w \in Workers, Advance(w) \/ Heartbeat(w) \/ WorkerStep(w), NEW x \in Workers
      PROVE  DueKept(worker'[x], records')
  <2>1. PICK wk : worker' = [worker EXCEPT ![w] = wk] /\ DueKept(wk, records')
    BY <1>2, WorkerRemembers
  <2>2. worker'[x] = IF x = w THEN wk ELSE worker[x]
    BY <2>1, TTypes
  <2> QED
    BY <1>1, <2>1, <2>2
<1>3. CASE UNCHANGED worker
  BY <1>1, <1>3
<1> QED
  BY <1>2, <1>3, OnlyWorkersWork

LEMMA NextTold ==
  ASSUME TInv, [Next]_vars
  PROVE  TInv'
<1>1. IInv' /\ SInv' /\ CopiesAreCurrent' /\ VersionedStep /\ RowsKeep
  BY TTypes, NextInvariant, NextSound, NextCopies, NextVersioned, NextKeeps DEF CInv
<1>2. StoryStep /\ Late' \subseteq Late \cup {majors'}
  BY NextStory, LateGrows
<1>3. RowsLast
  BY <1>1, <1>2 DEF RowsKeep, StoryStep, RowsLast, Lasts
<1>4. version' > 0
  <2>1. version \in Nat /\ version > 0 /\ version' \in Nat /\ version' >= version
    BY <1>1, TTypes DEF TInv, VersionedStep, IInv, TypeOK
  <2> QED
    BY <2>1
<1>5. \A s \in Saves : BlankSound(s, save'[s], save', majors', records', Late')
  BY <1>1, <1>2, SavesTold, BlankLate
<1>6. \A s \in Saves : Creates(save'[s], version', revision', majors', records', Late')
  BY <1>1, <1>2, SavesTold, CreatesLate
<1>7. Story(records', majors', Late')
  BY <1>2, LateStory DEF StoryStep
<1>8. /\ \A r \in Requests : Recalls(request'[r], records')
      /\ \A w \in Workers : DueKept(worker'[w], records')
  BY <1>3, RequestsTold, WorkersTold
<1> QED
  BY <1>1, <1>4, <1>5, <1>6, <1>7, <1>8 DEF TInv

LEMMA InitialTold == Init => TInv
<1> SUFFICES ASSUME Init PROVE TInv
  OBVIOUS
<1>1. SInv /\ CopiesAreCurrent /\ IInv
  BY InitialSound, InitialCopies DEF CInv, SInv
<1>2. version > 0
  BY DEF Init
<1>3. /\ \A s \in Saves : save[s].step = "new"
      /\ \A r \in Requests : request[r].step = "new"
      /\ \A i \in Instances : instance[i].step = "cold"
      /\ \A w \in Workers : worker[w].due = Nothing
  BY DEF Init, NewSave, NewRequest, IdleWorker
<1>4. Late = {}
  BY <1>1, <1>3 DEF Late, LateOf, IInv, TypeOK
<1>5. majors \in Snapshots /\ records = Projected(majors, Nothing)
  BY <1>1 DEF Init, IInv, TypeOK
<1>6. \A e \in Held(majors) : MajorSound(majors[e])
  <2>1. PICK E \in SUBSET Exams, window \in [Exams -> Windows \cup {<<Null, Null>>}] :
          majors = [e \in Exams |->
            IF e \in E THEN NewMajor(FALSE, window[e][1], window[e][2]) ELSE Null]
    BY DEF Init
  <2> QED
    BY <2>1 DEF Held, MajorSound, NewMajor
<1>7. Story(Nothing, majors, Late)
  BY <1>4, <1>6 DEF Story, Held, Nothing
<1> DEFINE late == Late
<1>8. \A e \in Held(majors) \cap Held(majors) : Told(majors[e], majors[e])
  BY ToldTells
<1>9. Story(records, majors, late)
  <2>1. Story(Nothing, majors, late)
    BY <1>7
  <2> HIDE DEF late
  <2> QED
    BY <1>5, <1>8, <2>1, NothingType, ProjectedStory
<1>10. /\ \A s \in Saves : BlankSound(s, save[s], save, majors, records, Late)
       /\ \A s \in Saves : Creates(save[s], version, revision, majors, records, Late)
       /\ \A r \in Requests : Recalls(request[r], records)
       /\ \A w \in Workers : DueKept(worker[w], records)
  BY <1>3 DEF BlankSound, Blank, Creates, Recalls, DueKept, Held, Nothing
<1> QED
  BY <1>1, <1>2, <1>9, <1>10 DEF TInv

LEMMA ToldInvariant == Spec => []TInv
<1>1. TInv /\ [Next]_vars => TInv'
  BY NextTold
<1> QED
  BY <1>1, InitialTold, PTL DEF Spec

(* What is over in the rows administrators read is over in the snapshot     *)
(* classrooms read, whatever the system, administrators, clients, resets    *)
(* and restarts do and however they interleave, and even if clients save    *)
(* without ever having loaded a snapshot.                                   *)
THEOREM EndedInSnapshot == Spec => []EndedRecordEndedInSnapshot
<1>1. TInv => EndedRecordEndedInSnapshot
  BY DEF TInv, Story, RowSound, Told, EndedRecordEndedInSnapshot, Held
<1> QED
  BY <1>1, ToldInvariant, PTL

(* And what has started in the rows has started in the snapshot, as long as *)
(* clients load a snapshot before they save one.                            *)
THEOREM StartedInSnapshot ==
  ASSUME "blank" \notin Bases PROVE Spec => []StartedRecordStartedInSnapshot
<1>1. TInv => StartedRecordStartedInSnapshot
  BY DEF TInv, Story, Told, StartedRecordStartedInSnapshot
<1> QED
  BY <1>1, ToldInvariant, PTL

(* No exam that is over becomes live again: an action that writes a live    *)
(* status over an end it has not seen is corrected by the projection of the *)
(* same transaction, since the snapshot tells of the end.                   *)
THEOREM OverFinal == Spec => OverIsFinal
<1>1. TInv /\ [Next]_vars =>
        [\A e \in Held(records) :
           Over(records[e].status) => e \in Held(records') /\ Over(records'[e].status)]_vars
  BY NextStory, NextKeeps, TTypes DEF StoryStep, RowsKeep, Held
<1> QED
  BY <1>1, ToldInvariant, PTL DEF Spec, OverIsFinal
----------------------------------------------------------------------------
(* Pauses.  An administrator pauses an exam on a row that may have changed  *)
(* since: the pause backfills the start only where that row lacks it, so    *)
(* the snapshot must have any start a live row has.                         *)
PauseSound(x) == x.pausedAt # Null => x.actualStartAt # Null
Started(x) == x # Null /\ x.actualStartAt # Null
IsOver(e, rows) == rows[e] # Null /\ Over(rows[e].status)

(* While an exam is live, what has started in its row or in a snapshot      *)
(* still to be projected has started in the stored one.                     *)
LiveTold(rows, docs, late) ==
  \A e \in Held(docs) : ~IsOver(e, rows) =>
    /\ Started(rows[e]) => Started(docs[e])
    /\ \A x \in late : Started(x[e]) => Started(docs[e])

Shelved(docs, rows) == \A e \in Held(docs) : docs[e].archived = TRUE => IsOver(e, rows)

(* A request planned on a live row that has started.                        *)
StartKnown(rq, docs) ==
  /\ rq.step \in {"snapshot", "commit"} /\ rq.action # "copy"
  /\ ~Over(rq.row.status) /\ Started(rq.row) /\ docs[rq.exam] # Null
  => Started(docs[rq.exam])

BlankWrite(sv) == Blank(sv) /\ sv.step = "write"

PutBackSound(sv, rows) ==
  BlankWrite(sv) => \A e \in Held(sv.majors) :
    PutBack(sv.majors[e]) => PauseSound(sv.majors[e]) /\ IsOver(e, rows)

(* Beside the pauses themselves: what a pause planned on a row relies on,    *)
(* for the stored snapshot and for one that a blank save may store next.    *)
PInv ==
  /\ TInv
  /\ \A e \in Held(records) : PauseSound(records[e])
  /\ \A e \in Held(majors) : PauseSound(majors[e])
  /\ LiveTold(records, majors, Late)
  /\ Shelved(majors, records)
  /\ \A s \in Saves : PutBackSound(save[s], records)
  /\ \A r \in Requests : StartKnown(request[r], majors)
  /\ \A r \in Requests, s \in Saves :
       BlankWrite(save[s]) => StartKnown(request[r], save[s].majors)

(* What a step writes to the snapshot: the major goes on from the stored    *)
(* one, or it is new, or a blank save puts it back.                         *)
Carried(e) ==
  \/ /\ majors[e] # Null /\ (Started(majors[e]) => Started(majors'[e]))
     /\ majors'[e].archived = TRUE => majors[e].archived = TRUE \/ IsOver(e, records)
  \/ majors[e] = Null /\ Untold(e, records, Late) /\ majors'[e].archived # TRUE
  \/ /\ IsOver(e, records)
     /\ \E s \in Saves : BlankWrite(save[s]) /\ majors'[e] = save[s].majors[e]

MajorsStep == \A e \in Held(majors') : PauseSound(majors'[e]) /\ Carried(e)

(* And to the rows. *)
StartFrom(e) ==
  \/ Started(records[e]) \/ Started(majors'[e])
  \/ \E x \in Late : Started(x[e])

RowsStep ==
  \A e \in Held(records') :
    PauseSound(records'[e]) /\ (Started(records'[e]) => StartFrom(e))

LEMMA SameMajors == ASSUME PInv, UNCHANGED majors PROVE MajorsStep
<1>1. \A e \in Held(majors) : PauseSound(majors[e])
  BY DEF PInv
<1> QED
  BY <1>1 DEF MajorsStep, Carried, Held

LEMMA SamePauses == ASSUME PInv, UNCHANGED records PROVE RowsStep
<1>1. \A e \in Held(records) : PauseSound(records[e])
  BY DEF PInv
<1> QED
  BY <1>1 DEF RowsStep, StartFrom, Held

LEMMA ProjectedPauses ==
  ASSUME NEW x \in Snapshots, NEW rows \in Tables,
         \A e \in Held(rows) : PauseSound(rows[e]),
         NEW e \in Held(Projected(x, rows))
  PROVE  /\ PauseSound(Projected(x, rows)[e])
         /\ Started(Projected(x, rows)[e]) => Started(rows[e]) \/ Started(x[e])
<1> DEFINE after == Projected(x, rows)
<1> SUFFICES /\ PauseSound(after[e])
             /\ Started(after[e]) => Started(rows[e]) \/ Started(x[e])
  OBVIOUS
<1>1. e \in Exams
  BY DEF Held
<1>2. \/ x[e] = Null /\ after[e] = rows[e]
      \/ x[e] \in Major /\ x[e] # Null /\ rows[e] = Null /\ after[e] = Inserted(e, x[e])
      \/ x[e] \in Major /\ x[e] # Null /\ rows[e] \in Record /\ rows[e] # Null
         /\ after[e] = Upserted(e, rows[e], x[e])
  BY <1>1 DEF Projected, Snapshots, Tables
<1>3. after[e] # Null
  BY DEF Held
<1> HIDE DEF after
<1>4. CASE after[e] = rows[e]
  BY <1>1, <1>3, <1>4 DEF Held
<1>5. CASE x[e] # Null /\ after[e] = Inserted(e, x[e])
  BY <1>5 DEF Inserted, PauseSound, Started
<1>6. CASE x[e] # Null /\ rows[e] # Null /\ x[e] \in Major /\ rows[e] \in Record
           /\ after[e] = Upserted(e, rows[e], x[e])
  <2>1. PauseSound(rows[e])
    BY <1>1, <1>6 DEF Held
  <2>2. /\ after[e].actualStartAt = Coalesce(x[e].actualStartAt, rows[e].actualStartAt)
        /\ after[e].pausedAt = rows[e].pausedAt
    BY <1>1, <1>6, UpsertedTells
  <2> QED
    BY <1>6, <2>1, <2>2, CoalesceKeeps DEF PauseSound, Started
<1> QED
  BY <1>2, <1>4, <1>5, <1>6

LEMMA LatePauses ==
  ASSUME PInv, NEW seen \in Late, LateProjection(seen)
  PROVE  MajorsStep /\ RowsStep
<1>1. /\ seen \in Snapshots /\ records \in Tables
      /\ \A e \in Held(records) : PauseSound(records[e])
  BY LateTypes, TTypes DEF PInv
<1>2. records' = Projected(seen, records) /\ majors' = majors
  BY DEF LateProjection
<1>3. RowsStep
  BY <1>1, <1>2, ProjectedPauses DEF RowsStep, StartFrom
<1> QED
  BY <1>2, <1>3, SameMajors

(* The system: a start is written to both, and only a row that is over is   *)
(* archived.                                                                *)
LEMMA SystemArchives ==
  ASSUME NEW phase \in Phases, NEW due, NEW major \in Major, NEW e \in Exams,
         due \in Record, NEW at \in Nat, Due(phase, e, due, at)
  PROVE  SystemMajor(phase, major, due).archived = TRUE =>
           major.archived = TRUE \/ Over(due.status)
<1> DEFINE patched == Apply(major, SystemPatch(phase, due))
<1>1. patched \in Major /\ patched.archived = major.archived
  BY SystemPatchType, ApplyMajorType, ApplyTells
<1>2. SystemMajor(phase, major, due).archived = (patched.archived \/ phase = "archive")
  BY <1>1 DEF SystemMajor, Major
<1>3. phase = "archive" => Over(due.status)
  BY DEF Due, Over
<1> HIDE DEF patched
<1> QED
  BY <1>1, <1>2, <1>3, Zenon

LEMMA TransitionPauses ==
  ASSUME PInv, NEW w \in Workers, NEW e \in Exams, WriteTransition(worker[w], e)
  PROVE  /\ MajorsStep
         /\ worker[w].due[e] \in Record /\ majors[e] \in Major
         /\ majors[e] # Null /\ majors'[e] # Null
         /\ Due(worker[w].phase, e, worker[w].due[e], worker[w].at)
         /\ majors'[e] = SystemMajor(worker[w].phase, majors[e], worker[w].due[e])
<1> DEFINE wk == worker[w]
<1>1. /\ IInv /\ TInv /\ majors \in Snapshots /\ records \in Tables /\ wk \in WorkerState
      /\ wk.due \in Tables /\ wk.phase \in Phases /\ wk.at \in Nat
      /\ \A x \in Held(majors) : PauseSound(majors[x])
  BY TTypes DEF PInv, WorkerState
<1>2. wk.majors = majors
  BY <1>1 DEF WriteTransition, TInv, CopiesAreCurrent
<1>3. e \in Held(wk.due) /\ e \in Held(majors)
  BY <1>2 DEF WriteTransition
<1>4. /\ wk.due[e] \in Record /\ majors[e] \in Major /\ majors[e] # Null
      /\ records[e] # Null /\ Due(wk.phase, e, wk.due[e], wk.at)
  BY <1>1, <1>3 DEF Held, Tables, Snapshots, IInv, RowsDue
<1>5. majors' = AdvancedMajors(wk, e) /\ majors' \in Snapshots
  BY <1>1, WriteTransitionType
<1>6. /\ majors'[e] = SystemMajor(wk.phase, majors[e], wk.due[e])
      /\ \A x \in Exams : x # e => majors'[x] = majors[x]
  BY <1>1, <1>2, <1>5 DEF AdvancedMajors, Snapshots
<1>7. SystemMajor(wk.phase, majors[e], wk.due[e]) \in Major
  BY <1>1, <1>4, SystemMajorType
<1>8. Over(wk.due[e].status) => IsOver(e, records)
  BY <1>1, <1>3, <1>4 DEF TInv, DueKept, Lasts, IsOver
<1>9. /\ majors'[e].actualStartAt = Coalesce(SystemPatch(wk.phase, wk.due[e]).actualStartAt,
                                            majors[e].actualStartAt)
      /\ majors'[e].pausedAt = majors[e].pausedAt \/ majors'[e].pausedAt = Null
  BY <1>1, <1>4, <1>6, SystemMajorTells, SystemPatchTells
<1>10. majors'[e].archived = TRUE => majors[e].archived = TRUE \/ IsOver(e, records)
  BY <1>1, <1>4, <1>6, <1>8, SystemArchives
<1> HIDE DEF wk
<1>11. PauseSound(majors'[e]) /\ Carried(e)
  <2>1. PauseSound(majors[e])
    BY <1>1, <1>3
  <2>2. majors'[e] # Null
    BY <1>6, <1>7, ExamAssumption
  <2> QED
    BY <1>4, <1>9, <1>10, <2>1, <2>2, CoalesceKeeps DEF PauseSound, Carried, Started
<1>12. MajorsStep
  <2>1. ASSUME NEW x \in Held(majors'), x # e PROVE PauseSound(majors'[x]) /\ Carried(x)
    BY <1>1, <1>6, <2>1 DEF Carried, Held
  <2> QED
    BY <1>11, <2>1 DEF MajorsStep
<1> QED
  BY <1>4, <1>6, <1>7, <1>12, ExamAssumption DEF wk

LEMMA WorkerPauses ==
  ASSUME PInv, NEW w \in Workers, Advance(w) \/ Heartbeat(w) \/ WorkerStep(w)
  PROVE  MajorsStep /\ RowsStep
<1> DEFINE wk == worker[w]
<1>1. ASSUME NEW e \in Exams, CommitRow(w, e) PROVE MajorsStep /\ RowsStep
  <2> DEFINE due == wk.due[e]
             row == SystemRecord(wk.phase, records[e], due)
             p == SystemPatch(wk.phase, due)
  <2>1. /\ WriteTransition(wk, e) /\ Due(wk.phase, e, records[e], wk.at)
        /\ records' = [records EXCEPT ![e] = row]
    BY <1>1 DEF CommitRow
  <2>2. /\ MajorsStep /\ due \in Record /\ majors[e] \in Major
        /\ majors'[e] # Null /\ Due(wk.phase, e, due, wk.at)
        /\ majors'[e] = SystemMajor(wk.phase, majors[e], due)
    BY <2>1, TransitionPauses
  <2>3. /\ records \in Tables /\ wk.phase \in Phases /\ wk.at \in Nat
        /\ e \in Held(wk.due) /\ IInv
        /\ \A x \in Held(records) : PauseSound(records[x])
    BY <2>1, TTypes DEF PInv, WorkerState, WriteTransition
  <2>4. records[e] \in Record /\ records[e] # Null
    BY <2>3 DEF IInv, RowsDue, Held, Tables
  <2>5. /\ row.actualStartAt = Coalesce(p.actualStartAt, records[e].actualStartAt)
        /\ row.pausedAt = records[e].pausedAt \/ row.pausedAt = Null
        /\ majors'[e].actualStartAt = Coalesce(p.actualStartAt, majors[e].actualStartAt)
    BY <2>2, <2>3, <2>4, SystemRecordTells, SystemMajorTells, SystemPatchTells
  <2>6. \A x \in Exams : records'[x] = IF x = e THEN row ELSE records[x]
    BY <2>1, <2>3 DEF Tables
  <2> HIDE DEF row, p, due, wk
  <2>7. PauseSound(records[e])
    BY <2>3, <2>4 DEF Held
  <2>8. PauseSound(row) /\ (Started(row) => StartFrom(e))
    BY <2>2, <2>4, <2>5, <2>7, CoalesceKeeps DEF PauseSound, StartFrom, Started
  <2>9. RowsStep
    BY <2>3, <2>6, <2>8 DEF RowsStep, StartFrom, Held
  <2> QED
    BY <2>2, <2>9
<1>2. ASSUME NEW e \in Exams, CommitStaleRow(w, e) PROVE MajorsStep /\ RowsStep
  <2>1. WriteTransition(wk, e) /\ records' = records
    BY <1>2 DEF CommitStaleRow
  <2> QED
    BY <2>1, TransitionPauses, SamePauses
<1>3. CASE UNCHANGED db
  BY <1>3, SameMajors, SamePauses DEF db
<1> QED
  BY <1>1, <1>2, <1>3
  DEF WorkerStep, Advance, Heartbeat, SelectDue, ReadForAdvance, SkipRow, LoseRow

(* Requests: a pause backfills the start that the row it was planned on     *)
(* lacks, and the snapshot has the start which that row tells of.           *)
LEMMA PausedPatch ==
  ASSUME NEW action \in Operations \cup Transitions, NEW e \in Exams,
         NEW row \in Record, NEW at \in Nat, Permitted(action, e, row, at)
  PROVE  LET p == OperationPatch(action, row, at)
         IN p.hasPausedAt /\ p.pausedAt # Null /\ p.actualStartAt = Null =>
              row.actualStartAt # Null /\ ~Over(row.status)
<1> DEFINE p == OperationPatch(action, row, at)
<1>1. p.hasPausedAt /\ p.pausedAt # Null => p.actualStartAt # Null \/ row.actualStartAt # Null
  BY OperationPatchTells
<1>2. CASE action = "pause"
  BY <1>1, <1>2 DEF Permitted, Over
<1>3. CASE action # "pause"
  BY <1>3 DEF OperationPatch, EndPatch, NoPatch
<1> QED
  BY <1>2, <1>3

LEMMA CommitActionPauses ==
  ASSUME PInv, NEW r \in Requests, CommitAction(r)
  PROVE  MajorsStep /\ RowsStep
<1> DEFINE rq == request[r]
           e == rq.exam
           p == OperationPatch(rq.action, rq.row, rq.at)
           major == ChangedMajor(rq, majors[e])
           row == ChangedRecord(rq, records[e])
           next == [rq.majors EXCEPT ![rq.exam] = ChangedMajor(rq, @)]
           rows == [records EXCEPT ![rq.exam] = row]
           base == IF ~Logged(rq.key) THEN rows ELSE records
<1>1. /\ rq.step = "commit" /\ rq.action # "copy" /\ rq.version = version
      /\ majors' = next /\ records' = Projected(next, base)
  BY DEF CommitAction, WriteSnapshot
<1>2. /\ TInv /\ IInv /\ majors \in Snapshots /\ records \in Tables /\ rq \in RequestState
      /\ rq.at \in Nat
      /\ \A x \in Held(records) : PauseSound(records[x])
      /\ \A x \in Held(majors) : PauseSound(majors[x])
      /\ StartKnown(rq, majors)
  BY TTypes DEF PInv, RequestState
<1>3. rq.majors = majors
  BY <1>1, <1>2 DEF TInv, CopiesAreCurrent
<1>4. /\ e \in Exams /\ rq.action \in Actions /\ records[e] # Null
      /\ rq.row \in Record /\ Permitted(rq.action, e, rq.row, rq.at)
      /\ majors[e] # Null
  BY <1>1, <1>2, <1>3 DEF IInv, Planned
<1>5. rq.action \in Operations \cup Transitions
  BY <1>1, <1>4, ProcessAssumption
<1>6. /\ records[e] \in Record /\ majors[e] \in Major
      /\ PauseSound(records[e]) /\ PauseSound(majors[e])
  BY <1>2, <1>4 DEF Tables, Snapshots, Held
<1>7. Lasts(rq.row, records[e])
  BY <1>1, <1>2 DEF TInv, Recalls
<1>8. major \in Major /\ row \in Record
  BY <1>2, <1>4, <1>5, <1>6, ChangedType
<1>9. p.hasPausedAt /\ p.pausedAt # Null /\ p.actualStartAt = Null =>
        rq.row.actualStartAt # Null /\ ~Over(rq.row.status)
  BY <1>2, <1>4, <1>5, PausedPatch
<1>10. rq.row.actualStartAt # Null /\ ~Over(rq.row.status) =>
         majors[e].actualStartAt # Null
  BY <1>1, <1>2, <1>4, ExamAssumption DEF StartKnown, Started
<1>11. /\ major.actualStartAt = Coalesce(p.actualStartAt, majors[e].actualStartAt)
       /\ major.pausedAt = IF p.hasPausedAt THEN p.pausedAt ELSE majors[e].pausedAt
       /\ major.archived = TRUE => majors[e].archived = TRUE \/ rq.action = "archive"
  BY <1>2, <1>4, <1>5, <1>6, ChangedMajorTells, ChangedArchives
<1>12. /\ row.actualStartAt = Coalesce(p.actualStartAt, records[e].actualStartAt)
       /\ row.pausedAt = IF p.hasPausedAt THEN p.pausedAt ELSE records[e].pausedAt
  BY <1>2, <1>4, <1>5, <1>6, ChangedRecordTells
<1>13. rq.action = "archive" => IsOver(e, records)
  BY <1>4, <1>7 DEF Permitted, Over, Lasts, IsOver
<1>14. /\ next \in Snapshots
       /\ \A x \in Exams : next[x] = IF x = e THEN major ELSE majors[x]
  BY <1>2, <1>3, <1>4, <1>8 DEF Snapshots
<1>15. /\ rows \in Tables
       /\ \A x \in Exams : rows[x] = IF x = e THEN row ELSE records[x]
  BY <1>2, <1>4, <1>8 DEF Tables
<1>16. major # Null /\ row # Null
  BY <1>8, ExamAssumption
<1> HIDE DEF rq, e, p, major, row, next
<1>17. PauseSound(major) /\ (Started(majors[e]) => Started(major))
  BY <1>6, <1>9, <1>10, <1>11, <1>16, CoalesceKeeps DEF PauseSound, Started
<1>18. /\ PauseSound(row)
       /\ Started(row) => Started(records[e]) \/ Started(major)
  BY <1>4, <1>6, <1>7, <1>9, <1>11, <1>12, <1>16, CoalesceKeeps
  DEF PauseSound, Started, Lasts, Kept
<1>19. MajorsStep
  <2>1. PauseSound(majors'[e]) /\ Carried(e)
    BY <1>1, <1>4, <1>11, <1>13, <1>14, <1>17 DEF Carried
  <2>2. ASSUME NEW x \in Held(majors'), x # e PROVE PauseSound(majors'[x]) /\ Carried(x)
    BY <1>1, <1>2, <1>14, <2>2 DEF Carried, Held
  <2> QED
    BY <2>1, <2>2 DEF MajorsStep
<1>20. \A x \in Held(rows) : PauseSound(rows[x])
  BY <1>2, <1>15, <1>18 DEF Held
<1>21. \A x \in Exams : Started(rows[x]) => Started(records[x]) \/ Started(next[x])
  BY <1>14, <1>15, <1>18
<1> HIDE DEF rows
<1>22. /\ base \in Tables /\ \A x \in Held(base) : PauseSound(base[x])
       /\ \A x \in Exams : Started(base[x]) => Started(records[x]) \/ Started(next[x])
  BY <1>2, <1>15, <1>20, <1>21
<1> HIDE DEF base
<1>23. RowsStep
  BY <1>1, <1>14, <1>22, ProjectedPauses DEF RowsStep, StartFrom, Held
<1> QED
  BY <1>19, <1>23

LEMMA CommitCopyPauses ==
  ASSUME PInv, NEW r \in Requests, NEW e \in Exams, CommitCopy(r, e)
  PROVE  MajorsStep /\ RowsStep
<1> DEFINE copy == NewMajor(TRUE, Null, Null)
           row == Inserted(e, copy)
<1>1. /\ request[r].step = "commit" /\ request[r].version = version /\ Fresh(e)
      /\ majors' = [request[r].majors EXCEPT ![e] = copy]
      /\ records' = [records EXCEPT ![e] = row] \/ records' = records
  BY DEF CommitCopy, WriteSnapshot
<1>2. /\ TInv /\ majors \in Snapshots /\ records \in Tables
      /\ \A x \in Held(records) : PauseSound(records[x])
      /\ \A x \in Held(majors) : PauseSound(majors[x])
  BY TTypes DEF PInv
<1>3. request[r].majors = majors
  BY <1>1, <1>2 DEF TInv, CopiesAreCurrent
<1>4. \A x \in Exams : majors'[x] = IF x = e THEN copy ELSE majors[x]
  BY <1>1, <1>2, <1>3 DEF Snapshots
<1>5. \A x \in Exams : records'[x] = records[x] \/ (x = e /\ records'[x] = row)
  BY <1>1, <1>2 DEF Tables
<1>6. PauseSound(copy) /\ copy.archived = FALSE
  BY DEF NewMajor, PauseSound
<1>7. PauseSound(row) /\ ~Started(row)
  BY DEF NewMajor, Inserted, PauseSound, Started
<1>8. majors[e] = Null /\ Untold(e, records, Late)
  BY <1>1, <1>2, FreshUntold
<1> HIDE DEF copy, row
<1>9. MajorsStep
  BY <1>2, <1>4, <1>6, <1>8 DEF MajorsStep, Carried, Held
<1>10. RowsStep
  BY <1>2, <1>5, <1>7 DEF RowsStep, StartFrom, Held
<1> QED
  BY <1>9, <1>10

LEMMA RequestPauses ==
  ASSUME PInv, NEW r \in Requests, Submit(r) \/ RequestStep(r)
  PROVE  MajorsStep /\ RowsStep
<1>1. CASE ProjectLost(r)
  <2>1. request[r].majors \in Late
    BY <1>1, TTypes DEF ProjectLost, Late, LateOf, PInv
  <2> QED
    BY <1>1, <2>1, LatePauses DEF ProjectLost
<1>2. CASE UNCHANGED <<majors, records>>
  BY <1>2, SameMajors, SamePauses
<1> QED
  BY <1>1, <1>2, CommitActionPauses, CommitCopyPauses
  DEF RequestStep, Submit, ReadRecord, ReadForAction, LoseAction, LoseCopy, db

(* Saves. *)
LEMMA WriteSavePauses ==
  ASSUME PInv, NEW s \in Saves, WriteSave(s)
  PROVE  MajorsStep /\ RowsStep
<1> DEFINE sv == save[s]
           next == IF sv.carriesMajors THEN sv.majors ELSE majors
           late == Late
<1>1. /\ sv.step = "write" /\ (sv.carriesMajors => Matches(sv))
      /\ majors' = next /\ records' = Projected(next, records)
  BY DEF WriteSave
<1>2. /\ majors \in Snapshots /\ records \in Tables /\ sv.majors \in Snapshots
      /\ \A x \in Held(records) : PauseSound(records[x])
      /\ \A x \in Held(majors) : PauseSound(majors[x])
      /\ SaveSound(sv, version, revision, majors)
      /\ BlankSound(s, sv, save, majors, records, late)
      /\ Creates(sv, version, revision, majors, records, late)
      /\ PutBackSound(sv, records)
  BY TTypes DEF PInv, TInv, SInv, SaveState
<1>3. sv.carriesMajors => Guarded(sv, version, revision) \/ Blank(sv)
  BY <1>1, <1>2 DEF Matches, Guarded, Blank
<1>4. next \in Snapshots
  BY <1>2
<1>5. ASSUME NEW e \in Held(next) PROVE PauseSound(next[e]) /\ Carried(e)
  <2>1. CASE ~sv.carriesMajors
    BY <1>1, <1>2, <1>5, <2>1 DEF Held, Carried
  <2>2. CASE sv.carriesMajors /\ Blank(sv) /\ PutBack(sv.majors[e])
    BY <1>1, <1>2, <1>5, <2>2 DEF PutBackSound, BlankWrite, Carried, Held
  <2>3. CASE sv.carriesMajors /\ Blank(sv) /\ ~PutBack(sv.majors[e])
    <3>1. Newborn(sv.majors[e]) /\ majors[e] = Null /\ Untold(e, records, late)
      BY <1>1, <1>2, <1>5, <2>3 DEF BlankSound
    <3> QED
      BY <1>1, <2>3, <3>1 DEF Newborn, PauseSound, Carried
  <2>4. CASE sv.carriesMajors /\ Guarded(sv, version, revision) /\ majors[e] = Null
    <3>1. Newborn(sv.majors[e]) /\ Untold(e, records, late)
      BY <1>1, <1>2, <1>5, <2>4 DEF Creates
    <3> QED
      BY <1>1, <2>4, <3>1 DEF Newborn, PauseSound, Carried
  <2>5. CASE sv.carriesMajors /\ Guarded(sv, version, revision) /\ majors[e] # Null
    <3>1. KeepsRunning(e, majors[e], sv.majors[e]) /\ PauseSound(majors[e])
      BY <1>1, <1>2, <1>5, <2>5 DEF SaveSound, Respects, Held
    <3> QED
      BY <1>1, <1>5, <2>5, <3>1 DEF KeepsRunning, PauseSound, Carried, Started, Held
  <2> QED
    BY <1>3, <2>1, <2>2, <2>3, <2>4, <2>5
<1> HIDE DEF next
<1>6. MajorsStep
  BY <1>1, <1>5 DEF MajorsStep
<1>7. RowsStep
  BY <1>1, <1>2, <1>4, ProjectedPauses DEF RowsStep, StartFrom
<1> QED
  BY <1>6, <1>7

LEMMA SavePauses ==
  ASSUME PInv, NEW s \in Saves, Fetch(s) \/ EditBlank(s) \/ SaveStep(s)
  PROVE  MajorsStep /\ RowsStep
<1>1. CASE ProjectRejected(s)
  <2>1. save[s].majors \in Late
    BY <1>1, TTypes DEF ProjectRejected, Late, LateOf, PInv
  <2> QED
    BY <1>1, <2>1, LatePauses DEF ProjectRejected
<1>2. CASE UNCHANGED <<majors, records>>
  BY <1>2, SameMajors, SamePauses
<1> QED
  BY <1>1, <1>2, WriteSavePauses
  DEF SaveStep, Fetch, EditBlank, ReadForSave, RejectSave, db

LEMMA NextPauses ==
  ASSUME PInv, [Next]_vars
  PROVE  MajorsStep /\ RowsStep
<1>1. ASSUME NEW i \in Instances, StartInstance(i) \/ ProjectAtStart(i)
      PROVE  MajorsStep /\ RowsStep
  <2>1. CASE ProjectAtStart(i)
    <3>1. instance[i].majors \in Late
      BY <2>1, TTypes DEF ProjectAtStart, Late, LateOf, PInv
    <3> QED
      BY <2>1, <3>1, LatePauses DEF ProjectAtStart
  <2>2. CASE StartInstance(i)
    BY <2>2, SameMajors, SamePauses DEF StartInstance, db
  <2> QED
    BY <1>1, <2>1, <2>2
<1>2. CASE ResetData
  <2>1. majors' = Nothing /\ records' = records
    BY <1>2 DEF ResetData, WriteSnapshot
  <2> QED
    BY <2>1, SamePauses DEF MajorsStep, Held, Nothing
<1>3. CASE Tick \/ UNCHANGED vars
  BY <1>3, SameMajors, SamePauses DEF Tick, vars, db
<1> QED
  BY <1>1, <1>2, <1>3, WorkerPauses, RequestPauses, SavePauses DEF Next
----------------------------------------------------------------------------
(* The invariant of the pauses is inductive. *)
Planning(rq) == rq.step \in {"snapshot", "commit"} /\ rq.action # "copy"

(* A request goes on with the row it has, or has just read one. *)
RequestLearns(r) ==
  \/ /\ Planning(request[r]) /\ request'[r].row = request[r].row
     /\ request'[r].exam = request[r].exam
  \/ /\ request'[r].exam \in Held(records)
     /\ request'[r].row = records[request'[r].exam]
     /\ UNCHANGED <<majors, records, save>>

LEMMA StepRequestLearns ==
  ASSUME TInv, NEW r \in Requests, Submit(r) \/ RequestStep(r), Planning(request'[r])
  PROVE  RequestLearns(r)
<1> DEFINE old == request[r]
<1>1. old \in RequestState /\ request \in [Requests -> RequestState] /\ IInv
  BY TTypes
<1>2. \A x, reply : Answered(x, reply).step = "done"
  BY DEF Answered, NewRequest
<1>3. ASSUME NEW x, NEW reply, request' = [request EXCEPT ![r] = Answered(x, reply)]
      PROVE  FALSE
  BY <1>1, <1>2, <1>3 DEF Planning
<1>4. CASE Submit(r)
  <2>1. PICK action \in Actions, e \in Held(records), key \in Keys \cup {Null},
             reply \in {"replayed", "refused"} :
          LET q == [NewRequest EXCEPT !.step = "plan", !.action = action,
                      !.exam = e, !.key = key, !.at = clock]
          IN  request' = [request EXCEPT ![r] =
                IF ~Logged(key) THEN q ELSE Answered(q, reply)]
    BY <1>4 DEF Submit
  <2> DEFINE q == [NewRequest EXCEPT !.step = "plan", !.action = action,
                      !.exam = e, !.key = key, !.at = clock]
  <2>2. q.step = "plan"
    BY DEF NewRequest
  <2>3. \/ request' = [request EXCEPT ![r] = q]
        \/ request' = [request EXCEPT ![r] = Answered(q, reply)]
    BY <2>1
  <2> HIDE DEF q
  <2> QED
    BY <1>1, <1>3, <2>2, <2>3 DEF Planning
<1>5. CASE ReadRecord(r)
  <2> DEFINE next == [old EXCEPT !.step = "snapshot", !.row = records[old.exam]]
  <2>1. /\ next.row = records[old.exam] /\ next.exam = old.exam
        /\ old.step = "plan" /\ UNCHANGED <<majors, records, save>>
    BY <1>1, <1>5 DEF ReadRecord, RequestState, db
  <2>2. \/ request' = [request EXCEPT ![r] = next]
        \/ request' = [request EXCEPT ![r] = Answered(old, "refused")]
    BY <1>1, <1>5 DEF ReadRecord, Reply
  <2>3. old.exam \in Held(records)
    BY <1>1, <2>1 DEF IInv, Planned, Held
  <2> HIDE DEF next, old
  <2>4. request'[r] = next
    BY <1>1, <1>3, <2>2
  <2> QED
    BY <2>1, <2>3, <2>4 DEF RequestLearns
<1>6. CASE ReadForAction(r)
  <2> DEFINE next == [old EXCEPT !.step = "commit", !.majors = majors,
                                 !.version = version]
  <2>1. /\ next.row = old.row /\ next.exam = old.exam
        /\ next.action = old.action /\ old.step = "snapshot"
    BY <1>1, <1>6 DEF ReadForAction, RequestState
  <2>2. \/ request' = [request EXCEPT ![r] = next]
        \/ request' = [request EXCEPT ![r] = Answered(old, "refused")]
    BY <1>1, <1>6 DEF ReadForAction, Reply
  <2> HIDE DEF next
  <2>3. request'[r] = next
    BY <1>1, <1>3, <2>2
  <2> QED
    BY <2>1, <2>3 DEF RequestLearns, Planning
<1>7. CASE LoseAction(r)
  <2> DEFINE answer == Answered(old, "none")
             next == [answer EXCEPT !.step = "project", !.majors = majors]
  <2>1. answer \in RequestState
    BY <1>1, ReplySound
  <2>2. next.step = "project"
    BY <2>1 DEF RequestState
  <2>3. request' = [request EXCEPT ![r] = next]
    BY <1>1, <1>7 DEF LoseAction
  <2> HIDE DEF next
  <2> QED
    BY <1>1, <2>2, <2>3 DEF Planning
<1>8. CASE \/ CommitAction(r) \/ ProjectLost(r) \/ LoseCopy(r)
           \/ \E e \in Exams : CommitCopy(r, e)
  <2>1. PICK reply : request' = [request EXCEPT ![r] = Answered(old, reply)]
    BY <1>8 DEF CommitAction, ProjectLost, LoseCopy, CommitCopy, Reply
  <2> QED
    BY <1>3, <2>1
<1> QED
  BY <1>4, <1>5, <1>6, <1>7, <1>8 DEF RequestStep

LEMMA OnlyOwnRequest ==
  ASSUME TInv, NEW r \in Requests, Submit(r) \/ RequestStep(r), NEW x \in Requests, x # r
  PROVE  request'[x] = request[x]
<1>1. PICK rq : request' = [request EXCEPT ![r] = rq]
  BY RequestRemembers DEF Remembered
<1> QED
  BY <1>1, TTypes

LEMMA NextRequestLearns ==
  ASSUME TInv, [Next]_vars, NEW r \in Requests, Planning(request'[r])
  PROVE  RequestLearns(r)
<1>1. CASE request'[r] = request[r]
  BY <1>1 DEF RequestLearns
<1>2. CASE request'[r] # request[r]
  <2>1. PICK x \in Requests : Submit(x) \/ RequestStep(x)
    BY <1>2, OnlyRequestsRequest
  <2>2. x = r
    BY <1>2, <2>1, OnlyOwnRequest
  <2> QED
    BY <2>1, <2>2, StepRequestLearns
<1> QED
  BY <1>1, <1>2

(* A blank save stays as it is, or its edit has just arrived. *)
BlankLearns(s) ==
  \/ save'[s] = save[s]
  \/ /\ UNCHANGED <<majors, records, request>>
     /\ \A x \in Held(save'[s].majors) :
          \/ /\ majors[x] # Null /\ majors[x].archived = TRUE
             /\ save'[s].majors[x] = majors[x]
          \/ Fresh(x) /\ Newborn(save'[s].majors[x])

LEMMA StepBlankLearns ==
  ASSUME TInv, NEW s \in Saves, Fetch(s) \/ EditBlank(s) \/ SaveStep(s),
         BlankWrite(save'[s])
  PROVE  BlankLearns(s)
<1>1. /\ save[s] \in SaveState /\ save \in [Saves -> SaveState]
      /\ BlankSound(s, save[s], save, majors, records, Late)
  BY TTypes DEF TInv
<1>2. CASE ReadForSave(s)
  <2>1. PICK sv : /\ save' = [save EXCEPT ![s] = sv] /\ sv.step = "write"
                  /\ sv.base = save[s].base /\ sv.version = save[s].version
                  /\ sv.revision = save[s].revision
                  /\ \A x \in Held(sv.majors) : save[s].majors[x] = Null =>
                       /\ majors[x] = Null => Fresh(x) /\ Newborn(sv.majors[x])
                       /\ majors[x] # Null =>
                            majors[x].archived = TRUE /\ sv.majors[x] = majors[x]
    BY <1>2, ArrivedTells
  <2>2. save'[s] = sv
    BY <1>1, <2>1
  <2>3. save[s].step = "editing" /\ UNCHANGED <<majors, records, request>>
    BY <1>2 DEF ReadForSave, db
  <2>4. save[s].majors = Nothing
    BY <1>1, <2>1, <2>2, <2>3 DEF BlankWrite, Blank, BlankSound
  <2> QED
    BY <2>1, <2>2, <2>3, <2>4 DEF BlankLearns, Held, Nothing
<1>3. CASE ~ReadForSave(s)
  <2>1. PICK sv : save' = [save EXCEPT ![s] = sv] /\ sv.step # "write"
    <3>1. /\ [NewSave EXCEPT !.step = "editing"].step # "write"
          /\ [NewSave EXCEPT !.step = "done", !.reply = "ok"].step # "write"
          /\ [NewSave EXCEPT !.step = "done", !.reply = "conflict"].step # "write"
          /\ [NewSave EXCEPT !.step = "project", !.majors = majors].step # "write"
          /\ \A base : [NewSave EXCEPT !.step = "editing", !.base = base,
                          !.majors = majors, !.revision = revision,
                          !.version = version].step # "write"
      BY DEF NewSave
    <3> QED
      BY <1>3, <3>1
      DEF SaveStep, Fetch, EditBlank, WriteSave, RejectSave, ProjectRejected
  <2> QED
    BY <1>1, <2>1 DEF BlankWrite
<1> QED
  BY <1>2, <1>3

LEMMA NextBlankLearns ==
  ASSUME TInv, [Next]_vars, NEW s \in Saves, BlankWrite(save'[s])
  PROVE  BlankLearns(s)
<1>1. CASE save'[s] = save[s]
  BY <1>1 DEF BlankLearns
<1>2. CASE save'[s] # save[s]
  <2>1. PICK t \in Saves : Fetch(t) \/ EditBlank(t) \/ SaveStep(t)
    BY <1>2, OnlySavesSave
  <2>2. PICK sv : save' = [save EXCEPT ![t] = sv]
    BY <2>1, SaveRemembers
  <2>3. t = s
    BY <1>2, <2>2, TTypes
  <2> QED
    BY <2>1, <2>3, StepBlankLearns
<1> QED
  BY <1>1, <1>2

(* What is over stays over. *)
LEMMA OverStays ==
  ASSUME StoryStep, RowsLast, NEW e \in Exams, IsOver(e, records)
  PROVE  IsOver(e, records')
  BY DEF StoryStep, RowsLast, IsOver, Held

LEMMA NextLiveTold ==
  ASSUME PInv, MajorsStep, RowsStep, StoryStep, RowsLast, Late' \subseteq Late \cup {majors'}
  PROVE  LiveTold(records', majors', Late')
<1> SUFFICES ASSUME NEW e \in Exams, majors'[e] # Null, ~IsOver(e, records')
             PROVE  /\ Started(records'[e]) => Started(majors'[e])
                    /\ \A x \in Late' : Started(x[e]) => Started(majors'[e])
  BY DEF LiveTold, Held
<1>1. ~IsOver(e, records)
  BY OverStays
<1>2. majors[e] # Null =>
        /\ Started(records[e]) => Started(majors[e])
        /\ \A x \in Late : Started(x[e]) => Started(majors[e])
  BY <1>1 DEF PInv, LiveTold, Held
<1>3. \/ majors[e] # Null /\ (Started(majors[e]) => Started(majors'[e]))
      \/ majors[e] = Null /\ Untold(e, records, Late)
  BY <1>1 DEF MajorsStep, Carried, Held
<1>4. /\ Started(records[e]) => Started(majors'[e])
      /\ \A x \in Late : Started(x[e]) => Started(majors'[e])
  BY <1>2, <1>3 DEF Untold, Started
<1>5. Started(records'[e]) => StartFrom(e)
  BY DEF RowsStep, Held, Started
<1> QED
  BY <1>4, <1>5 DEF StartFrom

LEMMA NextShelved ==
  ASSUME PInv, MajorsStep, StoryStep, RowsLast
  PROVE  Shelved(majors', records')
<1> SUFFICES ASSUME NEW e \in Exams, majors'[e] # Null, majors'[e].archived = TRUE
             PROVE  IsOver(e, records)
  BY OverStays DEF Shelved, Held
<1>1. Carried(e)
  BY DEF MajorsStep, Held
<1>2. majors[e] # Null /\ majors[e].archived = TRUE => IsOver(e, records)
  BY DEF PInv, Shelved, Held
<1> QED
  BY <1>1, <1>2 DEF Carried

LEMMA NextPutBack ==
  ASSUME PInv, [Next]_vars, StoryStep, RowsLast, NEW s \in Saves
  PROVE  PutBackSound(save'[s], records')
<1> SUFFICES ASSUME BlankWrite(save'[s]), NEW e \in Exams, save'[s].majors[e] # Null,
                    PutBack(save'[s].majors[e])
             PROVE  PauseSound(save'[s].majors[e]) /\ IsOver(e, records)
  BY OverStays DEF PutBackSound, Held
<1>1. BlankLearns(s)
  BY NextBlankLearns DEF PInv
<1>2. CASE save'[s] = save[s]
  BY <1>2 DEF PInv, PutBackSound, Held
<1>3. CASE save'[s] # save[s]
  <2>1. ~Newborn(save'[s].majors[e])
    BY DEF PutBack, Newborn
  <2>2. /\ majors[e] # Null /\ majors[e].archived = TRUE
        /\ save'[s].majors[e] = majors[e]
    BY <1>1, <1>3, <2>1 DEF BlankLearns, Held
  <2> QED
    BY <2>2 DEF PInv, Shelved, Held
<1> QED
  BY <1>2, <1>3

LEMMA NextStartKnown ==
  ASSUME PInv, [Next]_vars, MajorsStep, NEW r \in Requests
  PROVE  StartKnown(request'[r], majors')
<1> DEFINE e == request'[r].exam
<1> SUFFICES ASSUME Planning(request'[r]), ~Over(request'[r].row.status),
                    Started(request'[r].row), majors'[e] # Null
             PROVE  Started(majors'[e])
  BY DEF StartKnown, Planning
<1>1. /\ TInv /\ IInv /\ StartKnown(request[r], majors)
      /\ \A s \in Saves : BlankWrite(save[s]) => StartKnown(request[r], save[s].majors)
      /\ LiveTold(records, majors, Late)
  BY TTypes DEF PInv
<1>2. RequestLearns(r)
  BY <1>1, NextRequestLearns
<1>3. CASE /\ Planning(request[r]) /\ request'[r].row = request[r].row
           /\ e = request[r].exam
  <2>1. e \in Exams /\ records[e] # Null
    BY <1>1, <1>3 DEF IInv, Planned, Planning
  <2>2. Carried(e)
    BY <2>1 DEF MajorsStep, Held
  <2>3. majors[e] # Null => Started(majors[e])
    BY <1>1, <1>3 DEF StartKnown, Planning
  <2>4. ASSUME NEW s \in Saves, BlankWrite(save[s]), save[s].majors[e] # Null
        PROVE  Started(save[s].majors[e])
    BY <1>1, <1>3, <2>4 DEF StartKnown, Planning
  <2> QED
    BY <2>1, <2>2, <2>3, <2>4 DEF Carried, Untold
<1>4. CASE /\ e \in Held(records) /\ request'[r].row = records[e]
           /\ UNCHANGED <<majors, records, save>>
  BY <1>1, <1>4 DEF LiveTold, IsOver, Held
<1> QED
  BY <1>2, <1>3, <1>4 DEF RequestLearns

LEMMA NextBlankKnown ==
  ASSUME PInv, [Next]_vars, NEW r \in Requests, NEW s \in Saves, BlankWrite(save'[s])
  PROVE  StartKnown(request'[r], save'[s].majors)
<1> DEFINE e == request'[r].exam
<1> SUFFICES ASSUME Planning(request'[r]), ~Over(request'[r].row.status),
                    Started(request'[r].row), save'[s].majors[e] # Null
             PROVE  Started(save'[s].majors[e])
  BY DEF StartKnown, Planning
<1>1. /\ TInv /\ IInv /\ StartKnown(request[r], majors)
      /\ BlankWrite(save[s]) => StartKnown(request[r], save[s].majors)
      /\ PutBackSound(save[s], records)
      /\ BlankSound(s, save[s], save, majors, records, Late)
  BY TTypes DEF PInv, TInv
<1>2. RequestLearns(r) /\ BlankLearns(s)
  BY <1>1, NextRequestLearns, NextBlankLearns
<1>3. CASE save'[s] = save[s]
  <2>1. CASE /\ Planning(request[r]) /\ request'[r].row = request[r].row
             /\ e = request[r].exam
    BY <1>1, <1>3, <2>1 DEF StartKnown, Planning
  <2>2. CASE e \in Held(records) /\ request'[r].row = records[e]
    <3>1. e \in Held(save[s].majors) /\ records[e] # Null /\ ~IsOver(e, records)
      BY <1>3, <2>2 DEF Held, IsOver
    <3> QED
      BY <1>1, <1>3, <3>1 DEF PutBackSound, BlankSound, BlankWrite, Untold
  <2> QED
    BY <1>2, <2>1, <2>2 DEF RequestLearns
<1>4. CASE save'[s] # save[s]
  <2>1. request' = request
    BY <1>2, <1>4 DEF BlankLearns
  <2>2. e \in Exams /\ records[e] # Null
    BY <1>1, <2>1 DEF IInv, Planned, Planning
  <2>3. majors[e] # Null /\ save'[s].majors[e] = majors[e]
    BY <1>2, <1>4, <2>2 DEF BlankLearns, Held, Fresh
  <2> QED
    BY <1>1, <2>1, <2>3 DEF StartKnown, Planning
<1> QED
  BY <1>3, <1>4

LEMMA NextPausesSound ==
  ASSUME PInv, [Next]_vars
  PROVE  PInv'
<1>1. TInv /\ TInv' /\ StoryStep /\ RowsKeep
  BY NextTold, NextStory, NextKeeps, TTypes DEF PInv
<1>2. MajorsStep /\ RowsStep /\ Late' \subseteq Late \cup {majors'}
  BY <1>1, NextPauses, LateGrows
<1>3. RowsLast
  BY <1>1 DEF RowsKeep, StoryStep, RowsLast, Lasts
<1>4. /\ \A e \in Held(records') : PauseSound(records'[e])
      /\ \A e \in Held(majors') : PauseSound(majors'[e])
  BY <1>2 DEF MajorsStep, RowsStep
<1>5. LiveTold(records', majors', Late') /\ Shelved(majors', records')
  BY <1>1, <1>2, <1>3, NextLiveTold, NextShelved
<1>6. \A s \in Saves : PutBackSound(save'[s], records')
  BY <1>1, <1>3, NextPutBack
<1>7. /\ \A r \in Requests : StartKnown(request'[r], majors')
      /\ \A r \in Requests, s \in Saves :
           BlankWrite(save'[s]) => StartKnown(request'[r], save'[s].majors)
  BY <1>2, NextStartKnown, NextBlankKnown
<1> QED
  BY <1>1, <1>4, <1>5, <1>6, <1>7 DEF PInv

LEMMA InitialPauses == Init => PInv
<1> SUFFICES ASSUME Init PROVE PInv
  OBVIOUS
<1>1. TInv /\ majors \in Snapshots /\ records = Projected(majors, Nothing)
  BY InitialTold, TTypes DEF Init
<1>2. /\ \A s \in Saves : save[s].step = "new"
      /\ \A r \in Requests : request[r].step = "new"
  BY DEF Init, NewSave, NewRequest
<1>3. \A e \in Held(majors) :
        PauseSound(majors[e]) /\ ~Started(majors[e]) /\ majors[e].archived = FALSE
  <2>1. PICK E \in SUBSET Exams, window \in [Exams -> Windows \cup {<<Null, Null>>}] :
          majors = [e \in Exams |->
            IF e \in E THEN NewMajor(FALSE, window[e][1], window[e][2]) ELSE Null]
    BY DEF Init
  <2>2. \A a, b : /\ PauseSound(NewMajor(FALSE, a, b)) /\ ~Started(NewMajor(FALSE, a, b))
                  /\ NewMajor(FALSE, a, b).archived = FALSE
    BY DEF NewMajor, PauseSound, Started
  <2> QED
    BY <2>1, <2>2 DEF Held
<1>4. \A e \in Held(records) :
        PauseSound(records[e]) /\ (Started(records[e]) => Started(majors[e]))
  <2>1. \A e \in Held(Nothing) : PauseSound(Nothing[e])
    BY DEF Held, Nothing
  <2>2. \A e \in Exams : ~Started(Nothing[e])
    BY DEF Started, Nothing
  <2> QED
    BY <1>1, <2>1, <2>2, NothingType, ProjectedPauses DEF Held
<1>5. Late = {}
  <2>1. \A i \in Instances : instance[i].step = "cold"
    BY DEF Init
  <2> QED
    BY <1>1, <1>2, <2>1, TTypes DEF Late, LateOf
<1>6. LiveTold(records, majors, Late)
  BY <1>4, <1>5 DEF LiveTold, Held, Started
<1>7. Shelved(majors, records)
  BY <1>3 DEF Shelved
<1>8. /\ \A s \in Saves : ~BlankWrite(save[s])
      /\ \A r \in Requests : StartKnown(request[r], majors)
  BY <1>2 DEF BlankWrite, StartKnown
<1> QED
  BY <1>1, <1>3, <1>4, <1>6, <1>7, <1>8 DEF PInv, PutBackSound

(* Nobody pauses an exam that has not started, in the rows or the snapshot: *)
(* not even by an action planned on a row that others have changed since.   *)
THEOREM PausedStarted == Spec => []PausedIsStarted
<1>1. PInv /\ [Next]_vars => PInv'
  BY NextPausesSound
<1>2. PInv => PausedIsStarted
  BY DEF PInv, PauseSound, PausedIsStarted
<1> QED
  BY <1>1, <1>2, InitialPauses, PTL DEF Spec
=============================================================================
