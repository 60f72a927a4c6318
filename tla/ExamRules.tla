----------------------------- MODULE ExamRules -----------------------------
(***************************************************************************)
(* The pure rules of an exam's life: what an operation may change, what    *)
(* the system may change on its own, how the snapshot is projected into    *)
(* exam_records, and which submitted fields the server refuses to take     *)
(* from a client.                                                          *)
(*                                                                         *)
(* A "major" is one element of exam_data.majors, the authoritative         *)
(* snapshot that classrooms read.  A "record" is one row of exam_records,  *)
(* the projection that administrators read.  Names, items, scopes and      *)
(* colours are left out: no rule below looks at them, except that an exam  *)
(* of Itemized has subjects, here one subject spanning the exam's window.  *)
(* endedAt and actualEndAt are written together by every writer and are    *)
(* one field here, actualEndAt; archivedAt is only ever tested for being   *)
(* present and is the flag archived.                                       *)
(***************************************************************************)
EXTENDS Naturals

CONSTANTS
  Exams,      \* the identifiers an exam may have
  Quick,      \* those created as quick (temporary) exams
  Itemized,   \* those whose time window comes from subjects
  Grace,      \* QUICK_EXAM_ARCHIVE_GRACE_MS
  Extension,  \* the minutes one extend request asks for
  Null        \* an absent timestamp, exam or request field

OptTime == Nat \cup {Null}
Statuses == {"draft", "published", "ended", "archived"}

Major ==
  [draft : BOOLEAN, startAt : OptTime, endAt : OptTime,
   actualStartAt : OptTime, actualEndAt : OptTime,
   pausedAt : OptTime, pausedMs : Nat, archived : BOOLEAN]

Record ==
  [status : Statuses, startAt : OptTime, endAt : OptTime,
   actualStartAt : OptTime, actualEndAt : OptTime,
   pausedAt : OptTime, pausedMs : Nat, archived : BOOLEAN]

ASSUME ExamAssumption ==
  /\ Quick \subseteq Exams
  /\ Itemized \subseteq Exams
  /\ Grace \in Nat
  /\ Extension \in Nat \ {0}
  /\ Null \notin Nat
  /\ Null \notin Exams
  /\ Null \notin Major
  /\ Null \notin Record

(* A snapshot holds some of the exams, and so does the table exam_records.  *)
Snapshots == [Exams -> Major \cup {Null}]
Tables == [Exams -> Record \cup {Null}]
Nothing == [e \in Exams |-> Null]
Held(f) == {e \in Exams : f[e] # Null}

NewMajor(draft, startAt, endAt) ==
  [draft |-> draft, startAt |-> startAt, endAt |-> endAt,
   actualStartAt |-> Null, actualEndAt |-> Null,
   pausedAt |-> Null, pausedMs |-> 0, archived |-> FALSE]

Coalesce(a, b) == IF a # Null THEN a ELSE b
Reached(t, at) == t # Null /\ t <= at

(* Mutant: a pause is settled without Math.max(0, ...). *)
ElapsedUnclamped(from, to) == to - from

Elapsed(from, to) == IF from < to THEN to - from ELSE 0

----------------------------------------------------------------------------
(* Patches: the fields an operation writes, the same ones on the major and  *)
(* on the record.  Null leaves a field alone; pausedAt may also be cleared, *)
(* so hasPausedAt tells whether the patch names it.                         *)

Patch ==
  [actualStartAt : OptTime, actualEndAt : OptTime, endAt : OptTime,
   pausedMs : OptTime, hasPausedAt : BOOLEAN, pausedAt : OptTime]

NoPatch ==
  [actualStartAt |-> Null, actualEndAt |-> Null, endAt |-> Null,
   pausedMs |-> Null, hasPausedAt |-> FALSE, pausedAt |-> Null]

Apply(x, patch) ==
  [x EXCEPT
     !.actualStartAt = Coalesce(patch.actualStartAt, @),
     !.actualEndAt = Coalesce(patch.actualEndAt, @),
     !.endAt = Coalesce(patch.endAt, @),
     !.pausedMs = Coalesce(patch.pausedMs, @),
     !.pausedAt = IF patch.hasPausedAt THEN patch.pausedAt ELSE @]

(* Ending settles a pause that is still running. *)
SettledPause(row, endedAt) ==
  IF row.pausedAt = Null THEN row.pausedMs
  ELSE row.pausedMs + Elapsed(row.pausedAt, endedAt)

EndPatch(row, endedAt) ==
  [NoPatch EXCEPT !.actualEndAt = endedAt, !.hasPausedAt = TRUE,
                  !.pausedMs = SettledPause(row, endedAt)]

----------------------------------------------------------------------------
(* Requests of administrators. *)

Operations == {"pause", "resume", "extend"}
Transitions == {"publish", "end", "archive", "unarchive"}

(* Mutant: a pause leaves an exam that was never started unstarted. *)
NoBackfilledStart(row, at) == Null

(* A pause of an exam nobody started yet starts it: at the planned time if  *)
(* that has passed, now otherwise.                                          *)
BackfilledStart(row, at) ==
  IF row.actualStartAt # Null THEN Null
  ELSE IF Reached(row.startAt, at) THEN row.startAt ELSE at

Permitted(action, e, row, at) ==
  \/ action = "pause" /\ row.status = "published" /\ row.pausedAt = Null
  \/ action = "resume" /\ row.status = "published" /\ row.pausedAt # Null
  \/ /\ action = "extend" /\ row.status = "published" /\ row.endAt # Null
     /\ e \in Itemized => Reached(row.startAt, at) /\ at < row.endAt
  \/ action = "publish" /\ row.status \in {"draft", "published"}
  \/ action = "end" /\ row.status = "published"
  \/ action = "archive" /\ row.status = "ended"
  \/ action = "unarchive" /\ row.status = "archived"

NextStatus(action, row) ==
  CASE action = "publish" -> "published"
    [] action \in {"end", "unarchive"} -> "ended"
    [] action = "archive" -> "archived"
    [] OTHER -> row.status

OperationPatch(action, row, at) ==
  CASE action = "pause" ->
         [NoPatch EXCEPT !.actualStartAt = BackfilledStart(row, at),
                         !.hasPausedAt = TRUE, !.pausedAt = at]
    [] action = "resume" ->
         [NoPatch EXCEPT !.hasPausedAt = TRUE,
                         !.pausedMs = SettledPause(row, at)]
    [] action = "extend" -> [NoPatch EXCEPT !.endAt = row.endAt + Extension]
    [] action = "end" -> EndPatch(row, at)
    [] OTHER -> NoPatch

(* What the status actions write beside the patch. *)
MarkedMajor(action, major) ==
  [major EXCEPT
     !.draft = @ /\ action # "publish",
     !.archived = (@ /\ action \notin {"publish", "unarchive"})
                  \/ action = "archive"]

MarkedRecord(action, row, status) ==
  [row EXCEPT
     !.status = status,
     !.archived = (@ /\ action # "unarchive") \/ action = "archive"]

----------------------------------------------------------------------------
(* Steps the system takes on its own. *)

Phases == {"start", "end", "archive"}

(* The WHERE clause shared by the query for due rows and by the guarded     *)
(* UPDATE of each transition.                                               *)
Due(phase, e, row, at) ==
  \/ /\ phase = "start" /\ row.status = "published"
     /\ row.actualStartAt = Null /\ Reached(row.startAt, at)
  \/ /\ phase = "end" /\ row.status = "published"
     /\ row.actualStartAt # Null /\ row.endAt # Null
     /\ row.endAt + row.pausedMs <= at
  \/ /\ phase = "archive" /\ row.status = "ended" /\ e \in Quick
     /\ row.actualEndAt # Null /\ row.actualEndAt + Grace <= at

(* The start is recorded as planned and the end as due, however late the    *)
(* system notices.                                                          *)
SystemPatch(phase, row) ==
  CASE phase = "start" -> [NoPatch EXCEPT !.actualStartAt = row.startAt]
    [] phase = "end" -> EndPatch(row, row.endAt + row.pausedMs)
    [] OTHER -> NoPatch

SystemMajor(phase, major, row) ==
  [Apply(major, SystemPatch(phase, row)) EXCEPT
     !.archived = @ \/ phase = "archive"]

SystemRecord(phase, current, row) ==
  [Apply(current, SystemPatch(phase, row)) EXCEPT
     !.status = CASE phase = "start" -> "published"
                  [] phase = "end" -> "ended"
                  [] OTHER -> "archived",
     !.archived = @ \/ phase = "archive"]

----------------------------------------------------------------------------
(* The projection of the snapshot into exam_records. *)

InitialStatus(e, major) ==
  IF major.actualEndAt # Null THEN "ended"
  ELSE IF major.draft THEN "draft"
  ELSE IF e \in Quick THEN "published"
  ELSE IF major.startAt # Null /\ major.endAt # Null THEN "published"
  ELSE "draft"

Inserted(e, major) ==
  [status |-> InitialStatus(e, major), startAt |-> major.startAt,
   endAt |-> major.endAt, actualStartAt |-> major.actualStartAt,
   actualEndAt |-> major.actualEndAt, pausedAt |-> Null, pausedMs |-> 0,
   archived |-> major.archived]

(* Mutant: the projection copies the status the snapshot suggests. *)
MergedStatusOfSnapshot(old, new) == IF old = "archived" THEN old ELSE new

MergedStatus(old, new) ==
  IF old = "archived" THEN "archived"
  ELSE IF new = "ended" THEN "ended"
  ELSE IF old = "draft" /\ new = "published" THEN "published"
  ELSE old

(* Mutant: the actual times are taken from the snapshot even when it has none. *)
UpsertedForgetful(e, row, major) ==
  [row EXCEPT
     !.status = MergedStatus(@, InitialStatus(e, major)),
     !.startAt = major.startAt,
     !.endAt = major.endAt,
     !.actualStartAt = major.actualStartAt,
     !.actualEndAt = major.actualEndAt,
     !.archived = @ \/ major.archived]

(* Mutant: archived_at is taken from the snapshot even when it has none. *)
UpsertedWithoutCoalesce(e, row, major) ==
  [row EXCEPT
     !.status = MergedStatus(@, InitialStatus(e, major)),
     !.startAt = major.startAt,
     !.endAt = major.endAt,
     !.actualStartAt = Coalesce(major.actualStartAt, @),
     !.actualEndAt = Coalesce(major.actualEndAt, @),
     !.archived = major.archived]

Upserted(e, row, major) ==
  [row EXCEPT
     !.status = MergedStatus(@, InitialStatus(e, major)),
     !.startAt = major.startAt,
     !.endAt = major.endAt,
     !.actualStartAt = Coalesce(major.actualStartAt, @),
     !.actualEndAt = Coalesce(major.actualEndAt, @),
     !.archived = @ \/ major.archived]

(* One statement upserts every major of the snapshot; a row whose exam has  *)
(* left the snapshot stays as it was.                                       *)
Projected(snapshot, rows) ==
  [e \in Exams |->
     IF snapshot[e] = Null THEN rows[e]
     ELSE IF rows[e] = Null THEN Inserted(e, snapshot[e])
     ELSE Upserted(e, rows[e], snapshot[e])]

----------------------------------------------------------------------------
(* What a client's save may not overwrite. *)

(* An end time that a background action pushed back wins over a stale copy, *)
(* unless the client rescheduled the subjects.                              *)
ResolvedEndAt(server, submitted, rescheduled) ==
  IF server.endAt = Null \/ rescheduled THEN submitted.endAt
  ELSE IF submitted.endAt = Null \/ submitted.endAt < server.endAt
       THEN server.endAt
       ELSE submitted.endAt

(* Mutant: the running pause is not among the fields the server owns. *)
PreservedWithoutPause(e, server, submitted, rescheduled) ==
  [submitted EXCEPT
     !.actualStartAt = server.actualStartAt,
     !.archived = server.archived,
     !.actualEndAt = IF e \in Quick THEN @ ELSE server.actualEndAt,
     !.endAt = ResolvedEndAt(server, submitted, rescheduled)]

Preserved(e, server, submitted, rescheduled) ==
  [submitted EXCEPT
     !.actualStartAt = server.actualStartAt,
     !.pausedAt = server.pausedAt,
     !.pausedMs = server.pausedMs,
     !.archived = server.archived,
     !.actualEndAt = IF e \in Quick THEN @ ELSE server.actualEndAt,
     !.endAt = ResolvedEndAt(server, submitted, rescheduled)]

(* Mutant: archived exams that the client removed are not put back. *)
FrozenUnlessRemoved(current, submitted) ==
  [e \in Exams |->
     IF current[e] # Null /\ current[e].archived /\ submitted[e] # Null
     THEN current[e] ELSE submitted[e]]

(* Archived exams are read-only: changed ones are put back and deleted ones *)
(* restored before anything else is looked at.                              *)
Frozen(current, submitted) ==
  [e \in Exams |->
     IF current[e] # Null /\ current[e].archived
     THEN current[e] ELSE submitted[e]]

PreserveServerLifecycleFields(current, submitted, rescheduled) ==
  [e \in Exams |->
     IF current[e] # Null /\ submitted[e] # Null
     THEN Preserved(e, current[e], submitted[e], rescheduled)
     ELSE submitted[e]]

Sanitized(current, submitted, rescheduled) ==
  PreserveServerLifecycleFields(current, Frozen(current, submitted), rescheduled)
============================================================================
