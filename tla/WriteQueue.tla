------------------------------ MODULE WriteQueue ------------------------------
(***************************************************************************)
(* The write queue of one page: every write to the server goes through it, *)
(* one at a time, at least MIN_BUSINESS_INTERVAL_MS apart, those of high   *)
(* priority first.  A save that carries a key replaces the saves of its    *)
(* key that still wait; they are answered as superseded.  The wave counts  *)
(* what was submitted and completed since the queue was last idle; it is   *)
(* what the page shows as progress.                                        *)
(*                                                                         *)
(* Between two awaits a step is whole: a submission to an idle queue takes *)
(* the task at once, and the dispatcher takes the next task in the step    *)
(* that completes the last.  Debounced tasks (scheduleDebounced) have no   *)
(* caller and are left out.                                                *)
(***************************************************************************)
EXTENDS Selections

CONSTANTS
  LastWrite,    \* writes 1..LastWrite, in the order of their submission
  WriteKeys,    \* clientQueueKey
  NoKey

ASSUME WriteAssumption == LastWrite \in Nat /\ NoKey \notin WriteKeys

VARIABLES
  business,     \* businessQueue
  dispatcher,   \* what dispatch is at, and the write it has taken
  wave,         \* waveTotal, waveCompleted and waveCloseTimer
  slow,
  answers       \* how each write was answered

queueVars == <<business, dispatcher, wave, slow, answers>>

WriteIds == 1..LastWrite
Kinds == [high : BOOLEAN, key : WriteKeys \cup {NoKey}]
NoWrite == 0

QueueTypeOK ==
  /\ business \in Seq([id : WriteIds, kind : Kinds])
  /\ dispatcher \in [pc : {"idle", "wait", "run", "answered"}, write : 0..LastWrite]
  /\ wave \in [total : 0..LastWrite, completed : 0..LastWrite, timer : BOOLEAN]
  /\ slow \in BOOLEAN
  /\ answers \in [WriteIds -> [was : {"none", "waiting", "superseded", "sent"},
                              key : WriteKeys \cup {NoKey}]]

NoDispatch == [pc |-> "idle", write |-> NoWrite]

QueueInit ==
  /\ business = <<>>
  /\ dispatcher = NoDispatch
  /\ wave = [total |-> 0, completed |-> 0, timer |-> FALSE]
  /\ slow = FALSE
  /\ answers = [i \in WriteIds |-> [was |-> "none", key |-> NoKey]]

(* inFlight is 1 as soon as the dispatcher has taken a write. *)
PendingCount == Len(business) + (IF dispatcher.pc = "idle" THEN 0 ELSE 1)

(* enterWave *)
EnteredWave ==
  LET over == PendingCount = 0 /\ wave.total > 0 /\ wave.completed >= wave.total
  IN [total |-> IF over THEN 1 ELSE wave.total + 1,
      completed |-> IF over THEN 0 ELSE wave.completed,
      timer |-> FALSE]

(* The loop head of dispatch: it takes the first write, or ends.            *)
Dispatched(queue) ==
  /\ business' = IF queue = <<>> THEN <<>> ELSE Tail(queue)
  /\ dispatcher' = IF queue = <<>> THEN NoDispatch
                   ELSE [pc |-> "wait", write |-> Head(queue).id]
----------------------------------------------------------------------------
(* Mutant: a save replaces the waiting saves of every key. *)
ReplacedAll(entry, kind) == kind.key # NoKey /\ entry.kind.key # NoKey

(* The waiting writes a new one of this kind replaces. *)
Replaced(entry, kind) == kind.key # NoKey /\ entry.kind.key = kind.key

(* runQueued *)
RunQueued(i, kind) ==
  LET kept == Select(business, {p \in DOMAIN business : ~Replaced(business[p], kind)})
      new == <<[id |-> i, kind |-> kind]>>
      urgent == {p \in DOMAIN kept : kept[p].kind.high}
      queue == IF kind.high
               THEN Select(kept, urgent) \o new \o Select(kept, DOMAIN kept \ urgent)
               ELSE kept \o new
  IN /\ answers[i].was = "none"
     /\ \A b \in 1..(i - 1) : answers[b].was # "none"
     /\ wave' = EnteredWave
     /\ answers' = [b \in WriteIds |->
          IF b = i THEN [was |-> "waiting", key |-> kind.key]
          ELSE IF \E p \in DOMAIN business : business[p].id = b /\ Replaced(business[p], kind)
          THEN [answers[b] EXCEPT !.was = "superseded"] ELSE answers[b]]
     /\ IF dispatcher.pc = "idle" THEN Dispatched(queue)
        ELSE business' = queue /\ UNCHANGED dispatcher
     /\ UNCHANGED slow

(* The interval since the last request is over and the request is sent. *)
StartWrite ==
  /\ dispatcher.pc = "wait"
  /\ dispatcher' = [dispatcher EXCEPT !.pc = "run"]
  /\ UNCHANGED <<business, wave, slow, answers>>

(* SLOW_THRESHOLD_MS after that. *)
WriteIsSlow ==
  /\ dispatcher.pc \in {"run", "answered"} /\ ~slow
  /\ slow' = TRUE
  /\ UNCHANGED <<business, dispatcher, wave, answers>>

(* The request succeeds or fails; its caller hears of it and may submit     *)
(* again before the dispatcher goes on.                                     *)
AnswerWrite ==
  /\ dispatcher.pc = "run"
  /\ dispatcher' = [dispatcher EXCEPT !.pc = "answered"]
  /\ answers' = [answers EXCEPT ![dispatcher.write].was = "sent"]
  /\ UNCHANGED <<business, wave, slow>>

FinishWrite ==
  /\ dispatcher.pc = "answered"
  /\ slow' = FALSE
  /\ wave' = [wave EXCEPT !.completed = @ + 1, !.timer = TRUE]
  /\ Dispatched(business)
  /\ UNCHANGED answers

(* Mutant: a write that waits for its interval does not count as pending. *)
CloseWaveEarly ==
  /\ wave.timer
  /\ wave' = IF business = <<>> /\ dispatcher.pc \in {"idle", "wait"}
             THEN [total |-> 0, completed |-> 0, timer |-> FALSE]
             ELSE [wave EXCEPT !.timer = FALSE]
  /\ UNCHANGED <<business, dispatcher, slow, answers>>

(* scheduleWaveClose: WAVE_GRACE_MS after the last completion.              *)
CloseWave ==
  /\ wave.timer
  /\ wave' = IF PendingCount = 0 THEN [total |-> 0, completed |-> 0, timer |-> FALSE]
             ELSE [wave EXCEPT !.timer = FALSE]
  /\ UNCHANGED <<business, dispatcher, slow, answers>>

QueueNext ==
  \/ \E i \in WriteIds, kind \in Kinds : RunQueued(i, kind)
  \/ StartWrite \/ WriteIsSlow \/ AnswerWrite \/ FinishWrite
  \/ CloseWave

QueueSpec == QueueInit /\ [][QueueNext]_queueVars
----------------------------------------------------------------------------
(* The progress shown covers everything that is not finished: the wave is   *)
(* not reset and never looks complete while a write waits, is held back for *)
(* its interval, or is under way, whatever was superseded meanwhile.        *)
WaveCoversPending == PendingCount <= wave.total - wave.completed

(* A submitted write is sent, or a later one of its key is: superseding     *)
(* drops a write only for one that takes its place.  (Every request ends.)  *)
WriteOrSuccessorSent ==
  <>[](\A i \in WriteIds :
         \/ answers[i].was \in {"none", "sent"}
         \/ /\ answers[i].was = "superseded"
            /\ \E j \in (i + 1)..LastWrite :
                 answers[j].key = answers[i].key /\ answers[j].was = "sent")
============================================================================
