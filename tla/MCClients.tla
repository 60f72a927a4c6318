------------------------------ MODULE MCClients ------------------------------
(***************************************************************************)
(* The two client components that work on the stored snapshot, checked     *)
(* together: a behaviour saves, or reads, all along.                       *)
(***************************************************************************)
EXTENDS MCSaveProtocol, SnapshotReads

CONSTANT MaxEvents  \* bound: edits and mishaps of a behaviour that saves, together

VARIABLE part

vars == <<saveVars, readVars, part>>

Few == made' + (theirs' - LastOwn) + mishaps' <= MaxEvents

Saving(Action) == part = "save" /\ Action /\ Few /\ UNCHANGED <<readVars, part>>
Reading(Action) == part = "read" /\ Action /\ UNCHANGED <<saveVars, part>>

Init == part \in {"save", "read"} /\ SaveInit /\ ReadInit

Next == Saving(SaveNext) \/ Reading(ReadNext)

(* Timers fire, requests end, screens poll.  Only one component moves, so   *)
(* one condition serves an action of each; those for saving are the ones of *)
(* SaveFairness.                                                            *)
Fairness ==
  /\ WF_vars(Saving(TimerFires) \/ Reading(\E s \in Screens : PollSnapshot(s)))
  /\ WF_vars(Saving(PushStep) \/ Reading(\E s \in Screens : ReadStep(s)))
  /\ WF_vars(Saving(FlushStep) \/ Reading(\E p \in Panels : ReadStep(p)))
  /\ WF_vars(Saving(StartFlush)) /\ WF_vars(Saving(Arrive))

Spec == Init /\ [][Next]_vars /\ Fairness
----------------------------------------------------------------------------
(* Both components keep the shape of their state. *)
TypeOK == SaveTypeOK /\ ReadTypeOK

(* Where reading runs at all, the screens come to show the last document    *)
(* by their polls alone, unless the ETag ran ahead: fetchExamsFromServer    *)
(* and the fallback poll of useExamSync.                                    *)
ScreensCatchUp == part = "read" => ScreenCatchesUp
=============================================================================
