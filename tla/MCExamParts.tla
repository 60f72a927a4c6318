---------------------------- MODULE MCExamParts ----------------------------
(* The parts of the safety run: who is at work beside the one advance, and  *)
(* on which exam.  A part is chosen at the start and kept, so the state     *)
(* space is the sum of the parts and not their product.                     *)
EXTENDS MCExamLifecycle

VARIABLE part

Parts == {"requests", "starts", "saves"}

(* One request beside starting instances or a save, two when they are alone.*)
MayBeBusy(r) ==
  request[r].step = "new" =>
    part = "requests" \/ \A q \in Requests : request[q].step = "new"

(* Requests and starting instances meet a formal exam with the later        *)
(* window.  Saves meet a quick exam, and requests about it carry no key.    *)
InPart ==
  IF part = "saves"
  THEN /\ Held(majors) \subseteq Quick
       /\ \A s \in Saves : Held(save[s].majors) \subseteq Quick
       /\ \A r \in Requests : request[r].key = Null
  ELSE \A e \in Held(majors) : e \notin Quick /\ majors[e].startAt # 0

PartInit == Init /\ part \in Parts /\ InPart

PartNext ==
  /\ UNCHANGED part
  /\ \/ (part = "starts" \/ clock < 2) /\ Tick
     \/ \E w \in Workers : Advance(w) \/ Heartbeat(w) \/ WorkerStep(w)
     \/ \E r \in Requests : MayBeBusy(r) /\ (Submit(r) \/ RequestStep(r)) /\ InPart'
     \/ /\ part = "saves"
        /\ \/ \E s \in Saves : (Fetch(s) \/ EditBlank(s) \/ SaveStep(s)) /\ InPart'
           \/ ResetData
     \/ /\ part = "starts"
        /\ \E i \in Instances : StartInstance(i) \/ ProjectAtStart(i)

PartSpec == PartInit /\ [][PartNext]_<<vars, part>>
=============================================================================
