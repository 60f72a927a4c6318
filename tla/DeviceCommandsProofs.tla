------------------------ MODULE DeviceCommandsProofs ------------------------
(***************************************************************************)
(* What the rows of device_commands say is true, for any number of         *)
(* commands, heartbeats, lost answers and reloads.  The argument: a        *)
(* heartbeat carries what the page has carried out when it is sent, the    *)
(* server settles it before it hands out anything, and the page waits for  *)
(* one heartbeat at a time; so by the time an answer brings a new command, *)
(* the one in the slot is settled.                                         *)
(***************************************************************************)
EXTENDS DeviceCommands, WellFoundedInduction, TLAPS

(* The commands there are. *)
Posted == {c \in Commands : command[c].status # "none"}

(* Reports of success are about commands carried out. *)
ReportsAreTrue ==
  /\ page.done \in page.ran \cup {0}
  /\ \A h \in Heartbeats : beat[h].done \in page.ran \cup {0}

(* Nothing is handed out that was not stored. *)
HandedOutIsPosted ==
  /\ temporary \in Posted \cup {0} /\ page.ran \subseteq Posted
  /\ \A h \in Heartbeats :
       /\ beat[h].temp \in Posted \cup {0} /\ beat[h].got \in Posted \cup {0}
       /\ beat[h].pc = "idle" => ~beat[h].awaited
       /\ beat[h].pc = "answer" => beat[h].awaited
  /\ \A c \in Commands : command[c].posting => c \in Posted

(* The page waits for one heartbeat, which carries what is in the slot or   *)
(* has settled it.                                                          *)
SlotIsReported ==
  \A h \in Heartbeats : beat[h].awaited =>
    /\ \A g \in Heartbeats : beat[g].awaited => g = h
    /\ IF beat[h].pc = "done" THEN beat[h].done = page.done
       ELSE page.done = 0 \/ command[page.done].status \notin Open

DeviceIInv ==
  /\ DeviceTypeOK /\ ReportsAreTrue /\ AcknowledgedWasRun
  /\ HandedOutIsPosted /\ SlotIsReported /\ NoReportOverwritten

LEMMA SlotFacts == 0 \in Slot /\ Commands \subseteq Slot /\ 0 \notin Commands
  BY DeviceAssumption DEF Slot, Commands

(* The command a heartbeat claims is one that waits. *)
LEMMA OldestIsWaiting ==
  ASSUME NEW waiting \in SUBSET Commands
  PROVE  (IF waiting = {} THEN 0 ELSE CHOOSE c \in waiting : \A b \in waiting : c <= b)
           \in waiting \cup {0}
<1> SUFFICES ASSUME waiting # {}
             PROVE  \E c \in waiting : \A b \in waiting : c <= b
  OBVIOUS
<1>1. waiting \subseteq Nat
  BY DeviceAssumption DEF Commands
<1>2. PICK c \in waiting : \A b \in waiting : <<b, c>> \notin OpToRel(<, Nat)
  BY <1>1, WFMin, NatLessThanWellFounded, Zenon
<1>3. \A b \in waiting : ~(b < c)
  BY <1>1, <1>2, Zenon DEF OpToRel
<1> QED
  BY <1>1, <1>3

LEMMA DeviceInitInvariant == DeviceInit => DeviceIInv
<1> SUFFICES ASSUME DeviceInit PROVE DeviceIInv
  OBVIOUS
<1>1. DeviceTypeOK
  BY SlotFacts, DeviceAssumption DEF DeviceInit, DeviceTypeOK, NoBeat, CommandRows, Beats, Pages
<1>2. ReportsAreTrue /\ AcknowledgedWasRun /\ SlotIsReported /\ NoReportOverwritten
  BY DEF DeviceInit, ReportsAreTrue, AcknowledgedWasRun, SlotIsReported, NoReportOverwritten, NoBeat
<1>3. HandedOutIsPosted
  BY DEF DeviceInit, HandedOutIsPosted, Posted, NoBeat
<1> QED
  BY <1>1, <1>2, <1>3 DEF DeviceIInv
----------------------------------------------------------------------------
(* What a report makes of a row, *)
LEMMA ReportedRow ==
  ASSUME NEW row \in CommandRows, NEW c, NEW d, NEW status \in {"acknowledged", "failed"}
  PROVE  /\ Reported(row, c, d, status) \in CommandRows
         /\ Reported(row, c, d, status).posting = row.posting
         /\ Reported(row, c, d, status).status =
              IF c = d /\ row.status \in Open THEN status ELSE row.status
  BY DEF Reported, SettledAs, CommandRows

(* and of the rows, *)
LEMMA ReportRows ==
  ASSUME command \in [Commands -> CommandRows], NEW d,
         NEW status \in {"acknowledged", "failed"},
         command' = [c \in Commands |-> Reported(command[c], c, d, status)]
  PROVE  /\ command' \in [Commands -> CommandRows]
         /\ \A c \in Commands :
              /\ command'[c].posting = command[c].posting
              /\ command'[c].status =
                   IF c = d /\ command[c].status \in Open THEN status ELSE command[c].status
  BY ReportedRow

(* and what a claim makes of them. *)
LEMMA ClaimRows ==
  ASSUME DeviceTypeOK, NEW h \in Heartbeats, ClaimCommand(h)
  PROVE  /\ command' \in [Commands -> CommandRows]
         /\ \A c \in Commands :
              /\ command'[c].posting = command[c].posting
              /\ \/ command'[c].status = command[c].status
                 \/ command[c].status = "pending" /\ command'[c].status = "claimed"
                 \/ command[c].status \in Open /\ command'[c].status = "expired"
<1> DEFINE stale == beat[h].stale
           waiting == {c \in Commands \ stale : command[c].status = "pending"}
           claimed == IF waiting = {} THEN 0
                      ELSE CHOOSE c \in waiting : \A b \in waiting : c <= b
           row(c) == IF c = claimed THEN [command[c] EXCEPT !.status = "claimed"]
                     ELSE Expired(command[c], c \in stale)
<1>1. command \in [Commands -> CommandRows]
  BY DEF DeviceTypeOK
<1>2. command' = [c \in Commands |-> row(c)]
  BY Zenon DEF ClaimCommand
<1>3. claimed \in waiting \cup {0}
  BY OldestIsWaiting
<1>4. \A c \in Commands : c = claimed => command[c].status = "pending"
  BY <1>3, SlotFacts
<1>5. ASSUME NEW c \in Commands
      PROVE  /\ row(c) \in CommandRows /\ row(c).posting = command[c].posting
             /\ \/ row(c).status = command[c].status
                \/ command[c].status = "pending" /\ row(c).status = "claimed"
                \/ command[c].status \in Open /\ row(c).status = "expired"
  <2>1. command[c] \in CommandRows
    BY <1>1
  <2>2. CASE c = claimed
    <3> DEFINE new == [command[c] EXCEPT !.status = "claimed"]
    <3>1. new \in CommandRows /\ new.posting = command[c].posting /\ new.status = "claimed"
      BY <2>1 DEF CommandRows
    <3>2. row(c) = new
      BY <2>2
    <3> HIDE DEF new
    <3> QED
      BY <1>4, <2>2, <3>1, <3>2, Zenon
  <2>3. CASE c # claimed
    <3> DEFINE new == Expired(command[c], c \in stale)
    <3>1. /\ new \in CommandRows /\ new.posting = command[c].posting
          /\ new.status = IF c \in stale /\ command[c].status \in Open THEN "expired"
                          ELSE command[c].status
      BY <2>1 DEF Expired, SettledAs, CommandRows
    <3>2. row(c) = new
      BY <2>3
    <3>3. \/ new.status = command[c].status
          \/ command[c].status \in Open /\ new.status = "expired"
      BY <3>1
    <3> HIDE DEF new
    <3> QED
      BY <3>1, <3>2, <3>3, Zenon
  <2> QED
    BY <2>2, <2>3
<1> HIDE DEF row
<1> QED
  BY <1>2, <1>5

(* How the status of the rows may change in a step. *)
StatusStep ==
  \A c \in Commands :
    \/ command[c].status \in {"none", command'[c].status}
    \/ <<command[c].status, command'[c].status>> \in Transitions

LEMMA NextTransitions ==
  ASSUME DeviceTypeOK, DeviceNext
  PROVE  StatusStep
<1>1. command \in [Commands -> CommandRows]
  BY DEF DeviceTypeOK
<1>2. CASE command' = command
  BY <1>2 DEF StatusStep
<1>3. ASSUME NEW c \in Commands, PostCommand(c) \/ PostTemporary(c) \/ RunLate(c)
      PROVE  StatusStep
  BY <1>1, <1>3 DEF StatusStep, PostCommand, PostTemporary, RunLate, CommandRows
<1>4. ASSUME NEW h \in Heartbeats, ReportDone(h) \/ ReportFailed(h) PROVE StatusStep
  <2>1. CASE ReportDone(h)
    BY <1>1, <2>1, ReportRows DEF ReportDone, StatusStep, Transitions, Open
  <2>2. CASE ReportFailed(h)
    BY <1>1, <2>2, ReportRows DEF ReportFailed, StatusStep, Transitions, Open
  <2> QED
    BY <1>4, <2>1, <2>2
<1>5. ASSUME NEW h \in Heartbeats, ClaimCommand(h) PROVE StatusStep
  BY <1>5, ClaimRows DEF StatusStep, Transitions, Open
<1> QED
  BY <1>2, <1>3, <1>4, <1>5
  DEF DeviceNext, BeatStep, SendBeat, ClearDone, ClearFailed, ReadDevice, Answer, StopWaiting,
      HandlerDies, Reload

(* A stored command stays, and a settled one stays as it is. *)
LEMMA SettledCommandsStay ==
  ASSUME DeviceTypeOK, StatusStep, command' \in [Commands -> CommandRows],
         \A c \in Commands : command'[c].status = "none" => command[c].status = "none"
  PROVE  /\ Posted \subseteq Posted'
         /\ \A c \in Posted : command[c].status \notin Open => command'[c].status \notin Open
  BY DEF StatusStep, Posted, Transitions, Open

LEMMA TypeFacts ==
  ASSUME DeviceIInv
  PROVE  /\ command \in [Commands -> CommandRows] /\ temporary \in Slot
         /\ beat \in [Heartbeats -> Beats] /\ page \in Pages
         /\ deviceFaults \in 0..MaxDeviceFaults
         /\ page.ran \subseteq Commands
  BY DEF DeviceIInv, DeviceTypeOK, Pages

----------------------------------------------------------------------------
(* Steps that change the rows and the temporary command alone. *)
LEMMA RowsInvariant ==
  ASSUME DeviceIInv, DeviceNext, UNCHANGED <<beat, page, deviceFaults>>,
         command' \in [Commands -> CommandRows],
         temporary' \in Posted' \cup {0},
         \A c \in Commands :
           /\ command'[c].status = "none" => command[c].status = "none"
           /\ command'[c].status = "acknowledged" => command[c].status = "acknowledged"
           /\ command'[c].posting => c \in Posted'
  PROVE  DeviceIInv'
<1>1. /\ Posted \subseteq Posted'
      /\ \A c \in Posted : command[c].status \notin Open => command'[c].status \notin Open
  BY NextTransitions, SettledCommandsStay DEF DeviceIInv
<1>2. beat' = beat /\ page' = page /\ deviceFaults' = deviceFaults
  OBVIOUS
<1>3. DeviceTypeOK'
  <2>1. temporary' \in Slot
    BY SlotFacts DEF Posted
  <2> QED
    BY <1>2, <2>1, TypeFacts DEF DeviceTypeOK
<1>4. ReportsAreTrue' /\ AcknowledgedWasRun'
  BY <1>2 DEF DeviceIInv, ReportsAreTrue, AcknowledgedWasRun
<1>5. HandedOutIsPosted'
  BY <1>1, <1>2 DEF DeviceIInv, HandedOutIsPosted
<1>6. page.done \in Posted \cup {0}
  BY DEF DeviceIInv, ReportsAreTrue, HandedOutIsPosted
<1>7. SlotIsReported'
  BY <1>1, <1>2, <1>6 DEF DeviceIInv, SlotIsReported
<1>8. NoReportOverwritten'
  BY <1>1, <1>2 DEF DeviceIInv, NoReportOverwritten, HandedOutIsPosted
<1> QED
  BY <1>3, <1>4, <1>5, <1>7, <1>8 DEF DeviceIInv

LEMMA TemporaryInvariant ==
  ASSUME DeviceIInv, DeviceNext, NEW c \in Commands,
         PostCommand(c) \/ PostTemporary(c) \/ RunLate(c)
  PROVE  DeviceIInv'
<1>1. command \in [Commands -> CommandRows]
  BY TypeFacts
<1>2. UNCHANGED <<beat, page, deviceFaults>>
  BY DEF PostCommand, PostTemporary, RunLate
<1>3. command' \in [Commands -> CommandRows]
  <2>1. CASE PostCommand(c)
    BY <1>1, <2>1 DEF PostCommand, CommandRows
  <2>2. CASE PostTemporary(c)
    BY <1>1, <2>2 DEF PostTemporary, CommandRows
  <2>3. CASE RunLate(c)
    BY <1>1, <2>3 DEF RunLate, CommandRows
  <2> QED
    BY <2>1, <2>2, <2>3
<1>4. \A b \in Commands :
        /\ command'[b].status = "none" => command[b].status = "none"
        /\ command'[b].status = "acknowledged" => command[b].status = "acknowledged"
        /\ command'[b].posting => b \in Posted'
  <2>1. CASE PostCommand(c)
    BY <1>1, <2>1 DEF PostCommand, CommandRows, Posted, DeviceIInv, HandedOutIsPosted
  <2>2. CASE PostTemporary(c)
    BY <1>1, <2>2 DEF PostTemporary, CommandRows, Posted, DeviceIInv, HandedOutIsPosted
  <2>3. CASE RunLate(c)
    BY <1>1, <2>3 DEF RunLate, CommandRows, Posted, DeviceIInv, HandedOutIsPosted
  <2> QED
    BY <2>1, <2>2, <2>3
<1>5. temporary' \in Posted' \cup {0}
  BY <1>1 DEF PostCommand, PostTemporary, RunLate, CommandRows, Posted, DeviceIInv, HandedOutIsPosted
<1> QED
  BY <1>2, <1>3, <1>4, <1>5, RowsInvariant

(* Steps of a heartbeat at the server, which leave the page alone and carry *)
(* nothing that was not reported or stored.                                 *)
LEMMA ServerInvariant ==
  ASSUME DeviceIInv, DeviceNext, NEW h \in Heartbeats, NEW new \in Beats,
         beat' = [beat EXCEPT ![h] = new], UNCHANGED page,
         new.done \in {page.done, beat[h].done, 0}, new.temp \in Posted \cup {0}, new.got \in Posted \cup {0},
         new.pc = "idle" => ~new.awaited, new.pc = "answer" => new.awaited,
         new.awaited =>
           /\ \A g \in Heartbeats \ {h} : ~beat[g].awaited
           /\ IF new.pc = "done" THEN new.done = page.done
              ELSE page.done = 0 \/ command'[page.done].status \notin Open,
         command' \in [Commands -> CommandRows], temporary' \in {temporary, 0},
         deviceFaults' \in 0..MaxDeviceFaults,
         \A c \in Commands :
           /\ command'[c].status = "none" => command[c].status = "none"
           /\ command'[c].status = "acknowledged" => command[c].status = "acknowledged" \/ c \in page.ran
           /\ command'[c].posting = command[c].posting
  PROVE  DeviceIInv'
<1>1. /\ Posted \subseteq Posted'
      /\ \A c \in Posted : command[c].status \notin Open => command'[c].status \notin Open
  BY NextTransitions, SettledCommandsStay DEF DeviceIInv
<1>2. beat \in [Heartbeats -> Beats] /\ page' = page /\ temporary \in Slot
  BY TypeFacts
<1>3. beat'[h] = new /\ \A g \in Heartbeats \ {h} : beat'[g] = beat[g]
  BY <1>2
<1>4. DeviceTypeOK'
  <2>1. temporary' \in Slot /\ beat' \in [Heartbeats -> Beats]
    BY <1>2, SlotFacts
  <2> QED
    BY <1>2, <2>1, TypeFacts DEF DeviceTypeOK
<1>5. ReportsAreTrue' /\ AcknowledgedWasRun'
  BY <1>2, <1>3 DEF DeviceIInv, ReportsAreTrue, AcknowledgedWasRun
<1>6. HandedOutIsPosted'
  <2>1. temporary' \in Posted' \cup {0} /\ page'.ran \subseteq Posted'
    BY <1>1, <1>2 DEF DeviceIInv, HandedOutIsPosted
  <2>2. ASSUME NEW g \in Heartbeats
        PROVE  /\ beat'[g].temp \in Posted' \cup {0} /\ beat'[g].got \in Posted' \cup {0}
               /\ beat'[g].pc = "idle" => ~beat'[g].awaited
               /\ beat'[g].pc = "answer" => beat'[g].awaited
    <3>1. CASE g = h
      BY <1>1, <1>3, <3>1
    <3>2. CASE g # h
      BY <1>1, <1>3, <3>2 DEF DeviceIInv, HandedOutIsPosted
    <3> QED
      BY <3>1, <3>2
  <2>3. \A c \in Commands : command'[c].posting => c \in Posted'
    BY <1>1 DEF DeviceIInv, HandedOutIsPosted
  <2> QED
    BY <2>1, <2>2, <2>3 DEF HandedOutIsPosted
<1>7. page.done \in Posted \cup {0}
  BY DEF DeviceIInv, ReportsAreTrue, HandedOutIsPosted
<1>8. SlotIsReported'
  <2> SUFFICES ASSUME NEW g \in Heartbeats, beat'[g].awaited
               PROVE  /\ \A f \in Heartbeats : beat'[f].awaited => f = g
                      /\ IF beat'[g].pc = "done" THEN beat'[g].done = page.done
                         ELSE page.done = 0 \/ command'[page.done].status \notin Open
    BY <1>2 DEF SlotIsReported
  <2>1. CASE g = h
    BY <1>3, <2>1
  <2>2. CASE g # h
    <3>1. beat'[g] = beat[g] /\ beat[g].awaited /\ ~new.awaited
      BY <1>3, <2>2
    <3> QED
      BY <1>1, <1>3, <1>7, <3>1 DEF DeviceIInv, SlotIsReported
  <2> QED
    BY <2>1, <2>2
<1>9. NoReportOverwritten'
  BY <1>1, <1>2 DEF DeviceIInv, NoReportOverwritten, HandedOutIsPosted
<1> QED
  BY <1>4, <1>5, <1>6, <1>8, <1>9 DEF DeviceIInv

LEMMA NoBeatType == NoBeat \in Beats
  BY SlotFacts DEF NoBeat, Beats

LEMMA SendBeatInvariant ==
  ASSUME DeviceIInv, DeviceNext, NEW h \in Heartbeats, SendBeat(h)
  PROVE  DeviceIInv'
<1> DEFINE new == [pc |-> StartsWith(page.done, page.failed), done |-> page.done,
                   failed |-> page.failed, stale |-> {c \in Commands : command[c].late},
                   temp |-> 0, got |-> 0, awaited |-> TRUE]
<1>1. new \in Beats /\ new.pc \in {"done", "failed", "row"} /\ (new.pc # "done" => page.done = 0)
  BY TypeFacts, SlotFacts DEF Beats, Pages, StartsWith
<1>2. /\ beat' = [beat EXCEPT ![h] = new] /\ \A g \in Heartbeats : ~beat[g].awaited
      /\ command' = command /\ temporary' = temporary /\ page' = page
      /\ deviceFaults' = deviceFaults
  BY DEF SendBeat
<1> QED
  BY <1>1, <1>2, TypeFacts, ServerInvariant

LEMMA ReadDeviceInvariant ==
  ASSUME DeviceIInv, DeviceNext, NEW h \in Heartbeats, ReadDevice(h)
  PROVE  DeviceIInv'
<1> DEFINE new == [beat[h] EXCEPT !.pc = "claim", !.temp = temporary]
<1>1. beat[h] \in Beats /\ temporary \in Slot
  BY TypeFacts
<1>2. /\ new \in Beats /\ new.pc = "claim" /\ new.done = beat[h].done
      /\ new.temp = temporary /\ new.got = beat[h].got /\ new.awaited = beat[h].awaited
  <2> DEFINE step == [beat[h] EXCEPT !.pc = "claim"]
  <2>1. step \in Beats /\ step.pc = "claim"
    BY <1>1 DEF Beats
  <2>2. step.done = beat[h].done /\ step.got = beat[h].got /\ step.awaited = beat[h].awaited
    BY <1>1 DEF Beats
  <2>3. new = [step EXCEPT !.temp = temporary]
    BY Zenon
  <2> HIDE DEF step, new
  <2> QED
    BY <1>1, <2>1, <2>2, <2>3 DEF Beats
<1>3. /\ beat' = [beat EXCEPT ![h] = new] /\ beat[h].pc = "row"
      /\ command' = command /\ temporary' = temporary /\ page' = page
      /\ deviceFaults' = deviceFaults
  BY DEF ReadDevice
<1>4. /\ temporary \in Posted \cup {0} /\ beat[h].got \in Posted \cup {0}
      /\ beat[h].awaited =>
           /\ \A g \in Heartbeats \ {h} : ~beat[g].awaited
           /\ page.done = 0 \/ command[page.done].status \notin Open
  BY <1>3 DEF DeviceIInv, HandedOutIsPosted, SlotIsReported
<1> HIDE DEF new
<1> QED
  BY <1>2, <1>3, <1>4, TypeFacts, ServerInvariant

LEMMA ReportDoneInvariant ==
  ASSUME DeviceIInv, DeviceNext, NEW h \in Heartbeats, ReportDone(h)
  PROVE  DeviceIInv'
<1> DEFINE new == [beat[h] EXCEPT !.pc = "cleardone"]
<1>1. /\ beat[h] \in Beats /\ command \in [Commands -> CommandRows]
      /\ beat[h].done \in Slot
  BY TypeFacts DEF Beats
<1>2. /\ new \in Beats /\ new.pc = "cleardone" /\ new.done = beat[h].done
      /\ new.temp = beat[h].temp /\ new.got = beat[h].got /\ new.awaited = beat[h].awaited
  BY <1>1 DEF Beats
<1>3. /\ beat' = [beat EXCEPT ![h] = new] /\ beat[h].pc = "done" /\ page' = page
      /\ deviceFaults' = deviceFaults /\ temporary' = temporary
  BY DEF ReportDone
<1>4. command' = [c \in Commands |-> Reported(command[c], c, beat[h].done, "acknowledged")]
  BY DEF ReportDone
<1>5. /\ command' \in [Commands -> CommandRows]
      /\ \A c \in Commands :
           /\ command'[c].posting = command[c].posting
           /\ command'[c].status =
                IF c = beat[h].done /\ command[c].status \in Open THEN "acknowledged"
                ELSE command[c].status
  BY <1>1, <1>4, ReportRows
<1>6. \A c \in Commands :
        /\ command'[c].status = "none" => command[c].status = "none"
        /\ command'[c].status = "acknowledged" => command[c].status = "acknowledged" \/ c \in page.ran
  BY <1>5, SlotFacts DEF DeviceIInv, ReportsAreTrue
<1>7. beat[h].temp \in Posted \cup {0} /\ beat[h].got \in Posted \cup {0}
  BY DEF DeviceIInv, HandedOutIsPosted
<1>8. beat[h].awaited =>
        /\ \A g \in Heartbeats \ {h} : ~beat[g].awaited
        /\ page.done = 0 \/ command'[page.done].status \notin Open
  <2> SUFFICES ASSUME beat[h].awaited, page.done # 0
               PROVE  /\ \A g \in Heartbeats \ {h} : ~beat[g].awaited
                      /\ command'[page.done].status \notin Open
    BY DEF DeviceIInv, SlotIsReported
  <2>1. beat[h].done = page.done /\ \A g \in Heartbeats \ {h} : ~beat[g].awaited
    BY <1>3 DEF DeviceIInv, SlotIsReported
  <2>2. page.done \in Commands
    BY TypeFacts DEF DeviceIInv, ReportsAreTrue
  <2> QED
    BY <1>5, <2>1, <2>2 DEF Open
<1> HIDE DEF new
<1> QED
  BY <1>2, <1>3, <1>5, <1>6, <1>7, <1>8, TypeFacts, ServerInvariant

LEMMA ReportFailedInvariant ==
  ASSUME DeviceIInv, DeviceNext, NEW h \in Heartbeats, ReportFailed(h)
  PROVE  DeviceIInv'
<1> DEFINE new == [beat[h] EXCEPT !.pc = "clearfailed"]
<1>1. /\ beat[h] \in Beats /\ command \in [Commands -> CommandRows]
      /\ beat[h].failed \in Slot
  BY TypeFacts DEF Beats
<1>2. /\ new \in Beats /\ new.pc = "clearfailed" /\ new.done = beat[h].done
      /\ new.temp = beat[h].temp /\ new.got = beat[h].got /\ new.awaited = beat[h].awaited
  BY <1>1 DEF Beats
<1>3. /\ beat' = [beat EXCEPT ![h] = new] /\ beat[h].pc = "failed" /\ page' = page
      /\ deviceFaults' = deviceFaults /\ temporary' = temporary
  BY DEF ReportFailed
<1>4. command' = [c \in Commands |-> Reported(command[c], c, beat[h].failed, "failed")]
  BY DEF ReportFailed
<1>5. /\ command' \in [Commands -> CommandRows]
      /\ \A c \in Commands :
           /\ command'[c].posting = command[c].posting
           /\ command'[c].status =
                IF c = beat[h].failed /\ command[c].status \in Open THEN "failed"
                ELSE command[c].status
  BY <1>1, <1>4, ReportRows
<1>6. \A c \in Commands :
        /\ command'[c].status = "none" => command[c].status = "none"
        /\ command'[c].status = "acknowledged" => command[c].status = "acknowledged" \/ c \in page.ran
  BY <1>5, SlotFacts DEF DeviceIInv, ReportsAreTrue
<1>7. beat[h].temp \in Posted \cup {0} /\ beat[h].got \in Posted \cup {0}
  BY DEF DeviceIInv, HandedOutIsPosted
<1>8. beat[h].awaited =>
        /\ \A g \in Heartbeats \ {h} : ~beat[g].awaited
        /\ page.done = 0 \/ command'[page.done].status \notin Open
  <2> SUFFICES ASSUME beat[h].awaited, page.done # 0
               PROVE  /\ \A g \in Heartbeats \ {h} : ~beat[g].awaited
                      /\ command'[page.done].status \notin Open
    BY DEF DeviceIInv, SlotIsReported
  <2>1. /\ command[page.done].status \notin Open
        /\ \A g \in Heartbeats \ {h} : ~beat[g].awaited
    BY <1>3 DEF DeviceIInv, SlotIsReported
  <2>2. page.done \in Commands
    BY TypeFacts DEF DeviceIInv, ReportsAreTrue
  <2> QED
    BY <1>5, <2>1, <2>2 DEF Open
<1> HIDE DEF new
<1> QED
  BY <1>2, <1>3, <1>5, <1>6, <1>7, <1>8, TypeFacts, ServerInvariant

(* Clearing the temporary command goes on to a later statement. *)
LEMMA ClearInvariant ==
  ASSUME DeviceIInv, DeviceNext, NEW h \in Heartbeats, ClearDone(h) \/ ClearFailed(h)
  PROVE  DeviceIInv'
<1>1. beat[h] \in Beats /\ beat \in [Heartbeats -> Beats]
  BY TypeFacts
<1>2. /\ page' = page /\ deviceFaults' = deviceFaults /\ temporary' \in {temporary, 0}
      /\ command' = command /\ beat[h].pc \in {"cleardone", "clearfailed"}
  BY DEF ClearDone, ClearFailed
<1>3. PICK new \in Beats :
        /\ beat' = [beat EXCEPT ![h] = new]
        /\ new.pc \in {"failed", "row"} /\ new.done \in {beat[h].done, 0}
        /\ new.temp = beat[h].temp /\ new.got = beat[h].got /\ new.awaited = beat[h].awaited
  <2>1. CASE ClearDone(h)
    <3> DEFINE one == [beat[h] EXCEPT !.pc = StartsWith(0, beat[h].failed)]
               new == [one EXCEPT !.done = 0]
    <3>1. /\ one \in Beats /\ one.pc \in {"failed", "row"} /\ one.temp = beat[h].temp
          /\ one.got = beat[h].got /\ one.awaited = beat[h].awaited
      BY <1>1 DEF Beats, StartsWith
    <3>2. beat' = [beat EXCEPT ![h] = new]
      BY <1>1, <2>1, Zenon DEF ClearDone
    <3>3. /\ new \in Beats /\ new.pc \in {"failed", "row"} /\ new.done = 0
          /\ new.temp = beat[h].temp /\ new.got = beat[h].got /\ new.awaited = beat[h].awaited
      <4> HIDE DEF one
      <4> QED
        BY <3>1, SlotFacts DEF Beats
    <3> HIDE DEF new
    <3> QED
      BY <3>2, <3>3
  <2>2. CASE ClearFailed(h)
    <3> DEFINE one == [beat[h] EXCEPT !.pc = "row"]
               new == [one EXCEPT !.failed = 0]
    <3>1. /\ one \in Beats /\ one.pc = "row" /\ one.done = beat[h].done
          /\ one.temp = beat[h].temp /\ one.got = beat[h].got /\ one.awaited = beat[h].awaited
      BY <1>1 DEF Beats
    <3>2. beat' = [beat EXCEPT ![h] = new]
      BY <1>1, <2>2, Zenon DEF ClearFailed
    <3>3. /\ new \in Beats /\ new.pc = "row" /\ new.done = beat[h].done
          /\ new.temp = beat[h].temp /\ new.got = beat[h].got /\ new.awaited = beat[h].awaited
      <4> HIDE DEF one
      <4> QED
        BY <3>1, SlotFacts DEF Beats
    <3> HIDE DEF new
    <3> QED
      BY <3>2, <3>3
  <2> QED
    BY <2>1, <2>2
<1>4. /\ beat[h].temp \in Posted \cup {0} /\ beat[h].got \in Posted \cup {0}
      /\ beat[h].awaited =>
           /\ \A g \in Heartbeats \ {h} : ~beat[g].awaited
           /\ page.done = 0 \/ command[page.done].status \notin Open
  BY <1>2 DEF DeviceIInv, HandedOutIsPosted, SlotIsReported
<1> QED
  BY <1>2, <1>3, <1>4, TypeFacts, ServerInvariant

LEMMA ClaimInvariant ==
  ASSUME DeviceIInv, DeviceNext, NEW h \in Heartbeats, ClaimCommand(h)
  PROVE  DeviceIInv'
<1> DEFINE waiting == {c \in Commands \ beat[h].stale : command[c].status = "pending"}
           claimed == IF waiting = {} THEN 0
                      ELSE CHOOSE c \in waiting : \A b \in waiting : c <= b
           got == IF claimed # 0 THEN claimed ELSE beat[h].temp
           full == [NoBeat EXCEPT !.pc = "answer", !.awaited = TRUE, !.got = got]
           new == IF ~beat[h].awaited THEN NoBeat ELSE full
<1>1. beat[h] \in Beats /\ page \in Pages
  BY TypeFacts
<1>2. claimed \in waiting \cup {0}
  BY OldestIsWaiting
<1>3. got \in Posted \cup {0}
  BY <1>2 DEF DeviceIInv, HandedOutIsPosted, Posted
<1>4. /\ beat' = [beat EXCEPT ![h] = new] /\ beat[h].pc = "claim" /\ page' = page
      /\ deviceFaults' = deviceFaults /\ temporary' = temporary
  BY Zenon DEF ClaimCommand
<1> HIDE DEF claimed, got
<1>5. /\ command' \in [Commands -> CommandRows]
      /\ \A c \in Commands :
           /\ command'[c].posting = command[c].posting
           /\ \/ command'[c].status = command[c].status
              \/ command[c].status = "pending" /\ command'[c].status = "claimed"
              \/ command[c].status \in Open /\ command'[c].status = "expired"
  BY ClaimRows DEF DeviceIInv
<1>6. \A c \in Commands :
        /\ command'[c].status = "none" => command[c].status = "none"
        /\ command'[c].status = "acknowledged" => command[c].status = "acknowledged"
  BY <1>5
<1>7. full \in Beats
  BY <1>3, SlotFacts DEF Beats, Posted, NoBeat
<1>8. /\ new \in Beats /\ new.done = 0 /\ new.temp = 0 /\ new.got \in {got, 0}
      /\ (new.pc = "idle" => ~new.awaited) /\ (new.pc = "answer" => new.awaited)
      /\ new.pc # "done" /\ new.awaited = beat[h].awaited
  BY <1>1, <1>7, NoBeatType DEF NoBeat, Beats
<1>9. beat[h].awaited =>
         /\ \A g \in Heartbeats \ {h} : ~beat[g].awaited
         /\ page.done = 0 \/ command'[page.done].status \notin Open
  <2> SUFFICES ASSUME beat[h].awaited, page.done # 0
               PROVE  /\ \A g \in Heartbeats \ {h} : ~beat[g].awaited
                      /\ command'[page.done].status \notin Open
    BY DEF DeviceIInv, SlotIsReported
  <2>1. /\ command[page.done].status \notin Open
        /\ \A g \in Heartbeats \ {h} : ~beat[g].awaited
    BY <1>4 DEF DeviceIInv, SlotIsReported
  <2>2. page.done \in Commands
    BY TypeFacts DEF DeviceIInv, ReportsAreTrue
  <2>3. command'[page.done].status \notin Open
    BY <1>5, <2>1, <2>2 DEF Open
  <2> QED
    BY <2>1, <2>3
<1> HIDE DEF new
<1> QED
  BY <1>3, <1>4, <1>5, <1>6, <1>8, <1>9, TypeFacts, ServerInvariant

LEMMA StopWaitingInvariant ==
  ASSUME DeviceIInv, DeviceNext, NEW h \in Heartbeats, StopWaiting(h)
  PROVE  DeviceIInv'
<1> DEFINE new == Abandoned(beat[h])
<1>1. beat[h] \in Beats /\ deviceFaults \in 0..MaxDeviceFaults /\ deviceFaults < MaxDeviceFaults
  BY TypeFacts DEF StopWaiting
<1>2. /\ new \in Beats /\ new.done \in {beat[h].done, 0} /\ new.temp \in {beat[h].temp, 0}
      /\ new.got \in {beat[h].got, 0} /\ ~new.awaited /\ new.pc # "answer"
  BY <1>1, NoBeatType DEF Abandoned, NoBeat, Beats
<1>3. /\ beat' = [beat EXCEPT ![h] = new] /\ command' = command /\ temporary' = temporary
      /\ page' = page /\ deviceFaults' = deviceFaults + 1
  BY DEF StopWaiting
<1>4. beat[h].temp \in Posted \cup {0} /\ beat[h].got \in Posted \cup {0}
  BY DEF DeviceIInv, HandedOutIsPosted
<1>5. deviceFaults' \in 0..MaxDeviceFaults
  BY <1>1, <1>3, DeviceAssumption
<1> HIDE DEF new
<1> QED
  BY <1>2, <1>3, <1>4, <1>5, TypeFacts, ServerInvariant

LEMMA HandlerDiesInvariant ==
  ASSUME DeviceIInv, DeviceNext, NEW h \in Heartbeats, HandlerDies(h)
  PROVE  DeviceIInv'
<1>1. /\ beat' = [beat EXCEPT ![h] = NoBeat] /\ command' = command /\ temporary' = temporary
      /\ page' = page /\ deviceFaults' = deviceFaults + 1 /\ deviceFaults < MaxDeviceFaults
  BY DEF HandlerDies
<1>2. /\ NoBeat.done = 0 /\ NoBeat.temp = 0 /\ NoBeat.got = 0 /\ ~NoBeat.awaited
      /\ NoBeat.pc = "idle"
  BY DEF NoBeat
<1>3. deviceFaults' \in 0..MaxDeviceFaults
  BY <1>1, TypeFacts, DeviceAssumption
<1> QED
  BY <1>1, <1>2, <1>3, NoBeatType, TypeFacts, ServerInvariant

----------------------------------------------------------------------------
(* Steps of the page. *)
LEMMA TriedPage ==
  ASSUME NEW c \in Commands, NEW ok \in BOOLEAN, page \in Pages
  PROVE  /\ Tried(c, ok) \in Pages
         /\ Tried(c, ok).done = (IF ok THEN c ELSE page.done)
         /\ Tried(c, ok).ran = (IF ok THEN page.ran \cup {c} ELSE page.ran)
         /\ Tried(c, ok).lost = page.lost
<1>1. c \in Slot
  BY SlotFacts
<1>2. CASE ok
  <2> DEFINE one == [page EXCEPT !.done = c]
  <2>1. one \in Pages /\ one.done = c /\ one.ran = page.ran /\ one.lost = page.lost
    BY <1>1 DEF Pages
  <2>2. Tried(c, ok) = [one EXCEPT !.ran = one.ran \cup {c}]
    BY <1>2, Zenon DEF Tried
  <2>3. one.ran \cup {c} \in SUBSET Commands
    BY <2>1 DEF Pages
  <2> HIDE DEF one
  <2>4. Tried(c, ok) \in Pages
    BY <2>1, <2>2, <2>3 DEF Pages
  <2> QED
    BY <1>2, <2>1, <2>2, <2>4 DEF Pages
<1>3. CASE ~ok
  BY <1>1, <1>3 DEF Tried, Pages
<1> QED
  BY <1>2, <1>3

LEMMA AnswerInvariant ==
  ASSUME DeviceIInv, NEW h \in Heartbeats, Answer(h)
  PROVE  DeviceIInv'
<1>1. /\ command' = command /\ temporary' = temporary /\ deviceFaults' = deviceFaults
      /\ beat[h].pc = "answer" /\ beat' = [beat EXCEPT ![h] = NoBeat]
  BY DEF Answer
<1>2. beat \in [Heartbeats -> Beats] /\ page \in Pages /\ page.ran \subseteq Commands
  BY TypeFacts
<1>3. beat'[h] = NoBeat /\ \A g \in Heartbeats \ {h} : beat'[g] = beat[g]
  BY <1>1, <1>2
<1>4. \A g \in Heartbeats \ {h} : ~beat[g].awaited
  BY <1>1 DEF DeviceIInv, HandedOutIsPosted, SlotIsReported
<1>5. SlotIsReported'
  BY <1>3, <1>4 DEF SlotIsReported, NoBeat
<1>6. page.done = 0 \/ command[page.done].status \notin Open
  BY <1>1 DEF DeviceIInv, HandedOutIsPosted, SlotIsReported
<1>7. Posted' = Posted
  BY <1>1 DEF Posted
<1>8. /\ page' \in Pages /\ page.ran \subseteq page'.ran /\ page'.ran \subseteq Posted
      /\ page'.done \in page'.ran \cup {0}
      /\ \A c \in page'.ran \ page'.lost :
            page'.done = c \/ c = page.done \/ c \in page.ran \ page.lost
      /\ page'.done = page.done \/ page'.lost = page.lost
  <2>1. page.ran \subseteq Posted /\ page.done \in page.ran \cup {0}
    BY DEF DeviceIInv, HandedOutIsPosted, ReportsAreTrue
  <2>2. CASE page' = page
    BY <1>2, <2>1, <2>2
  <2>3. CASE page' # page
    <3>1. PICK ok \in BOOLEAN : page' = Tried(beat[h].got, ok)
      BY <2>3 DEF Answer
    <3>2. beat[h].got # 0
      BY <2>3 DEF Answer
    <3>3. beat[h].got \in Posted /\ beat[h].got \in Commands
      BY <3>2 DEF DeviceIInv, HandedOutIsPosted, Posted
    <3>4. /\ page' \in Pages /\ page'.lost = page.lost
          /\ page'.done = (IF ok THEN beat[h].got ELSE page.done)
          /\ page'.ran = (IF ok THEN page.ran \cup {beat[h].got} ELSE page.ran)
      BY <1>2, <3>1, <3>3, TriedPage
    <3>5. CASE ok
      BY <2>1, <3>3, <3>4, <3>5
    <3>6. CASE ~ok
      BY <2>1, <3>4, <3>6
    <3> QED
      BY <3>5, <3>6
  <2> QED
    BY <2>2, <2>3
<1>9. DeviceTypeOK'
  <2>1. beat' \in [Heartbeats -> Beats]
    BY <1>1, <1>2, NoBeatType
  <2> QED
    BY <1>1, <1>8, <2>1, TypeFacts DEF DeviceTypeOK
<1>10. ReportsAreTrue' /\ AcknowledgedWasRun'
  <2>1. ReportsAreTrue'
    <3> SUFFICES ASSUME NEW g \in Heartbeats PROVE beat'[g].done \in page'.ran \cup {0}
      BY <1>8 DEF ReportsAreTrue
    <3>1. CASE g = h
      BY <1>3, <3>1 DEF NoBeat
    <3>2. CASE g # h
      BY <1>3, <1>8, <3>2 DEF DeviceIInv, ReportsAreTrue
    <3> QED
      BY <3>1, <3>2
  <2>2. AcknowledgedWasRun'
    BY <1>1, <1>8 DEF DeviceIInv, AcknowledgedWasRun
  <2> QED
    BY <2>1, <2>2
<1>11. HandedOutIsPosted'
  <2> SUFFICES ASSUME NEW g \in Heartbeats
               PROVE  /\ beat'[g].temp \in Posted \cup {0} /\ beat'[g].got \in Posted \cup {0}
                      /\ beat'[g].pc = "idle" => ~beat'[g].awaited
                      /\ beat'[g].pc = "answer" => beat'[g].awaited
    BY <1>1, <1>7, <1>8 DEF DeviceIInv, HandedOutIsPosted
  <2>1. CASE g = h
    BY <1>3, <2>1 DEF NoBeat
  <2>2. CASE g # h
    BY <1>3, <2>2 DEF DeviceIInv, HandedOutIsPosted
  <2> QED
    BY <2>1, <2>2
<1>12. NoReportOverwritten'
  <2> SUFFICES ASSUME NEW c \in page'.ran \ page'.lost
               PROVE  page'.done = c \/ command[c].status \notin Open
    BY <1>1 DEF NoReportOverwritten
  <2>1. c \in Commands /\ 0 \notin Commands
    BY <1>8, SlotFacts DEF Posted
  <2>2. c \in page.ran \ page.lost => page.done = c \/ command[c].status \notin Open
    BY DEF DeviceIInv, NoReportOverwritten
  <2> QED
    BY <1>6, <1>8, <2>1, <2>2
<1> QED
  BY <1>5, <1>9, <1>10, <1>11, <1>12 DEF DeviceIInv

LEMMA ReloadInvariant ==
  ASSUME DeviceIInv, Reload
  PROVE  DeviceIInv'
<1>1. /\ command' = command /\ temporary' = temporary
      /\ deviceFaults' = deviceFaults + 1 /\ deviceFaults < MaxDeviceFaults
      /\ beat' = [h \in Heartbeats |-> Abandoned(beat[h])]
      /\ page' = [page EXCEPT !.done = 0, !.failed = 0, !.lost = @ \cup page.ran]
  BY DEF Reload
<1>2. /\ beat \in [Heartbeats -> Beats] /\ page \in Pages
      /\ deviceFaults \in 0..MaxDeviceFaults
  BY TypeFacts
<1>3. /\ page' \in Pages /\ page'.done = 0 /\ page'.ran = page.ran
      /\ page'.lost = page.lost \cup page.ran
  <2> DEFINE one == [page EXCEPT !.done = 0]
             two == [one EXCEPT !.failed = 0]
  <2>1. one \in Pages /\ one.done = 0 /\ one.ran = page.ran /\ one.lost = page.lost
    BY <1>2, SlotFacts DEF Pages
  <2>2. two \in Pages /\ two.done = 0 /\ two.ran = page.ran /\ two.lost = page.lost
    <3> HIDE DEF one
    <3> QED
      BY <2>1, SlotFacts DEF Pages
  <2>3. page' = [two EXCEPT !.lost = @ \cup page.ran]
    BY <1>1, Zenon
  <2> HIDE DEF one, two
  <2> QED
    BY <1>2, <2>2, <2>3 DEF Pages
<1>4. \A h \in Heartbeats :
        /\ beat'[h] \in Beats /\ beat'[h].done \in {beat[h].done, 0}
        /\ beat'[h].temp \in {beat[h].temp, 0} /\ beat'[h].got \in {beat[h].got, 0}
        /\ ~beat'[h].awaited /\ beat'[h].pc # "answer"
  BY <1>1, <1>2, NoBeatType DEF Abandoned, NoBeat, Beats
<1>5. DeviceTypeOK'
  <2>1. beat' \in [Heartbeats -> Beats]
    BY <1>1, <1>4
  <2>2. deviceFaults' \in 0..MaxDeviceFaults
    BY <1>1, <1>2, DeviceAssumption
  <2> QED
    BY <1>1, <1>3, <2>1, <2>2, TypeFacts DEF DeviceTypeOK
<1>6. ReportsAreTrue' /\ AcknowledgedWasRun' /\ SlotIsReported'
  BY <1>1, <1>3, <1>4 DEF DeviceIInv, ReportsAreTrue, AcknowledgedWasRun, SlotIsReported
<1>7. HandedOutIsPosted'
  BY <1>1, <1>3, <1>4 DEF DeviceIInv, HandedOutIsPosted, Posted
<1>8. NoReportOverwritten'
  BY <1>3 DEF NoReportOverwritten
<1> QED
  BY <1>5, <1>6, <1>7, <1>8 DEF DeviceIInv

LEMMA DeviceNextInvariant == DeviceIInv /\ [DeviceNext]_deviceVars => DeviceIInv'
<1> SUFFICES ASSUME DeviceIInv, [DeviceNext]_deviceVars PROVE DeviceIInv'
  OBVIOUS
<1>1. CASE DeviceNext
  BY <1>1, TemporaryInvariant, SendBeatInvariant, ReportDoneInvariant, ReportFailedInvariant,
     ClearInvariant, ReadDeviceInvariant, ClaimInvariant, HandlerDiesInvariant, AnswerInvariant,
     StopWaitingInvariant, ReloadInvariant
  DEF DeviceNext, BeatStep
<1>2. CASE UNCHANGED deviceVars
  BY <1>2 DEF deviceVars, DeviceIInv, DeviceTypeOK, ReportsAreTrue, AcknowledgedWasRun,
              HandedOutIsPosted, Posted, SlotIsReported, NoReportOverwritten
<1> QED
  BY <1>1, <1>2

LEMMA DeviceInvariant == DeviceSpec => []DeviceIInv
  BY DeviceInitInvariant, DeviceNextInvariant, PTL DEF DeviceSpec

(* What the administrator is shown as carried out was carried out on the    *)
(* page, however many heartbeats were abandoned and reports repeated:       *)
(* handleDeviceHeartbeat and useDeviceCommand's report.                     *)
THEOREM AcknowledgedIsTrue == DeviceSpec => []AcknowledgedWasRun
<1>1. DeviceIInv => AcknowledgedWasRun
  BY DEF DeviceIInv
<1> QED
  BY <1>1, DeviceInvariant, PTL

(* The single report slot of the page suffices: a report gives way to the   *)
(* next one only when the server has settled the command it was about, or   *)
(* the page was reloaded.                                                   *)
THEOREM ReportsSurvive == DeviceSpec => []NoReportOverwritten
<1>1. DeviceIInv => NoReportOverwritten
  BY DEF DeviceIInv
<1> QED
  BY <1>1, DeviceInvariant, PTL

(* Rows move only as DEVICE_COMMAND_TRANSITIONS allows, whatever order the  *)
(* reports of abandoned heartbeats come in.                                 *)
THEOREM TransitionsHold == DeviceSpec => CommandTransitions
<1>1. DeviceIInv /\ [DeviceNext]_deviceVars =>
        [\A c \in Commands :
           \/ command[c].status \in {"none", command'[c].status}
           \/ <<command[c].status, command'[c].status>> \in Transitions]_deviceVars
  BY NextTransitions DEF DeviceIInv, StatusStep
<1> QED
  BY <1>1, DeviceInvariant, PTL DEF DeviceSpec, CommandTransitions
=============================================================================
