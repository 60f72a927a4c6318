---------------------------- MODULE DeviceCommands ----------------------------
(***************************************************************************)
(* Commands of an administrator to the local exam of one classroom device. *)
(* A command is stored twice: as a row of device_commands, which one       *)
(* heartbeat claims, and as the device's temporary_command, which every    *)
(* heartbeat may hand out again until the device reports on it.  The page  *)
(* carries its last report of either kind in every heartbeat and forgets   *)
(* both when it is reloaded.  A heartbeat whose answer the page no longer  *)
(* waits for is still carried out by the server, statement by statement,   *)
(* unless its handler dies between two of them.                            *)
(*                                                                         *)
(* A request repeated with its idempotency key finds the row and changes   *)
(* nothing; it is left out.  Whether the local exam admits a command is    *)
(* decided by its state, here by chance.                                   *)
(***************************************************************************)
EXTENDS Naturals

CONSTANTS
  LastCommand,       \* commands 1..LastCommand, in the order of created_at
  Heartbeats,        \* heartbeats that may be under way at once
  MaxDeviceFaults    \* bound: answers lost, handlers dead and pages reloaded

ASSUME DeviceAssumption == {LastCommand, MaxDeviceFaults} \subseteq Nat

VARIABLES
  command,       \* device_commands
  temporary,     \* device_instances.temporary_command, 0 when there is none
  beat,          \* the heartbeats at the server
  page,          \* the report slots of the page, and what it has carried out
  deviceFaults

deviceVars == <<command, temporary, beat, page, deviceFaults>>

Commands == 1..LastCommand
Slot == 0..LastCommand
Open == {"pending", "claimed"}

NoBeat == [pc |-> "idle", done |-> 0, failed |-> 0, stale |-> {}, temp |-> 0, got |-> 0,
           awaited |-> FALSE]

CommandRows ==
  [status : {"none", "pending", "claimed", "acknowledged", "failed", "expired"},
   posting : BOOLEAN, late : BOOLEAN]
Beats == [pc : {"idle", "done", "cleardone", "failed", "clearfailed", "row", "claim", "answer"},
          done : Slot, failed : Slot, stale : SUBSET Commands, temp : Slot, got : Slot,
          awaited : BOOLEAN]
Pages == [done : Slot, failed : Slot, ran : SUBSET Commands, lost : SUBSET Commands]

DeviceTypeOK ==
  /\ command \in [Commands -> CommandRows]
  /\ temporary \in Slot
  /\ beat \in [Heartbeats -> Beats]
  /\ page \in Pages
  /\ deviceFaults \in 0..MaxDeviceFaults

DeviceInit ==
  /\ command = [c \in Commands |-> [status |-> "none", posting |-> FALSE, late |-> FALSE]]
  /\ temporary = 0
  /\ beat = [h \in Heartbeats |-> NoBeat]
  /\ page = [done |-> 0, failed |-> 0, ran |-> {}, lost |-> {}]
  /\ deviceFaults = 0

(* DEVICE_COMMAND_TRANSITIONS. *)
Transitions ==
  {<<"pending", "claimed">>} \cup (Open \X {"acknowledged", "failed", "expired"})
----------------------------------------------------------------------------
(* handleDeviceCommand inserts the row, *)
PostCommand(c) ==
  /\ command[c].status = "none"
  /\ \A b \in 1..(c - 1) : command[b].status # "none"
  /\ command' = [command EXCEPT ![c].status = "pending", ![c].posting = TRUE]
  /\ UNCHANGED <<temporary, beat, page, deviceFaults>>

(* and then, in a statement of its own, makes it the temporary command.     *)
PostTemporary(c) ==
  /\ command[c].posting
  /\ command' = [command EXCEPT ![c].posting = FALSE]
  /\ temporary' = c
  /\ UNCHANGED <<beat, page, deviceFaults>>

(* Mutant: a heartbeat that reports a failure reports nothing else. *)
StartsWithOne(done, failed) ==
  IF failed # 0 THEN "failed" ELSE IF done # 0 THEN "done" ELSE "row"

(* The first statement of a heartbeat with these reports. *)
StartsWith(done, failed) ==
  IF done # 0 THEN "done" ELSE IF failed # 0 THEN "failed" ELSE "row"

(* The page sends a heartbeat unless it waits for one.  Any free slot h     *)
(* stands for it.  The server takes its `now` at the start: the commands    *)
(* that are late for this heartbeat are those that are late now.            *)
SendBeat(h) ==
  /\ {g \in Heartbeats : beat[g].pc = "idle"} # {}
  /\ h = CHOOSE g \in Heartbeats : beat[g].pc = "idle"
  /\ \A g \in Heartbeats : ~beat[g].awaited
  /\ beat' = [beat EXCEPT ![h] =
       [pc |-> StartsWith(page.done, page.failed), done |-> page.done, failed |-> page.failed,
        stale |-> {c \in Commands : command[c].late}, temp |-> 0, got |-> 0,
        awaited |-> TRUE]]
  /\ UNCHANGED <<command, temporary, page, deviceFaults>>

(* A row that is settled no longer runs late. *)
SettledAs(row, status) == [row EXCEPT !.status = status, !.late = FALSE]

(* Mutant: a report is written over whatever status the row has. *)
ReportedOver(row, c, d, status) == IF c = d THEN SettledAs(row, status) ELSE row

(* The row of c when command d is reported on.                              *)
Reported(row, c, d, status) ==
  IF c = d /\ row.status \in Open THEN SettledAs(row, status) ELSE row

(* handleDeviceHeartbeat first settles what the page reports on: the row    *)
(* of the command carried out,                                              *)
ReportDone(h) ==
  /\ beat[h].pc = "done"
  /\ command' = [c \in Commands |->
       Reported(command[c], c, beat[h].done, "acknowledged")]
  /\ beat' = [beat EXCEPT ![h].pc = "cleardone"]
  /\ UNCHANGED <<temporary, page, deviceFaults>>

(* the temporary command if it is this one,                                 *)
ClearDone(h) ==
  /\ beat[h].pc = "cleardone"
  /\ temporary' = IF temporary = beat[h].done THEN 0 ELSE temporary
  /\ beat' = [beat EXCEPT ![h] =
       [@ EXCEPT !.pc = StartsWith(0, beat[h].failed), !.done = 0]]
  /\ UNCHANGED <<command, page, deviceFaults>>

(* and the same for the command that failed.                                *)
ReportFailed(h) ==
  /\ beat[h].pc = "failed"
  /\ command' = [c \in Commands |->
       Reported(command[c], c, beat[h].failed, "failed")]
  /\ beat' = [beat EXCEPT ![h].pc = "clearfailed"]
  /\ UNCHANGED <<temporary, page, deviceFaults>>

ClearFailed(h) ==
  /\ beat[h].pc = "clearfailed"
  /\ temporary' = IF temporary = beat[h].failed THEN 0 ELSE temporary
  /\ beat' = [beat EXCEPT ![h] = [@ EXCEPT !.pc = "row", !.failed = 0]]
  /\ UNCHANGED <<command, page, deviceFaults>>

(* The upsert of the device returns its temporary command.                  *)
ReadDevice(h) ==
  /\ beat[h].pc = "row"
  /\ beat' = [beat EXCEPT ![h] = [@ EXCEPT !.pc = "claim", !.temp = temporary]]
  /\ UNCHANGED <<command, temporary, page, deviceFaults>>

Expired(row, stale) ==
  IF stale /\ row.status \in Open THEN SettledAs(row, "expired") ELSE row

(* One transaction expires what is late and claims the oldest command; the  *)
(* answer is that one, or else the temporary command read before.           *)
ClaimCommand(h) ==
  LET stale == beat[h].stale
      waiting == {c \in Commands \ stale : command[c].status = "pending"}
      oldest == CHOOSE c \in waiting : \A b \in waiting : c <= b
      claimed == IF waiting = {} THEN 0 ELSE oldest
  IN /\ beat[h].pc = "claim"
     /\ command' = [c \in Commands |->
          IF c = claimed THEN [command[c] EXCEPT !.status = "claimed"]
          ELSE Expired(command[c], c \in stale)]
     /\ beat' = [beat EXCEPT ![h] =
          IF ~beat[h].awaited THEN NoBeat
          ELSE [NoBeat EXCEPT !.pc = "answer", !.awaited = TRUE,
                              !.got = IF claimed # 0 THEN claimed ELSE beat[h].temp]]
     /\ UNCHANGED <<temporary, page, deviceFaults>>

(* Mutant: a command is reported as carried out before it is tried. *)
TriedEagerly(c, ok) ==
  IF ok THEN [page EXCEPT !.done = c, !.ran = @ \cup {c}] ELSE [page EXCEPT !.done = c]

(* onCommand: applyTemporaryExamCommand says whether it did anything.       *)
Tried(c, ok) ==
  IF ok THEN [page EXCEPT !.done = c, !.ran = @ \cup {c}] ELSE [page EXCEPT !.failed = c]

(* The answer arrives; the command last carried out is not repeated.        *)
Answer(h) ==
  /\ beat[h].pc = "answer"
  /\ beat' = [beat EXCEPT ![h] = NoBeat]
  /\ \E ok \in BOOLEAN :
       page' = IF beat[h].got \in {0, page.done} THEN page ELSE Tried(beat[h].got, ok)
  /\ UNCHANGED <<command, temporary, deviceFaults>>

(* Nobody waits for the answer any more; the server goes on all the same.   *)
Abandoned(b) == IF b.pc = "answer" THEN NoBeat ELSE [b EXCEPT !.awaited = FALSE]

(* The page stops waiting after eight seconds, or the answer is lost. *)
StopWaiting(h) ==
  /\ beat[h].awaited
  /\ deviceFaults < MaxDeviceFaults
  /\ deviceFaults' = deviceFaults + 1
  /\ beat' = [beat EXCEPT ![h] = Abandoned(@)]
  /\ UNCHANGED <<command, temporary, page>>

(* Mutant: an error leaves the page waiting.                                *)
HandlerDiesUnnoticed(h) ==
  /\ beat[h].pc \notin {"idle", "answer"}
  /\ deviceFaults < MaxDeviceFaults
  /\ deviceFaults' = deviceFaults + 1
  /\ beat' = [beat EXCEPT ![h] = [NoBeat EXCEPT !.awaited = beat[h].awaited]]
  /\ UNCHANGED <<command, temporary, page>>

(* The handler dies, and the page gets an error instead of an answer.       *)
HandlerDies(h) ==
  /\ beat[h].pc \notin {"idle", "answer"}
  /\ deviceFaults < MaxDeviceFaults
  /\ deviceFaults' = deviceFaults + 1
  /\ beat' = [beat EXCEPT ![h] = NoBeat]
  /\ UNCHANGED <<command, temporary, page>>

(* The page is reloaded: its reports are gone, the local exam is not.       *)
Reload ==
  /\ deviceFaults < MaxDeviceFaults
  /\ deviceFaults' = deviceFaults + 1
  /\ page' = [page EXCEPT !.done = 0, !.failed = 0, !.lost = @ \cup page.ran]
  /\ beat' = [h \in Heartbeats |-> Abandoned(beat[h])]
  /\ UNCHANGED <<command, temporary>>

(* Its 24 hours are over; a heartbeat under way goes by its own `now`. *)
RunLate(c) ==
  /\ command[c].status \in Open /\ ~command[c].late
  /\ \A b \in 1..(c - 1) : command[b].status \in Open => command[b].late
  /\ command' = [command EXCEPT ![c].late = TRUE]
  /\ UNCHANGED <<temporary, beat, page, deviceFaults>>

BeatStep(h) ==
  \/ ReportDone(h) \/ ClearDone(h) \/ ReportFailed(h) \/ ClearFailed(h)
  \/ ReadDevice(h) \/ ClaimCommand(h) \/ Answer(h)

DeviceNext ==
  \/ \E c \in Commands : PostCommand(c) \/ PostTemporary(c) \/ RunLate(c)
  \/ \E h \in Heartbeats : SendBeat(h) \/ BeatStep(h) \/ StopWaiting(h) \/ HandlerDies(h)
  \/ Reload

DeviceSpec == DeviceInit /\ [][DeviceNext]_deviceVars
----------------------------------------------------------------------------
(* A command shown as carried out was carried out by the page.              *)
AcknowledgedWasRun ==
  \A c \in Commands : command[c].status = "acknowledged" => c \in page.ran

(* The page has one slot for what it carried out, and yet no report is      *)
(* pushed out by the next one: unless the page was reloaded in between, a   *)
(* command it carried out is settled or still in the slot.                  *)
NoReportOverwritten ==
  \A c \in page.ran \ page.lost : page.done = c \/ command[c].status \notin Open

(* The rows move as DEVICE_COMMAND_TRANSITIONS allows, whatever order the   *)
(* reports of abandoned heartbeats come in.                                 *)
CommandTransitions ==
  [][\A c \in Commands :
       \/ command[c].status \in {"none", command'[c].status}
       \/ <<command[c].status, command'[c].status>> \in Transitions]_deviceVars

(* Every command is settled in time, handed out or not, reported on or not. *)
CommandsSettle == <>[](\A c \in Commands : command[c].status \notin Open)
============================================================================
