-------------------------- MODULE ComponentProofs ---------------------------
(***************************************************************************)
(* The components that share no state with the others: the backup lease,   *)
(* the plugin's pairing and the receipts, each with its own invariant, and *)
(* all of them together as MCComponents runs them.                         *)
(***************************************************************************)
EXTENDS MCComponents, DeviceCommandsProofs, QueueProofs

(***************************************************************************)
(* Backups.  A restore never destroys what it has not stored, for any      *)
(* number of backups and restores and any length of the lease.  The        *)
(* argument: while the row names a restore and its protection lasts,       *)
(* nobody else changes the tables, so the file taken since then is their   *)
(* value; and a task that lost the row to another one never gets it back.  *)
(***************************************************************************)

(* The file of a protected task is what the tables hold. *)
FileIsCurrent(t) ==
  taskPc[t] \in {"check", "save", "apply", "locking"} /\ OwnsLease(t) /\ Blocked
    => runs[t].file = tables

(* Nothing is applied before the backup was stored and recorded. *)
StoredFirst(t) == taskPc[t] \in {"apply", "locking"} => runs[t].status = "success"

BackupIInv == BackupTypeOK /\ \A t \in Tasks : FileIsCurrent(t) /\ StoredFirst(t)

Pcs == {"start", "snapshot", "check", "save", "apply", "locking", "release", "done"}
LeaseRows == [owner : Tasks \cup {NoTask}, lease : 0..LeaseTicks, restore : 0..LeaseTicks]
RunRows == [status : {"none", "running", "success", "failed"}, file : 0..NoFile]

LEMMA BackupTypes ==
  BackupTypeOK <=>
    /\ tables \in 0..MaxWrites /\ writes \in 0..MaxWrites /\ leaseRow \in LeaseRows
    /\ runs \in [Tasks -> RunRows] /\ taskPc \in [Tasks -> Pcs]
  BY DEF BackupTypeOK, LeaseRows, RunRows, Pcs

LEMMA BackupInitInvariant == BackupInit => BackupIInv
<1> SUFFICES ASSUME BackupInit PROVE BackupIInv
  OBVIOUS
<1>1. tables \in 0..MaxWrites /\ writes \in 0..MaxWrites /\ leaseRow \in LeaseRows
  BY BackupAssumption DEF BackupInit, LeaseRows
<1>2. runs \in [Tasks -> RunRows] /\ taskPc \in [Tasks -> Pcs]
  BY BackupAssumption DEF BackupInit, RunRows, NoRun, NoFile, Pcs
<1>3. \A t \in Tasks : FileIsCurrent(t) /\ StoredFirst(t)
  BY DEF BackupInit, FileIsCurrent, StoredFirst
<1> QED
  BY <1>1, <1>2, <1>3, BackupTypes DEF BackupIInv

LEMMA BackupNextType ==
  ASSUME BackupTypeOK, BackupNext
  PROVE  BackupTypeOK'
<1>1. /\ tables \in 0..MaxWrites /\ writes \in 0..MaxWrites /\ leaseRow \in LeaseRows
      /\ runs \in [Tasks -> RunRows] /\ taskPc \in [Tasks -> Pcs]
  BY BackupTypes
<1>2. tables \in 0..NoFile /\ NoFile \in 0..NoFile /\ 0 \in 0..LeaseTicks /\ 1 \in 0..LeaseTicks
      /\ LeaseTicks \in 0..LeaseTicks /\ 0 \in 0..MaxWrites
  BY <1>1, BackupAssumption DEF NoFile
<1>3. /\ tables' \in 0..MaxWrites /\ writes' \in 0..MaxWrites
  <2>1. CASE WriteTables
    BY <1>1, <2>1, BackupAssumption DEF WriteTables
  <2>2. CASE BackupMinute
    BY <1>1, <2>2 DEF BackupMinute
  <2>3. ASSUME NEW t \in Tasks, TaskStep(t) PROVE tables' \in {tables, 0} /\ writes' = writes
    BY <2>3 DEF TaskStep, Acquire, Snapshot, CheckLease, SaveRun, BeginApply, ApplyRestore,
                Release, TaskCrash
  <2> QED
    BY <1>1, <1>2, <2>1, <2>2, <2>3 DEF BackupNext
<1>4. leaseRow' \in LeaseRows
  <2>1. CASE BackupMinute
    <3>1. leaseRow.lease \in 0..LeaseTicks /\ leaseRow.restore \in 0..LeaseTicks
      BY <1>1 DEF LeaseRows
    <3>2. /\ (IF leaseRow.lease = 0 THEN 0 ELSE leaseRow.lease - 1) \in 0..LeaseTicks
          /\ (IF leaseRow.restore = 0 THEN 0 ELSE leaseRow.restore - 1) \in 0..LeaseTicks
      BY <3>1, BackupAssumption
    <3> DEFINE one == [leaseRow EXCEPT !.lease = IF @ = 0 THEN 0 ELSE @ - 1]
    <3>3. one \in LeaseRows /\ one.restore = leaseRow.restore
      BY <1>1, <3>2 DEF LeaseRows
    <3>4. leaseRow' = [one EXCEPT !.restore = IF @ = 0 THEN 0 ELSE @ - 1]
      BY <2>1, Zenon DEF BackupMinute
    <3> HIDE DEF one
    <3> QED
      BY <3>2, <3>3, <3>4 DEF LeaseRows
  <2>2. ASSUME NEW t \in Tasks, Acquire(t) PROVE leaseRow' \in LeaseRows
    BY <1>2, <2>2 DEF Acquire, LeaseRows
  <2>3. ASSUME NEW t \in Tasks, Release(t) PROVE leaseRow' \in LeaseRows
    <3> DEFINE left == IF t \in Restores THEN 1 ELSE 0
               one == [leaseRow EXCEPT !.lease = 0]
    <3>1. one \in LeaseRows /\ left \in 0..LeaseTicks
      BY <1>1, <1>2 DEF LeaseRows
    <3>2. leaseRow' = leaseRow \/ leaseRow' = [one EXCEPT !.restore = left]
      BY <2>3, Zenon DEF Release
    <3> HIDE DEF one, left
    <3> QED
      BY <1>1, <3>1, <3>2 DEF LeaseRows
  <2> QED
    BY <1>1, <2>1, <2>2, <2>3
    DEF BackupNext, TaskStep, WriteTables, Snapshot, CheckLease, SaveRun, BeginApply,
        ApplyRestore, TaskCrash
<1>5. runs' \in [Tasks -> RunRows]
  <2>1. ASSUME NEW t \in Tasks, TaskStep(t)
        PROVE  runs' = runs \/ \E row \in RunRows : runs' = [runs EXCEPT ![t] = row]
    <3>1. runs[t] \in RunRows
      BY <1>1
    <3>2. CASE Acquire(t)
      BY <3>1, <3>2 DEF Acquire, RunRows
    <3>3. CASE Snapshot(t)
      BY <1>2, <3>1, <3>3 DEF Snapshot, RunRows
    <3>4. CASE CheckLease(t)
      BY <1>2, <3>4 DEF CheckLease, RunFailed, RunRows
    <3>5. CASE SaveRun(t)
      BY <1>2, <3>1, <3>5 DEF SaveRun, RunFailed, RunRows
    <3> QED
      BY <2>1, <3>2, <3>3, <3>4, <3>5
      DEF TaskStep, BeginApply, ApplyRestore, Release, TaskCrash
  <2> QED
    BY <1>1, <2>1 DEF BackupNext, WriteTables, BackupMinute
<1>6. taskPc' \in [Tasks -> Pcs]
  <2>1. ASSUME NEW t \in Tasks, TaskStep(t) PROVE \E pc \in Pcs : ToStep(t, pc)
    BY <2>1 DEF TaskStep, Acquire, Snapshot, CheckLease, RunFailed, SaveRun, BeginApply,
                ApplyRestore, Release, TaskCrash, Pcs
  <2>2. ASSUME NEW t \in Tasks, TaskStep(t) PROVE taskPc' \in [Tasks -> Pcs]
    <3>1. PICK pc \in Pcs : taskPc' = [taskPc EXCEPT ![t] = pc]
      BY <2>1, <2>2 DEF ToStep
    <3> QED
      BY <1>1, <3>1
  <2> QED
    BY <1>1, <2>2 DEF BackupNext, WriteTables, BackupMinute
<1> QED
  BY <1>3, <1>4, <1>5, <1>6 DEF BackupTypeOK, LeaseRows, RunRows, Pcs
----------------------------------------------------------------------------
(* A step of one task leaves the program counters of the others. *)
LEMMA OthersWait ==
  ASSUME BackupTypeOK, NEW t \in Tasks, NEW u \in Tasks, TaskStep(u), t # u
  PROVE  taskPc'[t] = taskPc[t] /\ runs'[t] = runs[t]
<1>1. runs \in [Tasks -> RunRows] /\ taskPc \in [Tasks -> Pcs]
  BY BackupTypes
<1>2. \E pc : taskPc' = [taskPc EXCEPT ![u] = pc]
  BY DEF TaskStep, Acquire, Snapshot, CheckLease, RunFailed, SaveRun, BeginApply, ApplyRestore,
         Release, TaskCrash, ToStep
<1>3. taskPc'[t] = taskPc[t]
  BY <1>1, <1>2
<1>4. runs' = runs \/ \E row : runs' = [runs EXCEPT ![u] = row]
  <2>1. Acquire(u) \/ Snapshot(u) \/ CheckLease(u) \/ SaveRun(u) =>
          runs' = runs \/ \E row : runs' = [runs EXCEPT ![u] = row]
    BY DEF Acquire, Snapshot, CheckLease, SaveRun, RunFailed
  <2>2. BeginApply(u) \/ ApplyRestore(u) \/ Release(u) \/ TaskCrash(u) => runs' = runs
    BY DEF BeginApply, ApplyRestore, Release, TaskCrash
  <2> QED
    BY <2>1, <2>2 DEF TaskStep
<1>5. runs'[t] = runs[t]
  BY <1>1, <1>4
<1> QED
  BY <1>3, <1>5

LEMMA OwnStep ==
  ASSUME BackupIInv, NEW t \in Tasks, TaskStep(t)
  PROVE  FileIsCurrent(t)' /\ StoredFirst(t)'
<1>1. /\ runs \in [Tasks -> RunRows] /\ taskPc \in [Tasks -> Pcs]
      /\ FileIsCurrent(t) /\ StoredFirst(t)
  BY BackupTypes DEF BackupIInv
<1>2. CASE Acquire(t) \/ Release(t) \/ TaskCrash(t)
  BY <1>1, <1>2 DEF Acquire, Release, TaskCrash, ToStep, FileIsCurrent, StoredFirst, Pcs
<1>3. CASE Snapshot(t)
  BY <1>1, <1>3 DEF Snapshot, ToStep, FileIsCurrent, StoredFirst, RunRows
<1>4. CASE CheckLease(t)
  BY <1>1, <1>4 DEF CheckLease, RunFailed, ToStep, FileIsCurrent, StoredFirst, OwnsLease, Blocked
<1>5. CASE SaveRun(t)
  BY <1>1, <1>5 DEF SaveRun, RunFailed, ToStep, FileIsCurrent, StoredFirst, OwnsLease, Blocked, RunRows
<1>6. CASE BeginApply(t)
  BY <1>1, <1>6 DEF BeginApply, ToStep, FileIsCurrent, StoredFirst, OwnsLease, Blocked
<1>7. CASE ApplyRestore(t)
  BY <1>1, <1>7 DEF ApplyRestore, ToStep, FileIsCurrent, StoredFirst
<1> QED
  BY <1>2, <1>3, <1>4, <1>5, <1>6, <1>7 DEF TaskStep

LEMMA OthersStep ==
  ASSUME BackupIInv, NEW t \in Tasks, NEW u \in Tasks, TaskStep(u), t # u
  PROVE  FileIsCurrent(t)' /\ StoredFirst(t)'
<1>1. FileIsCurrent(t) /\ StoredFirst(t) /\ taskPc'[t] = taskPc[t] /\ runs'[t] = runs[t]
  BY OthersWait DEF BackupIInv
<1>2. StoredFirst(t)'
  BY <1>1 DEF StoredFirst
<1>3. CASE Acquire(u) \/ Release(u)
  <2>1. leaseRow' = leaseRow \/ leaseRow'.owner = u
    <3>1. Acquire(u) => leaseRow'.owner = u
      BY DEF Acquire
    <3>2. leaseRow \in LeaseRows
      BY BackupTypes DEF BackupIInv
    <3> DEFINE left == IF u \in Restores THEN 1 ELSE 0
               one == [leaseRow EXCEPT !.lease = 0]
    <3>3. Release(u) => leaseRow' = leaseRow \/ leaseRow' = [one EXCEPT !.restore = left]
      BY Zenon DEF Release
    <3>4. one.owner = leaseRow.owner /\ DOMAIN one = {"owner", "lease", "restore"}
      BY <3>2 DEF LeaseRows
    <3>5. Release(u) => leaseRow' = leaseRow \/ OwnsLease(u)
      BY DEF Release
    <3>6. [one EXCEPT !.restore = left].owner = leaseRow.owner
      BY <3>2 DEF LeaseRows
    <3> HIDE DEF left, one
    <3> QED
      BY <1>3, <3>1, <3>3, <3>5, <3>6 DEF OwnsLease
  <2>2. tables' = tables
    BY <1>3 DEF Acquire, Release
  <2> QED
    BY <1>1, <1>2, <2>1, <2>2 DEF FileIsCurrent, OwnsLease, Blocked
<1>4. CASE ApplyRestore(u)
  <2>1. leaseRow' = leaseRow /\ (tables' = tables \/ OwnsLease(u))
    BY <1>4 DEF ApplyRestore
  <2> QED
    BY <1>1, <1>2, <2>1 DEF FileIsCurrent, OwnsLease, Blocked
<1>5. CASE UNCHANGED <<tables, leaseRow>>
  BY <1>1, <1>2, <1>5 DEF FileIsCurrent, OwnsLease, Blocked
<1> QED
  BY <1>3, <1>4, <1>5 DEF TaskStep, Snapshot, CheckLease, SaveRun, BeginApply, TaskCrash

LEMMA BackupNextInvariant == BackupIInv /\ [BackupNext]_backupVars => BackupIInv'
<1> SUFFICES ASSUME BackupIInv, [BackupNext]_backupVars PROVE BackupIInv'
  OBVIOUS
<1>1. ASSUME NEW u \in Tasks, TaskStep(u) PROVE BackupIInv'
  BY <1>1, OwnStep, OthersStep, BackupNextType DEF BackupIInv, BackupNext
<1>2. CASE WriteTables
  <2>1. ASSUME NEW t \in Tasks PROVE FileIsCurrent(t)' /\ StoredFirst(t)'
    BY <1>2 DEF WriteTables, Blocked, FileIsCurrent, StoredFirst, OwnsLease, BackupIInv
  <2> QED
    BY <1>2, <2>1, BackupNextType DEF BackupIInv, BackupNext
<1>3. CASE BackupMinute
  <2>1. leaseRow'.owner = leaseRow.owner /\ (Blocked' => Blocked)
    BY <1>3, BackupAssumption, BackupTypes DEF BackupMinute, Blocked, BackupIInv, LeaseRows
  <2>2. ASSUME NEW t \in Tasks PROVE FileIsCurrent(t)' /\ StoredFirst(t)'
    BY <1>3, <2>1 DEF BackupMinute, FileIsCurrent, StoredFirst, OwnsLease, BackupIInv
  <2> QED
    BY <1>3, <2>2, BackupNextType DEF BackupIInv, BackupNext
<1>4. CASE UNCHANGED backupVars
  BY <1>4 DEF backupVars, BackupIInv, BackupTypeOK, FileIsCurrent, StoredFirst, OwnsLease, Blocked
<1> QED
  BY <1>1, <1>2, <1>3, <1>4 DEF BackupNext

LEMMA BackupInvariant == BackupSpec => []BackupIInv
  BY BackupInitInvariant, BackupNextInvariant, PTL DEF BackupSpec

(* What applyRestore replaces is, to the last write, in the file its task   *)
(* stored and recorded before, and the task still owns the row: whatever    *)
(* tasks run and fail, however long they take.                              *)
THEOREM RestoresAreProtected == BackupSpec => RestoreIsProtected
<1>1. BackupIInv /\ [BackupNext]_backupVars =>
        [\A t \in Tasks :
           taskPc[t] = "locking" /\ taskPc'[t] = "release" /\ tables' # tables =>
             /\ leaseRow.owner = t /\ runs[t].status = "success"
             /\ leaseRow.restore > 0 => runs[t].file = tables]_backupVars
  <2> SUFFICES ASSUME BackupIInv, BackupNext, NEW t \in Tasks,
                      taskPc[t] = "locking", taskPc'[t] = "release", tables' # tables
               PROVE  /\ leaseRow.owner = t /\ runs[t].status = "success"
                      /\ leaseRow.restore > 0 => runs[t].file = tables
    OBVIOUS
  <2>1. PICK u \in Tasks : TaskStep(u)
    BY DEF BackupNext, WriteTables, BackupMinute
  <2>2. t = u
    BY <2>1, OthersWait DEF BackupIInv
  <2>3. ApplyRestore(t)
    BY <2>1, <2>2 DEF TaskStep, Acquire, Snapshot, CheckLease, SaveRun, BeginApply, Release, TaskCrash
  <2>4. OwnsLease(t)
    BY <2>3 DEF ApplyRestore
  <2> QED
    BY <2>4 DEF BackupIInv, FileIsCurrent, StoredFirst, OwnsLease, Blocked
<1> QED
  BY <1>1, BackupInvariant, PTL DEF BackupSpec, RestoreIsProtected
----------------------------------------------------------------------------
(***************************************************************************)
(* Bindings.  A class has one device, unless two requests that found out   *)
(* about its holders at the same time both went on to take it: for any     *)
(* number of requests, devices, classes, plugins and polls, and whatever   *)
(* request dies after whichever of its statements.  The argument: what a   *)
(* request found out about the holders of its class stays true until it    *)
(* uses it, because only a request that claims the class brings a device   *)
(* into it, and a class that two requests claim is contested.              *)
(***************************************************************************)

(* The devices that hold a class, revoked or not. *)
Holders(room, d) == {e \in Viewers \ {d} : viewer[e].room = room}

RevokedHoldNothing == \A d \in Viewers : viewer[d].revoked => viewer[d].room = NoRoom

Claiming == {"clear", "revoke", "own", "setup"}

(* What a binding request relies on between its statements. *)
KnowsHolders(request) ==
  /\ request.pc \in Claiming => request.dev \in Viewers
  /\ request.pc \in Claiming \ {"setup"} => request.room \in Rooms
  /\ request.pc = "own" /\ request.room \notin contested =>
       Holders(request.room, request.dev) = {}
  /\ request.pc = "setup" /\ request.room \in Rooms \ contested =>
       Holders(request.room, request.dev) \subseteq {request.old}

ClaimsContest ==
  \A b, c \in Binders, room \in Rooms :
    b # c /\ Claims(b, room) /\ Claims(c, room) => room \in contested

RoomTypes ==
  viewer \in [Viewers -> ViewerRows] /\ binder \in [Binders -> Requests] /\ contested \subseteq Rooms

RoomIInv ==
  /\ RoomTypes
  /\ RoomHeldOnce
  /\ RevokedHoldNothing
  /\ \A b \in Binders : KnowsHolders(binder[b])
  /\ ClaimsContest

(* Who is counted as an occupant is who holds the class. *)
LEMMA OccupantsHold ==
  ASSUME RevokedHoldNothing, NEW room \in Rooms, NEW d
  PROVE  Occupants(room, d) = Holders(room, d)
  BY PairingAssumption, Zenon DEF RevokedHoldNothing, Occupants, Holders

LEMMA NoBinderTypes == NoBinder \in Requests /\ NoBinder.pc = "idle" /\ KnowsHolders(NoBinder)
  BY DEF NoBinder, Requests, AnyViewer, AnyRoom, KnowsHolders, Claiming

LEMMA RowTypes ==
  /\ \A room \in AnyRoom : BoundTo(room) \in ViewerRows /\ BoundTo(room).room = room
                           /\ BoundTo(room).revoked = FALSE
  /\ \A row \in ViewerRows : Dismissed(row) \in ViewerRows /\ Dismissed(row).room = NoRoom
  /\ Revoked \in ViewerRows /\ Revoked.room = NoRoom
  /\ Managing \in ViewerRows /\ Managing.room = NoRoom
  BY DEF BoundTo, Dismissed, Revoked, Managing, ViewerRows, AnyRoom

LEMMA RoomInit == PairInit => RoomIInv
<1> SUFFICES ASSUME PairInit PROVE RoomIInv
  OBVIOUS
<1>1. \A d \in Viewers : viewer[d].room = NoRoom
  BY DEF PairInit
<1>2. viewer \in [Viewers -> ViewerRows]
  BY DEF PairInit, ViewerRows, AnyRoom
<1>3. \A b \in Binders : binder[b] = NoBinder
  BY DEF PairInit
<1>4. binder \in [Binders -> Requests] /\ contested \subseteq Rooms
  BY NoBinderTypes DEF PairInit
<1>5. RoomHeldOnce /\ RevokedHoldNothing
  BY <1>1, PairingAssumption DEF RoomHeldOnce, RevokedHoldNothing
<1>6. ClaimsContest
  BY <1>3, NoBinderTypes DEF ClaimsContest, Claims
<1> QED
  BY <1>2, <1>3, <1>4, <1>5, <1>6, NoBinderTypes DEF RoomIInv, RoomTypes
----------------------------------------------------------------------------
(* A request that comes in, or is forgotten, knows the holders at that      *)
(* moment, and contests the class it claims when another claims it.         *)
LEMMA RequestComes ==
  ASSUME RoomIInv, NEW b \in Binders, NEW request \in Requests, KnowsHolders(request),
         binder' = [binder EXCEPT ![b] = request], viewer' = viewer,
         contested \subseteq contested', contested' \subseteq Rooms,
         request.pc \in Claiming =>
           \A c \in Binders \ {b} :
             Claims(c, request.room) /\ request.room \in Rooms => request.room \in contested'
  PROVE  RoomIInv'
<1>1. RoomTypes' /\ binder'[b] = request /\ \A c \in Binders \ {b} : binder'[c] = binder[c]
  BY DEF RoomIInv, RoomTypes
<1>2. RoomHeldOnce' /\ RevokedHoldNothing'
  BY Zenon DEF RoomIInv, RoomHeldOnce, RevokedHoldNothing
<1>3. ASSUME NEW c \in Binders PROVE KnowsHolders(binder[c])'
  <2>1. binder'[c] = request \/ binder'[c] = binder[c]
    BY <1>1
  <2> QED
    BY <2>1 DEF RoomIInv, KnowsHolders, Holders
<1>4. ClaimsContest'
  <2> SUFFICES ASSUME NEW c \in Binders, NEW e \in Binders, NEW room \in Rooms, c # e,
                      Claims(c, room)', Claims(e, room)'
               PROVE  room \in contested'
    BY DEF ClaimsContest
  <2>1. CASE c # b /\ e # b
    BY <1>1, <2>1 DEF RoomIInv, ClaimsContest, Claims
  <2>2. ASSUME NEW other \in Binders \ {b}, Claims(other, room)', Claims(b, room)'
        PROVE  room \in contested'
    BY <1>1, <2>2 DEF Claims, Claiming
  <2> QED
    BY <2>1, <2>2
<1> QED
  BY <1>1, <1>2, <1>3, <1>4 DEF RoomIInv

LEMMA BinderComes ==
  ASSUME RoomIInv, NEW b \in Binders, NEW request \in Requests, KnowsHolders(request),
         NewBinder(b, request)
  PROVE  RoomIInv'
<1>1. contested \subseteq contested' /\ contested' \subseteq Rooms
  BY DEF NewBinder, RoomIInv, RoomTypes
<1>2. \A c \in Binders \ {b} :
        Claims(c, request.room) /\ request.room \in Rooms => request.room \in contested'
  BY DEF NewBinder
<1>3. binder' = [binder EXCEPT ![b] = request] /\ viewer' = viewer
  BY DEF NewBinder
<1> QED
  BY <1>1, <1>2, <1>3, RequestComes
----------------------------------------------------------------------------
LEMMA NewRequests ==
  ASSUME RoomIInv, NEW b \in Binders, NEW d \in Viewers,
         \/ MakeManagement(b, d) \/ RevokeDevice(b, d) \/ SetUpManagement(b, d)
         \/ \E room \in Rooms : BindDevice(b, d, room) \/ SetUpDevice(b, d, room)
  PROVE  RoomIInv'
<1>1. CASE MakeManagement(b, d) \/ RevokeDevice(b, d)
  <2>1. PICK request \in {Request("unpair", d, NoRoom, NoViewer),
                          Request("dismiss", d, NoRoom, NoViewer)} :
          NewBinder(b, request)
    BY <1>1 DEF MakeManagement, RevokeDevice
  <2>2. request \in Requests /\ KnowsHolders(request)
    BY <2>1 DEF Request, Requests, KnowsHolders, AnyViewer, AnyRoom, Claiming
  <2> QED
    BY <2>1, <2>2, BinderComes
<1>2. CASE SetUpManagement(b, d)
  <2>1. PICK old \in AnyViewer : NewBinder(b, Request("setup", d, NoRoom, old))
    BY <1>2, Zenon DEF SetUpManagement, Occupants, AnyViewer
  <2>2. Request("setup", d, NoRoom, old) \in Requests
    BY DEF Request, Requests, AnyViewer, AnyRoom
  <2>3. KnowsHolders(Request("setup", d, NoRoom, old))
    BY PairingAssumption DEF Request, KnowsHolders, Claiming
  <2> QED
    BY <2>1, <2>2, <2>3, BinderComes
<1>3. ASSUME NEW room \in Rooms, BindDevice(b, d, room) PROVE RoomIInv'
  <2>1. PICK pc \in {"own", "clear"} :
          /\ NewBinder(b, Request(pc, d, room, NoViewer))
          /\ pc = "own" => Occupants(room, d) = {}
    BY <1>3, Zenon DEF BindDevice
  <2>2. Request(pc, d, room, NoViewer) \in Requests
    BY <2>1 DEF Request, Requests, AnyViewer, AnyRoom
  <2>3. Occupants(room, d) = Holders(room, d)
    BY OccupantsHold DEF RoomIInv
  <2>4. KnowsHolders(Request(pc, d, room, NoViewer))
    BY <2>1, <2>3 DEF Request, KnowsHolders, Claiming
  <2> QED
    BY <2>1, <2>2, <2>4, BinderComes
<1>4. ASSUME NEW room \in Rooms, SetUpDevice(b, d, room) PROVE RoomIInv'
  <2>1. PICK old \in IF Occupants(room, d) = {} THEN {NoViewer} ELSE Occupants(room, d) :
          NewBinder(b, Request("setup", d, room, old))
    BY <1>4 DEF SetUpDevice
  <2>2. Occupants(room, d) = Holders(room, d)
    BY OccupantsHold DEF RoomIInv
  <2>3. Request("setup", d, room, old) \in Requests
    BY <2>1, <2>2 DEF Request, Requests, AnyViewer, AnyRoom, Holders
  <2>4. ASSUME room \notin contested PROVE Holders(room, d) \subseteq {old}
    <3>1. \A e, f \in Holders(room, d) : e = f
      BY <2>4, Zenon DEF RoomIInv, RoomHeldOnce, Holders
    <3>2. Holders(room, d) # {} => old \in Holders(room, d)
      BY <2>1, <2>2
    <3> QED
      BY <3>1, <3>2
  <2>5. KnowsHolders(Request("setup", d, room, old))
    BY <2>4 DEF Request, KnowsHolders, Claiming
  <2> QED
    BY <2>1, <2>3, <2>5, BinderComes
<1> QED
  BY <1>1, <1>2, <1>3, <1>4
----------------------------------------------------------------------------
(* A statement of a request keeps what the others know: a device comes into *)
(* a class only by a request that claims it, and then no other claims it.   *)
LEMMA OthersKnow ==
  ASSUME RoomIInv, NEW b \in Binders, contested' = contested,
         viewer' \in [Viewers -> ViewerRows], binder' \in [Binders -> Requests],
         \A c \in Binders \ {b} : binder'[c] = binder[c],
         \A room \in Rooms : Claims(b, room)' => Claims(b, room),
         \A d \in Viewers : \/ viewer'[d] = viewer[d] \/ viewer'[d].room = NoRoom
                            \/ Claims(b, viewer'[d].room),
         RoomHeldOnce', RevokedHoldNothing', KnowsHolders(binder[b])'
  PROVE  RoomIInv'
<1>1. ASSUME NEW c \in Binders PROVE KnowsHolders(binder[c])'
  <2>1. CASE c = b
    BY <2>1
  <2>2. CASE c # b
    <3>1. binder'[c] = binder[c] /\ KnowsHolders(binder[c])
      BY <2>2 DEF RoomIInv
    <3>2. ASSUME NEW room \in Rooms \ contested, Claims(c, room)
          PROVE  \A d : Holders(room, d)' \subseteq Holders(room, d)
      <4>1. ~Claims(b, room)
        BY <2>2, <3>2 DEF RoomIInv, ClaimsContest
      <4>2. \A d \in Viewers : viewer'[d].room = room => viewer[d].room = room
        BY <4>1, PairingAssumption
      <4> QED
        BY <4>2 DEF Holders
    <3>3. ASSUME binder[c].pc \in {"own", "setup"}, binder[c].room \in Rooms \ contested
          PROVE  Holders(binder[c].room, binder[c].dev)' \subseteq
                   Holders(binder[c].room, binder[c].dev)
      BY <3>1, <3>2, <3>3 DEF Claims
    <3> QED
      BY <3>1, <3>3 DEF KnowsHolders, Claiming
  <2> QED
    BY <2>1, <2>2
<1>2. ClaimsContest'
  <2>1. \A c \in Binders, room \in Rooms : Claims(c, room)' => Claims(c, room)
    BY DEF Claims
  <2> QED
    BY <2>1 DEF RoomIInv, ClaimsContest
<1>3. RoomTypes'
  BY DEF RoomIInv, RoomTypes
<1> QED
  BY <1>1, <1>2, <1>3 DEF RoomIInv

(* Giving a class away to nobody keeps the devices in order. *)
LEMMA SomeLeave ==
  ASSUME RoomIInv, viewer' \in [Viewers -> ViewerRows], contested' = contested,
         \A d \in Viewers : viewer'[d] = viewer[d] \/ viewer'[d].room = NoRoom
  PROVE  RoomHeldOnce' /\ RevokedHoldNothing'
<1>1. RoomHeldOnce'
  BY PairingAssumption DEF RoomIInv, RoomHeldOnce
<1>2. RevokedHoldNothing'
  BY Zenon DEF RoomIInv, RevokedHoldNothing
<1> QED
  BY <1>1, <1>2

(* A device may take a class nobody else holds, or a contested one. *)
LEMMA OneArrives ==
  ASSUME RoomIInv, viewer' \in [Viewers -> ViewerRows], contested' = contested,
         NEW d \in Viewers, NEW room \in Rooms, viewer'[d] = BoundTo(room),
         \A e \in Viewers \ {d} : /\ viewer'[e] = viewer[e] \/ viewer'[e].room = NoRoom
                                  /\ viewer'[e].room # room \/ room \in contested
  PROVE  RoomHeldOnce' /\ RevokedHoldNothing'
<1>1. viewer'[d].room = room /\ ~viewer'[d].revoked
  BY RowTypes, Zenon DEF AnyRoom
<1>2. RoomHeldOnce'
  BY <1>1, PairingAssumption DEF RoomIInv, RoomHeldOnce
<1>3. RevokedHoldNothing'
  BY <1>1, Zenon DEF RoomIInv, RevokedHoldNothing
<1> QED
  BY <1>2, <1>3
----------------------------------------------------------------------------
(* The statements of a request, whatever others do in between. *)
LEMMA RequestStep ==
  ASSUME RoomIInv, NEW b \in Binders, BinderStep(b)
  PROVE  RoomIInv'
<1> DEFINE request == binder[b]
           d == request.dev
           room == request.room
<1>1. /\ viewer \in [Viewers -> ViewerRows] /\ binder \in [Binders -> Requests]
      /\ KnowsHolders(request) /\ RevokedHoldNothing /\ contested' = contested
  BY DEF RoomIInv, RoomTypes, BinderStep
<1>2. ASSUME room \in Rooms PROVE Occupants(room, d) = Holders(room, d)
  BY <1>1, <1>2, OccupantsHold
<1>3. ASSUME NEW pc \in {"revoke", "own", "copy", "manage", "drop"}, BinderTo(b, pc)
      PROVE  /\ binder' \in [Binders -> Requests] /\ binder'[b].pc = pc
             /\ binder'[b].dev = d /\ binder'[b].room = room
             /\ \A c \in Binders \ {b} : binder'[c] = binder[c]
  BY <1>1, <1>3 DEF BinderTo, Requests
<1>4. ASSUME BinderDone(b)
      PROVE  /\ binder' \in [Binders -> Requests] /\ binder'[b] = NoBinder
             /\ \A c \in Binders \ {b} : binder'[c] = binder[c]
  BY <1>1, <1>4, NoBinderTypes DEF BinderDone
<1>5. ASSUME \/ \E pc \in {"copy", "manage", "drop"} : BinderTo(b, pc)
             \/ BinderDone(b)
      PROVE  KnowsHolders(binder[b])' /\ \A r \in Rooms : ~Claims(b, r)'
  <2>1. binder'[b].pc \in {"copy", "manage", "drop", "idle"}
    BY <1>3, <1>4, <1>5, NoBinderTypes
  <2> QED
    BY <2>1 DEF KnowsHolders, Claims, Claiming
<1>6. ASSUME viewer' = viewer
      PROVE  RoomHeldOnce' /\ RevokedHoldNothing' /\ viewer' \in [Viewers -> ViewerRows]
  BY <1>1, <1>6, Zenon DEF RoomIInv, RoomHeldOnce, RevokedHoldNothing
<1>7. request.pc \in Claiming => Claims(b, room)
  BY DEF Claims, Claiming
<1> HIDE DEF request, d, room
<1>8. CASE ClearPlugins(b)
  <2>1. request.pc = "clear" /\ BinderTo(b, "revoke") /\ viewer' = viewer
    BY <1>8 DEF ClearPlugins, BinderAt, request
  <2>2. KnowsHolders(binder[b])'
    BY <1>1, <1>3, <2>1 DEF KnowsHolders, Claiming, request, d, room
  <2>3. \A r \in Rooms : Claims(b, r)' => Claims(b, r)
    BY <1>3, <2>1 DEF Claims, request, room
  <2> QED
    BY <1>1, <1>3, <1>6, <2>1, <2>2, <2>3, OthersKnow
<1>9. CASE RevokeHolders(b)
  <2>1. /\ request.pc = "revoke" /\ BinderTo(b, "own")
        /\ viewer' = [e \in Viewers |-> IF e \in Occupants(room, d)
                                        THEN Dismissed(viewer[e]) ELSE viewer[e]]
    BY <1>9 DEF RevokeHolders, BinderAt, request, d, room
  <2>2. d \in Viewers /\ room \in Rooms
    BY <1>1, <2>1 DEF KnowsHolders, Claiming, d, room, request
  <2>3. viewer' \in [Viewers -> ViewerRows]
    BY <1>1, <2>1, RowTypes
  <2>4. \A e \in Viewers : viewer'[e] = viewer[e] \/ viewer'[e].room = NoRoom
    BY <1>1, <2>1, RowTypes
  <2>5. \A e \in Holders(room, d) : viewer'[e].room = NoRoom
    BY <1>1, <1>2, <2>1, <2>2, RowTypes DEF Holders
  <2>6. \A e \in Viewers \ {d} : viewer'[e].room # room
    BY <2>2, <2>4, <2>5, PairingAssumption DEF Holders
  <2>7. KnowsHolders(binder[b])'
    BY <1>3, <2>1, <2>2, <2>6 DEF KnowsHolders, Claiming, Holders
  <2>8. \A r \in Rooms : Claims(b, r)' => Claims(b, r)
    BY <1>3, <2>1 DEF Claims, request, room
  <2>9. RoomHeldOnce' /\ RevokedHoldNothing'
    BY <1>1, <2>3, <2>4, SomeLeave
  <2> QED
    BY <1>1, <1>3, <2>1, <2>3, <2>4, <2>7, <2>8, <2>9, OthersKnow
<1>10. CASE TakeRoom(b)
  <2>1. /\ request.pc = "own" /\ BinderTo(b, "copy")
        /\ viewer' = [viewer EXCEPT ![d] = BoundTo(room)]
    BY <1>10 DEF TakeRoom, BinderAt, request, d, room
  <2>2. d \in Viewers /\ room \in Rooms /\ (room \notin contested => Holders(room, d) = {})
        /\ Claims(b, room)
    BY <1>1, <1>7, <2>1 DEF KnowsHolders, Claiming, d, room, request
  <2>3. viewer' \in [Viewers -> ViewerRows]
    BY <1>1, <2>1, <2>2, RowTypes DEF AnyRoom
  <2>4. /\ viewer'[d] = BoundTo(room) /\ viewer'[d].room = room
        /\ \A e \in Viewers \ {d} :
             viewer'[e] = viewer[e] /\ (viewer'[e].room # room \/ room \in contested)
    BY <1>1, <2>1, <2>2, RowTypes DEF Holders, AnyRoom
  <2>5. RoomHeldOnce' /\ RevokedHoldNothing'
    BY <1>1, <2>2, <2>3, <2>4, OneArrives
  <2>6. \A e \in Viewers : viewer'[e] = viewer[e] \/ Claims(b, viewer'[e].room)
    BY <2>2, <2>4
  <2> QED
    BY <1>1, <1>3, <1>5, <2>1, <2>3, <2>5, <2>6, OthersKnow
<1>11. CASE CommitSetup(b)
  <2>1. /\ request.pc = "setup" /\ BinderDone(b)
        /\ viewer' = [e \in Viewers |->
             IF e = d THEN IF room = NoRoom THEN Managing ELSE BoundTo(room)
             ELSE IF e = request.old THEN Dismissed(viewer[e]) ELSE viewer[e]]
    BY <1>11, Zenon DEF CommitSetup, BinderAt, request, d, room
  <2>2. /\ d \in Viewers /\ room \in AnyRoom /\ Claims(b, room)
        /\ room \in Rooms \ contested => Holders(room, d) \subseteq {request.old}
    BY <1>1, <1>7, <2>1 DEF KnowsHolders, Claiming, d, room, request, Requests
  <2>3. viewer' \in [Viewers -> ViewerRows]
    BY <1>1, <2>1, <2>2, RowTypes
  <2>4. \A e \in Viewers \ {d} : viewer'[e] = viewer[e] \/ viewer'[e].room = NoRoom
    BY <1>1, <2>1, RowTypes
  <2>5. viewer'[d].room = room
    BY <2>1, <2>2, RowTypes
  <2>6. RoomHeldOnce' /\ RevokedHoldNothing'
    <3>1. CASE room = NoRoom
      BY <1>1, <2>3, <2>4, <2>5, <3>1, SomeLeave
    <3>2. CASE room \in Rooms
      <4>1. viewer'[d] = BoundTo(room)
        BY <2>1, <2>2, <3>2, PairingAssumption
      <4>2. \A e \in Viewers \ {d} : viewer'[e].room # room \/ room \in contested
        BY <1>1, <2>1, <2>2, <3>2, RowTypes, PairingAssumption DEF Holders
      <4> QED
        BY <1>1, <2>2, <2>3, <2>4, <3>2, <4>1, <4>2, OneArrives
    <3> QED
      BY <2>2, <3>1, <3>2 DEF AnyRoom
  <2>7. \A e \in Viewers : \/ viewer'[e] = viewer[e] \/ viewer'[e].room = NoRoom
                           \/ Claims(b, viewer'[e].room)
    BY <2>2, <2>4, <2>5
  <2> QED
    BY <1>1, <1>4, <1>5, <2>1, <2>3, <2>6, <2>7, OthersKnow
<1>12. CASE BecomeManagement(b) \/ DismissDevice(b)
  <2>1. PICK row \in {Managing, Revoked} : viewer' = [viewer EXCEPT ![d] = row]
    BY <1>12 DEF BecomeManagement, DismissDevice, d, request
  <2>2. viewer' \in [Viewers -> ViewerRows]
    BY <1>1, <2>1, RowTypes
  <2>3. \A e \in Viewers : viewer'[e] = viewer[e] \/ viewer'[e].room = NoRoom
    BY <1>1, <2>1, RowTypes
  <2>4. BinderDone(b) \/ BinderTo(b, "drop")
    BY <1>12 DEF BecomeManagement, DismissDevice
  <2>5. RoomHeldOnce' /\ RevokedHoldNothing'
    BY <1>1, <2>2, <2>3, SomeLeave
  <2> QED
    BY <1>1, <1>3, <1>4, <1>5, <2>2, <2>3, <2>4, <2>5, OthersKnow
<1>13. CASE CopyRoom(b) \/ DropPlugins(b) \/ UnpairOwn(b)
  <2>1. viewer' = viewer /\ (BinderDone(b) \/ BinderTo(b, "manage"))
    BY <1>13 DEF CopyRoom, DropPlugins, UnpairOwn
  <2> QED
    BY <1>1, <1>3, <1>4, <1>5, <1>6, <2>1, OthersKnow
<1> QED
  BY <1>8, <1>9, <1>10, <1>11, <1>12, <1>13 DEF BinderStep
----------------------------------------------------------------------------
LEMMA RoomNext == RoomIInv /\ [PairNext]_pairVars => RoomIInv'
<1> SUFFICES ASSUME RoomIInv, [PairNext]_pairVars PROVE RoomIInv'
  OBVIOUS
<1>1. ASSUME NEW b \in Binders, NEW d \in Viewers,
             \/ MakeManagement(b, d) \/ RevokeDevice(b, d) \/ SetUpManagement(b, d)
             \/ \E room \in Rooms : BindDevice(b, d, room) \/ SetUpDevice(b, d, room)
      PROVE  RoomIInv'
  BY <1>1, NewRequests
<1>2. ASSUME NEW b \in Binders, RevokePlugins(b) PROVE RoomIInv'
  <2>1. Request("drop", NoViewer, NoRoom, NoViewer) \in Requests
        /\ KnowsHolders(Request("drop", NoViewer, NoRoom, NoViewer))
    BY DEF Request, Requests, KnowsHolders, AnyViewer, AnyRoom, Claiming
  <2> QED
    BY <1>2, <2>1, BinderComes DEF RevokePlugins
<1>3. ASSUME NEW b \in Binders, BinderStep(b) PROVE RoomIInv'
  BY <1>3, RequestStep
<1>4. ASSUME NEW b \in Binders, BinderDies(b) PROVE RoomIInv'
  <2>1. binder' = [binder EXCEPT ![b] = NoBinder] /\ viewer' = viewer /\ contested' = contested
    BY <1>4 DEF BinderDies, BinderDone
  <2>2. NoBinder.pc \notin Claiming /\ contested \subseteq Rooms
    BY NoBinderTypes DEF Claiming, RoomIInv, RoomTypes
  <2> QED
    BY <2>1, <2>2, NoBinderTypes, RequestComes
<1>5. CASE UNCHANGED <<viewer, binder, contested>>
  BY <1>5, Zenon
  DEF RoomIInv, RoomTypes, RoomHeldOnce, RevokedHoldNothing, KnowsHolders, Holders, ClaimsContest,
      Claims
<1>6. ASSUME \/ \E p \in Plugins : PairStart(p)
             \/ \E q \in Polls, p \in Plugins :
                  \/ PairStatus(q, p) \/ ViewerHeartbeat(q, p)
                  \/ \E d \in Viewers : PairConfirm(q, p, d)
             \/ \E q \in Polls : PollStep(q)
      PROVE  UNCHANGED <<viewer, binder, contested>>
  BY <1>6, Zenon DEF PairStart, PairStatus, ViewerHeartbeat, PairConfirm, PollStep, PairDevice,
                     LookUpViewer, WritePlugin, PollTo
<1> QED
  BY <1>1, <1>2, <1>3, <1>4, <1>5, <1>6 DEF PairNext, pairVars

(* A class has one device unless two binding requests claimed it at the     *)
(* same time, although a request takes several statements, others run       *)
(* between them and it may die after any: for any number of requests,       *)
(* devices, classes, plugins and polls, however many requests come.         *)
THEOREM OneDevicePerRoom == PairSpec => []RoomHeldOnce
<1>1. RoomIInv => RoomHeldOnce
  BY DEF RoomIInv
<1> QED
  BY RoomInit, RoomNext, <1>1, PTL DEF PairSpec
----------------------------------------------------------------------------
(***************************************************************************)
(* The types of all rows, also when binding requests do overlap: a poll    *)
(* copies the class of the device it named, so it must name one.           *)
(***************************************************************************)

PluginRows == [dev : AnyViewer, room : AnyRoom, paired : BOOLEAN, token : 0..MaxPairings]
PollRows == [pc : {"idle", "pair", "confirm", "look", "unpair", "follow"},
             plug : Plugins \cup {NoPlugin}, dev : AnyViewer, room : AnyRoom]

(* A request that is to look up a device, or to pair with one, and a paired *)
(* plugin name a device there is.                                           *)
NamesViewer(request) == request.pc \in {"pair", "look", "confirm"} => request.dev \in Viewers
PairedToViewer(row) == row.paired = TRUE => row.dev \in Viewers

PairIInv ==
  /\ PairTypeOK
  /\ \A q \in Polls : NamesViewer(poll[q])
  /\ \A p \in Plugins : PairedToViewer(plugin[p])

LEMMA PairTypes ==
  PairTypeOK <=>
    /\ viewer \in [Viewers -> ViewerRows] /\ plugin \in [Plugins -> PluginRows]
    /\ binder \in [Binders -> Requests] /\ poll \in [Polls -> PollRows]
    /\ bindings \in 0..MaxBindings /\ pairings \in 0..MaxPairings
    /\ binderFaults \in 0..MaxBinderFaults /\ contested \subseteq Rooms
  BY DEF PairTypeOK, PluginRows, PollRows

LEMMA BinderRowTypes ==
  /\ NoBinder \in Requests
  /\ \A room \in AnyRoom : BoundTo(room) \in ViewerRows
  /\ \A row \in ViewerRows : Dismissed(row) \in ViewerRows
  /\ Revoked \in ViewerRows /\ Managing \in ViewerRows
  /\ NoRoom \in AnyRoom /\ NoViewer \in AnyViewer
  BY RowTypes, NoBinderTypes DEF AnyRoom, AnyViewer

(* The rows plugins may have.                                               *)
Paired == {row \in PluginRows : PairedToViewer(row)}

LEMMA PluginRowTypes ==
  /\ \A row \in Paired : Apart(row) \in Paired
  /\ \A row \in Paired, room \in AnyRoom : [row EXCEPT !.room = room] \in Paired
<1>1. ASSUME NEW row \in Paired PROVE Apart(row) \in PluginRows /\ Apart(row).paired = FALSE
  BY DEF Paired, Apart, PluginRows, AnyRoom
<1>2. ASSUME NEW row \in Paired, NEW room \in AnyRoom
      PROVE  LET new == [row EXCEPT !.room = room]
             IN  new \in PluginRows /\ new.paired = row.paired /\ new.dev = row.dev
  BY DEF Paired, PluginRows
<1> QED
  BY <1>1, <1>2, Zenon DEF Paired, PairedToViewer

LEMMA PluginsRewritten ==
  ASSUME PairIInv
  PROVE  /\ plugin \in [Plugins -> Paired]
         /\ \A devs : Unpaired(devs) \in [Plugins -> Paired]
         /\ \A d : \A room \in AnyRoom : Copied(d, room) \in [Plugins -> Paired]
<1>1. plugin \in [Plugins -> Paired]
  BY PairTypes DEF PairIInv, Paired
<1>2. ASSUME NEW devs PROVE Unpaired(devs) \in [Plugins -> Paired]
  BY <1>1, PluginRowTypes DEF Unpaired
<1>3. ASSUME NEW d, NEW room \in AnyRoom PROVE Copied(d, room) \in [Plugins -> Paired]
  BY <1>1, PluginRowTypes DEF Copied
<1> QED
  BY <1>1, <1>2, <1>3

LEMMA PairInitInvariant == PairInit => PairIInv
<1> SUFFICES ASSUME PairInit PROVE PairIInv
  OBVIOUS
<1>1. viewer \in [Viewers -> ViewerRows] /\ binder \in [Binders -> Requests]
  BY BinderRowTypes DEF PairInit, ViewerRows
<1>2. 0 \in 0..MaxPairings /\ 0 \in 0..MaxBindings /\ 0 \in 0..MaxBinderFaults
  BY PairingAssumption
<1>3. plugin \in [Plugins -> PluginRows] /\ \A p \in Plugins : PairedToViewer(plugin[p])
  BY <1>2, BinderRowTypes DEF PairInit, PluginRows, PairedToViewer
<1>4. poll \in [Polls -> PollRows] /\ \A q \in Polls : NamesViewer(poll[q])
  BY BinderRowTypes DEF PairInit, PollRows, NoPoll, NamesViewer
<1> QED
  BY <1>1, <1>2, <1>3, <1>4, PairTypes DEF PairInit, PairIInv

(* What a step has to show when it keeps the requests about plugins.        *)
LEMMA BindersKeep ==
  ASSUME PairIInv,
         viewer' \in [Viewers -> ViewerRows], plugin' \in [Plugins -> Paired],
         binder' \in [Binders -> Requests], poll' = poll,
         bindings' \in 0..MaxBindings, pairings' \in 0..MaxPairings,
         binderFaults' \in 0..MaxBinderFaults, contested' \subseteq Rooms
  PROVE  PairIInv'
<1>1. poll \in [Polls -> PollRows] /\ \A q \in Polls : NamesViewer(poll[q])
  BY PairTypes DEF PairIInv
<1>2. plugin' \in [Plugins -> PluginRows] /\ \A p \in Plugins : PairedToViewer(plugin[p])'
  BY DEF Paired, PairedToViewer
<1>3. \A q \in Polls : NamesViewer(poll[q])'
  BY <1>1 DEF NamesViewer
<1>4. PairTypeOK'
  BY <1>1, <1>2 DEF PairTypeOK, PluginRows, PollRows
<1> QED
  BY <1>2, <1>3, <1>4 DEF PairIInv

LEMMA NewBinderInvariant ==
  ASSUME PairIInv, NEW b \in Binders, NEW request \in Requests, NewBinder(b, request)
  PROVE  PairIInv'
<1>1. bindings' \in 0..MaxBindings
  BY PairTypes, PairingAssumption DEF PairIInv, NewBinder
<1>2. binder' \in [Binders -> Requests] /\ contested' \subseteq Rooms
  BY PairTypes DEF PairIInv, NewBinder
<1> QED
  BY <1>1, <1>2, BindersKeep, PairTypes, PluginsRewritten DEF NewBinder, PairIInv

LEMMA BindersInvariant ==
  ASSUME PairIInv, NEW b \in Binders, NEW d \in Viewers,
         \/ MakeManagement(b, d) \/ RevokeDevice(b, d) \/ SetUpManagement(b, d)
         \/ \E room \in Rooms : BindDevice(b, d, room) \/ SetUpDevice(b, d, room)
  PROVE  PairIInv'
<1>1. CASE SetUpManagement(b, d)
  <2>1. PICK old \in AnyViewer : NewBinder(b, Request("setup", d, NoRoom, old))
    BY <1>1, Zenon DEF SetUpManagement, Occupants, AnyViewer
  <2>2. Request("setup", d, NoRoom, old) \in Requests
    BY DEF Request, Requests, AnyViewer, AnyRoom
  <2> QED
    BY <2>1, <2>2, NewBinderInvariant
<1>2. CASE MakeManagement(b, d) \/ RevokeDevice(b, d)
  <2>1. /\ Request("unpair", d, NoRoom, NoViewer) \in Requests
        /\ Request("dismiss", d, NoRoom, NoViewer) \in Requests
    BY DEF Request, Requests, AnyViewer, AnyRoom
  <2> QED
    BY <1>2, <2>1, NewBinderInvariant DEF MakeManagement, RevokeDevice
<1>3. ASSUME NEW room \in Rooms, BindDevice(b, d, room) PROVE PairIInv'
  <2>1. PICK pc \in {"own", "clear"} : NewBinder(b, Request(pc, d, room, NoViewer))
    BY <1>3, Zenon DEF BindDevice
  <2>2. Request(pc, d, room, NoViewer) \in Requests
    BY <2>1 DEF Request, Requests, AnyViewer, AnyRoom
  <2> QED
    BY <2>1, <2>2, NewBinderInvariant
<1>4. ASSUME NEW room \in Rooms, SetUpDevice(b, d, room) PROVE PairIInv'
  <2>1. PICK old \in AnyViewer : NewBinder(b, Request("setup", d, room, old))
    BY <1>4 DEF SetUpDevice, Occupants, AnyViewer
  <2>2. Request("setup", d, room, old) \in Requests
    BY <2>1 DEF Request, Requests, AnyViewer, AnyRoom
  <2> QED
    BY <2>1, <2>2, NewBinderInvariant
<1> QED
  BY <1>1, <1>2, <1>3, <1>4

LEMMA BinderStepInvariant ==
  ASSUME PairIInv, NEW b \in Binders, BinderStep(b)
  PROVE  PairIInv'
<1> DEFINE d == binder[b].dev
           room == binder[b].room
<1>1. /\ viewer \in [Viewers -> ViewerRows] /\ binder \in [Binders -> Requests]
      /\ bindings \in 0..MaxBindings /\ pairings \in 0..MaxPairings
      /\ binderFaults \in 0..MaxBinderFaults /\ contested \subseteq Rooms
  BY PairTypes DEF PairIInv
<1>2. room \in AnyRoom
  BY <1>1 DEF Requests
<1>3. /\ BoundTo(room) \in ViewerRows /\ \A row \in ViewerRows : Dismissed(row) \in ViewerRows
      /\ Revoked \in ViewerRows /\ Managing \in ViewerRows
  BY <1>2, BinderRowTypes
<1>4. viewer' \in [Viewers -> ViewerRows]
  <2>1. CASE RevokeHolders(b)
    BY <1>1, <1>3, <2>1 DEF RevokeHolders
  <2>2. CASE TakeRoom(b) \/ BecomeManagement(b) \/ DismissDevice(b)
    BY <1>1, <1>3, <2>2 DEF TakeRoom, BecomeManagement, DismissDevice
  <2>3. CASE CommitSetup(b)
    BY <1>1, <1>3, <2>3, Zenon DEF CommitSetup
  <2> QED
    BY <1>1, <2>1, <2>2, <2>3 DEF BinderStep, ClearPlugins, CopyRoom, UnpairOwn, DropPlugins
<1>5. plugin' \in [Plugins -> Paired]
  <2>1. CASE CommitSetup(b)
    <3> DEFINE cleared == Unpaired(IF room = NoRoom THEN {binder[b].old, d} ELSE {binder[b].old})
    <3>1. cleared \in [Plugins -> Paired]
      BY PluginsRewritten
    <3>2. plugin' = [p \in Plugins |->
            IF cleared[p].dev = d /\ cleared[p].paired
            THEN [cleared[p] EXCEPT !.room = room] ELSE cleared[p]]
      BY <2>1 DEF CommitSetup
    <3>3. \A p \in Plugins : [cleared[p] EXCEPT !.room = room] \in Paired
      BY <1>2, <3>1, PluginRowTypes
    <3> HIDE DEF cleared
    <3> QED
      BY <3>1, <3>2, <3>3
  <2>2. CASE DropPlugins(b)
    <3>1. PICK named \in SUBSET Plugins :
            plugin' = [p \in Plugins |-> IF p \in named THEN Apart(plugin[p])
                                        ELSE Unpaired({binder[b].dev})[p]]
      BY <2>2 DEF DropPlugins
    <3>2. Unpaired({binder[b].dev}) \in [Plugins -> Paired]
      BY PluginsRewritten
    <3>3. \A p \in Plugins : Apart(plugin[p]) \in Paired
      BY PluginsRewritten, PluginRowTypes
    <3> QED
      BY <3>1, <3>2, <3>3
  <2>3. CASE ClearPlugins(b) \/ CopyRoom(b) \/ UnpairOwn(b)
    BY <1>2, <2>3, PluginsRewritten DEF ClearPlugins, CopyRoom, UnpairOwn
  <2> QED
    BY <2>1, <2>2, <2>3, PluginsRewritten
    DEF BinderStep, RevokeHolders, TakeRoom, BecomeManagement, DismissDevice
<1>6. binder' \in [Binders -> Requests]
  <2>1. \/ BinderDone(b)
        \/ \E pc \in {"revoke", "own", "copy", "manage", "drop"} : BinderTo(b, pc)
    BY DEF BinderStep, ClearPlugins, RevokeHolders, TakeRoom, CopyRoom, CommitSetup, UnpairOwn,
           BecomeManagement, DismissDevice, DropPlugins
  <2> QED
    BY <1>1, <2>1, BinderRowTypes DEF BinderDone, BinderTo, Requests
<1> QED
  BY <1>1, <1>4, <1>5, <1>6, BindersKeep DEF BinderStep
----
(* What a request about a plugin has to show when it only remembers.        *)
LEMMA PollToInvariant ==
  ASSUME PairIInv, NEW q \in Polls, NEW request \in PollRows, NamesViewer(request),
         PollTo(q, request)
  PROVE  PairIInv'
<1>1. poll \in [Polls -> PollRows] /\ \A r \in Polls : NamesViewer(poll[r])
  BY PairTypes DEF PairIInv
<1>2. poll' \in [Polls -> PollRows] /\ \A r \in Polls : NamesViewer(poll'[r])
  <2>1. \A r \in Polls : poll'[r] = IF r = q THEN request ELSE poll[r]
    BY <1>1 DEF PollTo
  <2>2. poll' \in [Polls -> PollRows]
    BY <1>1 DEF PollTo
  <2> QED
    BY <1>1, <2>1, <2>2
<1>3. \A p \in Plugins : PairedToViewer(plugin[p])'
  BY DEF PollTo, PairIInv, PairedToViewer
<1>4. PairTypeOK'
  BY <1>2 DEF PairIInv, PairTypeOK, PollTo, PollRows
<1>5. \A r \in Polls : NamesViewer(poll[r])'
  BY <1>2 DEF NamesViewer
<1> QED
  BY <1>3, <1>4, <1>5 DEF PairIInv

LEMMA ReadsInvariant ==
  ASSUME PairIInv, NEW q \in Polls,
         \/ PairDevice(q) \/ LookUpViewer(q)
         \/ \E p \in Plugins :
              \/ PairStatus(q, p) \/ ViewerHeartbeat(q, p)
              \/ \E d \in Viewers : PairConfirm(q, p, d)
  PROVE  PairIInv'
<1>1. /\ viewer \in [Viewers -> ViewerRows] /\ plugin \in [Plugins -> PluginRows]
      /\ poll[q] \in PollRows /\ NamesViewer(poll[q])
      /\ \A p \in Plugins : PairedToViewer(plugin[p])
  BY PairTypes DEF PairIInv
<1>2. NoPoll \in PollRows /\ NamesViewer(NoPoll)
  BY DEF NoPoll, PollRows, NamesViewer, AnyViewer, AnyRoom
<1>3. \A d \in Viewers : viewer[d].room \in AnyRoom
  BY <1>1 DEF ViewerRows
<1>4. ASSUME PairDevice(q) \/ LookUpViewer(q)
      PROVE  \E request \in PollRows : NamesViewer(request) /\ PollTo(q, request)
  <2>1. poll[q].pc \in {"pair", "look"} /\ poll[q].dev \in Viewers
    BY <1>1, <1>4 DEF PairDevice, LookUpViewer, NamesViewer
  <2> DEFINE shown == viewer[poll[q].dev].room
  <2>2. shown \in AnyRoom
    BY <1>3, <2>1
  <2>3. ASSUME NEW pc \in {"confirm", "follow"}
        PROVE  LET new == [poll[q] EXCEPT !.pc = pc, !.room = shown]
               IN  new \in PollRows /\ new.dev \in Viewers
    <3> DEFINE one == [poll[q] EXCEPT !.pc = pc]
    <3>1. one \in PollRows /\ one.dev = poll[q].dev
      BY <1>1, <2>3 DEF PollRows
    <3>2. [one EXCEPT !.room = shown] = [poll[q] EXCEPT !.pc = pc, !.room = shown]
      BY <1>1 DEF PollRows
    <3> HIDE DEF one, shown
    <3> QED
      BY <2>1, <2>2, <3>1, <3>2 DEF PollRows
  <2>4. LET new == [poll[q] EXCEPT !.pc = "unpair"]
        IN  new \in PollRows /\ new.pc = "unpair"
    BY <1>1 DEF PollRows
  <2>5. \/ PollTo(q, [poll[q] EXCEPT !.pc = "confirm", !.room = shown])
        \/ PollTo(q, [poll[q] EXCEPT !.pc = "follow", !.room = shown])
        \/ PollTo(q, [poll[q] EXCEPT !.pc = "unpair"])
        \/ PollTo(q, NoPoll)
    BY <1>4, Zenon DEF PairDevice, LookUpViewer
  <2> QED
    BY <1>2, <2>3, <2>4, <2>5, Zenon DEF NamesViewer
<1>5. ASSUME NEW p \in Plugins,
             \/ PairStatus(q, p) \/ ViewerHeartbeat(q, p)
             \/ \E d \in Viewers : PairConfirm(q, p, d)
      PROVE  \E request \in PollRows : NamesViewer(request) /\ PollTo(q, request)
  <2>1. plugin[p].paired = TRUE => plugin[p].dev \in Viewers
    BY <1>1 DEF PairedToViewer
  <2>2. CASE PairStatus(q, p)
    BY <1>1, <1>3, <2>1, <2>2 DEF PairStatus, NoPoll, PollRows, NamesViewer, AnyViewer, AnyRoom
  <2>3. CASE ViewerHeartbeat(q, p)
    BY <1>1, <2>1, <2>3 DEF ViewerHeartbeat, NoPoll, PollRows, NamesViewer, AnyViewer, AnyRoom
  <2>4. CASE \E d \in Viewers : PairConfirm(q, p, d)
    BY <2>4 DEF PairConfirm, PollRows, NamesViewer, AnyViewer, AnyRoom
  <2> QED
    BY <1>5, <2>2, <2>3, <2>4
<1> QED
  BY <1>4, <1>5, PollToInvariant

LEMMA WritePluginInvariant ==
  ASSUME PairIInv, NEW q \in Polls, WritePlugin(q)
  PROVE  PairIInv'
<1> DEFINE p == poll[q].plug
<1>1. /\ plugin \in [Plugins -> Paired] /\ poll \in [Polls -> PollRows]
      /\ \A r \in Polls : NamesViewer(poll[r])
  BY PairTypes, PluginsRewritten DEF PairIInv
<1>2. PICK row :
        /\ plugin' = [plugin EXCEPT ![p] = row]
        /\ \/ /\ poll[q].pc = "confirm"
              /\ row = [dev |-> poll[q].dev, room |-> poll[q].room, paired |-> TRUE, token |-> 0]
           \/ row = [plugin[p] EXCEPT !.room = poll[q].room]
           \/ row = Apart(plugin[p])
  BY Zenon DEF WritePlugin
<1>3. poll[q].room \in AnyRoom /\ (poll[q].pc = "confirm" => poll[q].dev \in Viewers)
  BY <1>1 DEF PollRows, NamesViewer
<1>4. p \in Plugins => row \in Paired
  <2>1. ASSUME p \in Plugins, NEW d \in Viewers, NEW room \in AnyRoom
        PROVE  [dev |-> d, room |-> room, paired |-> TRUE, token |-> 0] \in Paired
    BY PairingAssumption DEF Paired, PairedToViewer, PluginRows, AnyViewer
  <2>2. p \in Plugins => plugin[p] \in Paired
    BY <1>1
  <2> QED
    BY <1>2, <1>3, <2>1, <2>2, PluginRowTypes
<1>5. plugin' \in [Plugins -> Paired]
  BY <1>1, <1>2, <1>4
<1>6. NoPoll \in PollRows /\ NamesViewer(NoPoll)
  BY DEF NoPoll, PollRows, NamesViewer, AnyViewer, AnyRoom
<1>7. poll' \in [Polls -> PollRows] /\ \A r \in Polls : NamesViewer(poll'[r])
  <2>1. \A r \in Polls : poll'[r] = IF r = q THEN NoPoll ELSE poll[r]
    BY <1>1 DEF WritePlugin
  <2>2. poll' \in [Polls -> PollRows]
    BY <1>1, <1>6 DEF WritePlugin
  <2> QED
    BY <1>1, <1>6, <2>1, <2>2
<1>8. PairTypeOK'
  BY <1>5, <1>7 DEF PairIInv, PairTypeOK, WritePlugin, PollRows, Paired, PluginRows
<1>9. \A r \in Polls : NamesViewer(poll[r])'
  BY <1>7 DEF NamesViewer
<1>10. \A r \in Plugins : PairedToViewer(plugin[r])'
  BY <1>5 DEF Paired, PairedToViewer
<1> QED
  BY <1>8, <1>9, <1>10 DEF PairIInv

LEMMA PairNextInvariant == PairIInv /\ [PairNext]_pairVars => PairIInv'
<1> SUFFICES ASSUME PairIInv, [PairNext]_pairVars PROVE PairIInv'
  OBVIOUS
<1>1. ASSUME NEW b \in Binders, RevokePlugins(b) PROVE PairIInv'
  <2>1. Request("drop", NoViewer, NoRoom, NoViewer) \in Requests
    BY DEF Request, Requests, AnyViewer, AnyRoom
  <2> QED
    BY <1>1, <2>1, NewBinderInvariant DEF RevokePlugins
<1>2. ASSUME NEW b \in Binders, BinderDies(b) PROVE PairIInv'
  <2>1. binder' \in [Binders -> Requests]
    BY <1>2, PairTypes, BinderRowTypes DEF PairIInv, BinderDies, BinderDone
  <2>2. binderFaults' \in 0..MaxBinderFaults
    BY <1>2, PairTypes, PairingAssumption DEF PairIInv, BinderDies
  <2> QED
    BY <1>2, <2>1, <2>2, BindersKeep, PairTypes, PluginsRewritten DEF PairIInv, BinderDies
<1>3. ASSUME NEW p \in Plugins, PairStart(p) PROVE PairIInv'
  <2>1. pairings' \in 0..MaxPairings /\ pairings + 1 \in 0..MaxPairings
    BY <1>3, PairTypes, PairingAssumption DEF PairIInv, PairStart
  <2>2. plugin[p] \in Paired
    BY PluginsRewritten
  <2> DEFINE one == [plugin[p] EXCEPT !.token = pairings + 1]
             new == [one EXCEPT !.paired = FALSE]
  <2>3. one \in PluginRows
    BY <2>1, <2>2 DEF Paired, PluginRows
  <2>4. new \in PluginRows /\ new.paired = FALSE
    BY <2>3 DEF PluginRows
  <2>5. plugin' = [plugin EXCEPT ![p] = new]
    BY <1>3, PluginsRewritten, Zenon DEF PairStart
  <2> HIDE DEF new
  <2>6. plugin' \in [Plugins -> Paired]
    BY <2>4, <2>5, PluginsRewritten DEF Paired, PairedToViewer
  <2> QED
    BY <1>3, <2>1, <2>6, BindersKeep, PairTypes DEF PairIInv, PairStart
<1>4. CASE UNCHANGED pairVars
  BY <1>4, BindersKeep, PairTypes, PluginsRewritten DEF pairVars, PairIInv
<1> QED
  BY <1>1, <1>2, <1>3, <1>4, BindersInvariant, BinderStepInvariant, ReadsInvariant,
     WritePluginInvariant DEF PairNext, PollStep
----------------------------------------------------------------------------
(***************************************************************************)
(* Receipts.  A batch counts as soon as one of its announcements has a     *)
(* receipt, and then all of it leaves the buffer: what is lost that way    *)
(* was counted with it or is unknown to the server, because the batch is   *)
(* recorded in one statement and announcements never come back.            *)
(***************************************************************************)

(* What was on screen and is not counted waits in the buffer, unless the    *)
(* server does not know it.                                                 *)
SeenIsKept == \A a \in seen : unsent[a] > 0 \/ receipts[a] > 0 \/ a \in noticesGone

(* No announcement is held longer than all were shown. *)
HeldWasShown == \A a \in Notices : unsent[a] <= showings

(* A batch that counts was counted, as far as the server knows it. *)
Counted(row) ==
  row.recorded = TRUE =>
    \A a \in Notices : row.batch[a] > 0 => receipts[a] > 0 \/ a \in noticesGone

ReceiptIInv ==
  /\ ReceiptTypeOK
  /\ HeldWasShown
  /\ SeenIsKept
  /\ \A f \in Flushes : Counted(flush[f])

LEMMA NoFlushType == NoFlush \in FlushStates /\ NoFlush.recorded = FALSE
  BY ReceiptAssumption DEF NoFlush, FlushStates, Buffers

LEMMA ReceiptInitInvariant == ReceiptInit => ReceiptIInv
<1> SUFFICES ASSUME ReceiptInit PROVE ReceiptIInv
  OBVIOUS
<1>1. 0 \in 0..MaxShowings /\ 0 \in 0..MaxAckFaults
  BY ReceiptAssumption
<1>2. ReceiptTypeOK
  BY <1>1, NoFlushType DEF ReceiptInit, ReceiptTypeOK, Buffers
<1>3. HeldWasShown /\ SeenIsKept
  BY DEF ReceiptInit, HeldWasShown, SeenIsKept
<1>4. \A f \in Flushes : Counted(flush[f])
  BY NoFlushType, Zenon DEF ReceiptInit, Counted
<1> QED
  BY <1>2, <1>3, <1>4 DEF ReceiptIInv

(* The batch of a flush that begins holds what the buffer holds.            *)
LEMMA BegunType ==
  ASSUME NEW f \in Flushes, NEW buffer \in Buffers, flush \in [Flushes -> FlushStates],
         FlushBegun(f, buffer)
  PROVE  \E row \in FlushStates : flush' = [flush EXCEPT ![f] = row] /\ row.recorded = FALSE
<1>1. PICK S : flush' = [flush EXCEPT ![f] =
         [pc |-> "sent", batch |-> [a \in Notices |-> IF a \in S THEN buffer[a] ELSE 0],
          recorded |-> FALSE]]
  BY DEF FlushBegun
<1> DEFINE sent == [a \in Notices |-> IF a \in S THEN buffer[a] ELSE 0]
<1>2. sent \in Buffers
  BY ReceiptAssumption DEF Buffers
<1> HIDE DEF sent
<1>3. [pc |-> "sent", batch |-> sent, recorded |-> FALSE] \in FlushStates
  BY <1>2 DEF FlushStates
<1> QED
  BY <1>1, <1>3 DEF sent

(* What a step that counts nothing has to show of one batch it writes.      *)
LEMMA BatchesKept ==
  ASSUME ReceiptIInv, NEW f \in Flushes, NEW row \in FlushStates, row.recorded = FALSE,
         flush' = [flush EXCEPT ![f] = row], UNCHANGED <<receipts, noticesGone>>
  PROVE  flush' \in [Flushes -> FlushStates] /\ \A g \in Flushes : Counted(flush[g])'
<1>1. flush \in [Flushes -> FlushStates]
  BY DEF ReceiptIInv, ReceiptTypeOK
<1>2. \A g \in Flushes : flush'[g] = flush[g] \/ flush'[g].recorded = FALSE
  BY <1>1
<1>3. flush' \in [Flushes -> FlushStates]
  BY <1>1
<1>4. ASSUME NEW g \in Flushes PROVE Counted(flush[g])'
  BY <1>2, Zenon DEF ReceiptIInv, Counted
<1> QED
  BY <1>3, <1>4

LEMMA NoticeSeenInvariant ==
  ASSUME ReceiptIInv, NEW a \in Notices, NEW f \in Flushes, NoticeSeen(a, f)
  PROVE  ReceiptIInv'
<1>1. /\ unsent \in [Notices -> 0..MaxShowings] /\ flush \in [Flushes -> FlushStates]
      /\ showings \in 0..MaxShowings /\ unsent[a] <= showings /\ showings < MaxShowings
      /\ HeldWasShown
  BY DEF ReceiptIInv, ReceiptTypeOK, HeldWasShown, Buffers, NoticeSeen
<1>2. /\ showings' = showings + 1 /\ showings' \in 0..MaxShowings
      /\ unsent[a] + 1 \in 0..MaxShowings
  BY <1>1, ReceiptAssumption DEF NoticeSeen
<1>3. unsent' = [unsent EXCEPT ![a] = unsent[a] + 1]
  BY DEF NoticeSeen
<1>4. unsent' \in Buffers
  BY <1>1, <1>2, <1>3 DEF Buffers
<1>5. PICK row \in FlushStates : flush' = [flush EXCEPT ![f] = row] /\ row.recorded = FALSE
  BY <1>1, <1>4, BegunType DEF NoticeSeen
<1>6. flush' \in [Flushes -> FlushStates] /\ \A g \in Flushes : Counted(flush[g])'
  BY <1>5, BatchesKept DEF NoticeSeen
<1>7. HeldWasShown'
  BY <1>1, <1>2, <1>3 DEF HeldWasShown
<1>8. \A c \in Notices : unsent'[c] >= unsent[c] /\ unsent'[a] > 0
  BY <1>1, <1>3
<1>9. SeenIsKept'
  BY <1>1, <1>8 DEF SeenIsKept, ReceiptIInv, ReceiptTypeOK, NoticeSeen
<1>10. ReceiptTypeOK'
  BY <1>2, <1>4, <1>6 DEF ReceiptTypeOK, ReceiptIInv, NoticeSeen
<1> QED
  BY <1>6, <1>7, <1>9, <1>10 DEF ReceiptIInv

LEMMA PollFlushInvariant ==
  ASSUME ReceiptIInv, NEW f \in Flushes, PollFlush(f)
  PROVE  ReceiptIInv'
<1>1. unsent \in Buffers /\ flush \in [Flushes -> FlushStates]
  BY DEF ReceiptIInv, ReceiptTypeOK
<1>2. PICK row \in FlushStates : flush' = [flush EXCEPT ![f] = row] /\ row.recorded = FALSE
  BY <1>1, BegunType DEF PollFlush
<1>3. flush' \in [Flushes -> FlushStates] /\ \A g \in Flushes : Counted(flush[g])'
  BY <1>2, BatchesKept DEF PollFlush
<1> QED
  BY <1>3 DEF PollFlush, ReceiptIInv, ReceiptTypeOK, HeldWasShown, SeenIsKept

LEMMA BatchFailsInvariant ==
  ASSUME ReceiptIInv, NEW f \in Flushes, BatchFails(f)
  PROVE  ReceiptIInv'
<1>1. flush' \in [Flushes -> FlushStates] /\ \A g \in Flushes : Counted(flush[g])'
  BY NoFlushType, BatchesKept DEF BatchFails
<1>2. ackFaults' \in 0..MaxAckFaults
  BY ReceiptAssumption DEF BatchFails, ReceiptIInv, ReceiptTypeOK
<1> QED
  BY <1>1, <1>2 DEF BatchFails, ReceiptIInv, ReceiptTypeOK, HeldWasShown, SeenIsKept

(* What is dropped with a batch was counted, or the server does not know it.*)
LEMMA BatchAnsweredInvariant ==
  ASSUME ReceiptIInv, NEW f \in Flushes, BatchAnswered(f)
  PROVE  ReceiptIInv'
<1>1. flush' \in [Flushes -> FlushStates] /\ \A g \in Flushes : Counted(flush[g])'
  BY NoFlushType, BatchesKept DEF BatchAnswered
<1>2. /\ unsent \in [Notices -> 0..MaxShowings] /\ flush[f] \in FlushStates
      /\ flush[f].recorded \in BOOLEAN
      /\ Counted(flush[f]) /\ showings \in 0..MaxShowings /\ seen \subseteq Notices
  BY DEF ReceiptIInv, ReceiptTypeOK, Buffers, FlushStates
<1>3. ASSUME NEW a \in Notices
      PROVE  /\ unsent'[a] = unsent[a] \/ unsent'[a] = 0
             /\ unsent'[a] # unsent[a] => receipts[a] > 0 \/ a \in noticesGone
  BY <1>2 DEF BatchAnswered, Dropped, Counted
<1>4. unsent' \in [Notices -> 0..MaxShowings]
  BY <1>2, ReceiptAssumption DEF BatchAnswered, Dropped
<1>5. HeldWasShown'
  BY <1>2, <1>3 DEF BatchAnswered, HeldWasShown, ReceiptIInv
<1>6. SeenIsKept'
  BY <1>2, <1>3 DEF BatchAnswered, SeenIsKept, ReceiptIInv
<1> QED
  BY <1>1, <1>4, <1>5, <1>6 DEF BatchAnswered, ReceiptIInv, ReceiptTypeOK, Buffers

LEMMA RecordBatchInvariant ==
  ASSUME ReceiptIInv, NEW f \in Flushes, RecordBatch(f)
  PROVE  ReceiptIInv'
<1> DEFINE known == {a \in Notices \ noticesGone : flush[f].batch[a] > 0}
           one == [flush[f] EXCEPT !.pc = "answered"]
           row == [one EXCEPT !.recorded = known # {}]
<1>1. /\ receipts \in [Notices -> Nat] /\ flush \in [Flushes -> FlushStates]
      /\ flush[f] \in FlushStates /\ noticesGone \subseteq Notices /\ seen \subseteq Notices
  BY DEF ReceiptIInv, ReceiptTypeOK
<1>2. receipts' = [a \in Notices |-> IF a \in known THEN receipts[a] + 1 ELSE receipts[a]]
  BY Zenon DEF RecordBatch
<1>3. flush' = [flush EXCEPT ![f] = row]
  BY <1>1, Zenon DEF RecordBatch
<1>4. one \in FlushStates /\ one.batch = flush[f].batch
  BY <1>1 DEF FlushStates
<1>5. row \in FlushStates /\ row.batch = flush[f].batch
  <2> HIDE DEF one, known
  <2> QED
    BY <1>4 DEF FlushStates
<1>6. \A a \in known : a \in Notices
  OBVIOUS
<1>7. \A a \in Notices : flush[f].batch[a] > 0 => a \in known \/ a \in noticesGone
  OBVIOUS
<1> HIDE DEF row, known
<1>8. receipts' \in [Notices -> Nat] /\ flush' \in [Flushes -> FlushStates]
  BY <1>1, <1>2, <1>3, <1>5
<1>9. \A a \in Notices : /\ receipts'[a] >= receipts[a]
                         /\ a \in known => receipts'[a] > 0
  BY <1>1, <1>2
<1>10. noticesGone' = noticesGone
  BY DEF RecordBatch
<1>11. ASSUME NEW g \in Flushes PROVE Counted(flush[g])'
  <2>1. CASE g = f
    <3>1. flush'[g] = row
      BY <1>1, <1>3, <2>1
    <3> QED
      BY <1>5, <1>7, <1>9, <1>10, <3>1 DEF Counted
  <2>2. CASE g # f
    <3>1. flush'[g] = flush[g] /\ Counted(flush[g])
      BY <1>1, <1>3, <2>2 DEF ReceiptIInv
    <3> QED
      BY <1>1, <1>8, <1>9, <1>10, <3>1 DEF Counted
  <2> QED
    BY <2>1, <2>2
<1>12. SeenIsKept'
  BY <1>1, <1>8, <1>9 DEF SeenIsKept, ReceiptIInv, RecordBatch
<1> QED
  BY <1>8, <1>11, <1>12 DEF ReceiptIInv, ReceiptTypeOK, HeldWasShown, RecordBatch

LEMMA EraseNoticeInvariant ==
  ASSUME ReceiptIInv, NEW a \in Notices, EraseNotice(a)
  PROVE  ReceiptIInv'
<1>1. receipts \in [Notices -> Nat] /\ noticesGone \subseteq Notices /\ seen \subseteq Notices
  BY DEF ReceiptIInv, ReceiptTypeOK
<1>2. receipts' = [receipts EXCEPT ![a] = 0] /\ noticesGone' = noticesGone \cup {a}
      /\ UNCHANGED <<unsent, flush, seen, showings, ackFaults>>
  BY DEF EraseNotice
<1>3. \A c \in Notices : receipts'[c] = receipts[c] \/ c \in noticesGone'
  BY <1>1, <1>2
<1>4. SeenIsKept'
  BY <1>1, <1>2, <1>3 DEF SeenIsKept, ReceiptIInv
<1>5. ASSUME NEW g \in Flushes PROVE Counted(flush[g])'
  BY <1>2, <1>3 DEF Counted, ReceiptIInv
<1>6. ReceiptTypeOK'
  BY <1>1, <1>2 DEF ReceiptIInv, ReceiptTypeOK
<1>7. HeldWasShown'
  BY <1>2 DEF HeldWasShown, ReceiptIInv
<1> QED
  BY <1>4, <1>5, <1>6, <1>7 DEF ReceiptIInv

LEMMA ReceiptNextInvariant == ReceiptIInv /\ [ReceiptNext]_ackVars => ReceiptIInv'
<1> SUFFICES ASSUME ReceiptIInv, [ReceiptNext]_ackVars PROVE ReceiptIInv'
  OBVIOUS
<1>1. CASE UNCHANGED ackVars
  BY <1>1 DEF ackVars, ReceiptIInv, ReceiptTypeOK, HeldWasShown, SeenIsKept, Counted
<1> QED
  BY <1>1, NoticeSeenInvariant, PollFlushInvariant, BatchFailsInvariant, BatchAnsweredInvariant,
     RecordBatchInvariant, EraseNoticeInvariant DEF ReceiptNext, FlushStep

LEMMA ReceiptInvariant == ReceiptSpec => []ReceiptIInv
  BY ReceiptInitInvariant, ReceiptNextInvariant, PTL DEF ReceiptSpec

(* What was on screen is not lost before it is counted, although a whole    *)
(* batch is dropped as soon as one of it counts, and flushes overlap: for   *)
(* any number of announcements, flushes, failures and restored backups.     *)
THEOREM SeenIsNotLost == ReceiptSpec => []SeenIsKept
<1>1. ReceiptIInv => SeenIsKept
  BY DEF ReceiptIInv
<1> QED
  BY <1>1, ReceiptInvariant, PTL
----------------------------------------------------------------------------
(***************************************************************************)
(* All of them.  A step of MCComponents is a step of one component and     *)
(* stutters in the others, so the invariant of each holds in every         *)
(* behaviour.                                                              *)
(***************************************************************************)

AllIInv ==
  /\ MailIInv /\ MailedIInv /\ PostIInv /\ BackupIInv /\ DeviceIInv
  /\ PairIInv /\ QueueIInv /\ ReceiptIInv

LEMMA ComponentsInit == Init => AllIInv
  BY MailInitInvariant, MailedInit, PostInitInvariant, BackupInitInvariant, DeviceInitInvariant,
     PairInitInvariant, QueueInitInvariant, ReceiptInitInvariant DEF Init, AllIInv

(* What each component sees of a step. *)
LEMMA ComponentsStep ==
  ASSUME [Next]_vars
  PROVE  /\ [MailNext]_mailVars /\ [PostNext]_postVars /\ [BackupNext]_backupVars
         /\ [DeviceNext]_deviceVars /\ [PairNext]_pairVars /\ [QueueNext]_queueVars
         /\ [ReceiptNext]_ackVars
<1>1. CASE UNCHANGED vars
  BY <1>1 DEF vars
<1>2. CASE MailNext /\ Alone("mail")
  BY <1>2 DEF Alone
<1>3. CASE PostNext /\ Alone("post")
  BY <1>3 DEF Alone
<1>4. CASE BackupNext /\ Alone("backup")
  BY <1>4 DEF Alone
<1>5. CASE DeviceNext /\ Alone("device")
  BY <1>5 DEF Alone
<1>6. CASE PairNext /\ Alone("pair")
  BY <1>6 DEF Alone
<1>7. CASE QueueNext /\ Alone("queue")
  BY <1>7 DEF Alone
<1>8. CASE ReceiptNext /\ Alone("ack")
  BY <1>8 DEF Alone
<1> QED
  BY <1>1, <1>2, <1>3, <1>4, <1>5, <1>6, <1>7, <1>8 DEF Next

LEMMA ComponentsNext == AllIInv /\ [Next]_vars => AllIInv'
<1> SUFFICES ASSUME AllIInv, [Next]_vars PROVE AllIInv'
  OBVIOUS
<1>1. MailIInv' /\ MailedIInv' /\ PostIInv' /\ BackupIInv' /\ DeviceIInv'
  BY ComponentsStep, MailNextInvariant, MailedNext, PostStepInvariant, BackupNextInvariant,
     DeviceNextInvariant DEF AllIInv
<1>2. PairIInv' /\ QueueIInv' /\ ReceiptIInv'
  BY ComponentsStep, PairNextInvariant, QueueNextInvariant, ReceiptNextInvariant DEF AllIInv
<1> QED
  BY <1>1, <1>2 DEF AllIInv

(* Whichever component runs, its variables keep their types and bounds: the *)
(* attempts at mails and bundles, the slots of commands and waves, the      *)
(* tokens of pairings and what the buffer of receipts holds, for any        *)
(* constants.                                                               *)
THEOREM ComponentsTypeCorrect == Spec => []TypeOK
<1>1. AllIInv => /\ MailTypeOK /\ PostTypeOK /\ BackupTypeOK /\ DeviceTypeOK
                 /\ PairTypeOK /\ QueueTypeOK /\ ReceiptTypeOK
  BY MailedBounds
     DEF AllIInv, PostIInv, BackupIInv, DeviceIInv, PairIInv, QueueIInv, ReceiptIInv
<1>2. AllIInv => TypeOK
  BY <1>1 DEF TypeOK
<1> QED
  BY <1>2, ComponentsInit, ComponentsNext, PTL DEF Spec
=============================================================================
