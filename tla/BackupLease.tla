----------------------------- MODULE BackupLease -----------------------------
(***************************************************************************)
(* Backups and restores of a self-hosted installation.  One row of         *)
(* app_backup_settings carries the lease that keeps tasks apart, and the   *)
(* time until which a restore keeps everybody else from writing: a trigger *)
(* on every guarded table refuses the write.  A restore first stores a     *)
(* backup of what it is about to replace.  A task that outlives its lease  *)
(* goes on without knowing; what it may still do is decided by the row.    *)
(*                                                                         *)
(* The guarded tables are one value, the number of the write that produced *)
(* it; the file to be restored holds value 0.  Time is counted down in     *)
(* ticks of a minute.                                                      *)
(***************************************************************************)
EXTENDS Naturals

CONSTANTS
  Tasks,          \* the tasks that run, each at most once
  Restores,       \* those that are restores, the others are backups
  NoTask,
  LeaseTicks,     \* the ten minutes of acquire
  MaxWrites       \* writes of the application to the guarded tables

ASSUME BackupAssumption ==
  /\ Restores \subseteq Tasks
  /\ NoTask \notin Tasks
  /\ LeaseTicks \in Nat \ {0}
  /\ MaxWrites \in Nat

VARIABLES
  tables,       \* the value of the guarded tables
  writes,       \* how many writes there were
  leaseRow,     \* lease_owner, and the ticks left of lease_until, restore_until
  runs,         \* app_backup_runs and the file of each run
  taskPc

backupVars == <<tables, writes, leaseRow, runs, taskPc>>

NoFile == MaxWrites + 1
NoRun == [status |-> "none", file |-> NoFile]

BackupTypeOK ==
  /\ tables \in 0..MaxWrites
  /\ writes \in 0..MaxWrites
  /\ leaseRow \in [owner : Tasks \cup {NoTask},
                   lease : 0..LeaseTicks, restore : 0..LeaseTicks]
  /\ runs \in [Tasks -> [status : {"none", "running", "success", "failed"},
                         file : 0..NoFile]]
  /\ taskPc \in [Tasks -> {"start", "snapshot", "check", "save", "apply", "locking",
                        "release", "done"}]

BackupInit ==
  /\ tables = 0
  /\ writes = 0
  /\ leaseRow = [owner |-> NoTask, lease |-> 0, restore |-> 0]
  /\ runs = [t \in Tasks |-> NoRun]
  /\ taskPc = [t \in Tasks |-> "start"]

OwnsLease(t) == leaseRow.owner = t
ToStep(t, pc) == taskPc' = [taskPc EXCEPT ![t] = pc]
Blocked == leaseRow.restore > 0

FreeToStart == leaseRow.lease = 0 /\ leaseRow.restore = 0
----------------------------------------------------------------------------
(* acquire, and the row of the run that persist inserts; a task that finds  *)
(* the lease taken is refused and changes nothing.                          *)
Acquire(t) ==
  /\ taskPc[t] = "start"
  /\ FreeToStart
  /\ leaseRow' = [owner |-> t, lease |-> LeaseTicks,
                  restore |-> IF t \in Restores THEN LeaseTicks ELSE 0]
  /\ runs' = [runs EXCEPT ![t].status = "running"]
  /\ ToStep(t, "snapshot")
  /\ UNCHANGED <<tables, writes>>

(* snapshot: the tables are locked against writers and read. *)
Snapshot(t) ==
  /\ taskPc[t] = "snapshot"
  /\ runs' = [runs EXCEPT ![t].file = tables]
  /\ ToStep(t, "check")
  /\ UNCHANGED <<tables, writes, leaseRow>>

(* The catch of persist: no file is left and the run has failed. *)
RunFailed(t) ==
  /\ runs' = [runs EXCEPT ![t] = [status |-> "failed", file |-> NoFile]]
  /\ ToStep(t, "release")

(* A task whose lease ran out meanwhile stops here. *)
CheckLease(t) ==
  /\ taskPc[t] = "check"
  /\ IF OwnsLease(t) /\ leaseRow.lease > 0
     THEN ToStep(t, "save") /\ UNCHANGED runs
     ELSE RunFailed(t)
  /\ UNCHANGED <<tables, writes, leaseRow>>

(* The file is written and the run recorded, or storage fails. *)
SaveRun(t) ==
  /\ taskPc[t] = "save"
  /\ \/ /\ runs' = [runs EXCEPT ![t].status = "success"]
        /\ ToStep(t, IF t \in Restores THEN "apply" ELSE "release")
     \/ RunFailed(t)
  /\ UNCHANGED <<tables, writes, leaseRow>>

(* applyRestore reads its clock before anything else; the lease will be     *)
(* compared with that time.  Once it has run out it stays so.               *)
BeginApply(t) ==
  /\ taskPc[t] = "apply"
  /\ ToStep(t, IF OwnsLease(t) /\ leaseRow.lease > 0 /\ leaseRow.restore > 0
               THEN "locking" ELSE "release")
  /\ UNCHANGED <<tables, writes, leaseRow, runs>>

(* Mutant: the transaction does not ask whose lease it is. *)
ApplyUnchecked(t) ==
  /\ taskPc[t] = "locking"
  /\ tables' = 0 \/ UNCHANGED tables
  /\ ToStep(t, "release")
  /\ UNCHANGED <<writes, leaseRow, runs>>

(* The transaction, once the tables are locked: the lease must still be its *)
(* own, then the tables are replaced.  It rolls back when that or a         *)
(* statement fails.                                                         *)
ApplyRestore(t) ==
  /\ taskPc[t] = "locking"
  /\ (OwnsLease(t) /\ tables' = 0) \/ UNCHANGED tables
  /\ ToStep(t, "release")
  /\ UNCHANGED <<writes, leaseRow, runs>>

(* release: the lease ends; after a restore writers wait ten seconds more.  *)
(* A task that is no longer the owner changes nothing.                      *)
Release(t) ==
  /\ taskPc[t] = "release"
  /\ leaseRow' = IF OwnsLease(t)
                 THEN [leaseRow EXCEPT !.lease = 0,
                                       !.restore = IF t \in Restores THEN 1 ELSE 0]
                 ELSE leaseRow
  /\ ToStep(t, "done")
  /\ UNCHANGED <<tables, writes, runs>>

TaskCrash(t) ==
  /\ taskPc[t] \notin {"start", "done"}
  /\ ToStep(t, "done")
  /\ UNCHANGED <<tables, writes, leaseRow, runs>>

(* Anybody writes to a guarded table, unless the trigger refuses. *)
WriteTables ==
  /\ ~Blocked
  /\ writes < MaxWrites
  /\ writes' = writes + 1
  /\ tables' = writes + 1
  /\ UNCHANGED <<leaseRow, runs, taskPc>>

(* A minute passes.  Tasks may take any number of them. *)
BackupMinute ==
  /\ leaseRow' = [leaseRow EXCEPT !.lease = IF @ = 0 THEN 0 ELSE @ - 1,
                                  !.restore = IF @ = 0 THEN 0 ELSE @ - 1]
  /\ UNCHANGED <<tables, writes, runs, taskPc>>

TaskStep(t) ==
  \/ Acquire(t) \/ Snapshot(t) \/ CheckLease(t) \/ SaveRun(t)
  \/ BeginApply(t) \/ ApplyRestore(t) \/ Release(t) \/ TaskCrash(t)

BackupNext == (\E t \in Tasks : TaskStep(t)) \/ WriteTables \/ BackupMinute

BackupSpec == BackupInit /\ [][BackupNext]_backupVars
----------------------------------------------------------------------------
(* What a restore replaces can be had back: the tables it overwrites are,   *)
(* to the last write, in the protection backup it stored and reported,      *)
(* however long its steps took and whoever took the lease meanwhile.  Only  *)
(* a lease that ends while the transaction waits for its locks escapes the  *)
(* check, whose clock was read before; then writes may come in between, but *)
(* never another task.                                                      *)
RestoreIsProtected ==
  [][\A t \in Tasks :
       taskPc[t] = "locking" /\ taskPc'[t] = "release" /\ tables' # tables =>
         /\ leaseRow.owner = t /\ runs[t].status = "success"
         /\ leaseRow.restore > 0 => runs[t].file = tables]_backupVars
============================================================================
