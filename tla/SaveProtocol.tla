---------------------------- MODULE SaveProtocol ----------------------------
(***************************************************************************)
(* How the exam document is saved from one browser while other people      *)
(* change it.  The browser has an admin tab, which pushes each edit, and a *)
(* classroom tab, which flushes what is left in the outbox.  They share    *)
(* local storage: the outbox, the settings and the last snapshot of the    *)
(* cloud.  A save names the revisions it was based on; the server refuses  *)
(* it when they have moved, and the browser merges and tries again.        *)
(***************************************************************************)
EXTENDS Naturals, Sequences, FiniteSetsExt, Functions

CONSTANTS
  Parts,          \* parts of the document that are edited on their own
  DomainOf,       \* part -> revision domain; "major" has the exam records
  OwnParts,       \* the parts this user edits
  LastOwn,        \* bound: the user's edits are 1 .. LastOwn
  LastTheirs,     \* bound: edits of others are LastOwn + 1 .. LastTheirs
  MaxMishaps,     \* bound: losses, refusals, reloads, returns online, overview reads
  MaxChain,       \* bound: pushes that wait for the one under way
  None

ASSUME BoundsAssumption ==
  /\ LastOwn \in Nat /\ LastTheirs \in Nat /\ LastOwn <= LastTheirs
  /\ MaxChain \in Nat
  /\ OwnParts \subseteq Parts

VARIABLES
  server,         \* [ver, rev, val]: the row of exam_data
  cloud,          \* the snapshot of it in local storage
  conflictBase,   \* the one a conflict sent, or None
  settings,       \* the document in the settings of local storage
  outbox,         \* the entry waiting for upload, or None
  draft,          \* the document the admin tab shows (stateRef, alertsRef)
  pending,        \* its pendingRef
  timer,          \* the draft the debounced push was armed with, or None
  chain,          \* the drafts of the pushes waiting for the one under way
  read,           \* its read under way, or None
  save,           \* saver -> the save it is making
  made, theirs,   \* last edit of the user, of the others
  mishaps,        \* what has come between so far
  stored,         \* history: own edits the server has stored
  told,           \* history: own edits reported as saved
  rested          \* history: part -> its last edit if no save could miss it, else 0

storage == <<cloud, conflictBase, settings, outbox>>
tab == <<draft, pending, timer, chain, read>>
counters == <<made, theirs, mishaps>>
history == <<stored, told, rested>>
saveVars == <<server, storage, tab, save, counters, history>>

Savers == {"push", "flush"}
Domains == {DomainOf[p] : p \in Parts}
Own == 1 .. LastOwn
OwnIn(val) == {val[p] : p \in Parts} \cap Own

Blank == [p \in Parts |-> 0]
First == [ver |-> 1, rev |-> [d \in Domains |-> 0], val |-> Blank]
NoSave == [pc |-> "idle"]

Documents == [Parts -> 0 .. LastTheirs]
Snapshots == [ver : Nat, rev : [Domains -> Nat], val : Documents]
Entries == [val : Documents, base : Snapshots, at : 1 .. 4, stopped : BOOLEAN]
Reads == [kind : {"overview", "boot"}, since : [Domains -> Nat], snap : Snapshots]

(* A save before and after it was put together. *)
Readied == [pc : {"ready"}, val : Documents, baseline : Snapshots, at : 0 .. 4, try : 1 .. 3, ver : Nat]
Sent == [pc : {"same", "sent", "saved", "conflict", "failed", "refused"},
         val : Documents, baseline : Snapshots, at : 0 .. 4, try : 1 .. 3, ver : Nat,
         base : Snapshots \cup {None}, doms : SUBSET Domains]

ASSUME NoneAssumption ==
  None \notin Documents \cup Snapshots \cup Entries \cup Reads

SaveInit ==
  /\ server = First /\ cloud = First /\ conflictBase = None
  /\ settings = Blank /\ outbox = None
  /\ draft = Blank /\ pending = FALSE /\ timer = None /\ chain = <<>> /\ read = None
  /\ save = [c \in Savers |-> NoSave]
  /\ made = 0 /\ theirs = LastOwn /\ mishaps = 0
  /\ stored = {} /\ told = {} /\ rested = [p \in Parts |-> 0]
----------------------------------------------------------------------------
(* Mutant: the remote side wins. *)
MergeRemoteWins(base, local, remote) ==
  [p \in Parts |-> IF remote[p] = base[p] THEN local[p] ELSE remote[p]]

(* Three-way merge, part by part: the side that changed wins, ours if both did. *)
Merge(base, local, remote) ==
  [p \in Parts |-> IF local[p] = base[p] THEN remote[p] ELSE local[p]]

(* Bounds what may come between. *)
Mishap == mishaps' = mishaps + 1 /\ mishaps < MaxMishaps

(* The snapshot in local storage is replaced by one that is not older. *)
Remember(snap) == cloud' = IF snap.ver < cloud.ver THEN cloud ELSE snap

Entry(val, base, at) == [val |-> val, base |-> base, at |-> at, stopped |-> FALSE]
WaitingAt == IF outbox = None THEN 0 ELSE outbox.at

(* The time of saving, which only tells entries apart. *)
NewTime ==
  Min((1 .. 4) \ ({WaitingAt} \cup {save[c].at : c \in {x \in Savers : save[x].pc # "idle"}}))

(* An edit made now reaches every save that ends after it: no push waits    *)
(* and no flush is under way with an older document, and a push under way   *)
(* was of an entry, which the edit replaces.                                *)
AtRest ==
  /\ chain = <<>>
  /\ save["flush"].pc = "idle"
  /\ save["push"].pc # "idle" => save["push"].at # 0

(* A push that may start does so before the admin tab handles the next      *)
(* event: it is the continuation of a promise.                              *)
Continuing == chain # <<>> /\ save["push"].pc = "idle"

(* commit: an edit goes to the draft, the settings and the outbox, which    *)
(* pairs it with the stored snapshot, and the push is armed anew, whatever  *)
(* is under way.                                                            *)
Edit(p) ==
  LET val == [draft EXCEPT ![p] = made + 1] IN
  /\ made < LastOwn /\ ~Continuing
  /\ made' = made + 1
  /\ rested' = [rested EXCEPT ![p] = IF AtRest THEN made + 1 ELSE 0]
  /\ draft' = val
  /\ settings' = val
  /\ outbox' = Entry(val, cloud, NewTime)
  /\ pending' = TRUE
  /\ timer' = val
  /\ UNCHANGED <<server, cloud, conflictBase, chain, save, read, theirs, mishaps, stored, told>>

(* Pushes run one after the other, each with the draft it was called with. *)
Chain(val) == chain' = Append(chain, val) /\ Len(chain) < MaxChain

TimerFires ==
  /\ timer # None /\ ~Continuing
  /\ Chain(timer)
  /\ timer' = None
  /\ UNCHANGED <<server, storage, draft, pending, save, read, counters, history>>

(* The browser is back online after a failure. *)
GoOnline ==
  /\ pending /\ ~Continuing
  /\ Mishap
  /\ Chain(draft)
  /\ UNCHANGED <<server, storage, draft, pending, timer, save, read, made, theirs, history>>

(* pushToServerExec: the exams come from the call, the rest from the tab as *)
(* it is now; the base is the newer of the entry's and the stored snapshot. *)
StartPush ==
  LET val == [p \in Parts |-> IF DomainOf[p] = "major" THEN Head(chain)[p] ELSE draft[p]]
      queuedVer == IF outbox = None THEN 0 ELSE outbox.base.ver IN
  /\ Continuing
  /\ chain' = Tail(chain)
  /\ save' = [save EXCEPT !["push"] =
       [pc |-> "ready", val |-> val, baseline |-> cloud, at |-> WaitingAt, try |-> 1,
        ver |-> Max({queuedVer, cloud.ver})]]
  /\ UNCHANGED <<server, storage, draft, pending, timer, read, counters, history>>

(* Mutant: the classroom tab leaves the entry to the admin tab that has it pending. *)
StartFlushUnlessPending ==
  /\ outbox # None /\ ~outbox.stopped /\ save["flush"].pc = "idle" /\ ~pending
  /\ save' = [save EXCEPT !["flush"] =
       [pc |-> "ready", val |-> outbox.val, baseline |-> outbox.base, at |-> outbox.at, try |-> 1,
        ver |-> outbox.base.ver]]
  /\ UNCHANGED <<server, storage, tab, counters, history>>

(* flushPendingExamSync: the classroom tab takes the entry as it is. *)
StartFlush ==
  /\ outbox # None /\ ~outbox.stopped /\ save["flush"].pc = "idle"
  /\ save' = [save EXCEPT !["flush"] =
       [pc |-> "ready", val |-> outbox.val, baseline |-> outbox.base, at |-> outbox.at, try |-> 1,
        ver |-> outbox.base.ver]]
  /\ UNCHANGED <<server, storage, tab, counters, history>>
----------------------------------------------------------------------------
(* saveBaseSnapshot: a snapshot of the named version, to compare with. *)
BaseOf(ver) ==
  CASE cloud.ver = ver -> cloud
    [] conflictBase # None /\ conflictBase.ver = ver -> conflictBase
    [] OTHER -> None

(* Only the domains that differ from the base are sent, all of them when    *)
(* there is no base.                                                        *)
Changed(val, base) ==
  {d \in Domains : base = None \/ \E p \in Parts : DomainOf[p] = d /\ val[p] # base.val[p]}

(* With nothing to send the save is reported done without a request. *)
Send(c) ==
  LET s == save[c]
      base == BaseOf(s.ver)
      doms == Changed(s.val, base) IN
  /\ s.pc = "ready"
  /\ save' = [save EXCEPT ![c] =
       [pc |-> IF doms = {} THEN "same" ELSE "sent", val |-> s.val, baseline |-> s.baseline,
        at |-> s.at, try |-> s.try, ver |-> s.ver, base |-> base, doms |-> doms]]
  /\ UNCHANGED <<server, storage, tab, counters, history>>

(* The server's check: the revision of each domain sent, or the version.    *)
Current(s) ==
  IF s.base = None THEN s.ver = server.ver
  ELSE \A d \in s.doms : s.base.rev[d] = server.rev[d]

Written(doms, val) ==
  [ver |-> server.ver + 1,
   rev |-> [d \in Domains |->
              IF d \in doms /\ \E p \in Parts : DomainOf[p] = d /\ val[p] # server.val[p]
              THEN server.rev[d] + 1 ELSE server.rev[d]],
   val |-> [p \in Parts |-> IF DomainOf[p] \in doms THEN val[p] ELSE server.val[p]]]

(* A conflict answers with the domains that moved, which the browser lays   *)
(* over its base, and with the version and all revisions of the row.        *)
RemoteOf(s) ==
  [server EXCEPT !.val =
     [p \in Parts |-> IF s.base = None \/ (DomainOf[p] \in s.doms /\ s.base.rev[DomainOf[p]] # server.rev[DomainOf[p]])
                      THEN server.val[p] ELSE s.base.val[p]]]

Serve(c) ==
  LET s == save[c] IN
  /\ s.pc = "sent"
  /\ IF Current(s)
     THEN /\ server' = Written(s.doms, s.val)
          /\ stored' = stored \cup OwnIn(server'.val)
          /\ save' = [save EXCEPT ![c] = [s EXCEPT !.pc = "saved", !.ver = server'.ver, !.base = server']]
     ELSE /\ save' = [save EXCEPT ![c] = [s EXCEPT !.pc = "conflict", !.base = RemoteOf(s)]]
          /\ UNCHANGED <<server, stored>>
  /\ UNCHANGED <<storage, tab, counters, told, rested>>

(* The request or its answer is lost, or the server refuses it for good. *)
Fails(c) ==
  /\ save[c].pc \in {"sent", "saved", "conflict"}
  /\ Mishap
  /\ \E how \in IF save[c].pc = "sent" THEN {"failed", "refused"} ELSE {"failed"} :
       save' = [save EXCEPT ![c].pc = how]
  /\ UNCHANGED <<server, storage, tab, made, theirs, history>>

(* Mutant: the browser counts the new revisions itself. *)
AbsorbCounted(s) ==
  CASE s.pc = "saved" ->
         /\ Remember([ver |-> s.ver, val |-> s.val,
                      rev |-> [d \in Domains |-> IF d \in s.doms THEN cloud.rev[d] + 1 ELSE cloud.rev[d]]])
         /\ conflictBase' = None
    [] s.pc = "conflict" -> conflictBase' = s.base /\ UNCHANGED cloud
    [] OTHER -> UNCHANGED <<cloud, conflictBase>>

(* What every save leaves in local storage: after a success the snapshot of *)
(* what was sent, with the new revisions of the domains it sent only; after *)
(* a conflict the server's document.                                        *)
Absorb(s) ==
  CASE s.pc = "saved" ->
         /\ Remember([ver |-> s.ver, val |-> s.val,
                      rev |-> [d \in Domains |-> IF d \in s.doms THEN s.base.rev[d] ELSE cloud.rev[d]]])
         /\ conflictBase' = None
    [] s.pc = "conflict" -> conflictBase' = s.base /\ UNCHANGED cloud
    [] OTHER -> UNCHANGED <<cloud, conflictBase>>

Reported(s) == told' = told \cup OwnIn(s.val)

(* The entry is removed only if it is the one that was taken up. *)
ClearEntry(at) == outbox' = IF at = 0 \/ WaitingAt = at THEN None ELSE outbox
----------------------------------------------------------------------------
(* What pushToServerExec does with the answer. *)
Stale(s) == s.at # 0 /\ WaitingAt # s.at

PushStale ==
  LET s == save["push"] IN
  /\ s.pc \in {"same", "saved", "conflict", "failed", "refused"} /\ Stale(s)
  /\ Absorb(s)
  /\ save' = [save EXCEPT !["push"] = NoSave]
  /\ UNCHANGED <<server, settings, tab, outbox, counters, history>>

PushSaved ==
  LET s == save["push"] IN
  /\ s.pc \in {"same", "saved"} /\ ~Stale(s)
  /\ Absorb(s) /\ Reported(s) /\ ClearEntry(s.at)
  /\ pending' = FALSE
  /\ settings' = s.val
  /\ save' = [save EXCEPT !["push"] = NoSave]
  /\ UNCHANGED <<server, draft, timer, chain, read, counters, stored, rested>>

(* The merged document is queued, shown (its exams) and pushed again, at    *)
(* most three times in all.                                                 *)
PushConflict ==
  LET s == save["push"]
      merged == Merge(s.baseline.val, s.val, s.base.val) IN
  /\ s.pc = "conflict" /\ ~Stale(s)
  /\ Absorb(s)
  /\ outbox' = Entry(merged, s.base, NewTime)
  /\ settings' = merged
  /\ draft' = merged
  /\ pending' = TRUE
  /\ save' = [save EXCEPT !["push"] =
       IF s.try = 3 THEN NoSave
       ELSE [pc |-> "ready", val |-> merged, baseline |-> s.base, at |-> NewTime, try |-> s.try + 1,
             ver |-> s.base.ver]]
  /\ UNCHANGED <<server, timer, chain, read, counters, history>>

PushFailed ==
  LET s == save["push"] IN
  /\ s.pc \in {"failed", "refused"} /\ ~Stale(s)
  /\ pending' = TRUE
  /\ save' = [save EXCEPT !["push"] = NoSave]
  /\ UNCHANGED <<server, storage, draft, timer, chain, read, counters, history>>
----------------------------------------------------------------------------
(* Mutant: any newer document counts as the same save. *)
GhostAlways(s) == s.pc = "conflict" /\ s.try = 1 /\ s.base.ver > s.baseline.ver

(* What flushPendingExamSync, and the refresh that called it, do with the   *)
(* answer.  A conflict whose document is the one that was sent is the same  *)
(* save once more, its first answer lost.                                   *)
Ghost(s) == s.pc = "conflict" /\ s.try = 1 /\ s.base.ver > s.baseline.ver /\ s.val = s.base.val

FlushSaved ==
  LET s == save["flush"] IN
  /\ s.pc \in {"same", "saved"} \/ Ghost(s)
  /\ Absorb(s) /\ Reported(s) /\ ClearEntry(s.at)
  /\ settings' = s.val
  /\ save' = [save EXCEPT !["flush"] = NoSave]
  /\ UNCHANGED <<server, tab, counters, stored, rested>>

FlushConflict ==
  LET s == save["flush"]
      merged == Merge(s.baseline.val, s.val, s.base.val) IN
  /\ s.pc = "conflict" /\ s.try = 1 /\ ~Ghost(s)
  /\ Absorb(s)
  /\ outbox' = Entry(merged, s.base, NewTime)
  /\ save' = [save EXCEPT !["flush"] =
       [pc |-> "ready", val |-> merged, baseline |-> s.base, at |-> NewTime, try |-> 2, ver |-> s.base.ver]]
  /\ UNCHANGED <<server, settings, tab, counters, history>>

(* markPendingFailure queues the entry it took up, whatever is there now; a *)
(* refused one waits for the user.                                          *)
FlushFailed ==
  LET s == save["flush"] IN
  /\ s.pc \in {"failed", "refused"} \/ (s.pc = "conflict" /\ s.try = 2)
  /\ Absorb(s)
  /\ outbox' = [Entry(s.val, s.baseline, s.at) EXCEPT !.stopped = s.pc = "refused"]
  /\ save' = [save EXCEPT !["flush"] = NoSave]
  /\ UNCHANGED <<server, settings, tab, counters, history>>
----------------------------------------------------------------------------
(* The admin tab reads the snapshot when it starts and for its overview:    *)
(* the answer has the domains whose revision is not the one it asked with.  *)
Asked(kind) == [kind |-> kind, since |-> cloud.rev, snap |-> server]

ReadOverview ==
  /\ read = None /\ ~Continuing
  /\ Mishap
  /\ read' = Asked("overview")
  /\ UNCHANGED <<server, storage, draft, pending, timer, chain, save, made, theirs, history>>

(* A reload keeps local storage only. *)
Reload ==
  /\ ~Continuing
  /\ Mishap
  /\ draft' = settings /\ pending' = FALSE
  /\ timer' = None /\ chain' = <<>>
  /\ save' = [save EXCEPT !["push"] = NoSave]
  /\ read' = Asked("boot")
  /\ UNCHANGED <<server, storage, made, theirs, history>>

(* The read arrives: it is stored; at the start of the tab it is shown too, *)
(* unless an entry waits, which is pushed with the settings' document.      *)
Arrive ==
  LET fresh == [read.snap EXCEPT !.val = [p \in Parts |->
                  IF read.since[DomainOf[p]] = read.snap.rev[DomainOf[p]] THEN cloud.val[p] ELSE read.snap.val[p]]] IN
  /\ read # None /\ ~Continuing
  /\ Remember(fresh)
  /\ read' = None
  /\ IF read.kind = "boot" /\ outbox = None
     THEN /\ settings' = fresh.val /\ draft' = fresh.val
          /\ pending' = FALSE
          /\ UNCHANGED chain
     ELSE /\ IF read.kind = "boot" THEN Chain(settings) /\ pending' = TRUE ELSE UNCHANGED <<chain, pending>>
          /\ UNCHANGED <<settings, draft>>
  /\ UNCHANGED <<server, conflictBase, outbox, timer, save, counters, history>>

(* The classroom tab is closed with its save under way. *)
CloseClassroom ==
  /\ save["flush"].pc # "idle"
  /\ Mishap
  /\ save' = [save EXCEPT !["flush"] = NoSave]
  /\ UNCHANGED <<server, storage, tab, made, theirs, history>>

(* Somebody else changes a part from the document as it is. *)
TheyEdit(p) ==
  /\ theirs < LastTheirs
  /\ theirs' = theirs + 1
  /\ server' = Written({DomainOf[p]}, [server.val EXCEPT ![p] = theirs'])
  /\ UNCHANGED <<storage, tab, save, made, mishaps, history>>
----------------------------------------------------------------------------
SaverStep(c) == Send(c) \/ Serve(c)
PushStep == StartPush \/ SaverStep("push") \/ PushStale \/ PushSaved \/ PushConflict \/ PushFailed
FlushStep == SaverStep("flush") \/ FlushSaved \/ FlushConflict \/ FlushFailed

SaveNext ==
  \/ \E p \in OwnParts : Edit(p)
  \/ \E p \in Parts : TheyEdit(p)
  \/ TimerFires \/ GoOnline
  \/ PushStep \/ StartFlush \/ FlushStep
  \/ \E c \in Savers : Fails(c)
  \/ ReadOverview \/ Arrive
  \/ Reload \/ CloseClassroom

(* Timers fire, requests are answered, and an open classroom tab flushes    *)
(* every time it polls.                                                     *)
SaveFairness ==
  /\ WF_saveVars(TimerFires) /\ WF_saveVars(PushStep) /\ WF_saveVars(FlushStep)
  /\ WF_saveVars(StartFlush) /\ WF_saveVars(Arrive)

SaveSpec == SaveInit /\ [][SaveNext]_saveVars /\ SaveFairness
----------------------------------------------------------------------------
(* The document, its copies, the entry and the saves keep their shape; no   *)
(* more pushes wait than the bound; the stored snapshot is never ahead.     *)
SaveTypeOK ==
  /\ server \in Snapshots /\ cloud \in Snapshots
  /\ conflictBase \in Snapshots \cup {None}
  /\ settings \in Documents /\ draft \in Documents
  /\ outbox \in Entries \cup {None}
  /\ pending \in BOOLEAN
  /\ timer \in Documents \cup {None}
  /\ chain \in Seq(Documents) /\ Len(chain) <= MaxChain
  /\ read \in Reads \cup {None}
  /\ save \in [Savers -> {NoSave} \cup Readied \cup Sent]
  /\ made \in 0 .. LastOwn /\ theirs \in LastOwn .. LastTheirs /\ mishaps \in Nat
  /\ stored \subseteq Own /\ told \subseteq Own
  /\ rested \in [Parts -> 0 .. LastOwn]
  /\ cloud.ver <= server.ver /\ \A d \in Domains : cloud.rev[d] <= server.rev[d]

(* "Saved" is never reported of an edit that the server has not stored: not *)
(* by a save that was skipped because nothing differs, nor by a conflict    *)
(* taken for the lost answer of the same save.                              *)
ReportedWasStored == told \subseteq stored

(* An edit made at rest stays in the outbox until the server has stored it  *)
(* or the user edits its part again: no merge, failed save, reload, lost    *)
(* answer or save of another edit takes it out.                             *)
RestedEditsAreKept ==
  \A p \in Parts :
    rested[p] \in Own \ stored => outbox # None /\ outbox.val[p] = rested[p]

(* The latest edit of each part leaves the browser only by being stored or  *)
(* by a newer edit of the part, whenever it was made.                       *)
Held == {settings, draft} \cup Range(chain)
          \cup (IF outbox = None THEN {} ELSE {outbox.val}) \cup ({timer} \ {None})
Promised == INSTANCE OutboxPromise WITH
  kept <- [p \in Parts |-> LET last == Max({0} \cup ({v[p] : v \in Held} \cap Own))
                           IN IF last \in stored THEN 0 ELSE last]
EditsAreKept == Promised!Promise

(* The stored snapshot has the version of the server's document and an old  *)
(* revision: a save of that domain names the old revision, and so does the  *)
(* retry after the conflict, until the snapshot is read again.              *)
Outdated == cloud.ver = server.ver /\ cloud.rev # server.rev

(* An edit made at rest reaches the server, unless the user edits its part  *)
(* again, the server refused the entry for good, or the snapshot is         *)
(* outdated.                                                                *)
EditsArrive ==
  \A e \in Own :
    (e \in OwnIn(rested)) ~>
      (e \in stored \/ e \notin OwnIn(rested) \/ (outbox # None /\ outbox.stopped) \/ Outdated)

(* A save of this browser changes a part only to a value its user gave it:  *)
(* it never puts back what others replaced.                                 *)
SavesCarryOwnEdits ==
  [][theirs' = theirs => \A p \in Parts : server'.val[p] # server.val[p] => server'.val[p] \in Own]_saveVars
=============================================================================
