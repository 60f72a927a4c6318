---------------------------- MODULE SnapshotReads ----------------------------
(***************************************************************************)
(* How the screens of one browser keep up with the exam document.  Tabs    *)
(* share local storage: the snapshot last read, the ETag of the answer it  *)
(* came with, and the settings, from which the screens show.  A poll asks  *)
(* with the ETag and with the revisions of the snapshot and is answered    *)
(* "not modified" or with the domains that changed, which the browser lays *)
(* over its snapshot.  A heartbeat, or the focus, forces a full read.      *)
(*                                                                         *)
(* Other people write the document; a field of it is known by the version  *)
(* that wrote it, which also stands for the revision of a domain.          *)
(***************************************************************************)
EXTENDS Naturals, Sequences

CONSTANTS
  Revised,        \* fields with a revision (EXAM_REVISION_DOMAINS)
  Rest,           \* the fields without one, always sent
  Screens,        \* tabs that show the exams (useExamSync)
  Panels,         \* readers that only store what they read
  MaxVersion,
  MaxReadFaults   \* requests that fail, tabs that are closed

ASSUME ReadsAssumption ==
  /\ Rest \notin Revised
  /\ MaxVersion \in Nat \ {0} /\ MaxReadFaults \in Nat

VARIABLES
  docs,         \* the document at each version; the last is that of exam_data
  kept,         \* CLOUD_SNAPSHOT_KEY; version 0 if there is none
  etag,         \* CLOUD_ETAG_KEY; 0 if there is none
  shown,        \* the document in the settings
  look,         \* the read each tab has under way
  again,        \* queuedForceRefresh
  cut,          \* history: an answer broke off after its headers
  readFaults

readVars == <<docs, kept, etag, shown, look, again, cut, readFaults>>

Readers == Screens \cup Panels
Fields == Revised \cup {Rest}
Now == Len(docs)
Versions == 0..MaxVersion
Contents == [Fields -> Versions]
Unsent == [d \in Revised |-> MaxVersion + 1]
Revisions(n) == [d \in Revised |-> docs[n][d]]

Nothing == [f \in Fields |-> 0]
NoLook == [pc |-> "idle", since |-> Unsent, ver |-> 0, row |-> 1]

Looks == [pc : {"idle", "row", "headers", "unchanged", "body"},
          since : [Revised -> 0..(MaxVersion + 1)], ver : 0..Now, row : 1..Now]

ReadTypeOK ==
  /\ docs \in Seq(Contents) /\ Now \in 1..MaxVersion
  /\ kept \in [ver : 0..Now, rev : [Revised -> Versions], val : Contents]
  /\ etag \in 0..Now
  /\ shown \in [ver : 0..Now, val : Contents]
  /\ look \in [Readers -> Looks]
  /\ again \in [Screens -> BOOLEAN]
  /\ cut \in BOOLEAN
  /\ readFaults \in 0..MaxReadFaults

ReadInit ==
  /\ docs = <<[f \in Fields |-> 1]>>
  /\ kept = [ver |-> 0, rev |-> [d \in Revised |-> 0], val |-> Nothing]
  /\ etag = 0
  /\ shown = [ver |-> 0, val |-> Nothing]
  /\ look = [r \in Readers |-> NoLook]
  /\ again = [s \in Screens |-> FALSE]
  /\ cut = FALSE
  /\ readFaults = 0
----------------------------------------------------------------------------
(* fetchExamsOnce sends its request and handleExamDataGet reads the         *)
(* version, which decides about "not modified" and becomes the ETag.  A     *)
(* forced read names neither ETag nor revisions.  What happens on the way   *)
(* to the server may as well happen before the row is read.                 *)
Unconditional == [pc |-> "row", since |-> Unsent, ver |-> Now, row |-> 1]

Asking(fresh) ==
  CASE fresh -> Unconditional
    [] ~fresh /\ etag = Now -> [NoLook EXCEPT !.pc = "unchanged"]
    [] OTHER -> [Unconditional EXCEPT !.since = IF kept.ver = 0 THEN Unsent ELSE kept.rev]

Ask(r, fresh) ==
  /\ look[r].pc = "idle"
  /\ look' = [look EXCEPT ![r] = Asking(fresh)]

(* The timer of useExamSync, or the first pull of a tab. *)
PollSnapshot(s) == Ask(s, FALSE) /\ UNCHANGED <<docs, kept, etag, shown, again, cut, readFaults>>

(* The overview and its like. *)
PanelReads(p) == Ask(p, FALSE) /\ UNCHANGED <<docs, kept, etag, shown, again, cut, readFaults>>

(* refresh(true): queued while another read is under way. *)
Forced(s) ==
  \/ Ask(s, TRUE) /\ UNCHANGED again
  \/ look[s].pc # "idle" /\ again' = [again EXCEPT ![s] = TRUE] /\ UNCHANGED look

(* A heartbeat tells a version not heard of before, the tab is looked at    *)
(* again, or the browser is back online: any of it at any time.             *)
ForceRefresh(s) == Forced(s) /\ UNCHANGED <<docs, kept, etag, shown, cut, readFaults>>

(* The end of refresh starts the one that was queued. *)
RefreshAgain(s) ==
  /\ again[s] /\ Ask(s, TRUE)
  /\ again' = [again EXCEPT ![s] = FALSE]
  /\ UNCHANGED <<docs, kept, etag, shown, cut, readFaults>>
----------------------------------------------------------------------------
Step(r, new) ==
  /\ look' = [look EXCEPT ![r] = new]
  /\ UNCHANGED <<docs, again>>

(* The server reads the row, after the version. *)
ReadRow(r) ==
  /\ look[r].pc = "row"
  /\ Step(r, [look[r] EXCEPT !.row = Now, !.pc = "headers"])
  /\ UNCHANGED <<kept, etag, shown, cut, readFaults>>

(* The headers arrive and the ETag is stored; the body is still to come. *)
StoreEtag(r) ==
  /\ look[r].pc = "headers"
  /\ etag' = look[r].ver
  /\ Step(r, [look[r] EXCEPT !.pc = "body", !.ver = 0])
  /\ UNCHANGED <<kept, shown, cut, readFaults>>

(* Only a screen shows what was read, and only if it is newer. *)
Apply(r, snap) ==
  shown' = IF r \in Screens /\ snap.ver > shown.ver
           THEN [ver |-> snap.ver, val |-> snap.val] ELSE shown

(* Mutant: "not modified" means that there is nothing to show. *)
NotModifiedIsNoNews(r) ==
  /\ look[r].pc = "unchanged"
  /\ Step(r, IF kept.ver > 0 THEN NoLook ELSE Unconditional)
  /\ UNCHANGED <<kept, etag, shown, cut, readFaults>>

(* A 304 stands for the stored snapshot.  Without one everything is read. *)
NotModified(r) ==
  /\ look[r].pc = "unchanged"
  /\ IF kept.ver > 0
     THEN Apply(r, kept) /\ Step(r, NoLook)
     ELSE Step(r, Unconditional) /\ UNCHANGED shown
  /\ UNCHANGED <<kept, etag, cut, readFaults>>

(* mergeExamSnapshotPartial over the snapshot of this moment: the domains   *)
(* whose revision is the one the read asked with were not sent.             *)
Merged(r) ==
  LET n == look[r].row IN
  [ver |-> n, rev |-> Revisions(n),
   val |-> [f \in Fields |-> IF f \in Revised /\ look[r].since[f] = docs[n][f]
                             THEN kept.val[f] ELSE docs[n][f]]]

(* Mutant: the last answer wins. *)
RememberLast(snap) == kept' = snap

(* rememberCloudSnapshot: unless a newer one has been stored meanwhile. *)
RememberSnapshot(snap) == kept' = IF snap.ver < kept.ver THEN kept ELSE snap

ReadBody(r) ==
  /\ look[r].pc = "body"
  /\ RememberSnapshot(Merged(r))
  /\ Apply(r, Merged(r))
  /\ Step(r, NoLook)
  /\ UNCHANGED <<etag, cut, readFaults>>

ReadEnds(r) ==
  /\ readFaults < MaxReadFaults
  /\ readFaults' = readFaults + 1
  /\ cut' = (cut \/ look[r].pc = "body")
  /\ look' = [look EXCEPT ![r] = NoLook]
  /\ UNCHANGED <<docs, kept, etag, shown>>

(* The request times out or breaks off, at the latest within the body. *)
ReadFails(r) == look[r].pc # "idle" /\ ReadEnds(r) /\ UNCHANGED again

(* A tab is closed and opened again, also in the middle of a read. *)
ReopenScreen(s) == ReadEnds(s) /\ again' = [again EXCEPT ![s] = FALSE]

(* Somebody writes a field of the document. *)
WriteDocument(f) ==
  /\ Now < MaxVersion
  /\ docs' = Append(docs, [docs[Now] EXCEPT ![f] = Now + 1])
  /\ UNCHANGED <<kept, etag, shown, look, again, cut, readFaults>>

ReadStep(r) ==
  \/ ReadRow(r) \/ StoreEtag(r) \/ NotModified(r) \/ ReadBody(r)
  \/ r \in Screens /\ RefreshAgain(r)

ReadNext ==
  \/ \E s \in Screens : PollSnapshot(s) \/ ForceRefresh(s) \/ ReopenScreen(s)
  \/ \E p \in Panels : PanelReads(p)
  \/ \E r \in Readers : ReadStep(r) \/ ReadFails(r)
  \/ \E f \in Fields : WriteDocument(f)

ReadSpec == ReadInit /\ [][ReadNext]_readVars
----------------------------------------------------------------------------
(* The stored snapshot is one that the server once had, though it is put    *)
(* together from partial answers, each laid over what another tab may have  *)
(* stored since it was asked for.                                           *)
KeptIsWhole ==
  kept.ver > 0 => kept.val = docs[kept.ver] /\ kept.rev = Revisions(kept.ver)

(* An answer that broke off after its headers left the ETag of a document   *)
(* the browser does not have: every poll is told "not modified" until the   *)
(* next write or a forced read.                                             *)
EtagAhead == cut /\ etag = Now /\ kept.ver < etag

(* Once nobody writes any more, the screens come to show the last document  *)
(* by their polls alone, without heartbeats, whatever failed before and     *)
(* whichever tab read it; EtagAhead is the exception.                       *)
ScreenCatchesUp == <>[](shown.val = docs[Now] \/ EtagAhead)
=============================================================================
