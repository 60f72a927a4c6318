------------------------- MODULE SaveProtocolProofs -------------------------
(***************************************************************************)
(* Saves of the exam document, for any document, any number of edits, any  *)
(* chain of pushes and any number of requests that go wrong.               *)
(*                                                                         *)
(* The first part is about the truth of what the browser believes.  Every  *)
(* copy of the stored document, the snapshot, the bases and baselines of   *)
(* saves and of the outbox entry, was the stored document once: its edits  *)
(* are stored and its revisions are not ahead.  So an answer that says     *)
(* "saved" is only about edits that are stored, the ghost of a lost answer *)
(* included, and SavedWasStored follows.                                   *)
(*                                                                         *)
(* The second part is about an edit made at rest.  Until it is stored, or  *)
(* its part is edited again, it is in every document of the browser that   *)
(* may still be saved, merged or queued: the draft, the settings, the      *)
(* outbox entry, timer, waiting pushes and saves.  The one exception is a  *)
(* push that began before the edit: its entry is no longer the one that    *)
(* waits, and no save under way can bring that entry back, so its answer   *)
(* is put aside.                                                           *)
(***************************************************************************)
EXTENDS SaveProtocol, SequenceTheorems, TLAPS

(* Edits of the user in a document were made by now. *)
Known(last) == {v \in Documents : OwnIn(v) \subseteq 1 .. last}

(* A copy of the stored document: its edits are stored and it is not ahead. *)
Copied(x, row, done) ==
  /\ x \in Snapshots /\ OwnIn(x.val) \subseteq done
  /\ x.ver <= row.ver /\ \A d \in Domains : x.rev[d] <= row.rev[d]

(* What the answer to a save says is true: "saved" of its edits, nothing to *)
(* send of a document that is stored, and what was not sent of the base.    *)
Answered(s, row, done) ==
  /\ s.base # None => Copied(s.base, row, done)
  /\ s.pc \in {"same", "saved"} => OwnIn(s.val) \subseteq done
  /\ s.pc = "saved" => s.ver <= row.ver /\ s.base # None
  /\ s.pc = "conflict" => s.base # None
  /\ s.pc = "sent" =>
       \A p \in Parts : DomainOf[p] \notin s.doms => s.base # None /\ s.val[p] = s.base.val[p]

SaveIsTrue(s, row, done, last) ==
  \/ s = NoSave
  \/ /\ s \in Readied \cup Sent
     /\ s.val \in Known(last) /\ Copied(s.baseline, row, done)
     /\ s \in Sent => Answered(s, row, done)

EntryIsTrue(e, row, done, last) ==
  e = None \/ (e \in Entries /\ e.val \in Known(last) /\ Copied(e.base, row, done))

ReadIsTrue(r, row, done) ==
  r = None \/ (r \in Reads /\ Copied(r.snap, row, done))

Counted ==
  /\ made \in 0 .. LastOwn /\ theirs \in LastOwn .. LastTheirs /\ mishaps \in Nat
  /\ stored \subseteq 1 .. made /\ told \subseteq stored
  /\ rested \in [Parts -> 0 .. LastOwn]

StorageIsTrue ==
  /\ Copied(cloud, server, stored)
  /\ conflictBase = None \/ Copied(conflictBase, server, stored)
  /\ settings \in Known(made)
  /\ EntryIsTrue(outbox, server, stored, made)

TabIsTrue ==
  /\ draft \in Known(made) /\ pending \in BOOLEAN
  /\ timer = None \/ timer \in Known(made)
  /\ chain \in Seq(Known(made)) /\ Len(chain) <= MaxChain
  /\ ReadIsTrue(read, server, stored)

SavesAreTrue ==
  /\ save \in [Savers -> {NoSave} \cup Readied \cup Sent]
  /\ \A c \in Savers : SaveIsTrue(save[c], server, stored, made)
  /\ save["flush"] # NoSave => save["flush"].at # 0

SaveIInv ==
  /\ Counted /\ Copied(server, server, stored)
  /\ StorageIsTrue /\ TabIsTrue /\ SavesAreTrue

----------------------------------------------------------------------------
LEMMA SaveBounds ==
  /\ LastOwn \in Nat /\ LastTheirs \in Nat /\ LastOwn <= LastTheirs /\ MaxChain \in Nat
  /\ OwnParts \subseteq Parts
  BY BoundsAssumption

LEMMA NoneIsNothing ==
  /\ None \notin Documents /\ None \notin Snapshots
  /\ None \notin Entries /\ None \notin Reads
  BY NoneAssumption

LEMMA KnownGrows ==
  ASSUME NEW last \in Nat, NEW next \in Nat, last <= next
  PROVE  Known(last) \subseteq Known(next)
  BY DEF Known

LEMMA CopiedGrows ==
  ASSUME NEW x, NEW row \in Snapshots, NEW done, NEW row2 \in Snapshots, NEW done2,
         Copied(x, row, done), done \subseteq done2,
         row.ver <= row2.ver, \A d \in Domains : row.rev[d] <= row2.rev[d]
  PROVE  Copied(x, row2, done2)
<1>1. /\ x.ver \in Nat /\ row.ver \in Nat /\ row2.ver \in Nat
      /\ x.rev \in [Domains -> Nat] /\ row.rev \in [Domains -> Nat] /\ row2.rev \in [Domains -> Nat]
  BY DEF Copied, Snapshots
<1> QED
  BY <1>1 DEF Copied

LEMMA SaveGrows ==
  ASSUME NEW s, NEW row \in Snapshots, NEW done, NEW last \in Nat,
         NEW row2 \in Snapshots, NEW done2, NEW last2 \in Nat,
         SaveIsTrue(s, row, done, last), done \subseteq done2, last <= last2,
         row.ver <= row2.ver, \A d \in Domains : row.rev[d] <= row2.rev[d]
  PROVE  SaveIsTrue(s, row2, done2, last2)
<1>1. CASE s = NoSave
  BY <1>1 DEF SaveIsTrue
<1>2. CASE s # NoSave
  <2>1. /\ s \in Readied \cup Sent
        /\ s.val \in Known(last) /\ Copied(s.baseline, row, done)
        /\ s \in Sent => Answered(s, row, done)
    BY <1>2 DEF SaveIsTrue
  <2>2. s.val \in Known(last2) /\ Copied(s.baseline, row2, done2)
    BY <2>1, KnownGrows, CopiedGrows
  <2>3. ASSUME s \in Sent PROVE Answered(s, row2, done2)
    <3>1. s.base # None => Copied(s.base, row2, done2)
      BY <2>1, <2>3, CopiedGrows DEF Answered
    <3>2. s.pc = "saved" => s.ver <= row2.ver
      <4>1. s.ver \in Nat /\ row.ver \in Nat /\ row2.ver \in Nat
        BY <2>3 DEF Sent, Snapshots
      <4> QED
        BY <2>1, <2>3, <4>1 DEF Answered
    <3> QED
      BY <2>1, <2>3, <3>1, <3>2 DEF Answered
  <2> QED
    BY <2>1, <2>2, <2>3 DEF SaveIsTrue
<1> QED
  BY <1>1, <1>2

LEMMA EntryGrows ==
  ASSUME NEW e, NEW row \in Snapshots, NEW done, NEW last \in Nat,
         NEW row2 \in Snapshots, NEW done2, NEW last2 \in Nat,
         EntryIsTrue(e, row, done, last), done \subseteq done2, last <= last2,
         row.ver <= row2.ver, \A d \in Domains : row.rev[d] <= row2.rev[d]
  PROVE  EntryIsTrue(e, row2, done2, last2)
  BY KnownGrows, CopiedGrows DEF EntryIsTrue

LEMMA ReadGrows ==
  ASSUME NEW r, NEW row \in Snapshots, NEW done, NEW row2 \in Snapshots, NEW done2,
         ReadIsTrue(r, row, done), done \subseteq done2,
         row.ver <= row2.ver, \A d \in Domains : row.rev[d] <= row2.rev[d]
  PROVE  ReadIsTrue(r, row2, done2)
  BY CopiedGrows DEF ReadIsTrue

LEMMA FourValues == 1 .. 4 = {1, 2, 3, 4}
  OBVIOUS

LEMMA MinInRange ==
  ASSUME NEW S \in SUBSET (1 .. 4), S # {}
  PROVE  Min(S) \in S
<1>0. S \subseteq {1, 2, 3, 4}
  BY FourValues
<1>1. \E x \in S : \A y \in S : x <= y
  <2>1. CASE 1 \in S
    BY <1>0, <2>1
  <2>2. CASE 1 \notin S /\ 2 \in S
    BY <1>0, <2>2
  <2>3. CASE 1 \notin S /\ 2 \notin S /\ 3 \in S
    BY <1>0, <2>3
  <2>4. CASE 1 \notin S /\ 2 \notin S /\ 3 \notin S
    <3>1. S = {4}
      BY <1>0, <2>4
    <3> QED
      BY <3>1
  <2> QED
    BY <2>1, <2>2, <2>3, <2>4
<1> QED
  BY <1>1, Zenon DEF Min

LEMMA MaxOfTwo ==
  ASSUME NEW a \in Nat, NEW b \in Nat
  PROVE  Max({a, b}) \in {a, b}
<1>1. \E x \in {a, b} : \A y \in {a, b} : x >= y
  OBVIOUS
<1> QED
  BY <1>1, Zenon DEF Max

(* Four times tell three entries apart. *)
LEMMA NewTimeIsNew ==
  /\ NewTime \in 1 .. 4
  /\ \A c \in Savers : save[c].pc # "idle" => NewTime # save[c].at
<1> DEFINE T == {WaitingAt} \cup {save[c].at : c \in {x \in Savers : save[x].pc # "idle"}}
<1>1. T \subseteq {WaitingAt, save["push"].at, save["flush"].at}
  BY DEF Savers
<1>2. (1 .. 4) \ T # {}
  <2> HIDE DEF T
  <2>1. \A a, b, c : {1, 2, 3, 4} \ {a, b, c} # {}
    OBVIOUS
  <2> QED
    BY <1>1, <2>1, FourValues
<1>3. Min((1 .. 4) \ T) \in (1 .. 4) \ T
  <2> HIDE DEF T
  <2> QED
    BY <1>2, MinInRange
<1>4. NewTime = Min((1 .. 4) \ T)
  BY DEF NewTime
<1> QED
  BY <1>3, <1>4

----------------------------------------------------------------------------
LEMMA SaveInitInvariant == SaveInit => SaveIInv
<1> SUFFICES ASSUME SaveInit PROVE SaveIInv
  OBVIOUS
<1>1. Blank \in Documents /\ OwnIn(Blank) = {}
  BY SaveBounds DEF Blank, Documents, OwnIn, Own
<1>2. First \in Snapshots /\ First.val = Blank
  BY <1>1 DEF First, Snapshots
<1>3. \A last : Blank \in Known(last)
  BY <1>1 DEF Known
<1>4. Copied(First, First, {})
  <2>1. First.ver \in Nat /\ First.rev \in [Domains -> Nat]
    BY <1>2 DEF Snapshots
  <2> QED
    BY <1>1, <1>2, <2>1 DEF Copied
<1>5. Counted
  BY SaveBounds DEF Counted, SaveInit
<1>6. StorageIsTrue
  BY <1>3, <1>4 DEF StorageIsTrue, SaveInit, EntryIsTrue
<1>7. TabIsTrue
  <2>1. <<>> \in Seq(Known(made)) /\ Len(<<>>) <= MaxChain
    BY SaveBounds
  <2>2. pending \in BOOLEAN
    BY Zenon DEF SaveInit
  <2>3. draft \in Known(made) /\ timer = None /\ chain = <<>> /\ read = None
    BY <1>3 DEF SaveInit
  <2> QED
    BY <2>1, <2>2, <2>3 DEF TabIsTrue, ReadIsTrue
<1>8. SavesAreTrue
  BY DEF SavesAreTrue, SaveInit, SaveIsTrue, Savers
<1> QED
  BY <1>4, <1>5, <1>6, <1>7, <1>8 DEF SaveIInv, SaveInit

LEMMA SaveStutter == SaveIInv /\ UNCHANGED saveVars => SaveIInv'
<1> SUFFICES ASSUME SaveIInv, UNCHANGED saveVars PROVE SaveIInv'
  OBVIOUS
<1>1. /\ server' = server /\ cloud' = cloud /\ conflictBase' = conflictBase
      /\ settings' = settings /\ outbox' = outbox /\ draft' = draft /\ pending' = pending
      /\ timer' = timer /\ chain' = chain /\ read' = read /\ save' = save
      /\ made' = made /\ theirs' = theirs /\ mishaps' = mishaps
      /\ stored' = stored /\ told' = told /\ rested' = rested
  BY DEF saveVars, storage, tab, counters, history
<1>2. Counted' /\ Copied(server, server, stored)'
  BY <1>1 DEF SaveIInv, Counted
<1>3. StorageIsTrue' /\ TabIsTrue'
  BY <1>1 DEF SaveIInv, StorageIsTrue, TabIsTrue
<1>4. SavesAreTrue'
  BY <1>1 DEF SaveIInv, SavesAreTrue
<1> QED
  BY <1>2, <1>3, <1>4 DEF SaveIInv

(* What a step that leaves the server alone must show. *)
LEMMA LocalStep ==
  ASSUME SaveIInv, server' = server, stored' = stored
  PROVE  /\ Counted' /\ StorageIsTrue' /\ TabIsTrue' /\ SavesAreTrue' => SaveIInv'
  BY DEF SaveIInv

(* Edits and entries of the user. *)
LEMMA EntryMade ==
  ASSUME SaveIInv, NEW v \in Known(made), NEW x, Copied(x, server, stored), NEW t \in 1 .. 4
  PROVE  EntryIsTrue(Entry(v, x, t), server, stored, made) /\ Entry(v, x, t) # None
<1>1. v \in Documents /\ x \in Snapshots
  BY DEF Known, Copied
<1>2. Entry(v, x, t) \in Entries
  BY <1>1 DEF Entry, Entries
<1> QED
  BY <1>2, NoneIsNothing DEF EntryIsTrue, Entry

LEMMA EditInvariant ==
  ASSUME SaveIInv, NEW p \in OwnParts, Edit(p)
  PROVE  SaveIInv'
<1> DEFINE val == [draft EXCEPT ![p] = made + 1]
<1>1. /\ made < LastOwn /\ made' = made + 1 /\ draft' = val /\ settings' = val
      /\ outbox' = Entry(val, cloud, NewTime) /\ pending' = TRUE /\ timer' = val
      /\ server' = server /\ cloud' = cloud /\ conflictBase' = conflictBase /\ chain' = chain
      /\ save' = save /\ read' = read /\ theirs' = theirs /\ mishaps' = mishaps
      /\ stored' = stored /\ told' = told
      /\ rested' = [rested EXCEPT ![p] = IF AtRest THEN made + 1 ELSE 0]
  BY DEF Edit, history
<1>2. made \in Nat /\ made' \in Nat /\ made <= made' /\ made' \in 0 .. LastOwn
  BY <1>1, SaveBounds DEF SaveIInv, Counted
<1>3. server \in Snapshots
  BY DEF SaveIInv, Copied
<1>4. val \in Known(made')
  <2>1. draft \in Documents /\ OwnIn(draft) \subseteq 1 .. made
    BY DEF SaveIInv, TabIsTrue, Known
  <2>2. made + 1 \in 0 .. LastTheirs /\ made + 1 \in 1 .. made'
    BY <1>1, <1>2, SaveBounds
  <2>3. val \in Documents
    BY <2>1, <2>2 DEF Documents
  <2>4. ASSUME NEW q \in Parts, val[q] \in Own PROVE val[q] \in 1 .. made'
    <3>1. CASE q = p
      BY <2>1, <2>2, <3>1 DEF Documents
    <3>2. CASE q # p
      <4>1. val[q] = draft[q]
        BY <2>1, <3>2 DEF Documents
      <4>2. draft[q] \in OwnIn(draft)
        BY <2>4, <4>1 DEF OwnIn
      <4> QED
        BY <1>1, <1>2, <2>1, <4>1, <4>2
    <3> QED
      BY <3>1, <3>2
  <2>5. OwnIn(val) \subseteq 1 .. made'
    BY <2>4 DEF OwnIn
  <2> QED
    BY <2>3, <2>5 DEF Known
<1>5. Known(made) \subseteq Known(made')
  BY <1>2, KnownGrows
<1> HIDE DEF val
<1>6. Counted'
  <2>1. rested' \in [Parts -> 0 .. LastOwn]
    BY <1>1, <1>2, SaveBounds DEF SaveIInv, Counted
  <2> QED
    BY <1>1, <1>2, <2>1 DEF SaveIInv, Counted
<1>7. StorageIsTrue'
  <2>1. Copied(cloud, server, stored)
    BY DEF SaveIInv, StorageIsTrue
  <2>2. val \in Documents /\ cloud \in Snapshots
    BY <1>4, <2>1 DEF Known, Copied
  <2>3. Entry(val, cloud, NewTime) \in Entries
    BY <2>2, NewTimeIsNew DEF Entry, Entries
  <2>4. EntryIsTrue(outbox', server, stored, made')
    BY <1>1, <1>4, <2>1, <2>3 DEF EntryIsTrue, Entry
  <2> QED
    BY <1>1, <1>4, <2>1, <2>4 DEF SaveIInv, StorageIsTrue
<1>8. TabIsTrue'
  <2>1. chain \in Seq(Known(made'))
    BY <1>5, SeqMonotonic DEF SaveIInv, TabIsTrue
  <2> QED
    BY <1>1, <1>4, <2>1 DEF SaveIInv, TabIsTrue
<1>9. SavesAreTrue'
  <2>1. ASSUME NEW c \in Savers PROVE SaveIsTrue(save[c], server, stored, made')
    <3>1. \A d \in Domains : server.rev[d] <= server.rev[d]
      BY <1>3 DEF Snapshots
    <3>2. server.ver <= server.ver
      BY <1>3 DEF Snapshots
    <3> QED
      BY <1>2, <1>3, <3>1, <3>2, SaveGrows DEF SaveIInv, SavesAreTrue
  <2> QED
    BY <1>1, <2>1 DEF SaveIInv, SavesAreTrue
<1> QED
  BY <1>1, <1>6, <1>7, <1>8, <1>9, LocalStep

----------------------------------------------------------------------------
(* A push that is added to the chain is of a document of the user. *)
LEMMA ChainKnown ==
  ASSUME SaveIInv, NEW v \in Known(made), Chain(v)
  PROVE  chain' \in Seq(Known(made)) /\ Len(chain') <= MaxChain
<1>1. chain \in Seq(Known(made)) /\ Len(chain) < MaxChain /\ chain' = Append(chain, v)
  BY DEF SaveIInv, TabIsTrue, Chain
<1>2. Len(chain') = Len(chain) + 1 /\ Len(chain) \in Nat
  BY <1>1, AppendProperties
<1> QED
  BY <1>1, <1>2, SaveBounds, AppendProperties

LEMMA TimerInvariant ==
  ASSUME SaveIInv, TimerFires \/ GoOnline
  PROVE  SaveIInv'
<1>1. /\ server' = server /\ cloud' = cloud /\ conflictBase' = conflictBase /\ settings' = settings
      /\ outbox' = outbox /\ draft' = draft /\ pending' = pending /\ save' = save /\ read' = read
      /\ made' = made /\ theirs' = theirs /\ stored' = stored /\ told' = told /\ rested' = rested
      /\ timer' \in {timer, None}
  BY DEF TimerFires, GoOnline, storage, counters, history
<1>2. mishaps' \in Nat
  BY DEF TimerFires, GoOnline, Mishap, counters, SaveIInv, Counted
<1>3. chain' \in Seq(Known(made)) /\ Len(chain') <= MaxChain
  <2>1. draft \in Known(made) /\ (timer # None => timer \in Known(made))
    BY DEF SaveIInv, TabIsTrue
  <2> QED
    BY <2>1, ChainKnown DEF TimerFires, GoOnline
<1>4. Counted'
  BY <1>1, <1>2 DEF SaveIInv, Counted
<1>5. StorageIsTrue'
  BY <1>1 DEF SaveIInv, StorageIsTrue
<1>6. TabIsTrue'
  BY <1>1, <1>3 DEF SaveIInv, TabIsTrue
<1>7. SavesAreTrue'
  BY <1>1 DEF SaveIInv, SavesAreTrue
<1> QED
  BY <1>1, <1>4, <1>5, <1>6, <1>7, LocalStep

(* What a saver does with its own save. *)
LEMMA SaverStepInvariant ==
  ASSUME SaveIInv, NEW c \in Savers, NEW s,
         save' = [save EXCEPT ![c] = s],
         s \in {NoSave} \cup Readied \cup Sent, SaveIsTrue(s, server, stored, made),
         c = "flush" /\ s # NoSave => s.at # 0,
         server' = server, stored' = stored, made' = made
  PROVE  SavesAreTrue'
<1>1. save \in [Savers -> {NoSave} \cup Readied \cup Sent]
  BY DEF SaveIInv, SavesAreTrue
<1>2. save' \in [Savers -> {NoSave} \cup Readied \cup Sent]
  BY <1>1
<1>3. \A d \in Savers : save'[d] = IF d = c THEN s ELSE save[d]
  BY <1>1
<1>4. \A d \in Savers : SaveIsTrue(save'[d], server, stored, made)
  BY <1>3 DEF SaveIInv, SavesAreTrue
<1>5. save'["flush"] # NoSave => save'["flush"].at # 0
  BY <1>3 DEF SaveIInv, SavesAreTrue, Savers
<1> QED
  BY <1>2, <1>4, <1>5 DEF SavesAreTrue

LEMMA SaveTypes ==
  ASSUME SaveIInv, NEW c \in Savers
  PROVE  /\ save[c] \in {NoSave} \cup Readied \cup Sent
         /\ save[c].pc # "idle" => save[c] # NoSave /\ save[c] \in Readied \cup Sent
         /\ save[c].pc \in {"same", "sent", "saved", "conflict", "failed", "refused"} => save[c] \in Sent
         /\ save[c].pc = "ready" => save[c] \in Readied
         /\ SaveIsTrue(save[c], server, stored, made)
<1>1. save[c] \in {NoSave} \cup Readied \cup Sent /\ SaveIsTrue(save[c], server, stored, made)
  BY DEF SaveIInv, SavesAreTrue
<1> QED
  BY <1>1 DEF NoSave, Readied, Sent

LEMMA StartPushInvariant ==
  ASSUME SaveIInv, StartPush
  PROVE  SaveIInv'
<1> DEFINE val == [p \in Parts |-> IF DomainOf[p] = "major" THEN Head(chain)[p] ELSE draft[p]]
           queuedVer == IF outbox = None THEN 0 ELSE outbox.base.ver
           s == [pc |-> "ready", val |-> val, baseline |-> cloud, at |-> WaitingAt, try |-> 1,
                 ver |-> Max({queuedVer, cloud.ver})]
<1>1. /\ chain # <<>> /\ chain' = Tail(chain) /\ save' = [save EXCEPT !["push"] = s]
      /\ server' = server /\ cloud' = cloud /\ conflictBase' = conflictBase /\ settings' = settings
      /\ outbox' = outbox /\ draft' = draft /\ pending' = pending /\ timer' = timer /\ read' = read
      /\ made' = made /\ theirs' = theirs /\ mishaps' = mishaps /\ stored' = stored /\ told' = told /\ rested' = rested
  BY DEF StartPush, Continuing, storage, counters, history
<1>2. chain \in Seq(Known(made)) /\ Len(chain) <= MaxChain /\ draft \in Known(made)
  BY DEF SaveIInv, TabIsTrue
<1>3. Head(chain) \in Known(made) /\ chain' \in Seq(Known(made)) /\ Len(chain') <= MaxChain
  <2>1. Len(chain') = Len(chain) - 1 /\ Len(chain) \in Nat
    BY <1>1, <1>2, HeadTailProperties
  <2> QED
    BY <1>1, <1>2, <2>1, SaveBounds, HeadTailProperties
<1>4. val \in Known(made)
  <2>1. Head(chain) \in Documents /\ draft \in Documents
    BY <1>2, <1>3 DEF Known
  <2>2. val \in Documents
    BY <2>1 DEF Documents
  <2>3. OwnIn(val) \subseteq OwnIn(Head(chain)) \cup OwnIn(draft)
    BY <2>1 DEF OwnIn, Documents
  <2> QED
    BY <1>2, <1>3, <2>2, <2>3 DEF Known
<1>5. s \in Readied /\ SaveIsTrue(s, server, stored, made)
  <2>1. Copied(cloud, server, stored) /\ cloud \in Snapshots
    BY DEF SaveIInv, StorageIsTrue, Copied
  <2>2. WaitingAt \in 0 .. 4 /\ queuedVer \in Nat
    BY DEF SaveIInv, StorageIsTrue, EntryIsTrue, Entries, Snapshots, WaitingAt
  <2>3. Max({queuedVer, cloud.ver}) \in Nat
    BY <2>1, <2>2, MaxOfTwo DEF Snapshots
  <2>4. val \in Documents
    BY <1>4 DEF Known
  <2> HIDE DEF val, queuedVer
  <2>5. s \in Readied
    BY <2>1, <2>2, <2>3, <2>4 DEF Readied
  <2>6. s \notin Sent
    BY DEF Sent
  <2> QED
    BY <1>4, <2>1, <2>5, <2>6 DEF SaveIsTrue
<1> HIDE DEF val, s
<1>6. SavesAreTrue'
  BY <1>1, <1>5, SaverStepInvariant DEF Savers
<1>7. Counted' /\ StorageIsTrue'
  BY <1>1 DEF SaveIInv, Counted, StorageIsTrue
<1>8. TabIsTrue'
  BY <1>1, <1>3 DEF SaveIInv, TabIsTrue
<1> QED
  BY <1>1, <1>6, <1>7, <1>8, LocalStep

LEMMA StartFlushInvariant ==
  ASSUME SaveIInv, StartFlush
  PROVE  SaveIInv'
<1> DEFINE s == [pc |-> "ready", val |-> outbox.val, baseline |-> outbox.base, at |-> outbox.at,
                 try |-> 1, ver |-> outbox.base.ver]
<1>1. /\ outbox # None /\ save' = [save EXCEPT !["flush"] = s]
      /\ server' = server /\ cloud' = cloud /\ conflictBase' = conflictBase /\ settings' = settings
      /\ outbox' = outbox /\ draft' = draft /\ pending' = pending /\ timer' = timer /\ chain' = chain
      /\ read' = read
      /\ made' = made /\ theirs' = theirs /\ mishaps' = mishaps /\ stored' = stored /\ told' = told /\ rested' = rested
  BY DEF StartFlush, storage, tab, counters, history
<1>2. /\ outbox \in Entries /\ outbox.val \in Known(made) /\ Copied(outbox.base, server, stored)
  BY <1>1 DEF SaveIInv, StorageIsTrue, EntryIsTrue
<1>3. s \in Readied /\ s \notin Sent /\ s.at # 0
  BY <1>2 DEF Entries, Snapshots, Readied, Sent
<1>4. SaveIsTrue(s, server, stored, made)
  BY <1>2, <1>3 DEF SaveIsTrue
<1> HIDE DEF s
<1>5. SavesAreTrue'
  BY <1>1, <1>3, <1>4, SaverStepInvariant DEF Savers
<1>6. Counted' /\ StorageIsTrue' /\ TabIsTrue'
  BY <1>1 DEF SaveIInv, Counted, StorageIsTrue, TabIsTrue
<1> QED
  BY <1>1, <1>5, <1>6, LocalStep

LEMMA BaseIsCopied ==
  ASSUME SaveIInv, NEW ver
  PROVE  BaseOf(ver) # None => Copied(BaseOf(ver), server, stored)
  BY DEF SaveIInv, StorageIsTrue, BaseOf

LEMMA SendInvariant ==
  ASSUME SaveIInv, NEW c \in Savers, Send(c)
  PROVE  SaveIInv'
<1> DEFINE o == save[c]
           base == BaseOf(o.ver)
           doms == Changed(o.val, base)
           s == [pc |-> IF doms = {} THEN "same" ELSE "sent", val |-> o.val, baseline |-> o.baseline,
                 at |-> o.at, try |-> o.try, ver |-> o.ver, base |-> base, doms |-> doms]
<1>1. /\ o.pc = "ready" /\ save' = [save EXCEPT ![c] = s]
      /\ server' = server /\ cloud' = cloud /\ conflictBase' = conflictBase /\ settings' = settings
      /\ outbox' = outbox /\ draft' = draft /\ pending' = pending /\ timer' = timer /\ chain' = chain
      /\ read' = read
      /\ made' = made /\ theirs' = theirs /\ mishaps' = mishaps /\ stored' = stored /\ told' = told /\ rested' = rested
  BY DEF Send, storage, tab, counters, history
<1>2. o \in Readied /\ o.val \in Known(made) /\ Copied(o.baseline, server, stored) /\ o # NoSave
  BY <1>1, SaveTypes DEF SaveIsTrue, NoSave
<1>3. base # None => Copied(base, server, stored)
  BY BaseIsCopied
<1>4. doms \subseteq Domains
  BY DEF Changed
<1>5. \A p \in Parts : DomainOf[p] \notin doms => base # None /\ o.val[p] = base.val[p]
  BY DEF Changed, Domains
<1>6. doms = {} => OwnIn(o.val) \subseteq stored
  <2>1. SUFFICES ASSUME doms = {} PROVE OwnIn(o.val) \subseteq stored
    OBVIOUS
  <2>2. \A p \in Parts : base # None /\ o.val[p] = base.val[p]
    BY <1>5, <2>1
  <2>3. OwnIn(o.val) \subseteq OwnIn(base.val)
    BY <2>2 DEF OwnIn
  <2>4. CASE Parts = {}
    BY <2>4 DEF OwnIn
  <2>5. CASE Parts # {}
    BY <1>3, <2>2, <2>3, <2>5 DEF Copied
  <2> QED
    BY <2>4, <2>5
<1> HIDE DEF base, doms
<1>7. s \in Sent
  <2>1. base \in Snapshots \cup {None}
    BY <1>3 DEF Copied
  <2> QED
    BY <1>2, <1>4, <2>1 DEF Readied, Sent
<1>8. Answered(s, server, stored)
  BY <1>3, <1>5, <1>6 DEF Answered
<1>9. SaveIsTrue(s, server, stored, made)
  BY <1>2, <1>7, <1>8 DEF SaveIsTrue
<1>10. c = "flush" => s.at # 0
  BY <1>2 DEF SaveIInv, SavesAreTrue
<1> HIDE DEF s
<1>11. SavesAreTrue'
  BY <1>1, <1>7, <1>9, <1>10, SaverStepInvariant
<1>12. Counted' /\ StorageIsTrue' /\ TabIsTrue'
  BY <1>1 DEF SaveIInv, Counted, StorageIsTrue, TabIsTrue
<1> QED
  BY <1>1, <1>11, <1>12, LocalStep

----------------------------------------------------------------------------
LEMMA WrittenGrows ==
  ASSUME server \in Snapshots, NEW doms, NEW val \in Documents
  PROVE  /\ Written(doms, val) \in Snapshots
         /\ server.ver <= Written(doms, val).ver
         /\ \A d \in Domains : server.rev[d] <= Written(doms, val).rev[d]
         /\ OwnIn(Written(doms, val).val) \subseteq OwnIn(val) \cup OwnIn(server.val)
<1> DEFINE w == Written(doms, val)
<1>1. server.ver \in Nat /\ server.rev \in [Domains -> Nat] /\ server.val \in Documents
  BY DEF Snapshots
<1>2. /\ w.ver = server.ver + 1
      /\ w.rev = [d \in Domains |->
              IF d \in doms /\ \E p \in Parts : DomainOf[p] = d /\ val[p] # server.val[p]
              THEN server.rev[d] + 1 ELSE server.rev[d]]
      /\ w.val = [p \in Parts |-> IF DomainOf[p] \in doms THEN val[p] ELSE server.val[p]]
  BY DEF Written
<1>3. w = [ver |-> w.ver, rev |-> w.rev, val |-> w.val]
  BY DEF Written
<1> HIDE DEF w
<1>4. w.ver \in Nat /\ server.ver <= w.ver
  BY <1>1, <1>2
<1>5. w.rev \in [Domains -> Nat] /\ \A d \in Domains : server.rev[d] <= w.rev[d]
  BY <1>1, <1>2
<1>6. w.val \in Documents
  BY <1>1, <1>2 DEF Documents
<1>7. OwnIn(w.val) \subseteq OwnIn(val) \cup OwnIn(server.val)
  BY <1>2 DEF OwnIn
<1>8. w \in Snapshots
  BY <1>3, <1>4, <1>5, <1>6 DEF Snapshots
<1> QED
  BY <1>4, <1>5, <1>7, <1>8 DEF w

(* The row moves on under everything the browser holds. *)
LEMMA ServerStep ==
  ASSUME SaveIInv,
         server' \in Snapshots, server.ver <= server'.ver,
         \A d \in Domains : server.rev[d] <= server'.rev[d],
         stored \subseteq stored', OwnIn(server'.val) \subseteq stored',
         UNCHANGED <<storage, tab, made>>
  PROVE  /\ Copied(server, server, stored)' /\ StorageIsTrue' /\ TabIsTrue'
         /\ \A c \in Savers : SaveIsTrue(save[c], server', stored', made')
<1>1. /\ cloud' = cloud /\ conflictBase' = conflictBase /\ settings' = settings /\ outbox' = outbox
      /\ draft' = draft /\ pending' = pending /\ timer' = timer /\ chain' = chain /\ read' = read
      /\ made' = made
  BY DEF storage, tab
<1>2. server \in Snapshots /\ made \in Nat /\ made <= made
  BY SaveBounds DEF SaveIInv, Copied, Counted
<1>3. Copied(server, server, stored)'
  BY DEF Copied, Snapshots
<1>4. StorageIsTrue'
  <2>1. Copied(cloud, server', stored')
    BY <1>2, CopiedGrows DEF SaveIInv, StorageIsTrue
  <2>2. conflictBase = None \/ Copied(conflictBase, server', stored')
    BY <1>2, CopiedGrows DEF SaveIInv, StorageIsTrue
  <2>3. EntryIsTrue(outbox, server', stored', made)
    BY <1>2, EntryGrows DEF SaveIInv, StorageIsTrue
  <2> QED
    BY <1>1, <2>1, <2>2, <2>3 DEF SaveIInv, StorageIsTrue
<1>5. TabIsTrue'
  <2>1. ReadIsTrue(read, server', stored')
    BY <1>2, ReadGrows DEF SaveIInv, TabIsTrue
  <2> QED
    BY <1>1, <2>1 DEF SaveIInv, TabIsTrue
<1>6. \A c \in Savers : SaveIsTrue(save[c], server', stored', made)
  BY <1>2, SaveGrows DEF SaveIInv, SavesAreTrue
<1> QED
  BY <1>1, <1>3, <1>4, <1>5, <1>6

LEMMA TheyEditInvariant ==
  ASSUME SaveIInv, NEW p \in Parts, TheyEdit(p)
  PROVE  SaveIInv'
<1> DEFINE val == [server.val EXCEPT ![p] = theirs']
<1>1. /\ theirs < LastTheirs /\ theirs' = theirs + 1
      /\ server' = Written({DomainOf[p]}, val)
      /\ made' = made /\ mishaps' = mishaps /\ stored' = stored /\ told' = told /\ rested' = rested /\ save' = save
      /\ UNCHANGED <<storage, tab, made>>
  BY DEF TheyEdit, history
<1>2. server \in Snapshots /\ OwnIn(server.val) \subseteq stored /\ server.val \in Documents
  BY DEF SaveIInv, Copied, Snapshots
<1>3. theirs' \in 0 .. LastTheirs /\ theirs' \notin Own /\ theirs' \in LastOwn .. LastTheirs
  BY <1>1, SaveBounds DEF SaveIInv, Counted, Own
<1>4. val \in Documents
  BY <1>2, <1>3 DEF Documents
<1>5. OwnIn(val) \subseteq OwnIn(server.val)
  BY <1>2, <1>3 DEF OwnIn, Documents
<1> HIDE DEF val
<1>6. /\ server' \in Snapshots /\ server.ver <= server'.ver
      /\ \A d \in Domains : server.rev[d] <= server'.rev[d]
      /\ OwnIn(server'.val) \subseteq stored'
  BY <1>1, <1>2, <1>4, <1>5, WrittenGrows
<1>7. /\ Copied(server, server, stored)' /\ StorageIsTrue' /\ TabIsTrue'
      /\ \A c \in Savers : SaveIsTrue(save[c], server', stored', made')
  BY <1>1, <1>6, ServerStep
<1>8. SavesAreTrue'
  BY <1>1, <1>7 DEF SaveIInv, SavesAreTrue
<1>9. Counted'
  BY <1>1, <1>3 DEF SaveIInv, Counted
<1> QED
  BY <1>7, <1>8, <1>9 DEF SaveIInv

(* The server's answer to a save, with the row it leaves. *)
LEMMA ServeInvariant ==
  ASSUME SaveIInv, NEW c \in Savers, Serve(c)
  PROVE  SaveIInv'
<1> DEFINE o == save[c]
<1>1. /\ o.pc = "sent" /\ UNCHANGED <<storage, tab, made>>
      /\ made' = made /\ theirs' = theirs /\ mishaps' = mishaps /\ told' = told /\ rested' = rested
  BY DEF Serve, counters
<1>2. /\ o \in Sent /\ o.val \in Known(made) /\ Copied(o.baseline, server, stored)
      /\ Answered(o, server, stored) /\ o # NoSave
  BY <1>1, SaveTypes DEF SaveIsTrue, NoSave
<1>3. /\ server \in Snapshots /\ OwnIn(server.val) \subseteq stored /\ server.val \in Documents
      /\ o.val \in Documents /\ OwnIn(o.val) \subseteq 1 .. made /\ stored \subseteq 1 .. made
  BY <1>2 DEF SaveIInv, Counted, Copied, Snapshots, Known
<1>4. c = "flush" => o.at # 0
  BY <1>2 DEF SaveIInv, SavesAreTrue
<1>5. CASE Current(o)
  <2> DEFINE w == Written(o.doms, o.val)
             s == [o EXCEPT !.pc = "saved", !.ver = server'.ver, !.base = server']
  <2>1. /\ server' = w /\ stored' = stored \cup OwnIn(server'.val)
        /\ save' = [save EXCEPT ![c] = s]
    BY <1>5 DEF Serve
  <2>2. /\ server' \in Snapshots /\ server.ver <= server'.ver
        /\ \A d \in Domains : server.rev[d] <= server'.rev[d]
        /\ OwnIn(server'.val) \subseteq OwnIn(o.val) \cup OwnIn(server.val)
    BY <1>3, <2>1, WrittenGrows
  <2>3. stored \subseteq stored' /\ OwnIn(server'.val) \subseteq stored' /\ stored' \subseteq 1 .. made
    BY <1>3, <2>1, <2>2
  <2>4. /\ Copied(server, server, stored)' /\ StorageIsTrue' /\ TabIsTrue'
        /\ \A d \in Savers : SaveIsTrue(save[d], server', stored', made')
    BY <1>1, <2>2, <2>3, ServerStep
  <2>5. OwnIn(o.val) \subseteq stored'
    <3>1. ASSUME NEW p \in Parts, o.val[p] \in Own PROVE o.val[p] \in stored'
      <4>1. CASE DomainOf[p] \in o.doms
        <5>1. server'.val[p] = o.val[p]
          BY <2>1, <4>1 DEF Written
        <5>2. o.val[p] \in OwnIn(server'.val)
          BY <3>1, <5>1 DEF OwnIn
        <5> QED
          BY <2>3, <5>2
      <4>2. CASE DomainOf[p] \notin o.doms
        <5>1. o.base # None /\ o.val[p] = o.base.val[p]
          BY <1>1, <1>2, <4>2 DEF Answered
        <5>2. OwnIn(o.base.val) \subseteq stored
          BY <1>2, <5>1 DEF Answered, Copied
        <5>3. o.val[p] \in OwnIn(o.base.val)
          BY <3>1, <5>1 DEF OwnIn
        <5> QED
          BY <2>3, <5>2, <5>3
      <4> QED
        BY <4>1, <4>2
    <3> QED
      BY <3>1 DEF OwnIn
  <2>6. /\ s \in Sent /\ s.pc = "saved" /\ s.val = o.val /\ s.baseline = o.baseline /\ s.at = o.at
        /\ s.base = server' /\ s.ver = server'.ver /\ s # NoSave
    BY <1>2, <2>2 DEF Sent, Snapshots, NoSave
  <2> HIDE DEF s, w
  <2>7. SaveIsTrue(s, server', stored', made)
    <3>1. SaveIsTrue(o, server', stored', made)
      BY <1>1, <2>4
    <3>2. Copied(s.baseline, server', stored') /\ s.val \in Known(made)
      BY <1>2, <2>6, <3>1 DEF SaveIsTrue
    <3>3. server'.ver <= server'.ver
      BY <2>2 DEF Snapshots
    <3>4. server' # None
      BY <2>2, NoneIsNothing
    <3>5. Answered(s, server', stored')
      BY <2>4, <2>5, <2>6, <3>3, <3>4 DEF Answered
    <3> QED
      BY <2>6, <3>2, <3>5 DEF SaveIsTrue
  <2>8. SavesAreTrue'
    <3>1. save \in [Savers -> {NoSave} \cup Readied \cup Sent]
      BY DEF SaveIInv, SavesAreTrue
    <3>2. save' \in [Savers -> {NoSave} \cup Readied \cup Sent]
      BY <2>1, <2>6, <3>1
    <3>3. \A d \in Savers : save'[d] = IF d = c THEN s ELSE save[d]
      BY <2>1, <3>1
    <3>4. \A d \in Savers : SaveIsTrue(save'[d], server', stored', made')
      BY <1>1, <2>4, <2>7, <3>3
    <3>5. save'["flush"] # NoSave => save'["flush"].at # 0
      BY <1>4, <2>6, <3>3 DEF SaveIInv, SavesAreTrue, Savers
    <3> QED
      BY <3>2, <3>4, <3>5 DEF SavesAreTrue
  <2>9. Counted'
    BY <1>1, <2>3 DEF SaveIInv, Counted
  <2> QED
    BY <2>4, <2>8, <2>9 DEF SaveIInv
<1>6. CASE ~Current(o)
  <2> DEFINE r == RemoteOf(o)
             s == [o EXCEPT !.pc = "conflict", !.base = RemoteOf(o)]
  <2>1. server' = server /\ stored' = stored /\ save' = [save EXCEPT ![c] = s]
    BY <1>6 DEF Serve
  <2>2. r \in Snapshots /\ Copied(r, server, stored)
    <3>1. o.base # None => o.base.val \in Documents /\ OwnIn(o.base.val) \subseteq stored
      BY <1>2 DEF Answered, Copied, Snapshots
    <3>2. /\ r.ver = server.ver /\ r.rev = server.rev
          /\ r.val = [p \in Parts |->
               IF o.base = None \/ (DomainOf[p] \in o.doms /\ o.base.rev[DomainOf[p]] # server.rev[DomainOf[p]])
               THEN server.val[p] ELSE o.base.val[p]]
          /\ r = [ver |-> r.ver, rev |-> r.rev, val |-> r.val]
      BY <1>3 DEF RemoteOf, Snapshots
    <3> HIDE DEF r
    <3>3. r.val \in Documents
      BY <1>3, <3>1, <3>2 DEF Documents
    <3>4. OwnIn(r.val) \subseteq stored
      <4>1. ASSUME NEW p \in Parts, r.val[p] \in Own PROVE r.val[p] \in stored
        BY <1>3, <3>1, <3>2, <4>1 DEF OwnIn
      <4> QED
        BY <4>1 DEF OwnIn
    <3>5. r \in Snapshots
      BY <1>3, <3>2, <3>3 DEF Snapshots
    <3> QED
      BY <1>3, <3>2, <3>4, <3>5 DEF Copied, Snapshots
  <2> HIDE DEF r
  <2>3. /\ s \in Sent /\ s.pc = "conflict" /\ s.val = o.val /\ s.baseline = o.baseline /\ s.at = o.at
        /\ s.base = r /\ s # NoSave
    BY <1>2, <2>2 DEF Sent, NoSave, r
  <2> HIDE DEF s
  <2>4. Answered(s, server, stored)
    BY <2>2, <2>3, NoneIsNothing DEF Answered
  <2>5. SaveIsTrue(s, server, stored, made)
    BY <1>2, <2>3, <2>4 DEF SaveIsTrue
  <2>6. SavesAreTrue'
    BY <1>1, <1>4, <2>1, <2>3, <2>5, SaverStepInvariant
  <2>7. Counted' /\ StorageIsTrue' /\ TabIsTrue'
    BY <1>1, <2>1 DEF SaveIInv, Counted, StorageIsTrue, TabIsTrue, storage, tab
  <2> QED
    BY <2>1, <2>6, <2>7, LocalStep
<1> QED
  BY <1>5, <1>6

----------------------------------------------------------------------------
(* What every answer leaves in local storage is a copy. *)
LEMMA AbsorbIsTrue ==
  ASSUME SaveIInv, NEW s \in Sent, SaveIsTrue(s, server, stored, made), Absorb(s)
  PROVE  /\ Copied(cloud', server, stored)
         /\ conflictBase' = None \/ Copied(conflictBase', server, stored)
<1>1. s.val \in Known(made) /\ Answered(s, server, stored)
  BY DEF SaveIsTrue, NoSave, Sent
<1>2. /\ Copied(cloud, server, stored) /\ cloud \in Snapshots
      /\ conflictBase = None \/ Copied(conflictBase, server, stored)
  BY DEF SaveIInv, StorageIsTrue, Copied
<1>3. CASE s.pc = "saved"
  <2> DEFINE x == [ver |-> s.ver, val |-> s.val,
                   rev |-> [d \in Domains |-> IF d \in s.doms THEN s.base.rev[d] ELSE cloud.rev[d]]]
  <2>1. Remember(x) /\ conflictBase' = None
    BY <1>3 DEF Absorb
  <2>2. Copied(s.base, server, stored) /\ s.ver <= server.ver /\ OwnIn(s.val) \subseteq stored
    BY <1>1, <1>3 DEF Answered
  <2>3. s.ver \in Nat /\ s.val \in Documents
    BY DEF Sent
  <2>4. \A d \in Domains : s.base.rev[d] \in Nat /\ cloud.rev[d] \in Nat
    BY <1>2, <2>2 DEF Copied, Snapshots
  <2>5. x \in Snapshots
    BY <2>3, <2>4 DEF Snapshots
  <2>6. Copied(x, server, stored)
    BY <1>2, <2>2, <2>5 DEF Copied
  <2> HIDE DEF x
  <2>7. cloud' = cloud \/ cloud' = x
    BY <2>1 DEF Remember
  <2> QED
    BY <1>2, <2>1, <2>6, <2>7
<1>4. CASE s.pc = "conflict"
  BY <1>1, <1>2, <1>4 DEF Absorb, Answered
<1>5. CASE s.pc \notin {"saved", "conflict"}
  BY <1>2, <1>5 DEF Absorb
<1> QED
  BY <1>3, <1>4, <1>5

(* The save that ends leaves its place free. *)
LEMMA SaveEnds ==
  ASSUME SaveIInv, NEW c \in Savers, save' = [save EXCEPT ![c] = NoSave],
         server' = server, stored' = stored, made' = made
  PROVE  SavesAreTrue'
  BY SaverStepInvariant DEF SaveIsTrue

LEMMA FailsInvariant ==
  ASSUME SaveIInv, NEW c \in Savers, Fails(c)
  PROVE  SaveIInv'
<1>1. /\ save[c].pc \in {"sent", "saved", "conflict"}
      /\ server' = server /\ cloud' = cloud /\ conflictBase' = conflictBase /\ settings' = settings
      /\ outbox' = outbox /\ draft' = draft /\ pending' = pending /\ timer' = timer /\ chain' = chain
      /\ read' = read
      /\ made' = made /\ theirs' = theirs /\ stored' = stored /\ told' = told /\ rested' = rested
  BY DEF Fails, storage, tab, history
<1>2. mishaps' \in Nat
  BY DEF Fails, Mishap, SaveIInv, Counted
<1>3. PICK how \in {"failed", "refused"} : save' = [save EXCEPT ![c].pc = how]
  BY Zenon DEF Fails
<1> DEFINE s == [save[c] EXCEPT !.pc = how]
<1>4. save' = [save EXCEPT ![c] = s]
  BY <1>3
<1>5. save[c] \in Sent /\ SaveIsTrue(save[c], server, stored, made) /\ save[c] # NoSave
  BY <1>1, SaveTypes
<1>6. /\ s \in Sent /\ s.pc = how /\ s.val = save[c].val /\ s.baseline = save[c].baseline
      /\ s.base = save[c].base /\ s.at = save[c].at
  BY <1>5 DEF Sent
<1> HIDE DEF s
<1>7. SaveIsTrue(s, server, stored, made)
  BY <1>5, <1>6 DEF SaveIsTrue, Answered
<1>8. c = "flush" => s.at # 0
  BY <1>5, <1>6 DEF SaveIInv, SavesAreTrue
<1>9. SavesAreTrue'
  BY <1>1, <1>4, <1>6, <1>7, <1>8, SaverStepInvariant
<1>10. Counted' /\ StorageIsTrue' /\ TabIsTrue'
  BY <1>1, <1>2 DEF SaveIInv, Counted, StorageIsTrue, TabIsTrue
<1> QED
  BY <1>1, <1>9, <1>10, LocalStep

(* An answer that is not a success leaves the edits where they are. *)
LEMMA PushGivesUp ==
  ASSUME SaveIInv, PushStale \/ PushFailed
  PROVE  SaveIInv'
<1> DEFINE s == save["push"]
<1>0. "push" \in Savers
  BY DEF Savers
<1>1. /\ s.pc \in {"same", "saved", "conflict", "failed", "refused"}
      /\ save' = [save EXCEPT !["push"] = NoSave]
      /\ server' = server /\ settings' = settings
      /\ outbox' = outbox /\ draft' = draft /\ pending' \in {pending, TRUE} /\ timer' = timer
      /\ chain' = chain /\ read' = read
      /\ made' = made /\ theirs' = theirs /\ mishaps' = mishaps /\ stored' = stored /\ told' = told /\ rested' = rested
  BY Zenon DEF PushStale, PushFailed, storage, tab, counters, history
<1>2. s \in Sent /\ SaveIsTrue(s, server, stored, made)
  BY <1>0, <1>1, SaveTypes
<1>3. /\ Copied(cloud', server, stored)
      /\ conflictBase' = None \/ Copied(conflictBase', server, stored)
  <2>1. CASE PushStale
    BY <1>2, <2>1, AbsorbIsTrue DEF PushStale
  <2>2. CASE PushFailed
    BY <2>2 DEF PushFailed, storage, SaveIInv, StorageIsTrue
  <2> QED
    BY <2>1, <2>2
<1>4. SavesAreTrue'
  BY <1>0, <1>1, SaveEnds
<1>5. Counted' /\ StorageIsTrue'
  BY <1>1, <1>3 DEF SaveIInv, Counted, StorageIsTrue
<1>6. pending' \in BOOLEAN
  BY <1>1 DEF SaveIInv, TabIsTrue
<1>7. TabIsTrue'
  BY <1>1, <1>6 DEF SaveIInv, TabIsTrue
<1> QED
  BY <1>1, <1>4, <1>5, <1>7, LocalStep

(* A conflict taken for the lost answer of the same save holds what is stored. *)
LEMMA GhostIsStored ==
  ASSUME SaveIInv, NEW s \in Sent, SaveIsTrue(s, server, stored, made),
         s.pc \in {"same", "saved"} \/ Ghost(s)
  PROVE  OwnIn(s.val) \subseteq stored
<1>1. Answered(s, server, stored)
  BY DEF SaveIsTrue, NoSave, Sent
<1> QED
  BY <1>1 DEF Answered, Ghost, Copied

LEMMA SavedInvariant ==
  ASSUME SaveIInv, NEW c \in Savers,
         \/ c = "push" /\ PushSaved
         \/ c = "flush" /\ FlushSaved
  PROVE  SaveIInv'
<1> DEFINE s == save[c]
<1>1. /\ s.pc \in {"same", "saved"} \/ Ghost(s)
      /\ Absorb(s) /\ Reported(s) /\ ClearEntry(s.at)
      /\ settings' = s.val /\ save' = [save EXCEPT ![c] = NoSave]
      /\ server' = server /\ draft' = draft /\ pending' \in {pending, FALSE} /\ timer' = timer
      /\ chain' = chain /\ read' = read
      /\ made' = made /\ theirs' = theirs /\ mishaps' = mishaps /\ stored' = stored /\ rested' = rested
  <2>1. CASE c = "push" /\ PushSaved
    BY <2>1, Zenon DEF PushSaved, counters
  <2>2. CASE c = "flush" /\ FlushSaved
    BY <2>2, Zenon DEF FlushSaved, counters, tab
  <2> QED
    BY <2>1, <2>2
<1>2. s \in Sent /\ SaveIsTrue(s, server, stored, made)
  BY <1>1, SaveTypes DEF Ghost
<1>3. /\ Copied(cloud', server, stored)
      /\ conflictBase' = None \/ Copied(conflictBase', server, stored)
  BY <1>1, <1>2, AbsorbIsTrue
<1>4. OwnIn(s.val) \subseteq stored
  BY <1>1, <1>2, GhostIsStored
<1>5. s.val \in Known(made)
  BY <1>2 DEF SaveIsTrue, NoSave, Sent
<1>6. Counted'
  BY <1>1, <1>4 DEF SaveIInv, Counted, Reported
<1>7. StorageIsTrue'
  <2>1. outbox' \in {outbox, None}
    BY <1>1 DEF ClearEntry
  <2> QED
    BY <1>1, <1>3, <1>5, <2>1 DEF SaveIInv, StorageIsTrue, EntryIsTrue
<1>8. TabIsTrue'
  <2>1. pending' \in BOOLEAN
    BY <1>1 DEF SaveIInv, TabIsTrue
  <2> QED
    BY <1>1, <2>1 DEF SaveIInv, TabIsTrue
<1>9. SavesAreTrue'
  BY <1>1, SaveEnds
<1> QED
  BY <1>1, <1>6, <1>7, <1>8, <1>9, LocalStep

LEMMA MergeKnown ==
  ASSUME SaveIInv, NEW s \in Sent, SaveIsTrue(s, server, stored, made), s.pc = "conflict"
  PROVE  /\ Merge(s.baseline.val, s.val, s.base.val) \in Known(made)
         /\ Copied(s.base, server, stored) /\ s.base \in Snapshots
<1>1. /\ s.val \in Known(made) /\ Answered(s, server, stored)
  BY DEF SaveIsTrue, NoSave, Sent
<1>2. Copied(s.base, server, stored) /\ s.base \in Snapshots /\ s.base.val \in Documents
  BY <1>1 DEF Answered, Copied, Snapshots
<1>3. /\ s.val \in Documents /\ OwnIn(s.val) \subseteq 1 .. made
      /\ OwnIn(s.base.val) \subseteq 1 .. made
  BY <1>1, <1>2 DEF Known, Copied, SaveIInv, Counted
<1>4. Merge(s.baseline.val, s.val, s.base.val) \in Documents
  BY <1>2, <1>3 DEF Merge, Documents
<1>5. OwnIn(Merge(s.baseline.val, s.val, s.base.val)) \subseteq OwnIn(s.val) \cup OwnIn(s.base.val)
  BY DEF Merge, OwnIn
<1> QED
  BY <1>2, <1>3, <1>4, <1>5 DEF Known

(* The merged document becomes the entry and, but for the last try, the *)
(* next save.                                                           *)
LEMMA ConflictInvariant ==
  ASSUME SaveIInv, NEW c \in Savers,
         \/ c = "push" /\ PushConflict
         \/ c = "flush" /\ FlushConflict
  PROVE  SaveIInv'
<1> DEFINE o == save[c]
           merged == Merge(o.baseline.val, o.val, o.base.val)
           s == [pc |-> "ready", val |-> merged, baseline |-> o.base, at |-> NewTime, try |-> o.try + 1,
                 ver |-> o.base.ver]
<1>1. /\ o.pc = "conflict" /\ Absorb(o)
      /\ outbox' = Entry(merged, o.base, NewTime)
      /\ settings' \in {settings, merged} /\ draft' \in {draft, merged} /\ pending' \in {pending, TRUE}
      /\ server' = server /\ timer' = timer /\ chain' = chain /\ read' = read
      /\ made' = made /\ theirs' = theirs /\ mishaps' = mishaps /\ stored' = stored /\ told' = told /\ rested' = rested
  <2>1. CASE c = "push" /\ PushConflict
    BY <2>1, Zenon DEF PushConflict, counters, history
  <2>2. CASE c = "flush" /\ FlushConflict
    BY <2>2, Zenon DEF FlushConflict, counters, history, tab
  <2> QED
    BY <2>1, <2>2
<1>2. o \in Sent /\ SaveIsTrue(o, server, stored, made)
  BY <1>1, SaveTypes
<1>3. save' = [save EXCEPT ![c] = NoSave] \/ (o.try # 3 /\ save' = [save EXCEPT ![c] = s])
  <2>1. CASE c = "push" /\ PushConflict
    BY <2>1 DEF PushConflict
  <2>2. CASE c = "flush" /\ FlushConflict
    <3>1. o.try = 1 /\ o.try + 1 = 2
      BY <2>2 DEF FlushConflict
    <3>2. save' = [save EXCEPT ![c] = [pc |-> "ready", val |-> merged, baseline |-> o.base,
                     at |-> NewTime, try |-> 2, ver |-> o.base.ver]]
      BY <2>2, Zenon DEF FlushConflict
    <3> HIDE DEF merged
    <3> QED
      BY <3>1, <3>2
  <2> QED
    BY <2>1, <2>2
<1>4. merged \in Known(made) /\ Copied(o.base, server, stored) /\ o.base \in Snapshots
  BY <1>1, <1>2, MergeKnown
<1>5. /\ Copied(cloud', server, stored)
      /\ conflictBase' = None \/ Copied(conflictBase', server, stored)
  BY <1>1, <1>2, AbsorbIsTrue
<1>6. merged \in Documents /\ o.try \in 1 .. 3
  BY <1>2, <1>4 DEF Known, Sent
<1> HIDE DEF merged
<1>7. EntryIsTrue(outbox', server, stored, made)
  BY <1>1, <1>4, EntryMade, NewTimeIsNew
<1>8. SavesAreTrue'
  <2>1. CASE save' = [save EXCEPT ![c] = NoSave]
    BY <1>1, <2>1, SaveEnds
  <2>2. CASE o.try # 3 /\ save' = [save EXCEPT ![c] = s]
    <3>1. o.try + 1 \in 1 .. 3
      BY <1>6, <2>2
    <3>2. s \in Readied /\ s \notin Sent /\ s.at # 0
      BY <1>4, <1>6, <3>1, NewTimeIsNew DEF Readied, Sent, Snapshots
    <3>3. SaveIsTrue(s, server, stored, made)
      BY <1>4, <3>2 DEF SaveIsTrue
    <3> HIDE DEF s
    <3> QED
      BY <1>1, <2>2, <3>2, <3>3, SaverStepInvariant
  <2> QED
    BY <1>3, <2>1, <2>2
<1>9. Counted' /\ StorageIsTrue'
  BY <1>1, <1>4, <1>5, <1>7 DEF SaveIInv, Counted, StorageIsTrue
<1>10. TabIsTrue'
  <2>1. pending' \in BOOLEAN
    BY <1>1 DEF SaveIInv, TabIsTrue
  <2> QED
    BY <1>1, <1>4, <2>1 DEF SaveIInv, TabIsTrue
<1> QED
  BY <1>1, <1>8, <1>9, <1>10, LocalStep

LEMMA FlushFailedInvariant ==
  ASSUME SaveIInv, FlushFailed
  PROVE  SaveIInv'
<1> DEFINE s == save["flush"]
           e == Entry(s.val, s.baseline, s.at)
<1>0. "flush" \in Savers
  BY DEF Savers
<1>1. /\ s.pc \in {"failed", "refused", "conflict"} /\ Absorb(s)
      /\ outbox' = [e EXCEPT !.stopped = s.pc = "refused"]
      /\ save' = [save EXCEPT !["flush"] = NoSave]
      /\ server' = server /\ settings' = settings
      /\ draft' = draft /\ pending' = pending /\ timer' = timer /\ chain' = chain /\ read' = read
      /\ made' = made /\ theirs' = theirs /\ mishaps' = mishaps /\ stored' = stored /\ told' = told /\ rested' = rested
  BY DEF FlushFailed, tab, counters, history
<1>2. s \in Sent /\ SaveIsTrue(s, server, stored, made) /\ s # NoSave
  BY <1>0, <1>1, SaveTypes
<1>3. s.val \in Known(made) /\ Copied(s.baseline, server, stored) /\ s.at \in 1 .. 4
  <2>1. s.at # 0 /\ s.at \in 0 .. 4
    BY <1>2 DEF SaveIInv, SavesAreTrue, Sent
  <2> QED
    BY <1>2, <2>1 DEF SaveIsTrue, NoSave, Sent
<1>4. EntryIsTrue(outbox', server, stored, made)
  <2>1. e \in Entries
    BY <1>3 DEF Entry, Entries, Known, Copied
  <2>2. outbox' = [val |-> s.val, base |-> s.baseline, at |-> s.at, stopped |-> (s.pc = "refused")]
    BY <1>1 DEF Entry
  <2>3. (s.pc = "refused") \in BOOLEAN
    OBVIOUS
  <2>4. outbox' \in Entries
    BY <1>3, <2>2, <2>3 DEF Entries, Known, Copied
  <2> QED
    BY <1>3, <2>2, <2>4 DEF EntryIsTrue
<1>5. /\ Copied(cloud', server, stored)
      /\ conflictBase' = None \/ Copied(conflictBase', server, stored)
  BY <1>1, <1>2, AbsorbIsTrue
<1>6. SavesAreTrue'
  BY <1>0, <1>1, SaveEnds
<1>7. Counted' /\ StorageIsTrue' /\ TabIsTrue'
  BY <1>1, <1>4, <1>5 DEF SaveIInv, Counted, StorageIsTrue, TabIsTrue
<1> QED
  BY <1>1, <1>6, <1>7, LocalStep

----------------------------------------------------------------------------
LEMMA OverviewInvariant ==
  ASSUME SaveIInv, ReadOverview \/ Reload
  PROVE  SaveIInv'
<1>1. /\ read' \in {Asked("overview"), Asked("boot")}
      /\ server' = server /\ cloud' = cloud /\ conflictBase' = conflictBase /\ settings' = settings
      /\ outbox' = outbox /\ draft' \in {draft, settings} /\ timer' \in {timer, None}
      /\ chain' = chain \/ chain' = <<>>
      /\ save' = save \/ save' = [save EXCEPT !["push"] = NoSave]
      /\ made' = made /\ theirs' = theirs /\ stored' = stored /\ told' = told /\ rested' = rested
  BY DEF ReadOverview, Reload, storage, history
<1>2. mishaps' \in Nat
  BY DEF ReadOverview, Reload, Mishap, SaveIInv, Counted
<1>3. pending' \in BOOLEAN
  <2>1. CASE ReadOverview
    BY <2>1, Zenon DEF ReadOverview, SaveIInv, TabIsTrue
  <2>2. CASE Reload
    BY <2>2, Zenon DEF Reload
  <2> QED
    BY <2>1, <2>2
<1>4. ReadIsTrue(read', server, stored)
  <2>1. server \in Snapshots /\ Copied(server, server, stored) /\ cloud \in Snapshots
    BY DEF SaveIInv, StorageIsTrue, Copied
  <2>2. Asked("overview") \in Reads /\ Asked("boot") \in Reads
    BY <2>1 DEF Asked, Reads, Snapshots
  <2> QED
    BY <1>1, <2>1, <2>2 DEF ReadIsTrue, Asked
<1>5. Counted' /\ StorageIsTrue'
  BY <1>1, <1>2 DEF SaveIInv, Counted, StorageIsTrue
<1>6. TabIsTrue'
  <2>1. <<>> \in Seq(Known(made)) /\ Len(<<>>) <= MaxChain
    BY SaveBounds
  <2> QED
    BY <1>1, <1>3, <1>4, <2>1 DEF SaveIInv, TabIsTrue, StorageIsTrue
<1>7. SavesAreTrue'
  <2>1. CASE save' = save
    BY <1>1, <2>1 DEF SaveIInv, SavesAreTrue
  <2>2. CASE save' = [save EXCEPT !["push"] = NoSave]
    BY <1>1, <2>2, SaveEnds DEF Savers
  <2> QED
    BY <1>1, <2>1, <2>2
<1> QED
  BY <1>1, <1>5, <1>6, <1>7, LocalStep

LEMMA CloseInvariant ==
  ASSUME SaveIInv, CloseClassroom
  PROVE  SaveIInv'
<1>1. /\ save' = [save EXCEPT !["flush"] = NoSave]
      /\ server' = server /\ cloud' = cloud /\ conflictBase' = conflictBase /\ settings' = settings
      /\ outbox' = outbox /\ draft' = draft /\ pending' = pending /\ timer' = timer /\ chain' = chain
      /\ read' = read
      /\ made' = made /\ theirs' = theirs /\ stored' = stored /\ told' = told /\ rested' = rested
  BY DEF CloseClassroom, storage, tab, history
<1>2. mishaps' \in Nat
  BY DEF CloseClassroom, Mishap, SaveIInv, Counted
<1>3. SavesAreTrue'
  BY <1>1, SaveEnds DEF Savers
<1>4. Counted' /\ StorageIsTrue' /\ TabIsTrue'
  BY <1>1, <1>2 DEF SaveIInv, Counted, StorageIsTrue, TabIsTrue
<1> QED
  BY <1>1, <1>3, <1>4, LocalStep

(* The document that is shown once a read has arrived is stored. *)
Fresh == [read.snap EXCEPT !.val = [p \in Parts |->
            IF read.since[DomainOf[p]] = read.snap.rev[DomainOf[p]] THEN cloud.val[p] ELSE read.snap.val[p]]]

LEMMA FreshIsCopied ==
  ASSUME SaveIInv, read # None
  PROVE  Copied(Fresh, server, stored) /\ Fresh.val \in Known(made)
<1>1. /\ read.snap \in Snapshots /\ Copied(read.snap, server, stored)
      /\ Copied(cloud, server, stored) /\ cloud \in Snapshots /\ stored \subseteq 1 .. made
  BY DEF SaveIInv, Counted, TabIsTrue, ReadIsTrue, StorageIsTrue, Copied
<1>2. /\ OwnIn(read.snap.val) \subseteq stored /\ OwnIn(cloud.val) \subseteq stored
      /\ read.snap.val \in Documents /\ cloud.val \in Documents
  BY <1>1 DEF Copied, Snapshots
<1>3. /\ Fresh.ver = read.snap.ver /\ Fresh.rev = read.snap.rev
      /\ Fresh.val = [p \in Parts |->
           IF read.since[DomainOf[p]] = read.snap.rev[DomainOf[p]] THEN cloud.val[p] ELSE read.snap.val[p]]
      /\ Fresh = [ver |-> Fresh.ver, rev |-> Fresh.rev, val |-> Fresh.val]
  BY <1>1 DEF Fresh, Snapshots
<1>4. Fresh.val \in Documents
  BY <1>2, <1>3 DEF Documents
<1>5. OwnIn(Fresh.val) \subseteq stored
  BY <1>2, <1>3 DEF OwnIn
<1>6. Fresh \in Snapshots
  BY <1>1, <1>3, <1>4 DEF Snapshots
<1>7. Copied(Fresh, server, stored)
  BY <1>1, <1>3, <1>5, <1>6 DEF Copied
<1> QED
  BY <1>1, <1>4, <1>5, <1>7 DEF Known

LEMMA ArriveInvariant ==
  ASSUME SaveIInv, Arrive
  PROVE  SaveIInv'
<1>1. /\ read # None /\ Remember(Fresh) /\ read' = None
      /\ server' = server /\ conflictBase' = conflictBase /\ outbox' = outbox /\ timer' = timer
      /\ save' = save
      /\ made' = made /\ theirs' = theirs /\ mishaps' = mishaps /\ stored' = stored /\ told' = told /\ rested' = rested
  BY DEF Arrive, Fresh, counters, history
<1>2. Copied(Fresh, server, stored) /\ Fresh.val \in Known(made)
  BY <1>1, FreshIsCopied
<1>3. Copied(cloud', server, stored)
  BY <1>1, <1>2 DEF Remember, SaveIInv, StorageIsTrue
<1>4. /\ settings' \in {settings, Fresh.val} /\ draft' \in {draft, Fresh.val}
      /\ chain' = chain \/ Chain(settings)
  <2>1. CASE read.kind = "boot" /\ outbox = None
    BY <2>1 DEF Arrive, Fresh
  <2>2. CASE read.kind = "boot" /\ outbox # None
    BY <2>2 DEF Arrive
  <2>3. CASE read.kind # "boot"
    BY <2>3 DEF Arrive
  <2> QED
    BY <2>1, <2>2, <2>3
<1>5. pending' \in BOOLEAN
  <2>0. pending \in BOOLEAN
    BY DEF SaveIInv, TabIsTrue
  <2>1. CASE read.kind = "boot" /\ outbox = None
    BY <2>1, Zenon DEF Arrive
  <2>2. CASE read.kind = "boot" /\ outbox # None
    BY <2>2, Zenon DEF Arrive
  <2>3. CASE read.kind # "boot"
    BY <2>0, <2>3, Zenon DEF Arrive
  <2> QED
    BY <2>1, <2>2, <2>3
<1>6. settings \in Known(made) /\ draft \in Known(made)
  BY DEF SaveIInv, StorageIsTrue, TabIsTrue
<1>7. chain' \in Seq(Known(made)) /\ Len(chain') <= MaxChain
  BY <1>4, <1>6, ChainKnown DEF SaveIInv, TabIsTrue
<1>8. Counted' /\ StorageIsTrue'
  BY <1>1, <1>2, <1>3, <1>4 DEF SaveIInv, Counted, StorageIsTrue
<1>9. TabIsTrue'
  BY <1>1, <1>2, <1>4, <1>5, <1>6, <1>7 DEF SaveIInv, TabIsTrue, ReadIsTrue
<1>10. SavesAreTrue'
  BY <1>1 DEF SaveIInv, SavesAreTrue
<1> QED
  BY <1>1, <1>8, <1>9, <1>10, LocalStep

LEMMA SaveNextInvariant == SaveIInv /\ [SaveNext]_saveVars => SaveIInv'
<1> SUFFICES ASSUME SaveIInv, [SaveNext]_saveVars PROVE SaveIInv'
  OBVIOUS
<1>0. "push" \in Savers /\ "flush" \in Savers
  BY DEF Savers
<1>1. ASSUME NEW p \in OwnParts, Edit(p) PROVE SaveIInv'
  BY <1>1, EditInvariant
<1>2. ASSUME NEW p \in Parts, TheyEdit(p) PROVE SaveIInv'
  BY <1>2, TheyEditInvariant
<1>3. CASE TimerFires \/ GoOnline
  BY <1>3, TimerInvariant
<1>4. ASSUME NEW c \in Savers, SaverStep(c) PROVE SaveIInv'
  BY <1>4, SendInvariant, ServeInvariant DEF SaverStep
<1>5. CASE PushStep
  <2>1. CASE StartPush
    BY <2>1, StartPushInvariant
  <2>2. CASE PushStale \/ PushFailed
    BY <2>2, PushGivesUp
  <2>3. CASE PushSaved
    BY <1>0, <2>3, SavedInvariant
  <2>4. CASE PushConflict
    BY <1>0, <2>4, ConflictInvariant
  <2> QED
    BY <1>0, <1>4, <1>5, <2>1, <2>2, <2>3, <2>4 DEF PushStep
<1>6. CASE StartFlush
  BY <1>6, StartFlushInvariant
<1>7. CASE FlushStep
  <2>1. CASE FlushSaved
    BY <1>0, <2>1, SavedInvariant
  <2>2. CASE FlushConflict
    BY <1>0, <2>2, ConflictInvariant
  <2>3. CASE FlushFailed
    BY <2>3, FlushFailedInvariant
  <2> QED
    BY <1>0, <1>4, <1>7, <2>1, <2>2, <2>3 DEF FlushStep
<1>8. ASSUME NEW c \in Savers, Fails(c) PROVE SaveIInv'
  BY <1>8, FailsInvariant
<1>9. CASE ReadOverview \/ Reload
  BY <1>9, OverviewInvariant
<1>10. CASE Arrive
  BY <1>10, ArriveInvariant
<1>11. CASE CloseClassroom
  BY <1>11, CloseInvariant
<1>12. CASE UNCHANGED saveVars
  BY <1>12, SaveStutter
<1> QED
  BY <1>1, <1>2, <1>3, <1>5, <1>6, <1>7, <1>8, <1>9, <1>10, <1>11, <1>12 DEF SaveNext

LEMMA SaveInvariant == SaveSpec => []SaveIInv
  BY SaveInitInvariant, SaveNextInvariant, PTL DEF SaveSpec

LEMMA SaveTypeCorrect == SaveIInv => SaveTypeOK
<1> SUFFICES ASSUME SaveIInv PROVE SaveTypeOK
  OBVIOUS
<1>1. Known(made) \subseteq Documents
  BY DEF Known
<1>2. chain \in Seq(Documents) /\ Len(chain) <= MaxChain
  BY <1>1, SeqMonotonic DEF SaveIInv, TabIsTrue
<1>3. stored \subseteq Own /\ told \subseteq Own
  BY SaveBounds DEF SaveIInv, Counted, Own
<1>4. /\ outbox \in Entries \cup {None} /\ read \in Reads \cup {None}
      /\ conflictBase \in Snapshots \cup {None} /\ timer \in Documents \cup {None}
  BY <1>1 DEF SaveIInv, StorageIsTrue, TabIsTrue, EntryIsTrue, ReadIsTrue, Copied
<1>5. /\ server \in Snapshots /\ cloud \in Snapshots /\ settings \in Documents /\ draft \in Documents
      /\ cloud.ver <= server.ver /\ \A d \in Domains : cloud.rev[d] <= server.rev[d]
  BY <1>1 DEF SaveIInv, StorageIsTrue, TabIsTrue, Copied
<1>6. pending \in BOOLEAN
  BY DEF SaveIInv, TabIsTrue
<1>7. /\ save \in [Savers -> {NoSave} \cup Readied \cup Sent]
      /\ made \in 0 .. LastOwn /\ theirs \in LastOwn .. LastTheirs /\ mishaps \in Nat
      /\ rested \in [Parts -> 0 .. LastOwn]
  BY DEF SaveIInv, SavesAreTrue, Counted
<1> QED
  BY <1>2, <1>3, <1>4, <1>5, <1>6, <1>7 DEF SaveTypeOK

(* Nothing is reported as saved that the server has not stored, however     *)
(* saves, conflicts, retries, lost answers and reloads of two tabs fall:    *)
(* pushToServerExec, flushPendingExamSync and isGhostConflict.              *)
THEOREM SavedWasStored == SaveSpec => []ReportedWasStored
<1>1. SaveIInv => ReportedWasStored
  BY DEF SaveIInv, Counted, ReportedWasStored
<1> QED
  BY <1>1, SaveInvariant, PTL

----------------------------------------------------------------------------
(* The edits made at rest.  They are carried by every document that may     *)
(* still reach the outbox or the server.                                    *)
Open(p) == rested[p] \in Own \ stored

With(p) == {v \in Documents : v[p] = rested[p]}

(* The push under way is of an entry that neither waits nor is being        *)
(* flushed.                                                                 *)
Superseded ==
  /\ save["push"].at \notin {0, outbox.at}
  /\ save["flush"] # NoSave => save["push"].at # save["flush"].at

Carried(p) ==
  /\ draft \in With(p) /\ settings \in With(p)
  /\ outbox # None /\ outbox.val \in With(p)
  /\ timer # None => timer \in With(p)
  /\ chain \in Seq(With(p))
  /\ save["flush"] # NoSave => save["flush"].val \in With(p)
  /\ save["push"] # NoSave => save["push"].val \in With(p) \/ Superseded

RestIInv == SaveIInv /\ \A p \in Parts : Open(p) => Carried(p)

(* An open edit is in no document whose edits are stored. *)
LEMMA OpenIsNew ==
  ASSUME NEW p \in Parts, Open(p), NEW v, OwnIn(v) \subseteq stored
  PROVE  v[p] # rested[p]
  BY DEF Open, OwnIn

LEMMA MergeCarries ==
  ASSUME SaveIInv, NEW p \in Parts, Open(p),
         NEW s \in Sent, SaveIsTrue(s, server, stored, made), s.pc = "conflict",
         s.val \in With(p)
  PROVE  Merge(s.baseline.val, s.val, s.base.val) \in With(p)
<1>1. Merge(s.baseline.val, s.val, s.base.val) \in Documents
  BY MergeKnown DEF Known
<1>2. OwnIn(s.baseline.val) \subseteq stored
  BY DEF SaveIsTrue, NoSave, Sent, Copied
<1>3. s.baseline.val[p] # rested[p] /\ s.val[p] = rested[p]
  BY <1>2, OpenIsNew DEF With
<1> QED
  BY <1>1, <1>3 DEF Merge, With

(* A push that lacks an open edit is put aside: its entry was replaced. *)
LEMMA PushLacking ==
  ASSUME NEW p \in Parts, Carried(p), save["push"] # NoSave, ~Stale(save["push"])
  PROVE  save["push"].val \in With(p)
  BY DEF Carried, Superseded, Stale, WaitingAt

----------------------------------------------------------------------------
(* Steps that leave the user's edits alone carry what was carried. *)
LEMMA QueuePushCarries ==
  ASSUME SaveIInv, NEW p \in Parts, Carried(p), TimerFires \/ GoOnline
  PROVE  Carried(p)'
<1>1. /\ settings' = settings /\ draft' = draft /\ outbox' = outbox /\ save' = save
      /\ timer' \in {timer, None} /\ rested' = rested
  BY DEF TimerFires, GoOnline, storage, counters, history
<1>2. PICK v \in With(p) : Chain(v)
  BY DEF TimerFires, GoOnline, Carried
<1>3. chain' \in Seq(With(p))
  BY <1>2, AppendProperties DEF Chain, Carried
<1> QED
  BY <1>1, <1>3 DEF Carried, With, Superseded

LEMMA StartPushCarries ==
  ASSUME SaveIInv, NEW p \in Parts, Carried(p), StartPush
  PROVE  Carried(p)'
<1> DEFINE val == [q \in Parts |-> IF DomainOf[q] = "major" THEN Head(chain)[q] ELSE draft[q]]
<1>1. /\ chain # <<>> /\ chain' = Tail(chain)
      /\ save'["push"].val = val /\ save'["flush"] = save["flush"]
      /\ settings' = settings /\ draft' = draft /\ outbox' = outbox /\ timer' = timer
      /\ rested' = rested
  BY DEF StartPush, Continuing, storage, counters, history, SaveIInv, SavesAreTrue, Savers
<1>2. Head(chain) \in With(p) /\ chain' \in Seq(With(p))
  BY <1>1, HeadTailProperties DEF Carried
<1>3. val \in With(p)
  BY <1>2 DEF Carried, With, Documents
<1> QED
  BY <1>1, <1>2, <1>3 DEF Carried, With

LEMMA StartFlushCarries ==
  ASSUME SaveIInv, NEW p \in Parts, Carried(p), StartFlush
  PROVE  Carried(p)'
<1>1. /\ outbox # None /\ save'["flush"].val = outbox.val /\ save'["flush"].at = outbox.at
      /\ save'["push"] = save["push"]
      /\ settings' = settings /\ draft' = draft /\ outbox' = outbox /\ timer' = timer
      /\ chain' = chain /\ rested' = rested
  BY DEF StartFlush, storage, tab, history, SaveIInv, SavesAreTrue, Savers
<1> QED
  BY <1>1 DEF Carried, With, Superseded

(* Sending, serving and failing change neither the document nor the entry   *)
(* of a save.                                                               *)
LEMMA SaveStepCarries ==
  ASSUME SaveIInv, NEW p \in Parts, Carried(p), NEW c \in Savers, SaverStep(c) \/ Fails(c)
  PROVE  Carried(p)'
<1>1. /\ settings' = settings /\ draft' = draft /\ outbox' = outbox /\ timer' = timer
      /\ chain' = chain /\ rested' = rested
  BY DEF SaverStep, Send, Serve, Fails, storage, tab, history
<1>2. save[c] # NoSave
  BY DEF SaverStep, Send, Serve, Fails, NoSave
<1>3. \A d \in Savers : d # c => save'[d] = save[d]
  BY DEF SaverStep, Send, Serve, Fails, SaveIInv, SavesAreTrue
<1>4. save'[c].val = save[c].val /\ save'[c].at = save[c].at
  <2>1. CASE Send(c)
    BY <2>1 DEF Send, SaveIInv, SavesAreTrue
  <2>2. CASE Serve(c)
    <3>1. save[c] \in Sent
      BY <2>2, SaveTypes DEF Serve
    <3>2. PICK t : save' = [save EXCEPT ![c] = t] /\ t.val = save[c].val /\ t.at = save[c].at
      <4>1. CASE Current(save[c])
        <5> DEFINE t == [save[c] EXCEPT !.pc = "saved", !.ver = server'.ver, !.base = server']
        <5>1. save' = [save EXCEPT ![c] = t]
          BY <2>2, <4>1 DEF Serve
        <5>2. t.val = save[c].val /\ t.at = save[c].at
          BY <3>1 DEF Sent
        <5> QED
          BY <5>1, <5>2
      <4>2. CASE ~Current(save[c])
        <5> DEFINE t == [save[c] EXCEPT !.pc = "conflict", !.base = RemoteOf(save[c])]
        <5>1. save' = [save EXCEPT ![c] = t]
          BY <2>2, <4>2 DEF Serve
        <5>2. t.val = save[c].val /\ t.at = save[c].at
          BY <3>1 DEF Sent
        <5> QED
          BY <5>1, <5>2
      <4> QED
        BY <4>1, <4>2
    <3> QED
      BY <3>2 DEF SaveIInv, SavesAreTrue
  <2>3. CASE Fails(c)
    <3>1. save[c] \in Sent
      BY <2>3, SaveTypes DEF Fails
    <3>2. PICK how \in {"failed", "refused"} : save' = [save EXCEPT ![c].pc = how]
      BY <2>3, Zenon DEF Fails
    <3> QED
      BY <3>1, <3>2 DEF Sent, SaveIInv, SavesAreTrue
  <2> QED
    BY <2>1, <2>2, <2>3 DEF SaverStep
<1> QED
  BY <1>1, <1>2, <1>3, <1>4 DEF Carried, With, Superseded, Savers

(* Saves that end without touching document and entry. *)
LEMMA SaveEndsCarries ==
  ASSUME SaveIInv, NEW p \in Parts, Carried(p), PushStale \/ PushFailed \/ CloseClassroom
  PROVE  Carried(p)'
<1>1. /\ settings' = settings /\ draft' = draft /\ outbox' = outbox /\ timer' = timer
      /\ chain' = chain /\ rested' = rested
  BY DEF PushStale, PushFailed, CloseClassroom, storage, tab, history
<1>2. PICK c \in Savers : save' = [save EXCEPT ![c] = NoSave]
  BY DEF PushStale, PushFailed, CloseClassroom, Savers
<1>3. \A d \in Savers : save'[d] = IF d = c THEN NoSave ELSE save[d]
  BY <1>2 DEF SaveIInv, SavesAreTrue
<1> QED
  BY <1>1, <1>3 DEF Carried, With, Superseded, Savers

(* No save that carries an open edit is reported done. *)
LEMMA SavedLacks ==
  ASSUME SaveIInv, NEW p \in Parts, Open(p), Carried(p), PushSaved \/ FlushSaved
  PROVE  FALSE
<1>1. ASSUME NEW c \in Savers, save[c].pc \in {"same", "saved"} \/ Ghost(save[c]),
             save[c].val \in With(p)
      PROVE  FALSE
  <2>1. save[c] \in Sent /\ SaveIsTrue(save[c], server, stored, made)
    BY <1>1, SaveTypes DEF Ghost
  <2>2. OwnIn(save[c].val) \subseteq stored
    BY <1>1, <2>1, GhostIsStored
  <2> QED
    BY <1>1, <2>2, OpenIsNew DEF With
<1>2. CASE PushSaved
  BY <1>1, <1>2, PushLacking DEF PushSaved, NoSave, Savers
<1>3. CASE FlushSaved
  <2>1. save["flush"] # NoSave
    BY <1>3 DEF FlushSaved, NoSave, Ghost
  <2> QED
    BY <1>1, <1>3, <2>1 DEF FlushSaved, Carried, Savers
<1> QED
  BY <1>2, <1>3

(* A merge keeps the edit and queues it under a new time, which is that of  *)
(* no save under way.                                                       *)
LEMMA ConflictCarries ==
  ASSUME SaveIInv, NEW p \in Parts, Open(p), Carried(p), NEW c \in Savers,
         \/ c = "push" /\ PushConflict
         \/ c = "flush" /\ FlushConflict
  PROVE  Carried(p)'
<1> DEFINE o == save[c]
           merged == Merge(o.baseline.val, o.val, o.base.val)
<1>1. /\ o.pc = "conflict" /\ outbox' = Entry(merged, o.base, NewTime)
      /\ settings' \in {settings, merged} /\ draft' \in {draft, merged}
      /\ timer' = timer /\ chain' = chain /\ rested' = rested
  <2>1. CASE c = "push" /\ PushConflict
    BY <2>1, Zenon DEF PushConflict, counters, history
  <2>2. CASE c = "flush" /\ FlushConflict
    BY <2>2, Zenon DEF FlushConflict, counters, history, tab
  <2> QED
    BY <2>1, <2>2
<1>2. /\ o \in Sent /\ SaveIsTrue(o, server, stored, made) /\ o # NoSave
  BY <1>1, SaveTypes
<1>3. o.val \in With(p)
  BY <1>2, PushLacking DEF PushConflict, Carried
<1>4. merged \in With(p)
  BY <1>1, <1>2, <1>3, MergeCarries
<1>5. /\ save'[c] = NoSave \/ (save'[c].val = merged /\ save'[c].at = NewTime)
      /\ \A d \in Savers : d # c => save'[d] = save[d]
  <2>1. PICK t : save' = [save EXCEPT ![c] = t] /\ (t = NoSave \/ (t.val = merged /\ t.at = NewTime))
    <3> DEFINE next(n) == [pc |-> "ready", val |-> merged, baseline |-> o.base, at |-> NewTime,
                           try |-> n, ver |-> o.base.ver]
    <3>1. \A n : next(n).val = merged /\ next(n).at = NewTime
      OBVIOUS
    <3>2. CASE c = "push" /\ PushConflict
      <4>1. save' = [save EXCEPT ![c] = IF o.try = 3 THEN NoSave ELSE next(o.try + 1)]
        BY <3>2 DEF PushConflict
      <4> QED
        BY <3>1, <4>1
    <3>3. CASE c = "flush" /\ FlushConflict
      <4>1. save' = [save EXCEPT ![c] = next(2)]
        BY <3>3 DEF FlushConflict
      <4> QED
        BY <3>1, <4>1
    <3> QED
      BY <3>2, <3>3
  <2> QED
    BY <2>1 DEF SaveIInv, SavesAreTrue
<1>6. /\ NewTime \in 1 .. 4 /\ NewTime # 0
      /\ \A d \in Savers : save[d] # NoSave => NewTime # save[d].at
  <2>1. \A d \in Savers : save[d] # NoSave => save[d].pc # "idle"
    BY SaveTypes DEF Readied, Sent
  <2> QED
    BY <2>1, NewTimeIsNew
<1>7. outbox' # None /\ outbox'.val = merged /\ outbox'.at = NewTime
  <2>1. merged \in Known(made) /\ Copied(o.base, server, stored)
    BY <1>1, <1>2, MergeKnown
  <2> HIDE DEF merged
  <2> QED
    BY <1>1, <1>6, <2>1, EntryMade DEF Entry
<1> HIDE DEF merged
<1>8. save'["flush"] # NoSave => save'["flush"].val \in With(p)
  BY <1>4, <1>5 DEF Carried, Savers
<1>9. save'["push"] # NoSave => save'["push"].val \in With(p) \/ Superseded'
  <2>1. CASE c = "push"
    BY <1>4, <1>5, <2>1
  <2>2. CASE c = "flush"
    <3>1. save'["push"] = save["push"] /\ (save'["flush"] # NoSave => save'["flush"].at = NewTime)
      BY <1>5, <2>2 DEF Savers
    <3> QED
      BY <1>6, <1>7, <3>1 DEF Carried, Superseded, Savers
  <2> QED
    BY <2>1, <2>2 DEF Savers
<1> QED
  BY <1>1, <1>4, <1>7, <1>8, <1>9 DEF Carried, With

(* A failed flush queues the entry it took up, which holds the edit. *)
LEMMA FlushFailedCarries ==
  ASSUME SaveIInv, NEW p \in Parts, Carried(p), FlushFailed
  PROVE  Carried(p)'
<1> DEFINE o == save["flush"]
           entry == [Entry(o.val, o.baseline, o.at) EXCEPT !.stopped = o.pc = "refused"]
<1>1. /\ o.pc \in {"failed", "refused", "conflict"} /\ outbox' = entry
      /\ save' = [save EXCEPT !["flush"] = NoSave]
      /\ settings' = settings /\ draft' = draft /\ timer' = timer /\ chain' = chain /\ rested' = rested
  BY DEF FlushFailed, tab, counters, history
<1>2. /\ o \in Sent /\ o # NoSave /\ SaveIsTrue(o, server, stored, made)
  BY <1>1, SaveTypes DEF Savers
<1>3. o.at \in 1 .. 4 /\ o.val \in With(p)
  BY <1>2 DEF Carried, SaveIInv, SavesAreTrue, Sent
<1>4. entry.val = o.val /\ entry.at = o.at /\ entry \in Entries
  BY <1>2, <1>3 DEF Entry, Entries, Sent
<1>5. save'["flush"] = NoSave /\ save'["push"] = save["push"]
  BY <1>1 DEF SaveIInv, SavesAreTrue, Savers
<1> HIDE DEF entry
<1>6. outbox' # None /\ outbox'.val = o.val /\ outbox'.at = o.at
  BY <1>1, <1>4, NoneIsNothing
<1> QED
  BY <1>1, <1>2, <1>3, <1>5, <1>6 DEF Carried, With, Superseded

(* Reads change the document only while no entry waits. *)
LEMMA ReadsCarry ==
  ASSUME SaveIInv, NEW p \in Parts, Carried(p), ReadOverview \/ Reload \/ Arrive
  PROVE  Carried(p)'
<1>1. /\ settings' = settings /\ outbox' = outbox /\ rested' = rested
      /\ draft' \in {draft, settings} /\ timer' \in {timer, None}
  <2>1. CASE ReadOverview \/ Reload
    BY <2>1 DEF ReadOverview, Reload, storage, history
  <2>2. CASE Arrive
    BY <2>2 DEF Arrive, Carried, history
  <2> QED
    BY <2>1, <2>2
<1>2. chain' \in {chain, <<>>} \/ Chain(settings)
  BY DEF ReadOverview, Reload, Arrive, Carried
<1>3. chain' \in Seq(With(p))
  <2>0. <<>> \in Seq(With(p))
    OBVIOUS
  <2>1. CASE chain' \in {chain, <<>>}
    BY <2>0, <2>1 DEF Carried
  <2>2. CASE Chain(settings)
    BY <2>2, AppendProperties DEF Chain, Carried
  <2> QED
    BY <1>2, <2>1, <2>2
<1>4. save'["flush"] = save["flush"] /\ save'["push"] \in {save["push"], NoSave}
  BY DEF ReadOverview, Reload, Arrive, SaveIInv, SavesAreTrue, Savers
<1> QED
  BY <1>1, <1>3, <1>4 DEF Carried, With, Superseded

(* The edits of others stay on the server. *)
LEMMA OthersCarry ==
  ASSUME NEW p \in Parts, Carried(p), (\E q \in Parts : TheyEdit(q)) \/ UNCHANGED saveVars
  PROVE  Carried(p)'
<1>1. /\ settings' = settings /\ draft' = draft /\ outbox' = outbox /\ timer' = timer
      /\ chain' = chain /\ save' = save /\ rested' = rested
  BY DEF TheyEdit, saveVars, storage, tab, history
<1> QED
  BY <1>1 DEF Carried, With, Superseded

----------------------------------------------------------------------------
(* An edit at rest is in every document but that of a push under way, whose *)
(* entry it replaces; it carries the open edits of the other parts.         *)
LEMMA EditCarries ==
  ASSUME RestIInv, NEW q \in OwnParts, Edit(q), NEW p \in Parts, Open(p)'
  PROVE  Carried(p)'
<1> DEFINE val == [draft EXCEPT ![q] = made + 1]
<1>0. SaveIInv /\ (Open(p) => Carried(p)) /\ q \in Parts
  BY SaveBounds DEF RestIInv
<1>1. /\ draft' = val /\ settings' = val /\ timer' = val /\ outbox' = Entry(val, cloud, NewTime)
      /\ chain' = chain /\ save' = save /\ stored' = stored
      /\ rested' = [rested EXCEPT ![q] = IF AtRest THEN made + 1 ELSE 0]
  BY DEF Edit
<1>2. rested \in [Parts -> 0 .. LastOwn] /\ draft \in Documents /\ draft' \in Documents
  <2>1. SaveIInv'
    BY <1>0, EditInvariant
  <2> QED
    BY <1>0, <2>1 DEF SaveIInv, Counted, TabIsTrue, Known
<1>3. val \in Documents /\ val[q] = made + 1 /\ (p # q => val[p] = draft[p])
  BY <1>0, <1>1, <1>2 DEF Documents
<1>4. /\ outbox' # None /\ outbox'.val = val /\ outbox'.at = NewTime
  <2>1. Entry(val, cloud, NewTime) \in Entries
    <3>1. cloud \in Snapshots
      BY <1>0 DEF SaveIInv, StorageIsTrue, Copied
    <3> HIDE DEF val
    <3> QED
      BY <1>3, <3>1, NewTimeIsNew DEF Entry, Entries
  <2> QED
    BY <1>1, <2>1, NoneIsNothing DEF Entry
<1>5. NewTime \in 1 .. 4 /\ \A c \in Savers : save[c] # NoSave => NewTime # save[c].at
  <2>1. \A c \in Savers : save[c] # NoSave => save[c].pc # "idle"
    BY <1>0, SaveTypes DEF Readied, Sent
  <2> QED
    BY <2>1, NewTimeIsNew
<1> HIDE DEF val
<1>6. CASE p = q
  <2>1. rested'[p] = IF AtRest THEN made + 1 ELSE 0
    BY <1>1, <1>2, <1>6
  <2>2. AtRest /\ rested'[p] = made + 1
    BY <2>1, SaveBounds DEF Open, Own
  <2>3. /\ chain = <<>> /\ save["flush"] = NoSave
        /\ save["push"] # NoSave => save["push"].at # 0
    <3>1. \A c \in Savers : save[c] # NoSave <=> save[c].pc # "idle"
      BY <1>0, SaveTypes DEF Readied, Sent, NoSave
    <3> QED
      BY <2>2, <3>1 DEF AtRest, Savers
  <2>4. Superseded' \/ save["push"] = NoSave
    BY <1>1, <1>4, <1>5, <2>3 DEF Superseded, Savers
  <2>5. val \in With(p)'
    BY <1>3, <1>6, <2>2 DEF With
  <2>6. chain' \in Seq(With(p)')
    BY <1>1, <2>3
  <2> QED
    BY <1>1, <1>4, <2>3, <2>4, <2>5, <2>6 DEF Carried
<1>7. CASE p # q
  <2>1. rested'[p] = rested[p]
    BY <1>1, <1>2, <1>7
  <2>2. Open(p) /\ Carried(p)
    BY <1>0, <1>1, <2>1 DEF Open
  <2>3. With(p)' = With(p)
    BY <2>1 DEF With
  <2>4. val \in With(p)
    BY <1>3, <1>7, <2>2 DEF Carried, With
  <2>5. save["push"] # NoSave => save["push"].val \in With(p) \/ Superseded'
    BY <1>1, <1>4, <1>5, <2>2 DEF Carried, Superseded, Savers
  <2> QED
    BY <1>1, <1>4, <2>2, <2>3, <2>4, <2>5 DEF Carried
<1> QED
  BY <1>6, <1>7

(* Every other step leaves the open edits open or stores them. *)
LEMMA NextCarries ==
  ASSUME SaveIInv, NEW p \in Parts, Open(p), Carried(p), [SaveNext]_saveVars,
         ~\E q \in OwnParts : Edit(q)
  PROVE  Carried(p)'
<1>0. "push" \in Savers /\ "flush" \in Savers
  BY DEF Savers
<1>1. CASE TimerFires \/ GoOnline
  BY <1>1, QueuePushCarries
<1>2. ASSUME NEW c \in Savers, SaverStep(c) \/ Fails(c) PROVE Carried(p)'
  BY <1>2, SaveStepCarries
<1>3. CASE StartPush
  BY <1>3, StartPushCarries
<1>4. CASE PushStale \/ PushFailed \/ CloseClassroom
  BY <1>4, SaveEndsCarries
<1>5. CASE PushSaved \/ FlushSaved
  BY <1>5, SavedLacks
<1>6. CASE PushConflict \/ FlushConflict
  BY <1>0, <1>6, ConflictCarries
<1>7. CASE StartFlush
  BY <1>7, StartFlushCarries
<1>8. CASE FlushFailed
  BY <1>8, FlushFailedCarries
<1>9. CASE ReadOverview \/ Reload \/ Arrive
  BY <1>9, ReadsCarry
<1>10. CASE (\E q \in Parts : TheyEdit(q)) \/ UNCHANGED saveVars
  BY <1>10, OthersCarry
<1>11. CASE PushStep
  BY <1>0, <1>2, <1>3, <1>4, <1>5, <1>6, <1>11 DEF PushStep
<1>12. CASE FlushStep
  BY <1>0, <1>2, <1>5, <1>6, <1>8, <1>12 DEF FlushStep
<1> QED
  BY <1>1, <1>2, <1>4, <1>7, <1>9, <1>10, <1>11, <1>12 DEF SaveNext

(* An edit that is open after such a step was open before it. *)
LEMMA OpenWasOpen ==
  ASSUME SaveIInv, NEW p \in Parts, Open(p)', [SaveNext]_saveVars, ~\E q \in OwnParts : Edit(q)
  PROVE  Open(p)
<1>1. rested' = rested
  BY DEF SaveNext, TimerFires, GoOnline, PushStep, StartPush, SaverStep, Send, Serve, PushStale,
         PushSaved, PushConflict, PushFailed, StartFlush, FlushStep, FlushSaved, FlushConflict,
         FlushFailed, Fails, ReadOverview, Arrive, Reload, CloseClassroom, TheyEdit, history, saveVars
<1>2. stored \subseteq stored'
  BY DEF SaveNext, TimerFires, GoOnline, PushStep, StartPush, SaverStep, Send, Serve, PushStale,
         PushSaved, PushConflict, PushFailed, StartFlush, FlushStep, FlushSaved, FlushConflict,
         FlushFailed, Fails, ReadOverview, Arrive, Reload, CloseClassroom, TheyEdit, history, saveVars
<1> QED
  BY <1>1, <1>2 DEF Open

LEMMA RestInitInvariant == SaveInit => RestIInv
<1> SUFFICES ASSUME SaveInit PROVE RestIInv
  OBVIOUS
<1>1. \A p \in Parts : rested[p] = 0
  BY DEF SaveInit
<1> QED
  BY <1>1, SaveInitInvariant DEF RestIInv, Open, Own

LEMMA RestNextInvariant == RestIInv /\ [SaveNext]_saveVars => RestIInv'
<1> SUFFICES ASSUME RestIInv, [SaveNext]_saveVars, NEW p \in Parts, Open(p)'
             PROVE  Carried(p)'
  BY SaveNextInvariant DEF RestIInv
<1>1. CASE \E q \in OwnParts : Edit(q)
  BY <1>1, EditCarries
<1>2. CASE ~\E q \in OwnParts : Edit(q)
  BY <1>2, OpenWasOpen, NextCarries DEF RestIInv
<1> QED
  BY <1>1, <1>2

(* An edit that was made while no flush was under way, no push waited, and  *)
(* no push was under way without an entry, stays in the outbox until it is  *)
(* stored or its part is edited again, however the saves of the two tabs,   *)
(* conflicts, failures and reloads fall: commit, pushToServerExec and       *)
(* flushPendingExamSync.                                                    *)
THEOREM RestedEditsKept == SaveSpec => []RestedEditsAreKept
<1>1. RestIInv => RestedEditsAreKept
  BY DEF RestIInv, Open, Carried, With, RestedEditsAreKept
<1> QED
  BY <1>1, RestInitInvariant, RestNextInvariant, PTL DEF SaveSpec
=============================================================================
