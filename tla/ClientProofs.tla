---------------------------- MODULE ClientProofs ----------------------------
(***************************************************************************)
(* The stored snapshot is whole, for any number of tabs and domains and    *)
(* for documents of any length.  A partial answer leaves out the domains   *)
(* whose revision the read had asked with, and is laid over a snapshot     *)
(* that may be another one by then.  The argument: revisions never go      *)
(* back, neither in the document nor in the stored snapshot, so a domain   *)
(* that was left out is either the same in the stored snapshot, or that    *)
(* snapshot is newer than the answer, which is then dropped.               *)
(*                                                                         *)
(* At the end: saving and reading, composed as they are checked.           *)
(***************************************************************************)
EXTENDS MCClients, SaveProtocolProofs

(* A field says which version wrote it, and later versions do not undo it. *)
DocsGrow ==
  \A n \in 1..Now, f \in Fields :
    /\ docs[n][f] <= n
    /\ \A m \in 1..n : docs[m][f] <= docs[n][f]

(* What a read asked with, the stored snapshot still has or has passed. *)
AskedOf(r) ==
  \A d \in Revised :
    look[r].since[d] = MaxVersion + 1 \/ (kept.ver > 0 /\ look[r].since[d] <= kept.rev[d])

ReadIInv == ReadTypeOK /\ DocsGrow /\ KeptIsWhole /\ \A r \in Readers : AskedOf(r)

LEMMA BoundsAreNumbers == MaxVersion \in Nat \ {0} /\ MaxReadFaults \in Nat
  BY ReadsAssumption

LEMMA NoLookType == ASSUME ReadTypeOK PROVE NoLook \in Looks
<1>1. Unsent \in [Revised -> 0..(MaxVersion + 1)]
  BY BoundsAreNumbers DEF Unsent
<1> QED
  BY <1>1 DEF NoLook, Looks, ReadTypeOK, Now

LEMMA UnconditionalType == ASSUME ReadTypeOK PROVE Unconditional \in Looks
<1>1. Unsent \in [Revised -> 0..(MaxVersion + 1)]
  BY BoundsAreNumbers DEF Unsent
<1>2. Now \in 0..Now /\ 1 \in 1..Now
  BY BoundsAreNumbers DEF ReadTypeOK
<1> QED
  BY <1>1, <1>2 DEF Unconditional, Looks

LEMMA ReadInitInvariant == ReadInit => ReadIInv
<1> SUFFICES ASSUME ReadInit PROVE ReadIInv
  OBVIOUS
<1>1. docs \in Seq(Contents) /\ Now = 1 /\ docs[1] = [f \in Fields |-> 1]
  BY BoundsAreNumbers DEF ReadInit, Contents, Versions, Now
<1>2. kept \in [ver : 0..Now, rev : [Revised -> Versions], val : Contents]
  BY <1>1, BoundsAreNumbers DEF ReadInit, Contents, Versions, Nothing
<1>3. shown \in [ver : 0..Now, val : Contents]
  BY <1>1, BoundsAreNumbers DEF ReadInit, Contents, Versions, Nothing
<1>4. look \in [Readers -> Looks]
  <2>1. Unsent \in [Revised -> 0..(MaxVersion + 1)]
    BY BoundsAreNumbers DEF Unsent
  <2> QED
    BY <1>1, <2>1 DEF ReadInit, NoLook, Looks
<1>5. ReadTypeOK
  <2>1. etag \in 0..Now /\ Now \in 1..MaxVersion /\ readFaults \in 0..MaxReadFaults
    BY <1>1, BoundsAreNumbers DEF ReadInit
  <2>2. cut \in BOOLEAN /\ again \in [Screens -> BOOLEAN]
    BY Zenon DEF ReadInit
  <2> QED
    BY <1>1, <1>2, <1>3, <1>4, <2>1, <2>2 DEF ReadTypeOK
<1>6. DocsGrow
  BY <1>1 DEF DocsGrow
<1>7. KeptIsWhole
  BY DEF KeptIsWhole, ReadInit
<1>8. ASSUME NEW r \in Readers PROVE AskedOf(r)
  BY DEF AskedOf, ReadInit, NoLook, Unsent
<1> QED
  BY <1>5, <1>6, <1>7, <1>8 DEF ReadIInv

----------------------------------------------------------------------------
(* What a read does to its own look keeps the invariant, as long as it asks *)
(* with nothing, or with what is stored, or with what it asked before.      *)
LEMMA LookStep ==
  ASSUME ReadIInv, NEW r \in Readers, NEW new \in Looks,
         look' = [look EXCEPT ![r] = new],
         \/ new.since = Unsent
         \/ kept.ver > 0 /\ new.since = kept.rev
         \/ new.since = look[r].since,
         UNCHANGED <<docs, kept>>
  PROVE  /\ look' \in [Readers -> Looks]'
         /\ (DocsGrow /\ KeptIsWhole /\ \A x \in Readers : AskedOf(x))'
<1>1. look \in [Readers -> Looks] /\ kept.rev \in [Revised -> Versions]
  BY DEF ReadIInv, ReadTypeOK, Looks
<1>2. look' \in [Readers -> Looks] /\ Looks' = Looks
  BY <1>1 DEF Looks, Now
<1>3. DocsGrow' /\ KeptIsWhole'
  BY DEF ReadIInv, DocsGrow, KeptIsWhole, Revisions, Now
<1>4. ASSUME NEW x \in Readers PROVE AskedOf(x)'
  <2>1. CASE x = r
    <3>1. look'[x] = new
      BY <1>1, <2>1
    <3>2. AskedOf(r)
      BY DEF ReadIInv
    <3>3. \A d \in Revised : kept.rev[d] \in Nat
      BY <1>1, BoundsAreNumbers DEF Versions
    <3> QED
      BY <2>1, <3>1, <3>2, <3>3 DEF AskedOf, Unsent
  <2>2. CASE x # r
    <3>1. look'[x] = look[x] /\ AskedOf(x)
      BY <1>1, <2>2 DEF ReadIInv
    <3> QED
      BY <3>1 DEF AskedOf
  <2> QED
    BY <2>1, <2>2
<1> QED
  BY <1>2, <1>3, <1>4

LEMMA AskInvariant ==
  ASSUME ReadIInv, NEW r \in Readers, NEW fresh \in BOOLEAN, Ask(r, fresh),
         again' \in [Screens -> BOOLEAN], UNCHANGED <<docs, kept, etag, shown, cut, readFaults>>
  PROVE  ReadIInv'
<1>1. ReadTypeOK /\ NoLook \in Looks
  BY NoLookType DEF ReadIInv
<1>2. Now \in Nat \ {0} /\ kept.rev \in [Revised -> 0..(MaxVersion + 1)]
  BY <1>1, BoundsAreNumbers DEF ReadTypeOK, Versions
<1>3. Unsent \in [Revised -> 0..(MaxVersion + 1)] /\ NoLook.since = Unsent
  BY BoundsAreNumbers DEF Unsent, NoLook
<1>4. Unconditional \in Looks /\ Unconditional.since = Unsent
  BY <1>1, UnconditionalType DEF Unconditional
<1>5. /\ Asking(fresh) \in Looks
      /\ Asking(fresh).since = Unsent \/ (kept.ver > 0 /\ Asking(fresh).since = kept.rev)
  <2>1. CASE fresh
    BY <1>4, <2>1 DEF Asking
  <2>2. CASE ~fresh /\ etag = Now
    BY <1>1, <1>3, <2>2 DEF Asking, Looks, NoLook
  <2>3. CASE ~fresh /\ etag # Now
    <3>1. kept.ver \in Nat
      BY <1>1 DEF ReadTypeOK
    <3>2. Asking(fresh) = [Unconditional EXCEPT !.since = IF kept.ver = 0 THEN Unsent ELSE kept.rev]
      BY <2>3 DEF Asking
    <3> QED
      BY <1>2, <1>3, <1>4, <3>1, <3>2 DEF Looks
  <2> QED
    BY <2>1, <2>2, <2>3
<1>6. look' = [look EXCEPT ![r] = Asking(fresh)]
  BY DEF Ask
<1>7. /\ look' \in [Readers -> Looks]'
      /\ (DocsGrow /\ KeptIsWhole /\ \A x \in Readers : AskedOf(x))'
  BY <1>5, <1>6, LookStep
<1>8. ReadTypeOK'
  <2>1. cut' \in BOOLEAN
    BY <1>1, Zenon DEF ReadTypeOK
  <2>2. /\ docs' = docs /\ kept' = kept /\ etag' = etag /\ shown' = shown
        /\ readFaults' = readFaults /\ Now' = Now
    BY DEF Now
  <2> QED
    BY <1>1, <1>7, <2>1, <2>2, Zenon DEF ReadTypeOK
<1> QED
  BY <1>7, <1>8 DEF ReadIInv

(* The look of a read that goes on, or ends, when nothing is stored but the *)
(* ETag and nothing changes but what is shown.                              *)
LEMMA ReadOnInvariant ==
  ASSUME ReadIInv, NEW r \in Readers, NEW new \in Looks,
         look' = [look EXCEPT ![r] = new],
         new.since = Unsent \/ new.since = look[r].since,
         UNCHANGED <<docs, kept>>,
         etag' \in 0..Now, shown' \in [ver : 0..Now, val : Contents],
         again' \in [Screens -> BOOLEAN], cut' \in BOOLEAN,
         readFaults' \in 0..MaxReadFaults
  PROVE  ReadIInv'
<1>1. /\ look' \in [Readers -> Looks]'
      /\ (DocsGrow /\ KeptIsWhole /\ \A x \in Readers : AskedOf(x))'
  BY LookStep
<1>2. docs' = docs /\ kept' = kept /\ Now' = Now
  BY DEF Now
<1>3. ReadTypeOK'
  BY <1>1, <1>2, Zenon DEF ReadIInv, ReadTypeOK
<1> QED
  BY <1>1, <1>3 DEF ReadIInv

LEMMA RowAndEtagInvariant ==
  ASSUME ReadIInv, NEW r \in Readers, ReadRow(r) \/ StoreEtag(r)
  PROVE  ReadIInv'
<1>1. look[r] \in Looks /\ Now \in Nat \ {0}
  BY BoundsAreNumbers DEF ReadIInv, ReadTypeOK
<1>2. cut' \in BOOLEAN /\ again' \in [Screens -> BOOLEAN]
  <2>1. cut' = cut /\ again' = again
    BY DEF ReadRow, StoreEtag, Step
  <2> QED
    BY <2>1, Zenon DEF ReadIInv, ReadTypeOK
<1>3. /\ shown' \in [ver : 0..Now, val : Contents]
      /\ readFaults' \in 0..MaxReadFaults
      /\ docs' = docs /\ kept' = kept
  BY DEF ReadRow, StoreEtag, Step, ReadIInv, ReadTypeOK
<1>4. etag' \in 0..Now
  BY <1>1 DEF ReadRow, StoreEtag, ReadIInv, ReadTypeOK, Looks
<1>5. CASE ReadRow(r)
  <2> DEFINE new == [look[r] EXCEPT !.row = Now, !.pc = "headers"]
  <2>1. new \in Looks /\ new.since = look[r].since
    <3>1. [look[r] EXCEPT !.row = Now] \in Looks
      BY <1>1 DEF Looks
    <3>2. new = [[look[r] EXCEPT !.row = Now] EXCEPT !.pc = "headers"]
      BY Zenon
    <3>3. new \in Looks
      BY <1>1, <3>1, <3>2 DEF Looks
    <3>4. new.since = look[r].since
      BY <1>1, <3>1, <3>2 DEF Looks
    <3> QED
      BY <3>3, <3>4
  <2>2. look' = [look EXCEPT ![r] = new]
    BY <1>5 DEF ReadRow, Step
  <2> HIDE DEF new
  <2> QED
    BY <1>2, <1>3, <1>4, <2>1, <2>2, ReadOnInvariant
<1>6. CASE StoreEtag(r)
  <2> DEFINE new == [look[r] EXCEPT !.pc = "body", !.ver = 0]
  <2>1. new \in Looks /\ new.since = look[r].since
    <3>1. [look[r] EXCEPT !.pc = "body"] \in Looks
      BY <1>1 DEF Looks
    <3>2. new = [[look[r] EXCEPT !.pc = "body"] EXCEPT !.ver = 0]
      BY Zenon
    <3>3. new \in Looks
      <4>1. 0 \in 0..Now
        BY <1>1
      <4> HIDE DEF new
      <4> QED
        BY <3>1, <3>2, <4>1 DEF Looks
    <3>4. new.since = look[r].since
      BY <1>1, <3>1, <3>2 DEF Looks
    <3> QED
      BY <3>3, <3>4
  <2>2. look' = [look EXCEPT ![r] = new]
    BY <1>6 DEF StoreEtag, Step
  <2> HIDE DEF new
  <2> QED
    BY <1>2, <1>3, <1>4, <2>1, <2>2, ReadOnInvariant
<1> QED
  BY <1>5, <1>6

LEMMA NotModifiedInvariant ==
  ASSUME ReadIInv, NEW r \in Readers, NotModified(r)
  PROVE  ReadIInv'
<1>1. cut' \in BOOLEAN /\ again' \in [Screens -> BOOLEAN]
  <2>1. cut' = cut /\ again' = again
    BY DEF NotModified, Step
  <2> QED
    BY <2>1, Zenon DEF ReadIInv, ReadTypeOK
<1>2. kept \in [ver : 0..Now, rev : [Revised -> Versions], val : Contents]
  BY DEF ReadIInv, ReadTypeOK
<1>3. /\ docs' = docs /\ kept' = kept
      /\ readFaults' \in 0..MaxReadFaults /\ etag' \in 0..Now
  BY DEF NotModified, Step, ReadIInv, ReadTypeOK
<1>4. shown' \in [ver : 0..Now, val : Contents]
  BY <1>2 DEF NotModified, Apply, ReadIInv, ReadTypeOK
<1>5. /\ NoLook \in Looks /\ NoLook.since = Unsent
      /\ Unconditional \in Looks /\ Unconditional.since = Unsent
  BY NoLookType, UnconditionalType DEF ReadIInv, NoLook, Unconditional
<1>6. \/ look' = [look EXCEPT ![r] = NoLook]
      \/ look' = [look EXCEPT ![r] = Unconditional]
  BY DEF NotModified, Step
<1> QED
  BY <1>1, <1>3, <1>4, <1>5, <1>6, ReadOnInvariant

LEMMA ReadEndsInvariant ==
  ASSUME ReadIInv, NEW r \in Readers, ReadEnds(r), again' \in [Screens -> BOOLEAN]
  PROVE  ReadIInv'
<1>1. cut' \in BOOLEAN
  BY Zenon DEF ReadEnds, ReadIInv, ReadTypeOK
<1>2. readFaults' \in 0..MaxReadFaults
  BY BoundsAreNumbers DEF ReadEnds, ReadIInv, ReadTypeOK
<1>3. /\ docs' = docs /\ kept' = kept /\ etag' \in 0..Now
      /\ shown' \in [ver : 0..Now, val : Contents]
      /\ look' = [look EXCEPT ![r] = NoLook]
  BY DEF ReadEnds, ReadIInv, ReadTypeOK
<1>4. NoLook \in Looks /\ NoLook.since = Unsent
  BY NoLookType DEF ReadIInv, NoLook
<1> QED
  BY <1>1, <1>2, <1>3, <1>4, ReadOnInvariant
----------------------------------------------------------------------------
LEMMA DocumentType ==
  ASSUME ReadTypeOK, NEW n \in 1..Now
  PROVE  docs[n] \in [Fields -> Versions] /\ Revisions(n) \in [Revised -> Versions]
<1>1. docs[n] \in [Fields -> Versions]
  BY DEF ReadTypeOK, Contents, Now
<1> QED
  BY <1>1 DEF Revisions, Fields

(* A partial answer completes a stored snapshot that is not newer to the    *)
(* very document it was taken from.                                         *)
LEMMA MergedIsWhole ==
  ASSUME ReadIInv, NEW r \in Readers, ~(Merged(r).ver < kept.ver)
  PROVE  Merged(r).val = docs[look[r].row]
<1> DEFINE n == look[r].row
<1>1. n \in 1..Now /\ kept.ver \in 0..Now /\ Now \in 1..MaxVersion
  BY DEF ReadIInv, ReadTypeOK, Looks
<1>2. kept.ver <= n
  BY <1>1 DEF Merged
<1>3. docs[n] \in [Fields -> Versions]
  BY <1>1, DocumentType DEF ReadIInv
<1>4. ASSUME NEW f \in Revised, look[r].since[f] = docs[n][f]
      PROVE  kept.val[f] = docs[n][f]
  <2>1. f \in Fields /\ docs[n][f] <= n /\ docs[n][f] \in Nat
    BY <1>1, <1>3, BoundsAreNumbers DEF Fields, ReadIInv, DocsGrow, Versions
  <2>2. kept.ver > 0 /\ docs[n][f] <= kept.rev[f]
    BY <1>1, <1>4, <2>1, BoundsAreNumbers DEF ReadIInv, AskedOf
  <2>3. kept.val = docs[kept.ver] /\ kept.rev[f] = docs[kept.ver][f]
    BY <2>2 DEF ReadIInv, KeptIsWhole, Revisions
  <2>4. kept.ver \in 1..n
    BY <1>1, <1>2, <2>2
  <2>5. docs[kept.ver][f] <= docs[n][f]
    BY <1>1, <2>1, <2>4 DEF ReadIInv, DocsGrow
  <2>6. docs[kept.ver][f] \in Nat
    BY <1>1, <2>1, <2>4, DocumentType, BoundsAreNumbers DEF ReadIInv, Versions
  <2> QED
    BY <2>1, <2>2, <2>3, <2>5, <2>6
<1>5. Merged(r).val = [f \in Fields |-> docs[n][f]]
  BY <1>4 DEF Merged
<1> QED
  BY <1>3, <1>5

LEMMA ReadBodyInvariant ==
  ASSUME ReadIInv, NEW r \in Readers, ReadBody(r)
  PROVE  ReadIInv'
<1> DEFINE n == look[r].row
           m == Merged(r)
<1>1. /\ n \in 1..Now /\ Now \in 1..MaxVersion
      /\ look \in [Readers -> Looks]
      /\ kept \in [ver : 0..Now, rev : [Revised -> Versions], val : Contents]
  BY DEF ReadIInv, ReadTypeOK, Looks
<1>2. docs[n] \in [Fields -> Versions] /\ Revisions(n) \in [Revised -> Versions]
  BY <1>1, DocumentType DEF ReadIInv
<1>3. m \in [ver : 0..Now, rev : [Revised -> Versions], val : Contents]
  <2>1. m.val \in Contents
    BY <1>1, <1>2 DEF Merged, Contents, Fields
  <2>2. m = [ver |-> n, rev |-> Revisions(n), val |-> m.val]
    BY DEF Merged
  <2>3. n \in 0..Now
    BY <1>1
  <2> HIDE DEF m, n
  <2> QED
    BY <1>2, <2>1, <2>2, <2>3
<1>4. /\ docs' = docs /\ Now' = Now /\ Looks' = Looks
      /\ look' = [look EXCEPT ![r] = NoLook]
      /\ kept' = IF m.ver < kept.ver THEN kept ELSE m
      /\ etag' \in 0..Now /\ readFaults' \in 0..MaxReadFaults
  BY DEF ReadBody, RememberSnapshot, Step, ReadIInv, ReadTypeOK, Looks, Now
<1>5. ReadTypeOK'
  <2>1. cut' \in BOOLEAN /\ again' \in [Screens -> BOOLEAN]
    <3>1. cut' = cut /\ again' = again
      BY DEF ReadBody, Step
    <3> QED
      BY <3>1, Zenon DEF ReadIInv, ReadTypeOK
  <2>2. shown' \in [ver : 0..Now, val : Contents]
    <3>1. shown \in [ver : 0..Now, val : Contents]
      BY DEF ReadIInv, ReadTypeOK
    <3>2. shown' = shown \/ shown' = [ver |-> m.ver, val |-> m.val]
      BY DEF ReadBody, Apply
    <3> HIDE DEF m
    <3> QED
      BY <1>3, <3>1, <3>2
  <2>3. kept' \in [ver : 0..Now, rev : [Revised -> Versions], val : Contents]
    BY <1>1, <1>3, <1>4, Zenon
  <2>4. look' \in [Readers -> Looks]
    BY <1>1, <1>4, NoLookType DEF ReadIInv
  <2> QED
    BY <1>4, <2>1, <2>2, <2>3, <2>4, Zenon DEF ReadIInv, ReadTypeOK
<1>6. DocsGrow'
  BY <1>4 DEF ReadIInv, DocsGrow
<1>7. CASE m.ver < kept.ver
  <2>1. kept' = kept
    BY <1>4, <1>7
  <2>2. KeptIsWhole'
    BY <1>4, <2>1 DEF ReadIInv, KeptIsWhole, Revisions
  <2>3. ASSUME NEW x \in Readers PROVE AskedOf(x)'
    BY <1>1, <1>4, <2>1 DEF ReadIInv, AskedOf, NoLook, Unsent
  <2> QED
    BY <1>5, <1>6, <2>2, <2>3 DEF ReadIInv
<1>8. CASE ~(m.ver < kept.ver)
  <2>1. kept' = m /\ m.ver = n /\ m.rev = Revisions(n) /\ m.val = docs[n]
    BY <1>4, <1>8, MergedIsWhole DEF Merged
  <2>2. KeptIsWhole'
    BY <1>4, <2>1 DEF KeptIsWhole, Revisions
  <2>3. ASSUME NEW x \in Readers PROVE AskedOf(x)'
    <3>1. CASE x = r
      BY <1>1, <1>4, <3>1 DEF AskedOf, NoLook, Unsent
    <3>2. CASE x # r
      <4>1. look'[x] = look[x] /\ look[x].since \in [Revised -> 0..(MaxVersion + 1)]
        BY <1>1, <1>4, <3>2 DEF Looks
      <4>2. ASSUME NEW d \in Revised, kept.ver > 0, look[x].since[d] <= kept.rev[d]
            PROVE  look[x].since[d] <= docs[n][d]
        <5>1. kept.ver \in 1..n
          BY <1>1, <1>8, <2>1, <4>2
        <5>2. kept.rev[d] = docs[kept.ver][d]
          BY <4>2 DEF ReadIInv, KeptIsWhole, Revisions
        <5>3. d \in Fields /\ docs[kept.ver][d] <= docs[n][d]
          BY <1>1, <5>1 DEF ReadIInv, DocsGrow, Fields
        <5>4. docs[kept.ver] \in [Fields -> Versions]
          BY <1>1, <5>1, DocumentType DEF ReadIInv
        <5> QED
          BY <1>2, <4>1, <4>2, <5>2, <5>3, <5>4, BoundsAreNumbers DEF Versions
      <4>3. AskedOf(x) /\ n > 0
        BY <1>1 DEF ReadIInv
      <4>4. \A d \in Revised : kept'.rev[d] = docs[n][d] /\ kept'.ver = n
        BY <2>1 DEF Revisions
      <4> HIDE DEF n, m
      <4> QED
        BY <4>1, <4>2, <4>3, <4>4 DEF AskedOf
    <3> QED
      BY <3>1, <3>2
  <2> QED
    BY <1>5, <1>6, <2>2, <2>3 DEF ReadIInv
<1> QED
  BY <1>7, <1>8

LEMMA WriteDocumentInvariant ==
  ASSUME ReadIInv, NEW g \in Fields, WriteDocument(g)
  PROVE  ReadIInv'
<1> DEFINE doc == [docs[Now] EXCEPT ![g] = Now + 1]
<1>1. docs \in Seq(Contents) /\ Now \in 1..MaxVersion /\ Now + 1 <= MaxVersion
  BY BoundsAreNumbers DEF ReadIInv, ReadTypeOK, WriteDocument
<1>2. docs[Now] \in [Fields -> Versions]
  BY <1>1, DocumentType DEF ReadIInv
<1>3. doc \in Contents /\ \A f \in Fields : docs[Now][f] <= doc[f] /\ doc[f] <= Now + 1
  <2>1. \A f \in Fields : docs[Now][f] <= Now /\ docs[Now][f] \in Nat
    BY <1>1, <1>2, BoundsAreNumbers DEF ReadIInv, DocsGrow, Versions
  <2>2. Now + 1 \in Versions
    BY <1>1, BoundsAreNumbers DEF Versions
  <2> QED
    BY <1>1, <1>2, <2>1, <2>2 DEF Contents
<1>4. /\ docs' = Append(docs, doc)
      /\ kept' = kept /\ look' = look /\ etag' = etag /\ shown' = shown
      /\ readFaults' = readFaults
  BY DEF WriteDocument
<1>5. /\ docs' \in Seq(Contents) /\ Now' = Now + 1 /\ docs'[Now + 1] = doc
      /\ \A n \in 1..Now : docs'[n] = docs[n]
  <2> HIDE DEF doc
  <2> QED
    BY <1>1, <1>3, <1>4 DEF Now
<1>6. ReadTypeOK'
  <2>1. cut' \in BOOLEAN /\ again' \in [Screens -> BOOLEAN]
    <3>1. cut' = cut /\ again' = again
      BY DEF WriteDocument
    <3> QED
      BY <3>1, Zenon DEF ReadIInv, ReadTypeOK
  <2>2. /\ 0..Now \subseteq 0..(Now + 1) /\ 1..Now \subseteq 1..(Now + 1)
        /\ Now + 1 \in 1..MaxVersion
    BY <1>1
  <2>3. kept \in [ver : 0..(Now + 1), rev : [Revised -> Versions], val : Contents]
    BY <2>2 DEF ReadIInv, ReadTypeOK
  <2>4. shown \in [ver : 0..(Now + 1), val : Contents]
    BY <2>2 DEF ReadIInv, ReadTypeOK
  <2>5. look' \in [Readers -> Looks']
    <3>1. Looks \subseteq Looks'
      BY <1>5, <2>2 DEF Looks
    <3> QED
      BY <1>4, <3>1 DEF ReadIInv, ReadTypeOK
  <2>6. etag \in 0..(Now + 1) /\ readFaults \in 0..MaxReadFaults
    BY <2>2 DEF ReadIInv, ReadTypeOK
  <2> QED
    BY <1>4, <1>5, <2>1, <2>2, <2>3, <2>4, <2>5, <2>6, Zenon DEF ReadTypeOK
<1>7. DocsGrow'
  <2> SUFFICES ASSUME NEW n \in 1..(Now + 1), NEW f \in Fields
               PROVE  docs'[n][f] <= n /\ \A m \in 1..n : docs'[m][f] <= docs'[n][f]
    BY <1>5 DEF DocsGrow
  <2>1. CASE n <= Now
    <3>1. n \in 1..Now /\ docs'[n] = docs[n] /\ \A m \in 1..n : docs'[m] = docs[m]
      BY <1>1, <1>5, <2>1
    <3> QED
      BY <3>1 DEF ReadIInv, DocsGrow
  <2>2. CASE n = Now + 1
    <3>1. docs'[n] = doc /\ docs[Now][f] <= doc[f] /\ doc[f] <= n /\ doc[f] \in Nat
      BY <1>1, <1>3, <1>5, <2>2, BoundsAreNumbers DEF Contents, Versions
    <3>2. ASSUME NEW m \in 1..Now
          PROVE  docs'[m][f] <= doc[f]
      <4>1. docs'[m] = docs[m] /\ docs[m][f] <= docs[Now][f]
        BY <1>1, <1>5 DEF ReadIInv, DocsGrow
      <4>2. docs[m][f] \in Nat /\ docs[Now][f] \in Nat
        BY <1>1, DocumentType, BoundsAreNumbers DEF ReadIInv, Versions
      <4> HIDE DEF doc
      <4> QED
        BY <3>1, <4>1, <4>2
    <3>3. \A m \in 1..n : m \in 1..Now \/ m = Now + 1
      BY <1>1, <2>2
    <3> HIDE DEF doc
    <3> QED
      BY <1>5, <3>1, <3>2, <3>3
  <2> QED
    BY <1>1, <2>1, <2>2
<1>8. KeptIsWhole'
  <2>1. kept.ver > 0 => kept.ver \in 1..Now
    BY <1>1 DEF ReadIInv, ReadTypeOK
  <2> QED
    BY <1>4, <1>5, <2>1 DEF ReadIInv, KeptIsWhole, Revisions
<1>9. ASSUME NEW r \in Readers PROVE AskedOf(r)'
  BY <1>4 DEF ReadIInv, AskedOf
<1> QED
  BY <1>6, <1>7, <1>8, <1>9 DEF ReadIInv
----------------------------------------------------------------------------
LEMMA ForceInvariant ==
  ASSUME ReadIInv, NEW s \in Screens, ForceRefresh(s) \/ RefreshAgain(s) \/ PollSnapshot(s)
  PROVE  ReadIInv'
<1>1. s \in Readers /\ again \in [Screens -> BOOLEAN]
  BY DEF Readers, ReadIInv, ReadTypeOK
<1>2. again' \in [Screens -> BOOLEAN] /\ UNCHANGED <<docs, kept, etag, shown, cut, readFaults>>
  BY <1>1, Zenon DEF ForceRefresh, Forced, RefreshAgain, PollSnapshot
<1>3. CASE \E fresh \in BOOLEAN : Ask(s, fresh)
  BY <1>1, <1>2, <1>3, AskInvariant
<1>4. CASE UNCHANGED look
  <2>1. /\ docs' = docs /\ kept' = kept /\ etag' = etag /\ shown' = shown /\ cut' = cut
        /\ readFaults' = readFaults /\ look' = look /\ Now' = Now /\ Looks' = Looks
    BY <1>2, <1>4 DEF Now, Looks
  <2>2. ReadTypeOK'
    BY <1>2, <2>1, Zenon DEF ReadIInv, ReadTypeOK
  <2> QED
    BY <2>1, <2>2 DEF ReadIInv, DocsGrow, KeptIsWhole, Revisions, AskedOf
<1> QED
  BY <1>3, <1>4 DEF ForceRefresh, Forced, RefreshAgain, PollSnapshot

LEMMA ReadStutters == ReadIInv /\ UNCHANGED readVars => ReadIInv'
<1> SUFFICES ASSUME ReadIInv, UNCHANGED readVars PROVE ReadIInv'
  OBVIOUS
<1>1. /\ docs' = docs /\ kept' = kept /\ etag' = etag /\ shown' = shown /\ cut' = cut
      /\ readFaults' = readFaults /\ look' = look /\ again' = again
      /\ Now' = Now /\ Looks' = Looks
  BY DEF readVars, Now, Looks
<1>2. ReadTypeOK'
  BY <1>1, Zenon DEF ReadIInv, ReadTypeOK
<1> QED
  BY <1>1, <1>2 DEF ReadIInv, DocsGrow, KeptIsWhole, Revisions, AskedOf

LEMMA ReadNextInvariant == ReadIInv /\ [ReadNext]_readVars => ReadIInv'
<1> SUFFICES ASSUME ReadIInv, [ReadNext]_readVars PROVE ReadIInv'
  OBVIOUS
<1>1. again \in [Screens -> BOOLEAN]
  BY DEF ReadIInv, ReadTypeOK
<1>2. CASE \E s \in Screens : PollSnapshot(s) \/ ForceRefresh(s)
  BY <1>2, ForceInvariant
<1>3. ASSUME NEW s \in Screens, ReopenScreen(s) PROVE ReadIInv'
  <2>1. again' \in [Screens -> BOOLEAN]
    BY <1>1, <1>3, Zenon DEF ReopenScreen
  <2> QED
    BY <1>3, <2>1, ReadEndsInvariant DEF ReopenScreen, Readers
<1>4. ASSUME NEW p \in Panels, PanelReads(p) PROVE ReadIInv'
  <2>1. Ask(p, FALSE) /\ UNCHANGED <<docs, kept, etag, shown, again, cut, readFaults>>
    BY <1>4 DEF PanelReads
  <2> QED
    BY <1>1, <2>1, AskInvariant DEF Readers
<1>5. ASSUME NEW r \in Readers, ReadStep(r) PROVE ReadIInv'
  BY <1>5, RowAndEtagInvariant, NotModifiedInvariant, ReadBodyInvariant, ForceInvariant
  DEF ReadStep
<1>6. ASSUME NEW r \in Readers, ReadFails(r) PROVE ReadIInv'
  <2>1. ReadEnds(r) /\ again' = again
    BY <1>6 DEF ReadFails
  <2> QED
    BY <1>1, <2>1, ReadEndsInvariant
<1>7. CASE \E f \in Fields : WriteDocument(f)
  BY <1>7, WriteDocumentInvariant
<1> QED
  BY <1>2, <1>3, <1>4, <1>5, <1>6, <1>7, ReadStutters DEF ReadNext

(* The reading component keeps its shape, and what each read had asked with *)
(* is never ahead of the stored snapshot's revisions: fetchExamsFromServer, *)
(* rememberCloudSnapshot and examSnapshotDelta.                             *)
THEOREM ReadInvariant == ReadSpec => []ReadIInv
  BY ReadInitInvariant, ReadNextInvariant, PTL DEF ReadSpec

(* Whatever tabs read, in whatever order their answers come, and whoever    *)
(* writes: the snapshot mergeExamSnapshotPartial puts together and          *)
(* rememberCloudSnapshot stores is a document the server had, with the      *)
(* revisions of that document.                                              *)
THEOREM SnapshotIsWhole == ReadSpec => []KeptIsWhole
<1>1. ReadIInv => KeptIsWhole
  BY DEF ReadIInv
<1> QED
  BY <1>1, ReadInvariant, PTL

----------------------------------------------------------------------------
LEMMA ClientsInit == Init => SaveIInv /\ ReadIInv
  BY SaveInitInvariant, ReadInitInvariant DEF Init

LEMMA ClientsNext == SaveIInv /\ ReadIInv /\ [Next]_vars => SaveIInv' /\ ReadIInv'
<1>1. [Next]_vars => [SaveNext]_saveVars /\ [ReadNext]_readVars
  BY DEF Next, Saving, Reading, vars
<1> QED
  BY <1>1, SaveNextInvariant, ReadNextInvariant

(* Both client components keep their shape when they are composed: what the *)
(* save pipeline and the reads store is of its type, queues and counters    *)
(* are within their bounds and no stored snapshot is ahead of the server.   *)
THEOREM ClientsTypeCorrect == Spec => []TypeOK
<1>1. SaveIInv /\ ReadIInv => TypeOK
  BY SaveTypeCorrect DEF TypeOK, ReadIInv
<1> QED
  BY <1>1, ClientsInit, ClientsNext, PTL DEF Spec
=============================================================================
