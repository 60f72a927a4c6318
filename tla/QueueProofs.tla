----------------------------- MODULE QueueProofs -----------------------------
(***************************************************************************)
(* Proofs about the three queues: outgoing mail, diagnostic bundles and    *)
(* the writes of a client.  Each has an inductive invariant of its own;    *)
(* what they share is the selection of rows, by a WHERE that reads a table *)
(* in order or by a filter, whose lemmas come first.  The mails and the    *)
(* bundles are then shown to keep the promise of a queue (JobPromise).     *)
(***************************************************************************)
EXTENDS EmailQueue, DiagnosticQueue, WriteQueue, WellFoundedInduction, SequenceTheorems, TLAPS

(***************************************************************************)
(* Select.                                                                 *)
(***************************************************************************)
(* Induction over the natural numbers, for a set. *)
LEMMA NatSetInduction ==
  ASSUME NEW T, 0 \in T, \A n \in Nat : n \in T => n + 1 \in T
  PROVE  Nat \subseteq T
<1> DEFINE missing == Nat \ T
<1> SUFFICES ASSUME missing # {} PROVE FALSE
  OBVIOUS
<1>1. IsWellFoundedOn(OpToRel(<, Nat), Nat)
  BY NatLessThanWellFounded
<1>2. missing \subseteq Nat
  OBVIOUS
<1> HIDE DEF missing
<1>3. PICK least \in missing : \A y \in missing : ~(<<y, least>> \in OpToRel(<, Nat))
  BY <1>1, <1>2, WFMin
<1>4. least \in Nat /\ least \notin T /\ least # 0
  BY <1>3, <1>2 DEF missing
<1>5. least - 1 \in Nat /\ least - 1 < least
  BY <1>4
<1>6. <<least - 1, least>> \in OpToRel(<, Nat)
  BY <1>4, <1>5 DEF OpToRel
<1>7. least - 1 \in T
  BY <1>3, <1>5, <1>6 DEF missing
<1> QED
  BY <1>4, <1>5, <1>7

(* The selections of the first n elements, for every n. *)
Selected(s, chosen, f, n) ==
  IF n = 0 THEN <<>> ELSE IF n \in chosen THEN Append(f[n - 1], s[n]) ELSE f[n - 1]

Selecting(s, chosen, k, f) == f = [n \in 0 .. k |-> Selected(s, chosen, f, n)]

LEMMA SelectingStep ==
  ASSUME NEW s, NEW chosen, NEW k \in Nat, NEW f, Selecting(s, chosen, k, f)
  PROVE  \A n \in 0 .. k : f[n] = Selected(s, chosen, f, n)
  BY DEF Selecting

LEMMA SelectingExists ==
  ASSUME NEW s, NEW chosen, NEW k \in Nat
  PROVE  \E f : Selecting(s, chosen, k, f)
<1> DEFINE T == {n \in Nat : \E f : Selecting(s, chosen, n, f)}
<1>1. 0 \in T
  <2> DEFINE f == [n \in 0 .. 0 |-> <<>>]
  <2>1. Selecting(s, chosen, 0, f)
    BY DEF Selecting, Selected
  <2> QED
    BY <2>1
<1>2. ASSUME NEW n \in Nat, n \in T PROVE n + 1 \in T
  <2>1. PICK f : Selecting(s, chosen, n, f)
    BY <1>2
  <2> DEFINE g == [i \in 0 .. (n + 1) |-> IF i <= n THEN f[i] ELSE Selected(s, chosen, f, i)]
  <2> HIDE DEF T
  <2>2. ASSUME NEW i \in 0 .. (n + 1) PROVE g[i] = Selected(s, chosen, g, i)
    <3>1. g[i] = Selected(s, chosen, f, i)
      <4>1. i <= n => i \in 0 .. n
        OBVIOUS
      <4> QED
        BY <2>1, <4>1, SelectingStep
    <3>2. i # 0 => g[i - 1] = f[i - 1]
      <4>1. i # 0 => i - 1 \in 0 .. (n + 1) /\ i - 1 <= n
        OBVIOUS
      <4> QED
        BY <4>1
    <3> HIDE DEF g
    <3> QED
      BY <3>1, <3>2 DEF Selected
  <2>3. DOMAIN g = 0 .. (n + 1) /\ g = [i \in 0 .. (n + 1) |-> g[i]]
    OBVIOUS
  <2> HIDE DEF g
  <2>4. Selecting(s, chosen, n + 1, g)
    BY <2>2, <2>3 DEF Selecting
  <2> QED
    BY <2>4 DEF T
<1> HIDE DEF T
<1>3. Nat \subseteq T
  BY <1>1, <1>2, NatSetInduction
<1> QED
  BY <1>3 DEF T

LEMMA SelectUnfolds ==
  ASSUME NEW s, NEW chosen, Len(s) \in Nat
  PROVE  \E f : Selecting(s, chosen, Len(s), f) /\ Select(s, chosen) = f[Len(s)]
<1> DEFINE f == CHOOSE f : Selecting(s, chosen, Len(s), f)
<1>1. Selecting(s, chosen, Len(s), f)
  BY SelectingExists
<1>2. Select(s, chosen) = f[Len(s)]
  BY DEF Select, Selecting, Selected
<1> QED
  BY <1>1, <1>2

(* t has some of the first n elements of s, at chosen positions, in order. *)
Picks(t, s, chosen, n) ==
  \E at \in [1 .. Len(t) -> chosen \cap (1 .. n)] :
    /\ \A i \in 1 .. Len(t) : t[i] = s[at[i]]
    /\ \A i, k \in 1 .. Len(t) : i < k => at[i] < at[k]

LEMMA PicksSkips ==
  ASSUME NEW t, NEW s, NEW chosen, NEW n \in Nat, Picks(t, s, chosen, n)
  PROVE  Picks(t, s, chosen, n + 1)
<1>1. PICK at \in [1 .. Len(t) -> chosen \cap (1 .. n)] :
        /\ \A i \in 1 .. Len(t) : t[i] = s[at[i]]
        /\ \A i, k \in 1 .. Len(t) : i < k => at[i] < at[k]
  BY DEF Picks
<1>2. at \in [1 .. Len(t) -> chosen \cap (1 .. (n + 1))]
  OBVIOUS
<1> QED
  BY <1>1, <1>2 DEF Picks

LEMMA PicksTakes ==
  ASSUME NEW S, NEW t \in Seq(S), NEW s \in Seq(S), NEW chosen, NEW n \in Nat,
         n + 1 \in chosen, n + 1 \in 1 .. Len(s), Picks(t, s, chosen, n)
  PROVE  Picks(Append(t, s[n + 1]), s, chosen, n + 1)
<1> DEFINE u == Append(t, s[n + 1])
<1>1. PICK at \in [1 .. Len(t) -> chosen \cap (1 .. n)] :
        /\ \A i \in 1 .. Len(t) : t[i] = s[at[i]]
        /\ \A i, k \in 1 .. Len(t) : i < k => at[i] < at[k]
  BY DEF Picks
<1>2. /\ Len(t) \in Nat /\ Len(u) = Len(t) + 1 /\ u[Len(t) + 1] = s[n + 1]
      /\ \A i \in 1 .. Len(t) : u[i] = t[i]
  BY AppendProperties
<1> DEFINE b == [i \in 1 .. Len(u) |-> IF i = Len(t) + 1 THEN n + 1 ELSE at[i]]
<1>3. b \in [1 .. Len(u) -> chosen \cap (1 .. (n + 1))]
  BY <1>2
<1>4. b[Len(t) + 1] = n + 1 /\ \A i \in 1 .. Len(t) : b[i] = at[i] /\ at[i] < n + 1
  BY <1>2
<1> HIDE DEF u, b
<1>5. ASSUME NEW i \in 1 .. Len(u) PROVE u[i] = s[b[i]]
  BY <1>1, <1>2, <1>4
<1>6. ASSUME NEW i \in 1 .. Len(u), NEW k \in 1 .. Len(u), i < k PROVE b[i] < b[k]
  <2>1. CASE k = Len(t) + 1
    BY <1>2, <1>4, <1>6, <2>1
  <2>2. CASE k # Len(t) + 1
    <3>1. i \in 1 .. Len(t) /\ k \in 1 .. Len(t)
      BY <1>2, <1>6, <2>2
    <3> QED
      BY <1>1, <1>4, <1>6, <3>1
  <2> QED
    BY <2>1, <2>2
<1>7. Picks(u, s, chosen, n + 1)
  BY <1>3, <1>5, <1>6 DEF Picks
<1> QED
  BY <1>7 DEF u

(* The selection, element by element. *)
Runs(f, s, chosen) ==
  /\ f[0] = <<>>
  /\ \A n \in Nat : n + 1 <= Len(s) =>
       /\ n + 1 \in chosen => f[n + 1] = Append(f[n], s[n + 1])
       /\ n + 1 \notin chosen => f[n + 1] = f[n]

LEMMA SelectRuns ==
  ASSUME NEW s, NEW chosen, Len(s) \in Nat
  PROVE  \E f : Select(s, chosen) = f[Len(s)] /\ Runs(f, s, chosen)
<1>1. PICK f : Selecting(s, chosen, Len(s), f) /\ Select(s, chosen) = f[Len(s)]
  BY SelectUnfolds
<1>2. \A n \in 0 .. Len(s) : f[n] = Selected(s, chosen, f, n)
  BY <1>1, SelectingStep
<1>3. f[0] = <<>>
  <2>1. 0 \in 0 .. Len(s)
    OBVIOUS
  <2> QED
    BY <1>2, <2>1 DEF Selected
<1>4. ASSUME NEW n \in Nat, n + 1 <= Len(s)
      PROVE  /\ n + 1 \in chosen => f[n + 1] = Append(f[n], s[n + 1])
             /\ n + 1 \notin chosen => f[n + 1] = f[n]
  <2>1. n + 1 \in 0 .. Len(s) /\ n + 1 # 0 /\ (n + 1) - 1 = n
    BY <1>4
  <2>2. f[n + 1] = Selected(s, chosen, f, n + 1)
    BY <1>2, <2>1
  <2> QED
    BY <2>1, <2>2 DEF Selected
<1>5. Runs(f, s, chosen)
  BY <1>3, <1>4 DEF Runs
<1> QED
  BY <1>1, <1>5

(* What is selected was there, at a chosen position, and keeps its order.   *)
LEMMA SelectPicks ==
  ASSUME NEW S, NEW s \in Seq(S), NEW chosen
  PROVE  /\ Select(s, chosen) \in Seq(S)
         /\ Picks(Select(s, chosen), s, chosen, Len(s))
<1>0. Len(s) \in Nat
  OBVIOUS
<1>1. PICK f : Select(s, chosen) = f[Len(s)] /\ Runs(f, s, chosen)
  BY <1>0, SelectRuns
<1> DEFINE Right(n) == n <= Len(s) => f[n] \in Seq(S) /\ Picks(f[n], s, chosen, n)
           T == {n \in Nat : Right(n)}
<1> HIDE DEF T
<1>2. Right(0)
  <2>1. Picks(<<>>, s, chosen, 0)
    <3> DEFINE at == [i \in 1 .. 0 |-> i]
    <3>1. 1 .. Len(<<>>) = {} /\ at \in [1 .. Len(<<>>) -> chosen \cap (1 .. 0)]
      OBVIOUS
    <3> QED
      BY <3>1 DEF Picks
  <2> QED
    BY <1>1, <2>1 DEF Runs
<1>3. ASSUME NEW n \in Nat, Right(n) PROVE Right(n + 1)
  <2> SUFFICES ASSUME n + 1 <= Len(s)
               PROVE  f[n + 1] \in Seq(S) /\ Picks(f[n + 1], s, chosen, n + 1)
    OBVIOUS
  <2>1. f[n] \in Seq(S) /\ Picks(f[n], s, chosen, n)
    BY <1>0, <1>3
  <2>2. n + 1 \in 1 .. Len(s) /\ s[n + 1] \in S
    BY <1>0
  <2>3. /\ n + 1 \in chosen => f[n + 1] = Append(f[n], s[n + 1])
        /\ n + 1 \notin chosen => f[n + 1] = f[n]
    BY <1>1 DEF Runs
  <2> HIDE DEF Right
  <2>4. CASE n + 1 \in chosen
    <3>1. Picks(Append(f[n], s[n + 1]), s, chosen, n + 1)
      BY <2>1, <2>2, <2>4, PicksTakes
    <3>2. PICK a : a = f[n]
      OBVIOUS
    <3>3. Append(a, s[n + 1]) \in Seq(S)
      BY <2>1, <2>2, <3>2
    <3> QED
      BY <2>3, <2>4, <3>1, <3>2, <3>3
  <2>5. CASE n + 1 \notin chosen
    BY <2>1, <2>3, <2>5, PicksSkips
  <2> QED
    BY <2>4, <2>5
<1> HIDE DEF Right
<1>4. Nat \subseteq T
  <2>1. 0 \in T /\ \A n \in Nat : n \in T => n + 1 \in T
    BY <1>2, <1>3 DEF T
  <2> QED
    BY <2>1, NatSetInduction
<1>5. Right(Len(s))
  BY <1>0, <1>4 DEF T
<1> QED
  BY <1>0, <1>1, <1>5 DEF Right

(* A choice and the rest share the sequence out. *)
LEMMA SelectSplits ==
  ASSUME NEW S, NEW s \in Seq(S), NEW some, NEW others,
         \A i \in 1 .. Len(s) : i \in some <=> i \notin others
  PROVE  Len(Select(s, some)) + Len(Select(s, others)) = Len(s)
<1>0. Len(s) \in Nat
  OBVIOUS
<1>1. PICK f : Select(s, some) = f[Len(s)] /\ Runs(f, s, some)
  BY <1>0, SelectRuns
<1>2. PICK g : Select(s, others) = g[Len(s)] /\ Runs(g, s, others)
  BY <1>0, SelectRuns
<1> DEFINE Right(n) ==
             n <= Len(s) => f[n] \in Seq(S) /\ g[n] \in Seq(S) /\ Len(f[n]) + Len(g[n]) = n
           T == {n \in Nat : Right(n)}
<1> HIDE DEF T
<1>3. Right(0)
  BY <1>1, <1>2 DEF Runs
<1>4. ASSUME NEW n \in Nat, Right(n) PROVE Right(n + 1)
  <2> SUFFICES ASSUME n + 1 <= Len(s)
               PROVE  /\ f[n + 1] \in Seq(S) /\ g[n + 1] \in Seq(S)
                      /\ Len(f[n + 1]) + Len(g[n + 1]) = n + 1
    OBVIOUS
  <2>0. n <= Len(s)
    BY <1>0
  <2>1. f[n] \in Seq(S) /\ g[n] \in Seq(S) /\ Len(f[n]) + Len(g[n]) = n
    BY <1>4, <2>0, Zenon
  <2>2. s[n + 1] \in S /\ (n + 1 \in some <=> n + 1 \notin others)
    BY <1>0
  <2>3. /\ n + 1 \in some => f[n + 1] = Append(f[n], s[n + 1])
        /\ n + 1 \notin some => f[n + 1] = f[n]
        /\ n + 1 \in others => g[n + 1] = Append(g[n], s[n + 1])
        /\ n + 1 \notin others => g[n + 1] = g[n]
    BY <1>1, <1>2 DEF Runs
  <2> HIDE DEF Right
  <2>5. PICK a, b : a = f[n] /\ b = g[n]
    OBVIOUS
  <2>6. PICK c, d : c = f[n + 1] /\ d = g[n + 1]
    OBVIOUS
  <2>7. a \in Seq(S) /\ b \in Seq(S) /\ Len(a) + Len(b) = n
    BY <2>1, <2>5
  <2>8. \/ c = Append(a, s[n + 1]) /\ d = b
        \/ c = a /\ d = Append(b, s[n + 1])
    BY <2>2, <2>3, <2>5, <2>6
  <2>9. c \in Seq(S) /\ d \in Seq(S) /\ Len(c) + Len(d) = n + 1
    <3>1. PICK x \in S : x = s[n + 1]
      BY <2>2
    <3>2. /\ Append(a, x) \in Seq(S) /\ Len(Append(a, x)) = Len(a) + 1 /\ Len(a) \in Nat
          /\ Append(b, x) \in Seq(S) /\ Len(Append(b, x)) = Len(b) + 1 /\ Len(b) \in Nat
      BY <2>7, AppendProperties
    <3>3. PICK k, m \in Nat : k = Len(a) /\ m = Len(b)
      BY <3>2
    <3>4. k + m = n
      BY <2>7, <3>3
    <3>5. /\ c \in Seq(S) /\ d \in Seq(S)
          /\ \/ Len(c) = k + 1 /\ Len(d) = m
             \/ Len(c) = k /\ Len(d) = m + 1
      BY <2>7, <2>8, <3>1, <3>2, <3>3
    <3> QED
      BY <3>4, <3>5
  <2> QED
    BY <2>6, <2>9
<1> HIDE DEF Right
<1>5. Nat \subseteq T
  <2>1. 0 \in T /\ \A n \in Nat : n \in T => n + 1 \in T
    BY <1>3, <1>4 DEF T
  <2> QED
    BY <2>1, NatSetInduction
<1>6. Right(Len(s)) /\ Len(s) <= Len(s)
  BY <1>0, <1>5 DEF T
<1>7. Len(f[Len(s)]) + Len(g[Len(s)]) = Len(s)
  BY <1>6, Zenon DEF Right
<1> QED
  BY <1>1, <1>2, <1>7

(* Rows known by their number: the first of the chosen ones, in order. *)
FirstPicked(n, chosen, max) ==
  LET due == Select([j \in 1 .. n |-> j], chosen)
  IN  SubSeq(due, 1, IF Len(due) < max THEN Len(due) ELSE max)

LEMMA FirstPickedRows ==
  ASSUME NEW n \in Nat, NEW chosen \in SUBSET (1 .. n), NEW max \in Nat
  PROVE  LET picked == FirstPicked(n, chosen, max)
         IN  /\ picked \in Seq(1 .. n) /\ Len(picked) \in Nat
             /\ DOMAIN picked = 1 .. Len(picked)
             /\ \A i \in DOMAIN picked : picked[i] \in chosen
             /\ \A i, k \in DOMAIN picked : i # k => picked[i] # picked[k]
<1> DEFINE all == [j \in 1 .. n |-> j]
           due == Select(all, chosen)
           picked == FirstPicked(n, chosen, max)
<1>0. picked = SubSeq(due, 1, IF Len(due) < max THEN Len(due) ELSE max)
  BY DEF FirstPicked
<1> HIDE DEF picked
<1>1. all \in Seq(1 .. n) /\ Len(all) = n
  BY IsASeq, LenProperties
<1>2. due \in Seq(1 .. n) /\ Picks(due, all, chosen, n)
  BY <1>1, SelectPicks
<1> HIDE DEF due
<1>3. PICK at \in [1 .. Len(due) -> chosen \cap (1 .. n)] :
        /\ \A i \in 1 .. Len(due) : due[i] = all[at[i]]
        /\ \A i, k \in 1 .. Len(due) : i < k => at[i] < at[k]
  BY <1>2 DEF Picks
<1>4. \A i \in 1 .. Len(due) : due[i] = at[i] /\ at[i] \in chosen /\ at[i] \in 1 .. n
  BY <1>3
<1>5. Len(due) \in Nat
  BY <1>2
<1>6. PICK m \in 0 .. Len(due) : m = IF Len(due) < max THEN Len(due) ELSE max
  BY <1>5
<1>7. /\ picked \in Seq(1 .. n) /\ Len(picked) = m
      /\ \A i \in 1 .. m : picked[i] = due[i]
  <2>1. picked = SubSeq(due, 1, m)
    BY <1>0, <1>6
  <2>2. m \in Int /\ 1 \in Int /\ \A i \in 1 .. m : due[i] \in 1 .. n
    BY <1>4, <1>5, <1>6
  <2>3. /\ SubSeq(due, 1, m) \in Seq(1 .. n)
        /\ Len(SubSeq(due, 1, m)) = IF 1 <= m THEN m - 1 + 1 ELSE 0
        /\ \A i \in 1 .. (m - 1 + 1) : SubSeq(due, 1, m)[i] = due[1 + i - 1]
    BY <2>2, SubSeqProperties
  <2>4. /\ m - 1 + 1 = m /\ (IF 1 <= m THEN m - 1 + 1 ELSE 0) = m
        /\ \A i \in 1 .. m : 1 + i - 1 = i
    BY <1>5
  <2> HIDE DEF all
  <2> QED
    BY <2>1, <2>3, <2>4
<1>8. DOMAIN picked = 1 .. m /\ m \in Nat /\ 1 .. m \subseteq 1 .. Len(due)
  BY <1>5, <1>6, <1>7
<1>9. \A i \in 1 .. m : picked[i] \in chosen
  BY <1>4, <1>7, <1>8
<1>10. ASSUME NEW i \in 1 .. m, NEW k \in 1 .. m, i # k PROVE picked[i] # picked[k]
  <2>1. i \in 1 .. Len(due) /\ k \in 1 .. Len(due) /\ (i < k \/ k < i)
    BY <1>8, <1>10
  <2>2. at[i] # at[k]
    BY <1>3, <1>4, <2>1
  <2> QED
    BY <1>4, <1>7, <2>1, <2>2
<1> HIDE DEF all
<1>11. Len(picked) \in Nat /\ DOMAIN picked = 1 .. Len(picked)
  BY <1>7, <1>8
<1>12. /\ \A i \in DOMAIN picked : picked[i] \in chosen
       /\ \A i, k \in DOMAIN picked : i # k => picked[i] # picked[k]
  <2>1. \A i \in DOMAIN picked : i \in 1 .. m
    BY <1>8
  <2>2. \A i, k \in 1 .. m : i # k => picked[i] # picked[k]
    BY <1>10
  <2> QED
    BY <1>9, <2>1, <2>2, Zenon
<1> QED
  BY <1>7, <1>11, <1>12 DEF picked

(***************************************************************************)
(* The mail queue.                                                         *)
(***************************************************************************)
LEMMA MailBounds ==
  /\ LastMail \in Nat /\ MaxMailFaults \in Nat
  /\ CodeMinutes \in Nat /\ CodeMinutes > 0 /\ StaleMinutes \in Nat /\ StaleMinutes > 0
  /\ RetryDelay(1) \in Nat /\ RetryDelay(2) \in Nat
<1>1. /\ LastMail \in Nat /\ MaxMailFaults \in Nat
      /\ CodeMinutes \in Nat /\ CodeMinutes > 0 /\ StaleMinutes \in Nat /\ StaleMinutes > 0
  BY MailAssumption
<1>2. \A n \in 1 .. 2 : RetryDelay(n) \in Nat \ {0}
  BY MailAssumption
<1>3. 1 \in 1 .. 2 /\ 2 \in 1 .. 2
  OBVIOUS
<1> QED
  BY <1>1, <1>2, <1>3

(* A claimed job is being sent, and for no longer than its drain runs; only *)
(* the hand of a drain about to void the code has failed already.           *)
HeldJob(job, drain, i) ==
  IF i = 1 /\ drain.pc = "void" THEN job.status = "failed"
  ELSE job.status = "sending" /\ job.age <= drain.age

DrainShape(p) ==
  /\ p.pc = "idle" => p = NoDrain
  /\ p.pc = "claim" => p.todo = <<>> /\ p.want \in Mails
  /\ p.pc \notin {"idle", "claim"} => p.todo # <<>>

DrainHolds(p, jobs) == \A i \in DOMAIN p.todo : HeldJob(jobs[p.todo[i].id], p, i)

DrainDistinct(p) == \A i, k \in DOMAIN p.todo : i # k => p.todo[i].id # p.todo[k].id

DrainsApart(p, q) ==
  \A i \in DOMAIN p.todo, k \in DOMAIN q.todo : p.todo[i].id # q.todo[k].id

JobsHaveCodes(codes, jobs) ==
  \A j \in Mails : codes[j].state = "none" => jobs[j].status = "none"

MailIInv ==
  /\ MailRowsOK /\ JobsHaveCodes(mailCode, mailJob)
  /\ \A d \in Drains : /\ DrainShape(mailDrain[d]) /\ DrainHolds(mailDrain[d], mailJob)
                       /\ DrainDistinct(mailDrain[d])
  /\ \A d, e \in Drains : d # e => DrainsApart(mailDrain[d], mailDrain[e])

LEMMA MailTypes ==
  ASSUME MailIInv
  PROVE  /\ mailCode \in [Mails -> Codes] /\ mailJob \in [Mails -> Jobs]
         /\ mailDrain \in [Drains -> DrainStates] /\ mailFaults \in 0 .. MaxMailFaults
         /\ JobsHaveCodes(mailCode, mailJob)
         /\ \A d \in Drains :
              /\ mailDrain[d] \in DrainStates /\ DrainShape(mailDrain[d])
              /\ DrainHolds(mailDrain[d], mailJob) /\ DrainDistinct(mailDrain[d])
         /\ \A d, e \in Drains : d # e => DrainsApart(mailDrain[d], mailDrain[e])
  BY DEF MailIInv, MailRowsOK

LEMMA DrainFields ==
  ASSUME NEW p \in DrainStates
  PROVE  /\ p.pc \in {"idle", "claim", "next", "sent", "error", "void"}
         /\ p.want \in 0 .. LastMail /\ p.todo \in Seq(Claimed) /\ p.age \in 0 .. StaleMinutes
  BY DEF DrainStates

LEMMA JobFields ==
  ASSUME NEW r \in Jobs
  PROVE  /\ r.status \in {"none", "pending", "sending", "sent", "failed"}
         /\ r.attempts \in 0 .. 3 /\ r.wait \in Nat /\ r.age \in 0 .. (StaleMinutes + 1)
  BY DEF Jobs, MailAttempts

LEMMA NoDrainIsFine ==
  /\ NoDrain \in DrainStates /\ DrainShape(NoDrain) /\ DrainDistinct(NoDrain)
  /\ NoDrain.todo = <<>> /\ NoDrain.pc = "idle"
  /\ \A jobs : DrainHolds(NoDrain, jobs)
  /\ \A q : DrainsApart(NoDrain, q) /\ DrainsApart(q, NoDrain)
<1>1. NoDrain.todo = <<>> /\ NoDrain.pc = "idle"
  BY DEF NoDrain
<1>2. DOMAIN NoDrain.todo = {}
  BY <1>1
<1>3. NoDrain \in DrainStates
  <2>1. <<>> \in Seq(Claimed) /\ 0 \in 0 .. LastMail /\ 0 \in 0 .. StaleMinutes
    BY MailBounds
  <2> QED
    BY <2>1 DEF NoDrain, DrainStates
<1> HIDE DEF NoDrain
<1>4. DrainShape(NoDrain) /\ DrainDistinct(NoDrain) /\ \A jobs : DrainHolds(NoDrain, jobs)
  BY <1>1, <1>2 DEF DrainShape, DrainDistinct, DrainHolds
<1>5. \A q : DrainsApart(NoDrain, q) /\ DrainsApart(q, NoDrain)
  BY <1>2 DEF DrainsApart
<1> QED
  BY <1>1, <1>3, <1>4, <1>5

LEMMA MailInitInvariant == MailInit => MailIInv
<1> SUFFICES ASSUME MailInit PROVE MailIInv
  OBVIOUS
<1>1. NoCode \in Codes /\ NoJob \in Jobs /\ NoCode.state = "none" /\ NoJob.status = "none"
  BY MailBounds DEF NoCode, Codes, NoJob, Jobs, MailAttempts
<1>2. MailRowsOK
  BY <1>1, NoDrainIsFine, MailBounds DEF MailInit, MailRowsOK
<1>3. \A d \in Drains : mailDrain[d] = NoDrain
  BY DEF MailInit
<1>4. JobsHaveCodes(mailCode, mailJob)
  BY <1>1 DEF MailInit, JobsHaveCodes
<1> QED
  BY <1>2, <1>3, <1>4, NoDrainIsFine DEF MailIInv

(* One drain moves, and what the others hold stays as they hold it. *)
LEMMA DrainMoves ==
  ASSUME MailIInv, NEW d \in Drains, NEW p \in DrainStates, NEW jobs \in [Mails -> Jobs],
         mailDrain' = [mailDrain EXCEPT ![d] = p], mailJob' = jobs,
         mailCode' \in [Mails -> Codes], mailFaults' \in 0 .. MaxMailFaults,
         JobsHaveCodes(mailCode', jobs),
         DrainShape(p), DrainHolds(p, jobs), DrainDistinct(p),
         \A e \in Drains : e # d =>
           DrainHolds(mailDrain[e], jobs) /\ DrainsApart(p, mailDrain[e])
  PROVE  MailIInv'
<1>1. mailDrain' \in [Drains -> DrainStates] /\ MailRowsOK'
  BY MailTypes DEF MailRowsOK
<1>2. \A e \in Drains : mailDrain'[e] = IF e = d THEN p ELSE mailDrain[e]
  BY MailTypes
<1>3. ASSUME NEW e \in Drains
      PROVE  /\ DrainShape(mailDrain'[e]) /\ DrainHolds(mailDrain'[e], jobs)
             /\ DrainDistinct(mailDrain'[e])
  BY <1>2, MailTypes
<1>4. ASSUME NEW e \in Drains, NEW f \in Drains, e # f
      PROVE  DrainsApart(mailDrain'[e], mailDrain'[f])
  <2>1. CASE e = d
    <3>1. DrainsApart(p, mailDrain[f])
      BY <1>4, <2>1
    <3> QED
      BY <1>2, <1>4, <2>1, <3>1
  <2>2. CASE f = d
    <3>1. DrainsApart(p, mailDrain[e])
      BY <1>4, <2>2
    <3>2. DrainsApart(mailDrain[e], p)
      BY <3>1 DEF DrainsApart
    <3> QED
      BY <1>2, <1>4, <2>2, <3>2
  <2>3. CASE e # d /\ f # d
    BY <1>2, <1>4, <2>3, MailTypes
  <2> QED
    BY <2>1, <2>2, <2>3
<1> QED
  BY <1>1, <1>3, <1>4 DEF MailIInv

LEMMA TodoRows ==
  ASSUME NEW p \in DrainStates
  PROVE  \A i \in DOMAIN p.todo :
           /\ p.todo[i] \in Claimed /\ p.todo[i].id \in Mails
           /\ p.todo[i].attempts \in 0 .. 3 /\ i \in Nat /\ i > 0
<1> DEFINE todo == p.todo
<1>1. todo \in Seq(Claimed)
  BY DrainFields
<1> HIDE DEF todo
<1>2. ASSUME NEW i \in DOMAIN todo PROVE todo[i] \in Claimed /\ i \in Nat /\ i > 0
  BY <1>1
<1>3. \A i \in DOMAIN todo : todo[i].id \in Mails /\ todo[i].attempts \in 0 .. 3
  BY <1>2 DEF Claimed, MailAttempts
<1> QED
  BY <1>2, <1>3 DEF todo

LEMMA RestOfTodo ==
  ASSUME NEW p \in DrainStates, p.todo # <<>>
  PROVE  /\ 1 \in DOMAIN p.todo /\ Head(p.todo) = p.todo[1]
         /\ Tail(p.todo) \in Seq(Claimed)
         /\ \A i \in DOMAIN Tail(p.todo) :
              i \in Nat /\ i > 0 /\ i + 1 \in DOMAIN p.todo /\ Tail(p.todo)[i] = p.todo[i + 1]
<1> DEFINE todo == p.todo
<1>1. todo \in Seq(Claimed) /\ todo # <<>>
  BY DrainFields
<1> HIDE DEF todo
<1>2. PICK n \in Nat : n = Len(todo)
  BY <1>1
<1>3. DOMAIN todo = 1 .. n /\ n > 0
  BY <1>1, <1>2
<1>4. /\ Tail(todo) \in Seq(Claimed) /\ Len(Tail(todo)) = n - 1
      /\ \A i \in 1 .. (n - 1) : Tail(todo)[i] = todo[i + 1]
  BY <1>1, <1>2, HeadTailProperties
<1>5. DOMAIN Tail(todo) = 1 .. (n - 1)
  BY <1>4
<1>6. \A i \in 1 .. (n - 1) : i \in Nat /\ i > 0 /\ i + 1 \in 1 .. n
  BY <1>2
<1>7. \A i \in DOMAIN Tail(todo) :
        i \in Nat /\ i > 0 /\ i + 1 \in DOMAIN todo /\ Tail(todo)[i] = todo[i + 1]
  BY <1>3, <1>4, <1>5, <1>6
<1>8. 1 \in DOMAIN todo /\ Head(todo) = todo[1]
  BY <1>1, <1>2, <1>3
<1> QED
  BY <1>4, <1>7, <1>8 DEF todo

(* Rows that another drain holds are not written by the one that moves. *)
LEMMA OthersKeep ==
  ASSUME MailIInv, NEW d \in Drains, NEW jobs,
         \A j \in Mails : (\A i \in DOMAIN mailDrain[d].todo : mailDrain[d].todo[i].id # j)
                            => jobs[j] = mailJob[j]
  PROVE  \A e \in Drains : e # d => DrainHolds(mailDrain[e], jobs)
<1> SUFFICES ASSUME NEW e \in Drains, e # d, NEW k \in DOMAIN mailDrain[e].todo
             PROVE  HeldJob(jobs[mailDrain[e].todo[k].id], mailDrain[e], k)
  BY DEF DrainHolds
<1>1. PICK j \in Mails : j = mailDrain[e].todo[k].id
  BY MailTypes, TodoRows
<1>2. \A i \in DOMAIN mailDrain[d].todo : mailDrain[d].todo[i].id # j
  BY <1>1, MailTypes DEF DrainsApart
<1>3. jobs[j] = mailJob[j]
  BY <1>2
<1>4. HeldJob(mailJob[j], mailDrain[e], k)
  BY <1>1, MailTypes DEF DrainHolds
<1> QED
  BY <1>1, <1>3, <1>4

LEMMA HandIsFirst ==
  ASSUME MailIInv, NEW d \in Drains, mailDrain[d].pc \notin {"idle", "claim"}
  PROVE  /\ mailDrain[d].todo # <<>> /\ 1 \in DOMAIN mailDrain[d].todo
         /\ Hand(d) = mailDrain[d].todo[1] /\ Hand(d).id \in Mails
         /\ Hand(d).attempts \in 0 .. 3
         /\ HeldJob(mailJob[Hand(d).id], mailDrain[d], 1)
<1>1. mailDrain[d] \in DrainStates /\ mailDrain[d].todo # <<>>
  BY MailTypes DEF DrainShape
<1>2. 1 \in DOMAIN mailDrain[d].todo /\ Hand(d) = mailDrain[d].todo[1]
  BY <1>1, RestOfTodo DEF Hand
<1>3. Hand(d).id \in Mails /\ Hand(d).attempts \in 0 .. 3
  BY <1>1, <1>2, TodoRows
<1>4. HeldJob(mailJob[Hand(d).id], mailDrain[d], 1)
  BY <1>2, MailTypes DEF DrainHolds
<1> QED
  BY <1>1, <1>2, <1>3, <1>4

LEMMA WorkingType ==
  ASSUME MailIInv, NEW d \in Drains, NEW rows \in Seq(Claimed), rows # <<>>
  PROVE  LET p == Working(d, rows)
         IN  /\ p \in DrainStates /\ p.pc = "next" /\ p.todo = rows /\ p.age = mailDrain[d].age
             /\ DrainShape(p)
<1> DEFINE p == Working(d, rows)
<1>1. mailDrain[d].want \in 0 .. LastMail /\ mailDrain[d].age \in 0 .. StaleMinutes
  BY MailTypes, DrainFields
<1>2. p = [pc |-> "next", want |-> mailDrain[d].want, todo |-> rows, age |-> mailDrain[d].age]
  BY DEF Working
<1> HIDE DEF p
<1>3. p.pc = "next" /\ p.todo = rows /\ p.age = mailDrain[d].age
  BY <1>2
<1>4. p \in DrainStates
  BY <1>1, <1>2 DEF DrainStates
<1>5. DrainShape(p)
  BY <1>3 DEF DrainShape
<1> QED
  BY <1>3, <1>4, <1>5 DEF p

(* The drain is done with the row in its hand. *)
LEMMA DoneKeeps ==
  ASSUME MailIInv, NEW d \in Drains, mailDrain[d].pc \notin {"idle", "claim"}, Done(d),
         NEW r \in Jobs, mailJob' = [mailJob EXCEPT ![Hand(d).id] = r],
         mailCode' \in [Mails -> Codes], mailFaults' = mailFaults,
         JobsHaveCodes(mailCode', mailJob')
  PROVE  MailIInv'
<1>1. PICK h \in Mails : h = Hand(d).id /\ h = mailDrain[d].todo[1].id
  BY HandIsFirst
<1> DEFINE rest == Tail(mailDrain[d].todo)
           p == IF rest = <<>> THEN NoDrain ELSE Working(d, rest)
           jobs == [mailJob EXCEPT ![h] = r]
<1>2. /\ mailDrain[d] \in DrainStates /\ mailDrain[d].todo # <<>>
      /\ DrainHolds(mailDrain[d], mailJob) /\ DrainDistinct(mailDrain[d])
      /\ 1 \in DOMAIN mailDrain[d].todo
  BY MailTypes, HandIsFirst
<1>3. mailDrain' = [mailDrain EXCEPT ![d] = p]
  BY DEF Done
<1>4. /\ jobs \in [Mails -> Jobs] /\ mailJob' = jobs
      /\ \A j \in Mails : j # h => jobs[j] = mailJob[j]
  BY <1>1, MailTypes
<1>5. /\ rest \in Seq(Claimed)
      /\ \A i \in DOMAIN rest :
           /\ i \in Nat /\ i > 0 /\ i + 1 \in DOMAIN mailDrain[d].todo
           /\ rest[i] = mailDrain[d].todo[i + 1]
  BY <1>2, RestOfTodo
<1> HIDE DEF rest, jobs
<1>6. ASSUME NEW i \in DOMAIN rest
      PROVE  /\ rest[i].id \in Mails /\ rest[i].id # h
             /\ jobs[rest[i].id].status = "sending" /\ jobs[rest[i].id].age <= mailDrain[d].age
  <2>1. /\ i \in Nat /\ i > 0 /\ i + 1 \in DOMAIN mailDrain[d].todo
        /\ rest[i] = mailDrain[d].todo[i + 1]
    BY <1>5
  <2>2. i + 1 # 1
    BY <2>1
  <2>3. rest[i].id \in Mails /\ rest[i].id # h
    BY <1>1, <1>2, <2>1, <2>2, TodoRows DEF DrainDistinct
  <2>4. HeldJob(mailJob[rest[i].id], mailDrain[d], i + 1)
    BY <1>2, <2>1 DEF DrainHolds
  <2> QED
    BY <1>4, <2>2, <2>3, <2>4 DEF HeldJob
<1>7. /\ p \in DrainStates /\ DrainShape(p) /\ DrainHolds(p, jobs) /\ DrainDistinct(p)
      /\ \A e \in Drains : e # d => DrainsApart(p, mailDrain[e])
  <2>1. CASE rest = <<>>
    BY <2>1, NoDrainIsFine
  <2>2. CASE rest # <<>>
    <3>1. p = Working(d, rest)
      BY <2>2
    <3> HIDE DEF p
    <3>2. /\ p \in DrainStates /\ p.pc = "next" /\ p.todo = rest /\ p.age = mailDrain[d].age
          /\ DrainShape(p)
      BY <1>5, <2>2, <3>1, WorkingType
    <3>3. DrainHolds(p, jobs)
      BY <1>6, <3>2 DEF DrainHolds, HeldJob
    <3>4. DrainDistinct(p)
      <4>1. ASSUME NEW i \in DOMAIN rest, NEW k \in DOMAIN rest, i # k
            PROVE  rest[i].id # rest[k].id
        <5>1. /\ i + 1 \in DOMAIN mailDrain[d].todo /\ rest[i] = mailDrain[d].todo[i + 1]
              /\ k + 1 \in DOMAIN mailDrain[d].todo /\ rest[k] = mailDrain[d].todo[k + 1]
              /\ i \in Nat /\ k \in Nat
          BY <1>5
        <5>2. i + 1 # k + 1
          BY <4>1, <5>1
        <5> QED
          BY <1>2, <5>1, <5>2 DEF DrainDistinct
      <4> QED
        BY <3>2, <4>1 DEF DrainDistinct
    <3>5. ASSUME NEW e \in Drains, e # d PROVE DrainsApart(p, mailDrain[e])
      <4>1. DrainsApart(mailDrain[d], mailDrain[e])
        BY <3>5, MailTypes
      <4> QED
        BY <1>5, <3>2, <4>1 DEF DrainsApart
    <3> QED
      BY <3>2, <3>3, <3>4, <3>5
  <2> QED
    BY <2>1, <2>2
<1> HIDE DEF p
<1>8. \A e \in Drains : e # d => DrainHolds(mailDrain[e], jobs)
  <2>1. \A j \in Mails : (\A i \in DOMAIN mailDrain[d].todo : mailDrain[d].todo[i].id # j)
                            => jobs[j] = mailJob[j]
    BY <1>1, <1>2, <1>4
  <2> QED
    BY <2>1, OthersKeep
<1>9. mailFaults' \in 0 .. MaxMailFaults /\ JobsHaveCodes(mailCode', jobs)
  BY <1>4, MailTypes
<1> QED
  BY <1>3, <1>4, <1>7, <1>8, <1>9, DrainMoves

(* The drain goes on with the row in its hand. *)
LEMMA GotoKeeps ==
  ASSUME MailIInv, NEW d \in Drains, mailDrain[d].pc \in {"next", "sent", "error"},
         NEW pc \in {"sent", "error", "void"}, Goto(d, pc),
         NEW r \in Jobs, mailJob' = [mailJob EXCEPT ![Hand(d).id] = r],
         pc = "void" => r.status = "failed",
         pc # "void" => r = mailJob[Hand(d).id],
         mailCode' = mailCode, mailFaults' \in 0 .. MaxMailFaults,
         JobsHaveCodes(mailCode, mailJob')
  PROVE  MailIInv'
<1>1. PICK h \in Mails : h = Hand(d).id /\ h = mailDrain[d].todo[1].id
  BY HandIsFirst
<1> DEFINE p == [mailDrain[d] EXCEPT !.pc = pc]
           jobs == [mailJob EXCEPT ![h] = r]
<1>2. /\ mailDrain[d] \in DrainStates /\ mailDrain[d].todo # <<>>
      /\ DrainHolds(mailDrain[d], mailJob) /\ DrainDistinct(mailDrain[d])
      /\ 1 \in DOMAIN mailDrain[d].todo
  BY MailTypes, HandIsFirst
<1>3. mailDrain' = [mailDrain EXCEPT ![d] = p]
  BY DEF Goto
<1>4. /\ jobs \in [Mails -> Jobs] /\ mailJob' = jobs /\ jobs[h] = r
      /\ \A j \in Mails : j # h => jobs[j] = mailJob[j]
  BY <1>1, MailTypes
<1>5. p \in DrainStates
  BY <1>2 DEF DrainStates
<1>6. p.pc = pc /\ p.todo = mailDrain[d].todo /\ p.age = mailDrain[d].age
  BY <1>2 DEF DrainStates
<1> HIDE DEF p, jobs
<1>7. DrainShape(p) /\ DrainDistinct(p)
  BY <1>2, <1>6 DEF DrainShape, DrainDistinct
<1>8. \A e \in Drains : e # d => DrainsApart(p, mailDrain[e])
  BY <1>6, MailTypes DEF DrainsApart
<1>9. DrainHolds(p, jobs)
  <2> SUFFICES ASSUME NEW i \in DOMAIN p.todo PROVE HeldJob(jobs[p.todo[i].id], p, i)
    BY DEF DrainHolds
  <2>1. i \in DOMAIN mailDrain[d].todo /\ p.todo[i].id = mailDrain[d].todo[i].id
    BY <1>6
  <2>2. HeldJob(mailJob[p.todo[i].id], mailDrain[d], i) /\ p.todo[i].id \in Mails
    BY <1>2, <2>1, TodoRows DEF DrainHolds
  <2>3. mailDrain[d].pc # "void"
    OBVIOUS
  <2>4. CASE i = 1
    <3>1. p.todo[i].id = h
      BY <1>1, <2>1, <2>4
    <3>2. CASE pc = "void"
      BY <1>4, <1>6, <2>4, <3>1, <3>2 DEF HeldJob
    <3>3. CASE pc # "void"
      BY <1>1, <1>4, <1>6, <2>2, <2>3, <3>1, <3>3 DEF HeldJob
    <3> QED
      BY <3>2, <3>3
  <2>5. CASE i # 1
    <3>1. p.todo[i].id # h
      BY <1>1, <1>2, <2>1, <2>5 DEF DrainDistinct
    <3> QED
      BY <1>4, <1>6, <2>2, <2>5, <3>1 DEF HeldJob
  <2> QED
    BY <2>4, <2>5
<1>10. \A e \in Drains : e # d => DrainHolds(mailDrain[e], jobs)
  <2>1. \A j \in Mails : (\A i \in DOMAIN mailDrain[d].todo : mailDrain[d].todo[i].id # j)
                            => jobs[j] = mailJob[j]
    BY <1>1, <1>2, <1>4
  <2> QED
    BY <2>1, OthersKeep
<1>11. /\ JobsHaveCodes(mailCode', jobs)
       /\ mailCode' \in [Mails -> Codes]
  BY <1>4, MailTypes
<1> QED
  BY <1>3, <1>4, <1>5, <1>7, <1>8, <1>9, <1>10, <1>11, DrainMoves

LEMMA JobUpdated ==
  ASSUME NEW r \in Jobs, NEW status \in {"none", "pending", "sending", "sent", "failed"}
  PROVE  LET new == [r EXCEPT !.status = status, !.age = 0]
         IN  new \in Jobs /\ new.status = status /\ new.age = 0 /\ new.attempts = r.attempts
<1>1. 0 \in 0 .. (StaleMinutes + 1)
  BY MailBounds
<1> QED
  BY <1>1 DEF Jobs

LEMMA WrittenType ==
  ASSUME NEW status \in {"none", "pending", "sending", "sent", "failed"},
         NEW attempts \in 0 .. 3, NEW wait \in Nat
  PROVE  Written(status, attempts, wait) \in Jobs /\ Written(status, attempts, wait).status = status
  BY MailBounds DEF Written, Jobs, MailAttempts

LEMMA RecoveredType ==
  ASSUME NEW r \in Jobs
  PROVE  /\ Recovered(r) \in Jobs
         /\ Recovered(r).attempts = r.attempts
         /\ Recovered(r) = r \/ (Stale(r) /\ Recovered(r).status = "pending")
<1>1. CASE Stale(r)
  <2> DEFINE new == [r EXCEPT !.status = "pending", !.wait = PauseMinutes, !.age = 0]
  <2>1. Recovered(r) = new
    BY <1>1 DEF Recovered
  <2>2. new \in Jobs /\ new.status = "pending" /\ new.attempts = r.attempts
    <3>1. 0 \in 0 .. (StaleMinutes + 1) /\ PauseMinutes \in Nat
      BY MailBounds DEF PauseMinutes
    <3> QED
      BY <3>1 DEF Jobs
  <2> QED
    BY <1>1, <2>1, <2>2
<1>2. CASE ~Stale(r)
  BY <1>2 DEF Recovered
<1> QED
  BY <1>1, <1>2

LEMMA HandHasCode ==
  ASSUME MailIInv, NEW d \in Drains, mailDrain[d].pc \notin {"idle", "claim"}
  PROVE  /\ Hand(d).id \in Mails /\ mailJob[Hand(d).id] \in Jobs
         /\ mailCode[Hand(d).id].state # "none"
         /\ \A r : JobsHaveCodes(mailCode, [mailJob EXCEPT ![Hand(d).id] = r])
<1>1. PICK h \in Mails : h = Hand(d).id
  BY HandIsFirst
<1>2. HeldJob(mailJob[h], mailDrain[d], 1) /\ mailJob \in [Mails -> Jobs]
  BY <1>1, HandIsFirst, MailTypes
<1>3. mailJob[h].status # "none"
  BY <1>2 DEF HeldJob
<1>4. mailCode[h].state # "none"
  BY <1>3, MailTypes DEF JobsHaveCodes
<1>5. ASSUME NEW r PROVE JobsHaveCodes(mailCode, [mailJob EXCEPT ![h] = r])
  BY <1>2, <1>4, MailTypes DEF JobsHaveCodes
<1> QED
  BY <1>1, <1>2, <1>4, <1>5

LEMMA FailExpiredKeeps ==
  ASSUME MailIInv, NEW d \in Drains, FailExpired(d)
  PROVE  MailIInv'
<1> DEFINE r == [mailJob[Hand(d).id] EXCEPT !.status = "failed", !.age = 0]
<1>1. /\ mailDrain[d].pc = "next" /\ mailJob' = [mailJob EXCEPT ![Hand(d).id] = r]
      /\ Goto(d, "void") /\ mailCode' = mailCode /\ mailFaults' = mailFaults
  BY DEF FailExpired, At
<1>2. r \in Jobs /\ r.status = "failed"
  BY <1>1, HandHasCode, JobUpdated
<1> HIDE DEF r
<1>3. JobsHaveCodes(mailCode, mailJob') /\ mailFaults' \in 0 .. MaxMailFaults
  BY <1>1, HandHasCode, MailTypes
<1> QED
  BY <1>1, <1>2, <1>3, GotoKeeps

LEMMA DeliverKeeps ==
  ASSUME MailIInv, NEW d \in Drains, Deliver(d) \/ AnswerLost(d)
  PROVE  MailIInv'
<1>1. PICK pc \in {"sent", "error"} : Goto(d, pc)
  BY DEF Deliver, AnswerLost
<1>2. /\ mailDrain[d].pc = "next" /\ mailJob' = mailJob
      /\ mailCode' = mailCode /\ mailFaults' \in 0 .. MaxMailFaults
  BY MailTypes, MailBounds DEF Deliver, AnswerLost, At
<1>3. PICK r \in Jobs : r = mailJob[Hand(d).id]
  BY <1>2, HandHasCode
<1>4. mailJob' = [mailJob EXCEPT ![Hand(d).id] = r]
  BY <1>2, <1>3, MailTypes
<1>5. JobsHaveCodes(mailCode, mailJob') /\ pc # "void" /\ pc \in {"sent", "error", "void"}
  BY <1>2, MailTypes
<1> QED
  BY <1>1, <1>2, <1>3, <1>4, <1>5, GotoKeeps

LEMMA MarkErrorKeeps ==
  ASSUME MailIInv, NEW d \in Drains, MarkError(d)
  PROVE  MailIInv'
<1>1. mailDrain[d].pc = "error" /\ mailCode' = mailCode /\ mailFaults' = mailFaults
  BY DEF MarkError, At
<1>2. PICK k \in 0 .. 3 : k = Hand(d).attempts
  BY <1>1, HandIsFirst
<1>3. mailCode' \in [Mails -> Codes]
  BY <1>1, MailTypes
<1>4. CASE k + 1 >= MailAttempts
  <2> DEFINE r == [mailJob[Hand(d).id] EXCEPT !.status = "failed", !.age = 0]
  <2>1. mailJob' = [mailJob EXCEPT ![Hand(d).id] = r] /\ Goto(d, "void")
    BY <1>2, <1>4 DEF MarkError
  <2>2. r \in Jobs /\ r.status = "failed"
    BY <1>1, HandHasCode, JobUpdated
  <2> HIDE DEF r
  <2>3. JobsHaveCodes(mailCode, mailJob')
    BY <1>1, <2>1, HandHasCode
  <2>4. mailFaults' \in 0 .. MaxMailFaults
    BY <1>1, MailTypes
  <2> QED
    BY <1>1, <2>1, <2>2, <2>3, <2>4, GotoKeeps
<1>5. CASE ~(k + 1 >= MailAttempts)
  <2> DEFINE r == Written("pending", k + 1, RetryDelay(k + 1))
  <2>1. mailJob' = [mailJob EXCEPT ![Hand(d).id] = r] /\ Done(d)
    BY <1>2, <1>5 DEF MarkError
  <2>2. k = 0 \/ k = 1
    BY <1>5 DEF MailAttempts
  <2>3. k + 1 \in 0 .. 3 /\ RetryDelay(k + 1) \in Nat
    BY <2>2, MailBounds
  <2>4. r \in Jobs
    BY <2>3, WrittenType
  <2> HIDE DEF r
  <2>5. JobsHaveCodes(mailCode', mailJob')
    BY <1>1, <2>1, HandHasCode
  <2> QED
    BY <1>1, <1>3, <2>1, <2>4, <2>5, DoneKeeps
<1> QED
  BY <1>4, <1>5

LEMMA MarkSentKeeps ==
  ASSUME MailIInv, NEW d \in Drains, MarkSent(d)
  PROVE  MailIInv'
<1> DEFINE r == [mailJob[Hand(d).id] EXCEPT !.status = "sent", !.age = 0]
<1>1. /\ mailDrain[d].pc = "sent" /\ mailJob' = [mailJob EXCEPT ![Hand(d).id] = r]
      /\ Done(d) /\ mailCode' = mailCode /\ mailFaults' = mailFaults
  BY DEF MarkSent, At
<1>2. r \in Jobs
  BY <1>1, HandHasCode, JobUpdated
<1> HIDE DEF r
<1>3. JobsHaveCodes(mailCode', mailJob') /\ mailCode' \in [Mails -> Codes]
  BY <1>1, HandHasCode, MailTypes
<1> QED
  BY <1>1, <1>2, <1>3, DoneKeeps

LEMMA SlotBusyKeeps ==
  ASSUME MailIInv, NEW d \in Drains, SlotBusy(d)
  PROVE  MailIInv'
<1> DEFINE r == Requeued(Hand(d), PauseMinutes)
<1>1. /\ mailDrain[d].pc = "next" /\ mailJob' = [mailJob EXCEPT ![Hand(d).id] = r]
      /\ Done(d) /\ mailCode' = mailCode /\ mailFaults' = mailFaults
  BY DEF SlotBusy, At
<1>2. r \in Jobs
  <2>1. Hand(d).attempts \in 0 .. 3 /\ PauseMinutes \in Nat
    BY <1>1, HandIsFirst DEF PauseMinutes
  <2> QED
    BY <2>1, WrittenType DEF Requeued
<1> HIDE DEF r
<1>3. JobsHaveCodes(mailCode', mailJob') /\ mailCode' \in [Mails -> Codes]
  BY <1>1, HandHasCode, MailTypes
<1> QED
  BY <1>1, <1>2, <1>3, DoneKeeps

LEMMA CodeSpent ==
  ASSUME NEW c \in Codes, NEW state \in {"none", "live", "used", "gone"}
  PROVE  [c EXCEPT !.state = state] \in Codes /\ [c EXCEPT !.state = state].state = state
  BY DEF Codes

LEMMA VoidCodeKeeps ==
  ASSUME MailIInv, NEW d \in Drains, VoidCode(d)
  PROVE  MailIInv'
<1>1. /\ mailDrain[d].pc = "void" /\ Done(d) /\ mailJob' = mailJob /\ mailFaults' = mailFaults
  BY DEF VoidCode, At
<1>2. PICK h \in Mails : h = Hand(d).id
  BY <1>1, HandIsFirst
<1> DEFINE state == IF mailCode[h].state = "gone" THEN "gone" ELSE "used"
           c == [mailCode[h] EXCEPT !.state = state]
<1>3. mailCode' = [mailCode EXCEPT ![h] = c]
  BY <1>2 DEF VoidCode
<1>4. c \in Codes /\ c.state # "none"
  <2>1. state \in {"gone", "used"} /\ mailCode[h] \in Codes
    BY MailTypes
  <2> HIDE DEF state
  <2> QED
    BY <2>1, CodeSpent
<1> HIDE DEF c
<1>5. mailCode' \in [Mails -> Codes] /\ JobsHaveCodes(mailCode', mailJob')
  BY <1>1, <1>3, <1>4, MailTypes DEF JobsHaveCodes
<1>6. PICK r \in Jobs : r = mailJob[Hand(d).id]
  BY <1>1, HandHasCode
<1>7. mailJob' = [mailJob EXCEPT ![Hand(d).id] = r]
  BY <1>1, <1>6, MailTypes
<1> QED
  BY <1>1, <1>5, <1>6, <1>7, DoneKeeps

LEMMA UseCodeKeeps ==
  ASSUME MailIInv, NEW j \in Mails, UseCode(j)
  PROVE  MailIInv'
<1> DEFINE c == [mailCode[j] EXCEPT !.state = "used"]
<1>1. /\ mailCode' = [mailCode EXCEPT ![j] = c]
      /\ mailJob' = mailJob /\ mailDrain' = mailDrain /\ mailFaults' = mailFaults
  BY DEF UseCode
<1>2. c \in Codes /\ c.state = "used"
  BY MailTypes, CodeSpent
<1> HIDE DEF c
<1>3. mailCode' \in [Mails -> Codes] /\ JobsHaveCodes(mailCode', mailJob')
  BY <1>1, <1>2, MailTypes DEF JobsHaveCodes
<1>4. MailRowsOK'
  BY <1>1, <1>3, MailTypes DEF MailRowsOK
<1> QED
  BY <1>1, <1>3, <1>4, MailTypes DEF MailIInv

LEMMA MailCrashKeeps ==
  ASSUME MailIInv, NEW d \in Drains, MailCrash(d)
  PROVE  MailIInv'
<1>1. /\ mailDrain' = [mailDrain EXCEPT ![d] = NoDrain]
      /\ mailJob' = mailJob /\ mailCode' = mailCode
      /\ mailFaults' = mailFaults + 1 /\ mailFaults < MaxMailFaults
  BY DEF MailCrash
<1>2. /\ mailFaults' \in 0 .. MaxMailFaults /\ mailCode' \in [Mails -> Codes]
      /\ JobsHaveCodes(mailCode', mailJob) /\ mailJob \in [Mails -> Jobs]
  BY <1>1, MailTypes, MailBounds
<1> QED
  BY <1>1, <1>2, MailTypes, NoDrainIsFine, DrainMoves

LEMMA OverBudgetKeeps ==
  ASSUME MailIInv, NEW d \in Drains, OverBudget(d)
  PROVE  MailIInv'
<1> DEFINE rows == mailDrain[d].todo
           mine(j) == \E i \in DOMAIN rows : rows[i].id = j
           back(j) == IF mine(j)
                      THEN Requeued(rows[CHOOSE i \in DOMAIN rows : rows[i].id = j], PauseMinutes)
                      ELSE mailJob[j]
           jobs == [j \in Mails |-> back(j)]
<1>1. /\ mailDrain[d].pc = "next" /\ mailDrain' = [mailDrain EXCEPT ![d] = NoDrain]
      /\ mailJob' = jobs /\ mailCode' = mailCode /\ mailFaults' = mailFaults
  BY DEF OverBudget, At
<1>2. ASSUME NEW j \in Mails
      PROVE  /\ back(j) \in Jobs
             /\ ~mine(j) => back(j) = mailJob[j]
             /\ mine(j) => mailJob[j].status # "none"
  <2>1. CASE mine(j)
    <3> DEFINE i == CHOOSE i \in DOMAIN rows : rows[i].id = j
    <3>1. i \in DOMAIN rows /\ rows[i].id = j
      BY <2>1
    <3> HIDE DEF i
    <3>2. rows[i].attempts \in 0 .. 3 /\ PauseMinutes \in Nat
      BY <3>1, MailTypes, TodoRows DEF PauseMinutes
    <3>3. Requeued(rows[i], PauseMinutes) \in Jobs
      BY <3>2, WrittenType DEF Requeued
    <3>4. HeldJob(mailJob[j], mailDrain[d], i)
      BY <3>1, MailTypes DEF DrainHolds
    <3>5. mailJob[j].status # "none"
      BY <3>4 DEF HeldJob
    <3>6. back(j) = Requeued(rows[i], PauseMinutes)
      BY <2>1 DEF i
    <3> QED
      BY <2>1, <3>3, <3>5, <3>6
  <2>2. CASE ~mine(j)
    BY <2>2, MailTypes
  <2> QED
    BY <2>1, <2>2
<1>0. \A j : (\A i \in DOMAIN rows : rows[i].id # j) => ~mine(j)
  OBVIOUS
<1> HIDE DEF back, mine
<1>3. jobs \in [Mails -> Jobs] /\ \A j \in Mails : jobs[j] = back(j)
  BY <1>2
<1>4. \A e \in Drains : e # d => DrainHolds(mailDrain[e], jobs)
  <2> HIDE DEF jobs
  <2>1. \A j \in Mails : (\A i \in DOMAIN mailDrain[d].todo : mailDrain[d].todo[i].id # j)
                            => jobs[j] = mailJob[j]
    BY <1>0, <1>2, <1>3
  <2> QED
    BY <2>1, OthersKeep
<1> HIDE DEF jobs
<1>5. JobsHaveCodes(mailCode', jobs)
  <2>1. \A j \in Mails : mailJob[j].status = "none" => jobs[j] = mailJob[j]
    BY <1>2, <1>3
  <2> QED
    BY <1>1, <2>1, MailTypes DEF JobsHaveCodes
<1>6. mailCode' \in [Mails -> Codes] /\ mailFaults' \in 0 .. MaxMailFaults
  BY <1>1, MailTypes
<1> QED
  BY <1>1, <1>3, <1>4, <1>5, <1>6, NoDrainIsFine, DrainMoves

(* A table whose stale rows were recovered is, for what others hold, the old one. *)
LEMMA RecoveredHeld ==
  ASSUME MailIInv, NEW e \in Drains, NEW k \in DOMAIN mailDrain[e].todo
  PROVE  LET j == mailDrain[e].todo[k].id
         IN  /\ j \in Mails /\ ~Stale(mailJob[j])
             /\ mailJob[j].status \in {"sending", "failed"}
<1>1. PICK j \in Mails : j = mailDrain[e].todo[k].id
  BY MailTypes, TodoRows
<1>2. HeldJob(mailJob[j], mailDrain[e], k)
  BY <1>1, MailTypes DEF DrainHolds
<1>3. mailDrain[e].age \in 0 .. StaleMinutes /\ mailJob[j] \in Jobs
  BY MailTypes, DrainFields
<1>4. mailJob[j].age \in 0 .. (StaleMinutes + 1)
  BY <1>3, JobFields
<1>5. ~Stale(mailJob[j])
  BY <1>2, <1>3, <1>4, MailBounds DEF Stale, HeldJob
<1>6. mailJob[j].status \in {"sending", "failed"}
  BY <1>2 DEF HeldJob
<1> QED
  BY <1>1, <1>5, <1>6

(* What a claim finds: the table, stale rows recovered, ... *)
SeenJobs(jobs) ==
  /\ jobs \in [Mails -> Jobs]
  /\ \A j \in Mails :
       /\ jobs[j].attempts = mailJob[j].attempts
       /\ jobs[j] = mailJob[j] \/ (Stale(mailJob[j]) /\ jobs[j].status = "pending")

(* ... and the rows it takes. *)
PickedJobs(jobs, picked) ==
  /\ picked \in Seq(Mails) /\ Len(picked) \in Nat /\ DOMAIN picked = 1 .. Len(picked)
  /\ \A i \in DOMAIN picked : jobs[picked[i]].status = "pending"
  /\ \A i, k \in DOMAIN picked : i # k => picked[i] # picked[k]

LEMMA ClaimKeeps ==
  ASSUME MailIInv, NEW d \in Drains, mailDrain[d].pc \in {"idle", "claim"},
         NEW jobs, SeenJobs(jobs), NEW picked, PickedJobs(jobs, picked), Claim(d, jobs, picked)
  PROVE  MailIInv'
<1> USE DEF SeenJobs, PickedJobs
<1> DEFINE taken(j) == \E i \in DOMAIN picked : picked[i] = j
           claimed(j) == IF taken(j) THEN [jobs[j] EXCEPT !.status = "sending", !.age = 0]
                         ELSE jobs[j]
           new == [j \in Mails |-> claimed(j)]
           todo == [i \in DOMAIN picked |->
                      [id |-> picked[i], attempts |-> jobs[picked[i]].attempts]]
           p == IF picked = <<>> THEN NoDrain ELSE Working(d, todo)
<1>1. /\ mailJob' = new /\ mailDrain' = [mailDrain EXCEPT ![d] = p]
      /\ mailCode' = mailCode /\ mailFaults' = mailFaults
  BY DEF Claim
<1>2. ASSUME NEW j \in Mails
      PROVE  /\ claimed(j) \in Jobs
             /\ ~taken(j) => claimed(j) = jobs[j]
             /\ taken(j) => (claimed(j).status = "sending" /\ claimed(j).age = 0)
             /\ taken(j) => jobs[j].status = "pending"
  <2>1. CASE taken(j)
    <3> DEFINE c == [jobs[j] EXCEPT !.status = "sending", !.age = 0]
    <3>1. claimed(j) = c
      BY <2>1
    <3>2. jobs[j] \in Jobs
      OBVIOUS
    <3>3. jobs[j].status = "pending"
      BY <2>1
    <3> HIDE DEF taken, claimed
    <3>4. c \in Jobs /\ c.status = "sending" /\ c.age = 0
      BY <3>2, JobUpdated
    <3> QED
      BY <2>1, <3>1, <3>3, <3>4
  <2>2. CASE ~taken(j)
    <3>1. claimed(j) = jobs[j] /\ jobs[j] \in Jobs
      BY <2>2
    <3> HIDE DEF taken, claimed
    <3> QED
      BY <2>2, <3>1
  <2> QED
    BY <2>1, <2>2
<1>0. \A i \in DOMAIN picked : taken(picked[i])
  OBVIOUS
<1> HIDE DEF claimed, taken
<1>3. new \in [Mails -> Jobs] /\ \A j \in Mails : new[j] = claimed(j)
  BY <1>2
<1> HIDE DEF new
<1>4. /\ todo \in Seq(Claimed) /\ DOMAIN todo = DOMAIN picked
      /\ \A i \in DOMAIN picked : todo[i].id = picked[i]
  <2>1. ASSUME NEW i \in DOMAIN picked
        PROVE  [id |-> picked[i], attempts |-> jobs[picked[i]].attempts] \in Claimed
    <3>1. picked[i] \in Mails /\ jobs[picked[i]] \in Jobs
      OBVIOUS
    <3>2. jobs[picked[i]].attempts \in 0 .. MailAttempts
      BY <3>1, JobFields DEF MailAttempts
    <3> QED
      BY <3>1, <3>2 DEF Claimed
  <2>2. todo \in [1 .. Len(picked) -> Claimed]
    BY <2>1
  <2>3. todo \in Seq(Claimed)
    BY <2>2, IsASeq
  <2> QED
    BY <2>3
<1>5. picked # <<>> => todo # <<>>
  <2> SUFFICES ASSUME picked # <<>> PROVE DOMAIN todo # {}
    OBVIOUS
  <2>1. DOMAIN picked # {}
    OBVIOUS
  <2> QED
    BY <1>4, <2>1
<1> HIDE DEF todo
<1>6. ASSUME NEW e \in Drains, NEW k \in DOMAIN mailDrain[e].todo
      PROVE  LET j == mailDrain[e].todo[k].id
             IN  j \in Mails /\ ~taken(j) /\ jobs[j] = mailJob[j]
  <2>1. PICK j \in Mails : j = mailDrain[e].todo[k].id /\ ~Stale(mailJob[j])
                           /\ mailJob[j].status \in {"sending", "failed"}
    BY RecoveredHeld
  <2>2. jobs[j] = mailJob[j]
    BY <2>1
  <2>3. ~taken(j)
    BY <1>2, <2>1, <2>2
  <2> QED
    BY <2>1, <2>2, <2>3
<1>7. \A e \in Drains : e # d => DrainHolds(mailDrain[e], new)
  <2> SUFFICES ASSUME NEW e \in Drains, e # d, NEW k \in DOMAIN mailDrain[e].todo
               PROVE  HeldJob(new[mailDrain[e].todo[k].id], mailDrain[e], k)
    BY DEF DrainHolds
  <2>1. PICK j \in Mails : j = mailDrain[e].todo[k].id /\ ~taken(j) /\ jobs[j] = mailJob[j]
    BY <1>6
  <2>2. new[j] = mailJob[j]
    BY <1>2, <1>3, <2>1
  <2>3. HeldJob(mailJob[j], mailDrain[e], k)
    BY <2>1, MailTypes DEF DrainHolds
  <2> QED
    BY <2>1, <2>2, <2>3
<1>8. /\ p \in DrainStates /\ DrainShape(p) /\ DrainHolds(p, new) /\ DrainDistinct(p)
      /\ \A e \in Drains : e # d => DrainsApart(p, mailDrain[e])
  <2>1. CASE picked = <<>>
    BY <2>1, NoDrainIsFine
  <2>2. CASE picked # <<>>
    <3>1. p = Working(d, todo)
      BY <2>2
    <3> HIDE DEF p
    <3>2. /\ p \in DrainStates /\ p.pc = "next" /\ p.todo = todo /\ p.age = mailDrain[d].age
          /\ DrainShape(p)
      BY <1>4, <1>5, <2>2, <3>1, WorkingType
    <3>3. p.age \in Nat
      BY <3>2, DrainFields, MailBounds
    <3>4. DrainHolds(p, new)
      <4> SUFFICES ASSUME NEW i \in DOMAIN p.todo PROVE HeldJob(new[p.todo[i].id], p, i)
        BY DEF DrainHolds
      <4>1. i \in DOMAIN picked /\ p.todo[i].id = picked[i]
        BY <1>4, <3>2
      <4>2. PICK j \in Mails : j = picked[i] /\ taken(j)
        BY <1>0, <4>1
      <4>3. new[j].status = "sending" /\ new[j].age = 0
        BY <1>2, <1>3, <4>2
      <4> QED
        BY <3>2, <3>3, <4>1, <4>2, <4>3 DEF HeldJob
    <3>5. DrainDistinct(p)
      BY <1>4, <3>2 DEF DrainDistinct
    <3>6. ASSUME NEW e \in Drains, e # d PROVE DrainsApart(p, mailDrain[e])
      <4> SUFFICES ASSUME NEW i \in DOMAIN p.todo, NEW k \in DOMAIN mailDrain[e].todo,
                          p.todo[i].id = mailDrain[e].todo[k].id
                   PROVE  FALSE
        BY DEF DrainsApart
      <4>1. i \in DOMAIN picked /\ p.todo[i].id = picked[i]
        BY <1>4, <3>2
      <4>2. PICK j \in Mails : j = mailDrain[e].todo[k].id /\ ~taken(j)
        BY <1>6
      <4> QED
        BY <1>0, <4>1, <4>2
    <3> QED
      BY <3>2, <3>4, <3>5, <3>6
  <2> QED
    BY <2>1, <2>2
<1> HIDE DEF p
<1>9. JobsHaveCodes(mailCode', new)
  <2>1. ASSUME NEW j \in Mails, mailJob[j].status = "none" PROVE new[j].status = "none"
    <3>1. jobs[j] = mailJob[j]
      BY <2>1 DEF Stale
    <3>2. ~taken(j)
      BY <1>2, <2>1, <3>1
    <3> QED
      BY <1>2, <1>3, <2>1, <3>1, <3>2
  <2> QED
    BY <1>1, <2>1, MailTypes DEF JobsHaveCodes
<1>10. mailCode' \in [Mails -> Codes] /\ mailFaults' \in 0 .. MaxMailFaults
  BY <1>1, MailTypes
<1> QED
  BY <1>1, <1>3, <1>7, <1>8, <1>9, <1>10, DrainMoves

LEMMA ClaimOwnPicks ==
  ASSUME MailIInv, NEW d \in Drains, ClaimOwn(d)
  PROVE  /\ mailDrain[d].pc = "claim" /\ SeenJobs(mailJob)
         /\ \E picked : PickedJobs(mailJob, picked) /\ Claim(d, mailJob, picked)
<1>1. mailDrain[d].pc = "claim"
  BY DEF ClaimOwn, At
<1>2. PICK j \in Mails : j = mailDrain[d].want
  BY <1>1, MailTypes DEF DrainShape
<1>0. SeenJobs(mailJob)
  BY MailTypes DEF SeenJobs
<1>3. CASE mailJob[j].status = "pending"
  <2> DEFINE picked == <<j>>
  <2>1. Claim(d, mailJob, picked)
    BY <1>2, <1>3 DEF ClaimOwn
  <2>2. /\ picked \in Seq(Mails) /\ Len(picked) = 1 /\ DOMAIN picked = {1} /\ picked[1] = j
        /\ 1 .. 1 = {1}
    OBVIOUS
  <2> HIDE DEF picked
  <2>3. /\ Len(picked) \in Nat /\ DOMAIN picked = 1 .. Len(picked)
        /\ \A i \in DOMAIN picked : mailJob[picked[i]].status = "pending"
        /\ \A i, k \in DOMAIN picked : i # k => picked[i] # picked[k]
    BY <1>3, <2>2
  <2> QED
    BY <1>0, <1>1, <2>1, <2>2, <2>3 DEF PickedJobs
<1>4. CASE mailJob[j].status # "pending"
  <2> DEFINE picked == <<>>
  <2>1. Claim(d, mailJob, picked)
    BY <1>2, <1>4 DEF ClaimOwn
  <2>2. /\ picked \in Seq(Mails) /\ Len(picked) = 0 /\ DOMAIN picked = {} /\ 1 .. 0 = {}
    OBVIOUS
  <2> HIDE DEF picked
  <2>3. /\ Len(picked) \in Nat /\ DOMAIN picked = 1 .. Len(picked)
        /\ \A i \in DOMAIN picked : mailJob[picked[i]].status = "pending"
        /\ \A i, k \in DOMAIN picked : i # k => picked[i] # picked[k]
    BY <2>2
  <2> QED
    BY <1>0, <1>1, <2>1, <2>2, <2>3 DEF PickedJobs
<1> QED
  BY <1>3, <1>4

LEMMA ClaimOwnKeeps ==
  ASSUME MailIInv, NEW d \in Drains, ClaimOwn(d)
  PROVE  MailIInv'
  BY ClaimOwnPicks, ClaimKeeps

LEMMA ClaimDuePicks ==
  ASSUME MailIInv, NEW d \in Drains, NEW max \in {1, BatchSize}, ClaimDue(d, max)
  PROVE  /\ mailDrain[d].pc = "idle"
         /\ \E jobs, picked :
              SeenJobs(jobs) /\ PickedJobs(jobs, picked) /\ Claim(d, jobs, picked)
<1> DEFINE jobs == [j \in Mails |-> Recovered(mailJob[j])]
           chosen == {j \in Mails : jobs[j].status = "pending" /\ jobs[j].wait = 0}
           picked == First(DueInOrder(jobs), max)
<1>1. mailDrain[d].pc = "idle" /\ Claim(d, jobs, picked)
  BY DEF ClaimDue, At
<1>2. SeenJobs(jobs)
  <2>1. \A j \in Mails : mailJob[j] \in Jobs
    BY MailTypes
  <2> QED
    BY <2>1, RecoveredType DEF SeenJobs
<1> HIDE DEF jobs
<1>3. max \in Nat /\ LastMail \in Nat /\ Mails = 1 .. LastMail /\ chosen \in SUBSET (1 .. LastMail)
  BY MailBounds DEF BatchSize, Mails
<1>4. picked = FirstPicked(LastMail, chosen, max)
  BY <1>3 DEF First, DueInOrder, FirstPicked
<1> HIDE DEF picked
<1>5. /\ picked \in Seq(1 .. LastMail) /\ Len(picked) \in Nat /\ DOMAIN picked = 1 .. Len(picked)
      /\ \A i \in DOMAIN picked : picked[i] \in chosen
      /\ \A i, k \in DOMAIN picked : i # k => picked[i] # picked[k]
  <2> HIDE DEF chosen
  <2>1. LET rows == FirstPicked(LastMail, chosen, max)
        IN  /\ rows \in Seq(1 .. LastMail) /\ Len(rows) \in Nat
            /\ DOMAIN rows = 1 .. Len(rows)
            /\ \A i \in DOMAIN rows : rows[i] \in chosen
            /\ \A i, k \in DOMAIN rows : i # k => rows[i] # rows[k]
    BY <1>3, FirstPickedRows, Zenon
  <2> QED
    BY <1>4, <2>1, Zenon
<1>6. picked \in Seq(Mails) /\ \A i \in DOMAIN picked : jobs[picked[i]].status = "pending"
  BY <1>3, <1>5
<1> QED
  BY <1>1, <1>2, <1>5, <1>6 DEF PickedJobs

LEMMA ClaimDueKeeps ==
  ASSUME MailIInv, NEW d \in Drains, NEW max \in {1, BatchSize}, ClaimDue(d, max)
  PROVE  MailIInv'
  BY ClaimDuePicks, ClaimKeeps

LEMMA SendCodeKeeps ==
  ASSUME MailIInv, NEW d \in Drains, NEW j \in Mails, SendCode(d, j)
  PROVE  MailIInv'
<1> DEFINE code(c) == IF c = j THEN [state |-> "live", left |-> CodeMinutes + 1]
                      ELSE IF mailCode[c].state = "none" \/ Usable(c) THEN mailCode[c]
                      ELSE [state |-> "gone", left |-> 0]
           job(c) == IF c = j THEN Written("pending", 0, 0) ELSE Recovered(mailJob[c])
           jobs == [c \in Mails |-> job(c)]
           p == [pc |-> "claim", want |-> j, todo |-> <<>>, age |-> 0]
<1>1. /\ mailDrain[d].pc = "idle" /\ mailCode[j].state = "none"
      /\ mailCode' = [c \in Mails |-> code(c)] /\ mailJob' = jobs
      /\ mailDrain' = [mailDrain EXCEPT ![d] = p] /\ mailFaults' = mailFaults
  BY DEF SendCode, At
<1>2. ASSUME NEW c \in Mails
      PROVE  /\ code(c) \in Codes
             /\ code(c).state = "none" => c # j /\ mailCode[c].state = "none"
  <2>1. CodeMinutes + 1 \in 0 .. (CodeMinutes + 1) /\ 0 \in 0 .. (CodeMinutes + 1)
    BY MailBounds
  <2>2. CASE c = j
    <3>1. code(c) = [state |-> "live", left |-> CodeMinutes + 1]
      BY <2>2
    <3> QED
      BY <2>1, <3>1 DEF Codes
  <2>3. CASE c # j /\ (mailCode[c].state = "none" \/ Usable(c))
    <3>1. code(c) = mailCode[c] /\ mailCode[c] \in Codes
      BY <2>3, MailTypes
    <3> QED
      BY <2>3, <3>1
  <2>4. CASE c # j /\ ~(mailCode[c].state = "none" \/ Usable(c))
    <3>1. code(c) = [state |-> "gone", left |-> 0]
      BY <2>4
    <3> QED
      BY <2>1, <3>1 DEF Codes
  <2> QED
    BY <2>2, <2>3, <2>4
<1>3. ASSUME NEW c \in Mails
      PROVE  /\ job(c) \in Jobs
             /\ c # j => (job(c) = mailJob[c] \/ Stale(mailJob[c]))
  <2>1. Written("pending", 0, 0) \in Jobs
    BY WrittenType
  <2>2. Recovered(mailJob[c]) \in Jobs /\ (Recovered(mailJob[c]) = mailJob[c] \/ Stale(mailJob[c]))
    BY MailTypes, RecoveredType
  <2> QED
    BY <2>1, <2>2
<1> HIDE DEF code, job
<1>4. /\ mailCode' \in [Mails -> Codes] /\ mailFaults' \in 0 .. MaxMailFaults
      /\ \A c \in Mails : mailCode'[c] = code(c)
  BY <1>1, <1>2, MailTypes
<1>5. jobs \in [Mails -> Jobs] /\ \A c \in Mails : jobs[c] = job(c)
  BY <1>3
<1> HIDE DEF jobs
<1>6. mailJob[j].status = "none"
  BY <1>1, MailTypes DEF JobsHaveCodes
<1>7. JobsHaveCodes(mailCode', jobs)
  <2> SUFFICES ASSUME NEW c \in Mails, mailCode'[c].state = "none" PROVE jobs[c].status = "none"
    BY DEF JobsHaveCodes
  <2>1. c # j /\ mailJob[c].status = "none"
    BY <1>2, <1>4, MailTypes DEF JobsHaveCodes
  <2>2. ~Stale(mailJob[c])
    BY <2>1 DEF Stale
  <2> QED
    BY <1>3, <1>5, <2>1, <2>2
<1>8. \A e \in Drains : e # d => DrainHolds(mailDrain[e], jobs)
  <2> SUFFICES ASSUME NEW e \in Drains, e # d, NEW k \in DOMAIN mailDrain[e].todo
               PROVE  HeldJob(jobs[mailDrain[e].todo[k].id], mailDrain[e], k)
    BY DEF DrainHolds
  <2>1. PICK c \in Mails : c = mailDrain[e].todo[k].id /\ ~Stale(mailJob[c])
                           /\ mailJob[c].status \in {"sending", "failed"}
    BY RecoveredHeld
  <2>2. c # j /\ jobs[c] = mailJob[c]
    BY <1>3, <1>5, <1>6, <2>1
  <2>3. HeldJob(mailJob[c], mailDrain[e], k)
    BY <2>1, MailTypes DEF DrainHolds
  <2> QED
    BY <2>1, <2>2, <2>3
<1>9. /\ p \in DrainStates /\ DrainShape(p) /\ DrainHolds(p, jobs) /\ DrainDistinct(p)
      /\ \A e \in Drains : DrainsApart(p, mailDrain[e])
  <2>1. <<>> \in Seq(Claimed) /\ j \in 0 .. LastMail /\ 0 \in 0 .. StaleMinutes
    BY MailBounds DEF Mails
  <2>2. p \in DrainStates /\ p.pc = "claim" /\ p.want = j /\ p.todo = <<>>
    BY <2>1 DEF DrainStates
  <2> HIDE DEF p
  <2>3. DOMAIN p.todo = {}
    BY <2>2
  <2> QED
    BY <2>2, <2>3 DEF DrainShape, DrainHolds, DrainDistinct, DrainsApart
<1> HIDE DEF p
<1> QED
  BY <1>1, <1>4, <1>5, <1>7, <1>8, <1>9, DrainMoves

LEMMA MailMinuteKeeps ==
  ASSUME MailIInv, MailMinute
  PROVE  MailIInv'
<1> DEFINE code(j) == [mailCode[j] EXCEPT !.left = Minus(@)]
           job(j) == [mailJob[j] EXCEPT !.wait = Minus(@),
                        !.age = IF mailJob[j].status = "sending" THEN Older(@) ELSE 0]
           drain(d) == IF At(d, "idle") THEN NoDrain ELSE [mailDrain[d] EXCEPT !.age = @ + 1]
<1>1. /\ \A d \in Drains : mailDrain[d].age < StaleMinutes
      /\ mailCode' = [j \in Mails |-> code(j)] /\ mailJob' = [j \in Mails |-> job(j)]
      /\ mailDrain' = [d \in Drains |-> drain(d)] /\ mailFaults' = mailFaults
  BY DEF MailMinute
<1>2. ASSUME NEW j \in Mails
      PROVE  code(j) \in Codes /\ code(j).state = mailCode[j].state
  <2>1. mailCode[j] \in Codes
    BY MailTypes
  <2>2. mailCode[j].left \in 0 .. (CodeMinutes + 1)
    BY <2>1 DEF Codes
  <2>3. Minus(mailCode[j].left) \in 0 .. (CodeMinutes + 1)
    BY <2>2, MailBounds DEF Minus
  <2> QED
    BY <2>1, <2>3 DEF Codes
<1>3. ASSUME NEW j \in Mails
      PROVE  /\ job(j) \in Jobs /\ job(j).status = mailJob[j].status
             /\ mailJob[j].status = "sending" => job(j).age = Older(mailJob[j].age)
  <2>1. mailJob[j] \in Jobs
    BY MailTypes
  <2>2. mailJob[j].wait \in Nat /\ mailJob[j].age \in 0 .. (StaleMinutes + 1)
    BY <2>1, JobFields
  <2> DEFINE wait == Minus(mailJob[j].wait)
             age == IF mailJob[j].status = "sending" THEN Older(mailJob[j].age) ELSE 0
  <2>3. wait \in Nat
    BY <2>2 DEF Minus
  <2>4. age \in 0 .. (StaleMinutes + 1)
    BY <2>2, MailBounds DEF Older
  <2>5. job(j) = [mailJob[j] EXCEPT !.wait = wait, !.age = age]
    OBVIOUS
  <2>6. mailJob[j].status = "sending" => age = Older(mailJob[j].age)
    OBVIOUS
  <2> HIDE DEF wait, age
  <2>7. [mailJob[j] EXCEPT !.wait = wait, !.age = age] \in Jobs
    BY <2>1, <2>3, <2>4 DEF Jobs
  <2>8. /\ [mailJob[j] EXCEPT !.wait = wait, !.age = age].status = mailJob[j].status
        /\ [mailJob[j] EXCEPT !.wait = wait, !.age = age].age = age
    BY <2>1 DEF Jobs
  <2> HIDE DEF job
  <2> QED
    BY <2>5, <2>6, <2>7, <2>8
<1>4. ASSUME NEW d \in Drains
      PROVE  /\ drain(d) \in DrainStates /\ DrainShape(drain(d))
             /\ \/ drain(d) = NoDrain
                \/ /\ drain(d).pc = mailDrain[d].pc /\ drain(d).todo = mailDrain[d].todo
                   /\ drain(d).age = mailDrain[d].age + 1
  <2>1. CASE mailDrain[d].pc = "idle"
    <3>1. drain(d) = NoDrain
      BY <2>1 DEF At
    <3> QED
      BY <3>1, NoDrainIsFine
  <2>2. CASE mailDrain[d].pc # "idle"
    <3> DEFINE new == [mailDrain[d] EXCEPT !.age = @ + 1]
    <3>1. drain(d) = new
      BY <2>2 DEF At
    <3>2. mailDrain[d] \in DrainStates /\ DrainShape(mailDrain[d])
      BY MailTypes
    <3>3. mailDrain[d].age + 1 \in 0 .. StaleMinutes
      <4>1. mailDrain[d].age \in 0 .. StaleMinutes /\ mailDrain[d].age < StaleMinutes
        BY <1>1, <3>2, DrainFields
      <4>2. StaleMinutes \in Nat
        BY MailBounds
      <4> QED
        BY <4>1, <4>2
    <3>4. new \in DrainStates
      BY <3>2, <3>3 DEF DrainStates
    <3>5. /\ new.pc = mailDrain[d].pc /\ new.todo = mailDrain[d].todo
          /\ new.want = mailDrain[d].want /\ new.age = mailDrain[d].age + 1
      BY <3>2 DEF DrainStates
    <3> HIDE DEF new, drain
    <3>6. DrainShape(new)
      BY <2>2, <3>2, <3>5 DEF DrainShape
    <3> QED
      BY <3>1, <3>4, <3>5, <3>6
  <2> QED
    BY <2>1, <2>2
<1> HIDE DEF code, job, drain
<1>5. /\ \A j \in Mails : mailCode'[j] = code(j) /\ mailJob'[j] = job(j)
      /\ \A d \in Drains : mailDrain'[d] = drain(d)
  BY <1>1
<1>6. MailRowsOK'
  <2>1. mailCode' \in [Mails -> Codes]
    BY <1>1, <1>2
  <2>2. mailJob' \in [Mails -> Jobs]
    BY <1>1, <1>3
  <2>3. mailDrain' \in [Drains -> DrainStates]
    BY <1>1, <1>4
  <2> QED
    BY <1>1, <2>1, <2>2, <2>3, MailTypes DEF MailRowsOK
<1>7. JobsHaveCodes(mailCode', mailJob')
  BY <1>2, <1>3, <1>5, MailTypes DEF JobsHaveCodes
<1>8. ASSUME NEW d \in Drains
      PROVE  /\ DrainHolds(drain(d), mailJob') /\ DrainDistinct(drain(d))
             /\ \A e \in Drains : d # e => DrainsApart(drain(d), drain(e))
  <2>1. CASE drain(d) = NoDrain
    BY <2>1, NoDrainIsFine
  <2>2. CASE /\ drain(d).pc = mailDrain[d].pc /\ drain(d).todo = mailDrain[d].todo
             /\ drain(d).age = mailDrain[d].age + 1
    <3>1. DrainDistinct(drain(d))
      BY <2>2, MailTypes DEF DrainDistinct
    <3>2. DrainHolds(drain(d), mailJob')
      <4> SUFFICES ASSUME NEW i \in DOMAIN mailDrain[d].todo
                   PROVE  HeldJob(mailJob'[mailDrain[d].todo[i].id], drain(d), i)
        BY <2>2 DEF DrainHolds
      <4>1. PICK j \in Mails : j = mailDrain[d].todo[i].id
        BY MailTypes, TodoRows
      <4>2. HeldJob(mailJob[j], mailDrain[d], i)
        BY <4>1, MailTypes DEF DrainHolds
      <4>3. /\ mailDrain[d].age \in 0 .. StaleMinutes /\ mailJob[j].age \in 0 .. (StaleMinutes + 1)
            /\ mailDrain[d].age < StaleMinutes
        BY <1>1, MailTypes, DrainFields, JobFields
      <4>4. mailJob'[j] = job(j)
        BY <1>5
      <4>5. CASE i = 1 /\ mailDrain[d].pc = "void"
        BY <1>3, <2>2, <4>1, <4>2, <4>4, <4>5 DEF HeldJob
      <4>6. CASE ~(i = 1 /\ mailDrain[d].pc = "void")
        <5>1. mailJob[j].status = "sending" /\ mailJob[j].age <= mailDrain[d].age
          BY <4>2, <4>6 DEF HeldJob
        <5>2. job(j).age = mailJob[j].age + 1
          BY <1>3, <4>3, <5>1, MailBounds DEF Older
        <5>3. job(j).status = "sending" /\ job(j).age <= drain(d).age
          BY <1>3, <2>2, <4>3, <5>1, <5>2
        <5> QED
          BY <2>2, <4>1, <4>4, <4>6, <5>3 DEF HeldJob
      <4> QED
        BY <4>5, <4>6
    <3>3. ASSUME NEW e \in Drains, d # e PROVE DrainsApart(drain(d), drain(e))
      <4>1. CASE drain(e) = NoDrain
        BY <4>1, NoDrainIsFine
      <4>2. CASE drain(e).todo = mailDrain[e].todo
        <5>1. DrainsApart(mailDrain[d], mailDrain[e])
          BY <3>3, MailTypes
        <5> QED
          BY <2>2, <4>2, <5>1 DEF DrainsApart
      <4> QED
        BY <1>4, <4>1, <4>2
    <3> QED
      BY <3>1, <3>2, <3>3
  <2> QED
    BY <1>4, <2>1, <2>2
<1> QED
  BY <1>4, <1>5, <1>6, <1>7, <1>8 DEF MailIInv

LEMMA MailNextInvariant == MailIInv /\ [MailNext]_mailVars => MailIInv'
<1> SUFFICES ASSUME MailIInv, [MailNext]_mailVars PROVE MailIInv'
  OBVIOUS
<1>1. CASE UNCHANGED mailVars
  <2>1. /\ mailCode' = mailCode /\ mailJob' = mailJob /\ mailDrain' = mailDrain
        /\ mailFaults' = mailFaults
    BY <1>1 DEF mailVars
  <2>2. MailRowsOK'
    BY <2>1, MailTypes DEF MailRowsOK
  <2> QED
    BY <2>1, <2>2, MailTypes DEF MailIInv
<1>2. CASE MailNext
  <2>1. CASE \E d \in Drains : ClaimOwn(d) \/ OverBudget(d)
    BY <2>1, ClaimOwnKeeps, OverBudgetKeeps
  <2>2. CASE \E d \in Drains : TryMail(d)
    BY <2>2, FailExpiredKeeps, SlotBusyKeeps, DeliverKeeps DEF TryMail
  <2>3. CASE \E d \in Drains : MarkSent(d) \/ MarkError(d) \/ VoidCode(d)
    BY <2>3, MarkSentKeeps, MarkErrorKeeps, VoidCodeKeeps
  <2>4. CASE \E d \in Drains : AnswerLost(d) \/ MailCrash(d)
    BY <2>4, DeliverKeeps, MailCrashKeeps
  <2>5. CASE \E d \in Drains, max \in {1, BatchSize} : ClaimDue(d, max)
    BY <2>5, ClaimDueKeeps
  <2>6. CASE \E d \in Drains, j \in Mails : SendCode(d, j)
    BY <2>6, SendCodeKeeps
  <2>7. CASE \E j \in Mails : UseCode(j)
    BY <2>7, UseCodeKeeps
  <2>8. CASE MailMinute
    BY <2>8, MailMinuteKeeps
  <2> QED
    BY <1>2, <2>1, <2>2, <2>3, <2>4, <2>5, <2>6, <2>7, <2>8 DEF MailNext, DrainStep
<1> QED
  BY <1>1, <1>2

LEMMA MailInvariant == MailSpec => []MailIInv
BY MailInitInvariant, MailNextInvariant, PTL DEF MailSpec

(* Two drains never work on the same job, for any number of mails, drains   *)
(* and crashes and any of the three periods: a drain ends before its claims *)
(* are stale, so only a job nobody works on any more is recovered.          *)
THEOREM MailsAreApart == MailSpec => []OneDrainPerMail
<1>1. MailIInv => OneDrainPerMail
  BY DEF MailIInv, OneDrainPerMail, DrainsApart
<1> QED
  BY <1>1, MailInvariant, PTL

(***************************************************************************)
(* What the mail server took.  A mail counts as taken once more than there *)
(* were faults only while its drain is about to say so, and then the row   *)
(* says it: no other drain has the job, and a row that says sent stays so. *)
(***************************************************************************)
InFlight(j) == \E d \in Drains : mailDrain[d].pc = "sent" /\ Hand(d).id = j

Taken(j) == mailJob[j].status = "sent" \/ InFlight(j)

MailedOf(j) ==
  /\ mailed[j] <= mailFaults + (IF Taken(j) THEN 1 ELSE 0)
  /\ Taken(j) => mailed[j] > 0

MailedIInv == mailed \in [Mails -> Nat] /\ \A j \in Mails : MailedOf(j)

(* A step that mails nothing. *)
LEMMA NothingMailed ==
  ASSUME MailIInv, MailedIInv, mailed' = mailed,
         mailFaults' = mailFaults \/ mailFaults' = mailFaults + 1,
         \A j \in Mails :
           /\ Taken(j)' => Taken(j)
           /\ Taken(j) => Taken(j)' \/ mailFaults' = mailFaults + 1
  PROVE  MailedIInv'
<1>1. mailFaults \in Nat /\ \A j \in Mails : mailed[j] \in Nat
  BY MailTypes, MailBounds DEF MailedIInv
<1>2. ASSUME NEW j \in Mails PROVE MailedOf(j)'
  <2>1. MailedOf(j)
    BY DEF MailedIInv
  <2> QED
    BY <1>1, <2>1 DEF MailedOf
<1> QED
  BY <1>2 DEF MailedIInv

(* A drain that neither heard from the server nor does so now. *)
LEMMA StillInFlight ==
  ASSUME MailIInv, NEW d \in Drains, NEW p, mailDrain' = [mailDrain EXCEPT ![d] = p],
         mailDrain[d].pc # "sent", p.pc # "sent", NEW j
  PROVE  InFlight(j)' <=> InFlight(j)
<1>1. \A e \in Drains : mailDrain'[e] = IF e = d THEN p ELSE mailDrain[e]
  BY MailTypes
<1> QED
  BY <1>1 DEF InFlight, Hand

LEMMA QuietStep ==
  ASSUME MailIInv, MailedIInv, mailed' = mailed, mailFaults' = mailFaults,
         NEW d \in Drains, NEW p, mailDrain' = [mailDrain EXCEPT ![d] = p],
         mailDrain[d].pc # "sent", p.pc # "sent",
         \A j \in Mails : mailJob'[j].status = "sent" <=> mailJob[j].status = "sent"
  PROVE  MailedIInv'
<1>1. \A j \in Mails : Taken(j)' <=> Taken(j)
  BY StillInFlight DEF Taken
<1> QED
  BY <1>1, NothingMailed

LEMMA DoneGoes ==
  ASSUME MailIInv, NEW d \in Drains, Done(d)
  PROVE  \E p : mailDrain' = [mailDrain EXCEPT ![d] = p] /\ p.pc \in {"idle", "next"}
<1> DEFINE rest == Tail(mailDrain[d].todo)
           p == IF rest = <<>> THEN NoDrain ELSE Working(d, rest)
<1>1. mailDrain' = [mailDrain EXCEPT ![d] = p]
  BY DEF Done
<1>2. p.pc \in {"idle", "next"}
  BY NoDrainIsFine DEF Working
<1> QED
  BY <1>1, <1>2

LEMMA GotoGoes ==
  ASSUME MailIInv, NEW d \in Drains, NEW pc, Goto(d, pc)
  PROVE  \E p : /\ mailDrain' = [mailDrain EXCEPT ![d] = p]
                /\ p.pc = pc /\ p.todo = mailDrain[d].todo
<1> DEFINE p == [mailDrain[d] EXCEPT !.pc = pc]
<1>1. mailDrain' = [mailDrain EXCEPT ![d] = p]
  BY DEF Goto
<1>2. p.pc = pc /\ p.todo = mailDrain[d].todo
  BY MailTypes DEF DrainStates
<1> QED
  BY <1>1, <1>2

(* What a drain holds is being sent or has failed. *)
LEMMA HeldIsUnsent ==
  ASSUME MailIInv, NEW d \in Drains, mailDrain[d].pc \notin {"idle", "claim"}
  PROVE  /\ Hand(d).id \in Mails /\ mailJob[Hand(d).id].status # "sent"
         /\ mailDrain[d].pc # "void" => mailJob[Hand(d).id].status = "sending"
  BY HandIsFirst DEF HeldJob

(* The job in hand changes and is not sent. *)
LEMMA HandSettles ==
  ASSUME MailIInv, MailedIInv, mailed' = mailed, mailFaults' = mailFaults,
         NEW d \in Drains, mailDrain[d].pc \in {"next", "error", "void"},
         NEW r, mailJob' = [mailJob EXCEPT ![Hand(d).id] = r], r.status # "sent",
         Done(d) \/ Goto(d, "void")
  PROVE  MailedIInv'
<1>1. PICK p : mailDrain' = [mailDrain EXCEPT ![d] = p] /\ p.pc \in {"idle", "next", "void"}
  BY DoneGoes, GotoGoes
<1>2. \A j \in Mails : mailJob'[j].status = "sent" <=> mailJob[j].status = "sent"
  BY HeldIsUnsent, MailTypes
<1> QED
  BY <1>1, <1>2, QuietStep

LEMMA OutcomesTake ==
  ASSUME MailIInv, MailedIInv, NEW d \in Drains,
         FailExpired(d) \/ SlotBusy(d) \/ MarkError(d) \/ VoidCode(d)
  PROVE  MailedIInv'
<1>1. mailed' = mailed /\ mailFaults' = mailFaults
  BY DEF FailExpired, SlotBusy, MarkError, VoidCode
<1>2. mailDrain[d].pc \in {"next", "error", "void"}
  BY DEF FailExpired, SlotBusy, MarkError, VoidCode, At
<1>3. PICK h \in Mails : h = Hand(d).id /\ mailJob[h] \in Jobs /\ mailJob[h].status # "sent"
  BY <1>2, HeldIsUnsent, MailTypes
<1>4. \E r : mailJob' = [mailJob EXCEPT ![h] = r] /\ r.status # "sent"
  <2>1. [mailJob[h] EXCEPT !.status = "failed", !.age = 0].status # "sent"
    BY <1>3 DEF Jobs
  <2>2. \A attempts, wait : Written("pending", attempts, wait).status # "sent"
    BY DEF Written
  <2>3. CASE FailExpired(d)
    BY <1>3, <2>1, <2>3 DEF FailExpired
  <2>4. CASE SlotBusy(d)
    BY <1>3, <2>2, <2>4 DEF SlotBusy, Requeued
  <2>5. CASE MarkError(d)
    <3>1. \/ mailJob' = [mailJob EXCEPT ![h] = [mailJob[h] EXCEPT !.status = "failed", !.age = 0]]
          \/ \E attempts, wait : mailJob' = [mailJob EXCEPT ![h] = Written("pending", attempts, wait)]
      BY <1>3, <2>5, Zenon DEF MarkError
    <3> QED
      BY <2>1, <2>2, <3>1
  <2>6. CASE VoidCode(d)
    <3>1. mailJob' = [mailJob EXCEPT ![h] = mailJob[h]]
      BY <2>6, MailTypes DEF VoidCode
    <3> QED
      BY <1>3, <3>1
  <2> QED
    BY <2>3, <2>4, <2>5, <2>6
<1>5. Done(d) \/ Goto(d, "void")
  BY DEF FailExpired, SlotBusy, MarkError, VoidCode
<1> QED
  BY <1>1, <1>2, <1>3, <1>4, <1>5, HandSettles

LEMMA MarkSentTakes ==
  ASSUME MailIInv, MailedIInv, NEW d \in Drains, MarkSent(d)
  PROVE  MailedIInv'
<1>1. mailed' = mailed /\ mailFaults' = mailFaults /\ mailDrain[d].pc = "sent" /\ Done(d)
  BY DEF MarkSent, At
<1>2. PICK h \in Mails : h = Hand(d).id /\ mailJob[h] \in Jobs
  BY <1>1, HeldIsUnsent, MailTypes
<1>3. mailJob'[h].status = "sent" /\ \A j \in Mails \ {h} : mailJob'[j] = mailJob[j]
  BY <1>2, MailTypes DEF MarkSent, Jobs
<1>4. PICK p : mailDrain' = [mailDrain EXCEPT ![d] = p] /\ p.pc \in {"idle", "next"}
  BY <1>1, DoneGoes
<1>5. \A e \in Drains : mailDrain'[e] = IF e = d THEN p ELSE mailDrain[e]
  BY <1>4, MailTypes
<1>6. \A j \in Mails \ {h} : InFlight(j)' <=> InFlight(j)
  BY <1>2, <1>4, <1>5 DEF InFlight, Hand
<1>7. Taken(h) /\ Taken(h)'
  BY <1>1, <1>2, <1>3 DEF Taken, InFlight
<1>8. \A j \in Mails : Taken(j)' <=> Taken(j)
  BY <1>3, <1>6, <1>7 DEF Taken
<1> QED
  BY <1>1, <1>8, NothingMailed

LEMMA DeliverTakes ==
  ASSUME MailIInv, MailedIInv, NEW d \in Drains, Deliver(d) \/ AnswerLost(d)
  PROVE  MailedIInv'
<1>1. mailDrain[d].pc = "next" /\ mailJob' = mailJob
  BY DEF Deliver, AnswerLost, At
<1>2. PICK h \in Mails : h = Hand(d).id /\ mailJob[h].status = "sending"
  BY <1>1, HeldIsUnsent
<1>3. mailFaults \in Nat /\ mailed \in [Mails -> Nat] /\ \A j \in Mails : MailedOf(j)
  BY MailTypes, MailBounds DEF MailedIInv
<1>4. ~Taken(h)
  <2> SUFFICES ASSUME NEW e \in Drains, mailDrain[e].pc = "sent", Hand(e).id = h PROVE FALSE
    BY <1>2 DEF Taken, InFlight
  <2>1. e # d /\ DrainsApart(mailDrain[d], mailDrain[e])
    BY <1>1, MailTypes
  <2>2. /\ 1 \in DOMAIN mailDrain[d].todo /\ Hand(d) = mailDrain[d].todo[1]
        /\ 1 \in DOMAIN mailDrain[e].todo /\ Hand(e) = mailDrain[e].todo[1]
    BY <1>1, HandIsFirst
  <2> QED
    BY <1>2, <2>1, <2>2 DEF DrainsApart
<1>5. CASE Goto(d, "error") /\ mailed' = mailed /\ mailFaults' = mailFaults
  <2>1. PICK p : mailDrain' = [mailDrain EXCEPT ![d] = p] /\ p.pc = "error"
    BY <1>5, GotoGoes
  <2> QED
    BY <1>1, <1>5, <2>1, QuietStep
<1>6. CASE Goto(d, "error") /\ Accepted(h) /\ mailFaults' = mailFaults + 1
  <2>1. PICK p : mailDrain' = [mailDrain EXCEPT ![d] = p] /\ p.pc = "error"
    BY <1>6, GotoGoes
  <2>2. \A j \in Mails : Taken(j)' <=> Taken(j)
    BY <1>1, <2>1, StillInFlight DEF Taken
  <2>3. /\ mailed' \in [Mails -> Nat]
        /\ \A j \in Mails : mailed'[j] = IF j = h THEN mailed[j] + 1 ELSE mailed[j]
    BY <1>3, <1>6 DEF Accepted
  <2>4. ASSUME NEW j \in Mails PROVE MailedOf(j)'
    BY <1>3, <1>4, <1>6, <2>2, <2>3 DEF MailedOf
  <2> QED
    BY <2>3, <2>4 DEF MailedIInv
<1>7. CASE Goto(d, "sent") /\ Accepted(h) /\ mailFaults' = mailFaults
  <2>1. PICK p : /\ mailDrain' = [mailDrain EXCEPT ![d] = p]
                 /\ p.pc = "sent" /\ p.todo = mailDrain[d].todo
    BY <1>7, GotoGoes
  <2>2. \A e \in Drains : mailDrain'[e] = IF e = d THEN p ELSE mailDrain[e]
    BY <2>1, MailTypes
  <2>3. \A j \in Mails : InFlight(j)' <=> InFlight(j) \/ j = h
    BY <1>1, <1>2, <2>1, <2>2 DEF InFlight, Hand
  <2>4. \A j \in Mails : Taken(j)' <=> Taken(j) \/ j = h
    BY <1>1, <2>3 DEF Taken
  <2>5. /\ mailed' \in [Mails -> Nat]
        /\ \A j \in Mails : mailed'[j] = IF j = h THEN mailed[j] + 1 ELSE mailed[j]
    BY <1>3, <1>7 DEF Accepted
  <2>6. ASSUME NEW j \in Mails PROVE MailedOf(j)'
    BY <1>3, <1>4, <1>7, <2>4, <2>5 DEF MailedOf
  <2> QED
    BY <2>5, <2>6 DEF MailedIInv
<1> QED
  BY <1>2, <1>5, <1>6, <1>7 DEF Deliver, AnswerLost

LEMMA MailCrashTakes ==
  ASSUME MailIInv, MailedIInv, NEW d \in Drains, MailCrash(d)
  PROVE  MailedIInv'
<1>1. /\ mailDrain' = [mailDrain EXCEPT ![d] = NoDrain] /\ mailJob' = mailJob
      /\ mailFaults' = mailFaults + 1 /\ mailed' = mailed
  BY DEF MailCrash
<1>2. \A e \in Drains : mailDrain'[e] = IF e = d THEN NoDrain ELSE mailDrain[e]
  BY <1>1, MailTypes
<1>3. \A j \in Mails : InFlight(j)' => InFlight(j)
  BY <1>2, NoDrainIsFine DEF InFlight, Hand
<1>4. \A j \in Mails : Taken(j)' => Taken(j)
  BY <1>1, <1>3 DEF Taken
<1> QED
  BY <1>1, <1>4, NothingMailed

LEMMA OverBudgetTakes ==
  ASSUME MailIInv, MailedIInv, NEW d \in Drains, OverBudget(d)
  PROVE  MailedIInv'
<1> DEFINE rows == mailDrain[d].todo
           mine(j) == \E i \in DOMAIN rows : rows[i].id = j
<1>1. /\ mailDrain[d].pc = "next" /\ mailDrain' = [mailDrain EXCEPT ![d] = NoDrain]
      /\ mailFaults' = mailFaults /\ mailed' = mailed
  BY DEF OverBudget, At
<1>2. ASSUME NEW j \in Mails
      PROVE  mailJob'[j] = mailJob[j] \/ (mine(j) /\ mailJob'[j].status = "pending")
  BY <1>2 DEF OverBudget, Requeued, Written
<1>3. ASSUME NEW j \in Mails, mine(j) PROVE mailJob[j].status # "sent"
  BY <1>3, RecoveredHeld
<1>4. \A j \in Mails : mailJob'[j].status = "sent" <=> mailJob[j].status = "sent"
  BY <1>2, <1>3
<1> QED
  BY <1>1, <1>4, NoDrainIsFine, QuietStep

LEMMA ClaimTakes ==
  ASSUME MailIInv, MailedIInv, NEW d \in Drains, mailDrain[d].pc \in {"idle", "claim"},
         NEW jobs, SeenJobs(jobs), NEW picked, PickedJobs(jobs, picked), Claim(d, jobs, picked)
  PROVE  MailedIInv'
<1> DEFINE p == IF picked = <<>> THEN NoDrain
                ELSE Working(d, [i \in DOMAIN picked |->
                                   [id |-> picked[i], attempts |-> jobs[picked[i]].attempts]])
<1>1. /\ mailFaults' = mailFaults /\ mailed' = mailed
      /\ mailDrain' = [mailDrain EXCEPT ![d] = p]
  BY DEF Claim
<1>3. p.pc # "sent"
  BY NoDrainIsFine DEF Working
<1> HIDE DEF p
<1> DEFINE taken(c) == \E i \in DOMAIN picked : picked[i] = c
           sending(c) == [jobs[c] EXCEPT !.status = "sending", !.age = 0]
<1>4. mailJob' = [c \in Mails |-> IF taken(c) THEN sending(c) ELSE jobs[c]]
  BY DEF Claim
<1>5. ASSUME NEW c \in Mails PROVE sending(c).status = "sending"
  <2>1. jobs[c] \in Jobs
    BY DEF SeenJobs
  <2> QED
    BY <2>1, JobUpdated
<1>6. \A c : taken(c) => jobs[c].status = "pending"
  BY DEF PickedJobs
<1> HIDE DEF sending, taken
<1>2. ASSUME NEW j \in Mails
      PROVE  mailJob'[j].status = "sent" <=> mailJob[j].status = "sent"
  <2>1. jobs[j].status = "sent" <=> mailJob[j].status = "sent"
    BY DEF SeenJobs, Stale
  <2>2. mailJob'[j] = IF taken(j) THEN sending(j) ELSE jobs[j]
    BY <1>4
  <2> QED
    BY <1>5, <1>6, <2>1, <2>2
<1> QED
  BY <1>1, <1>2, <1>3, QuietStep

LEMMA SendCodeTakes ==
  ASSUME MailIInv, MailedIInv, NEW d \in Drains, NEW j \in Mails, SendCode(d, j)
  PROVE  MailedIInv'
<1> DEFINE p == [pc |-> "claim", want |-> j, todo |-> <<>>, age |-> 0]
<1>0. p.pc # "sent"
  OBVIOUS
<1>1. /\ mailFaults' = mailFaults /\ mailed' = mailed /\ mailDrain[d].pc = "idle"
      /\ mailDrain' = [mailDrain EXCEPT ![d] = p]
      /\ mailJob' = [c \in Mails |->
           IF c = j THEN Written("pending", 0, 0) ELSE Recovered(mailJob[c])]
      /\ mailCode[j].state = "none"
  BY DEF SendCode, At
<1>2. mailJob[j].status = "none"
  BY <1>1, MailTypes DEF JobsHaveCodes
<1>3. ASSUME NEW c \in Mails
      PROVE  mailJob'[c].status = "sent" <=> mailJob[c].status = "sent"
  <2>1. CASE c = j
    BY <1>1, <1>2, <2>1 DEF Written
  <2>2. CASE c # j
    <3>1. mailJob'[c] = Recovered(mailJob[c]) /\ mailJob[c] \in Jobs
      BY <1>1, <2>2, MailTypes
    <3>2. \/ mailJob'[c] = mailJob[c]
          \/ Stale(mailJob[c]) /\ mailJob'[c].status = "pending"
      BY <3>1, RecoveredType
    <3> QED
      BY <3>2 DEF Stale
  <2> QED
    BY <2>1, <2>2
<1> HIDE DEF p
<1> QED
  BY <1>0, <1>1, <1>3, QuietStep

LEMMA MailMinuteTakes ==
  ASSUME MailIInv, MailedIInv, MailMinute
  PROVE  MailedIInv'
<1>1. /\ mailFaults' = mailFaults /\ mailed' = mailed
      /\ mailDrain' = [d \in Drains |->
           IF At(d, "idle") THEN NoDrain ELSE [mailDrain[d] EXCEPT !.age = @ + 1]]
      /\ mailJob' = [j \in Mails |->
           [mailJob[j] EXCEPT !.wait = Minus(@),
                              !.age = IF mailJob[j].status = "sending" THEN Older(@) ELSE 0]]
  BY DEF MailMinute
<1>2. \A j \in Mails : mailJob'[j].status = mailJob[j].status
  BY <1>1, MailTypes DEF Jobs
<1>3. ASSUME NEW d \in Drains
      PROVE  /\ mailDrain'[d].pc = mailDrain[d].pc
             /\ mailDrain[d].pc = "sent" => mailDrain'[d].todo = mailDrain[d].todo
  BY <1>1, MailTypes, NoDrainIsFine DEF DrainStates, At
<1>4. \A j \in Mails : Taken(j)' <=> Taken(j)
  BY <1>2, <1>3 DEF Taken, InFlight, Hand
<1> QED
  BY <1>1, <1>4, NothingMailed

LEMMA MailedNext == MailIInv /\ MailedIInv /\ [MailNext]_mailVars => MailedIInv'
<1> SUFFICES ASSUME MailIInv, MailedIInv, [MailNext]_mailVars PROVE MailedIInv'
  OBVIOUS
<1>1. CASE \E d \in Drains : ClaimOwn(d)
  BY <1>1, ClaimOwnPicks, ClaimTakes
<1>2. CASE \E d \in Drains, max \in {1, BatchSize} : ClaimDue(d, max)
  BY <1>2, ClaimDuePicks, ClaimTakes
<1>3. CASE \E d \in Drains : TryMail(d) \/ AnswerLost(d)
  BY <1>3, OutcomesTake, DeliverTakes DEF TryMail
<1>4. CASE \E d \in Drains : OverBudget(d) \/ MarkSent(d) \/ MarkError(d) \/ VoidCode(d)
  BY <1>4, OverBudgetTakes, MarkSentTakes, OutcomesTake
<1>5. CASE \E d \in Drains : MailCrash(d)
  BY <1>5, MailCrashTakes
<1>6. CASE \E d \in Drains, j \in Mails : SendCode(d, j)
  BY <1>6, SendCodeTakes
<1>7. CASE (\E j \in Mails : UseCode(j)) \/ UNCHANGED mailVars
  <2>1. UNCHANGED <<mailJob, mailDrain, mailFaults, mailed>>
    BY <1>7 DEF UseCode, mailVars
  <2>2. \A j \in Mails : Taken(j)' <=> Taken(j)
    BY <2>1 DEF Taken, InFlight, Hand
  <2> QED
    BY <2>1, <2>2, NothingMailed
<1>8. CASE MailMinute
  BY <1>8, MailMinuteTakes
<1> QED
  BY <1>1, <1>2, <1>3, <1>4, <1>5, <1>6, <1>7, <1>8 DEF MailNext, DrainStep

LEMMA MailedInit == MailInit => MailedIInv
<1> SUFFICES ASSUME MailInit PROVE MailedIInv
  OBVIOUS
<1>1. \A j \in Mails : ~Taken(j)
  BY NoDrainIsFine DEF MailInit, Taken, InFlight, NoJob
<1> QED
  BY <1>1 DEF MailInit, MailedIInv, MailedOf

(* What the invariant says of the rows. *)
LEMMA MailedBounds ==
  ASSUME MailIInv, MailedIInv
  PROVE  MailTypeOK /\ MailsAreCounted
<1>1. /\ mailFaults \in 0 .. MaxMailFaults /\ MaxMailFaults \in Nat
      /\ mailed \in [Mails -> Nat] /\ \A j \in Mails : MailedOf(j)
  BY MailTypes, MailBounds DEF MailedIInv
<1>2. \A j \in Mails : mailed[j] \in 0 .. (1 + MaxMailFaults)
  BY <1>1 DEF MailedOf
<1>3. \A j \in Mails : InFlight(j) => mailJob[j].status = "sending"
  BY HeldIsUnsent DEF InFlight
<1>4. MailsAreCounted
  BY <1>1, <1>3 DEF MailsAreCounted, MailedOf, Taken
<1> QED
  BY <1>1, <1>2, <1>4 DEF MailTypeOK, MailIInv

(* The mail server takes a mail once, but for each drain that died and each  *)
(* answer that was lost, and what is written down as sent it did take: for   *)
(* any number of mails, drains and faults and any of the three periods.      *)
THEOREM MailsTaken == MailSpec => []MailsAreCounted
  BY MailedInit, MailedNext, MailedBounds, MailInvariant, PTL DEF MailSpec

(***************************************************************************)
(* The promise of the mail queue.  A job being sent keeps its count of     *)
(* attempts until its drain writes the next one, so the count a drain read *)
(* with its claim is that of the row whenever it writes.                   *)
(***************************************************************************)
RowsOf(p) == {p.todo[i] : i \in DOMAIN p.todo}

CountsHold ==
  \A d \in Drains : \A row \in RowsOf(mailDrain[d]) :
    row.attempts = mailJob[row.id].attempts

TriesLeft ==
  \A j \in Mails : mailJob[j].status \in {"pending", "sending"} => mailJob[j].attempts < MailAttempts

(* What a step may make of the row of a mail. *)
JobMoves(old, new, usable) ==
  \/ /\ new.status = old.status
     /\ old.status \in {"pending", "sending"} => new.attempts = old.attempts
  \/ old.status = "none" /\ new.status = "pending" /\ new.attempts = 0
  \/ old.status = "pending" /\ new.status = "sending" /\ new.attempts = old.attempts
  \/ old.status = "sending" /\ new.status = "pending" /\ new.attempts = old.attempts
  \/ /\ old.status = "sending" /\ new.status = "pending"
     /\ new.attempts = old.attempts + 1 /\ new.attempts < MailAttempts
  \/ old.status = "sending" /\ new.status = "sent"
  \/ /\ old.status = "sending" /\ new.status = "failed"
     /\ old.attempts + 1 = MailAttempts \/ ~usable

IsAdded(j) == mailJob[j].status = "none" /\ mailJob'[j].status = "pending" /\ mailJob'[j].attempts = 0

MailMoves ==
  \A j \in Mails :
    /\ JobMoves(mailJob[j], mailJob'[j], Usable(j))
    /\ Usable(j)' => Usable(j) \/ IsAdded(j)

LEMMA MovesLeaveTries ==
  ASSUME MailIInv, MailIInv', TriesLeft, MailMoves
  PROVE  TriesLeft'
<1> SUFFICES ASSUME NEW j \in Mails, mailJob'[j].status \in {"pending", "sending"}
             PROVE  mailJob'[j].attempts < MailAttempts
  BY DEF TriesLeft
<1>1. JobMoves(mailJob[j], mailJob'[j], Usable(j))
  BY DEF MailMoves
<1> QED
  BY <1>1 DEF JobMoves, TriesLeft, MailAttempts

LEMMA MovesArePromised ==
  ASSUME MailIInv, MailIInv', MailMoves
  PROVE  Mailing!JobNext
<1> SUFFICES ASSUME NEW j \in Mails
             PROVE  /\ MailAsJob(j)' = MailAsJob(j) \/ Mailing!Moves(j)
                    /\ Usable(j)' => Usable(j) \/ Mailing!Add(j)
  BY DEF Mailing!JobNext
<1> DEFINE old == mailJob[j]
           new == mailJob'[j]
<1>1. JobMoves(old, new, Usable(j)) /\ (Usable(j)' => Usable(j) \/ IsAdded(j))
  BY DEF MailMoves
<1>2. old \in Jobs /\ new \in Jobs
  BY MailTypes DEF MailIInv, MailRowsOK
<1>3. /\ MailAsJob(j) = [state |-> JobState[old.status],
                         tries |-> IF old.status \in {"pending", "sending"} THEN old.attempts ELSE 0]
      /\ MailAsJob(j)' = [state |-> JobState[new.status],
                          tries |-> IF new.status \in {"pending", "sending"} THEN new.attempts ELSE 0]
  BY DEF MailAsJob, JobState
<1>4. [i \in Mails |-> MailAsJob(i)][j] = MailAsJob(j)
      /\ [i \in Mails |-> MailAsJob(i)]'[j] = MailAsJob(j)'
  OBVIOUS
<1>5. /\ JobState["none"] = "none" /\ JobState["pending"] = "waiting"
      /\ JobState["sending"] = "taken" /\ JobState["sent"] = "sent"
      /\ JobState["failed"] = "dropped"
  BY DEF JobState
<1> DEFINE open == {"pending", "sending"}
<1>7. ASSUME NEW state, NEW tries
      PROVE  /\ Mailing!Is(j, state) <=> MailAsJob(j).state = state
             /\ Mailing!Becomes(j, state, tries)
                  <=> MailAsJob(j)' = [state |-> state, tries |-> tries]
  BY <1>4 DEF Mailing!Is, Mailing!Becomes
<1> DEFINE tries == [i \in Mails |-> MailAsJob(i)][j].tries
<1>8. tries = MailAsJob(j).tries
  BY <1>4
<1>9. old.attempts \in 0 .. 3 /\ new.attempts \in 0 .. 3
  BY <1>2, JobFields
<1> HIDE DEF tries, old, new
<1>10. IsAdded(j) => Mailing!Add(j)
  BY <1>3, <1>5, <1>7 DEF IsAdded, Mailing!Add, old, new
<1>11. CASE new.status = old.status /\ (old.status \in open => new.attempts = old.attempts)
  BY <1>1, <1>3, <1>10, <1>11
<1>12. CASE old.status = "none" /\ new.status = "pending" /\ new.attempts = 0
  BY <1>1, <1>10, <1>12 DEF IsAdded, Mailing!Moves, old, new
<1>13. CASE old.status = "pending" /\ new.status = "sending" /\ new.attempts = old.attempts
  <2>1. Mailing!Take(j)
    BY <1>3, <1>5, <1>7, <1>8, <1>13 DEF Mailing!Take, tries
  <2> QED
    BY <1>1, <1>10, <2>1 DEF Mailing!Moves
<1>14. CASE old.status = "sending" /\ new.status = "pending" /\ new.attempts = old.attempts
  <2>1. Mailing!GiveBack(j)
    BY <1>3, <1>5, <1>7, <1>8, <1>14 DEF Mailing!GiveBack, tries
  <2> QED
    BY <1>1, <1>10, <2>1 DEF Mailing!Moves
<1>15. CASE /\ old.status = "sending" /\ new.status = "pending"
            /\ new.attempts = old.attempts + 1 /\ new.attempts < MailAttempts
  <2>1. Mailing!FailTry(j)
    BY <1>3, <1>5, <1>7, <1>8, <1>15 DEF Mailing!FailTry, tries
  <2> QED
    BY <1>1, <1>10, <2>1 DEF Mailing!Moves
<1>16. CASE old.status = "sending" /\ new.status = "sent"
  <2>1. Mailing!Send(j)
    BY <1>3, <1>5, <1>7, <1>16 DEF Mailing!Send
  <2> QED
    BY <1>1, <1>10, <2>1 DEF Mailing!Moves
<1>17. CASE /\ old.status = "sending" /\ new.status = "failed"
            /\ old.attempts + 1 = MailAttempts \/ ~Usable(j)
  <2>1. CASE old.attempts + 1 = MailAttempts
    <3>1. Mailing!FailTry(j)
      BY <1>3, <1>5, <1>7, <1>8, <1>17, <2>1 DEF Mailing!FailTry, tries
    <3> QED
      BY <1>1, <1>10, <3>1 DEF Mailing!Moves
  <2>2. CASE ~Usable(j)
    <3>1. ~Mailing!Is(j, "none")
      <4>1. MailAsJob(j).state = "taken"
        BY <1>3, <1>5, <1>17
      <4> QED
        BY <1>7, <4>1
    <3>2. Mailing!Becomes(j, "dropped", 0)
      BY <1>3, <1>5, <1>7, <1>17
    <3>3. Mailing!Withdraw(j)
      BY <2>2, <3>1, <3>2 DEF Mailing!Withdraw
    <3> QED
      BY <1>1, <1>10, <3>3 DEF Mailing!Moves
  <2> QED
    BY <1>17, <2>1, <2>2
<1> QED
  BY <1>1, <1>11, <1>12, <1>13, <1>14, <1>15, <1>16, <1>17 DEF JobMoves, old, new

LEMMA SameRows ==
  ASSUME CountsHold,
         \A e \in Drains : \A row \in RowsOf(mailDrain'[e]) :
           /\ row \in RowsOf(mailDrain[e])
           /\ mailJob'[row.id].attempts = mailJob[row.id].attempts
  PROVE  CountsHold'
  BY DEF CountsHold, RowsOf

LEMMA HeldIds ==
  ASSUME MailIInv, NEW e \in Drains, NEW row \in RowsOf(mailDrain[e])
  PROVE  row.id \in Mails /\ mailJob[row.id].status \in {"sending", "failed"}
<1>1. PICK i \in DOMAIN mailDrain[e].todo : row = mailDrain[e].todo[i]
  BY DEF RowsOf
<1> QED
  BY <1>1, RecoveredHeld

(* The drain is done with the row in its hand: it does not hold it any more. *)
LEMMA DoneRows ==
  ASSUME MailIInv, NEW d \in Drains, mailDrain[d].pc \notin {"idle", "claim"}, Done(d),
         NEW e \in Drains, NEW row \in RowsOf(mailDrain'[e])
  PROVE  row \in RowsOf(mailDrain[e]) /\ row.id # Hand(d).id
<1> DEFINE todo == mailDrain[d].todo
           rest == Tail(todo)
           p == IF rest = <<>> THEN NoDrain ELSE Working(d, rest)
<1>1. /\ mailDrain[d] \in DrainStates /\ todo # <<>> /\ DrainDistinct(mailDrain[d])
      /\ 1 \in DOMAIN todo /\ Hand(d) = todo[1]
  BY MailTypes, HandIsFirst
<1>2. mailDrain' = [mailDrain EXCEPT ![d] = p] /\ mailDrain \in [Drains -> DrainStates]
  BY MailTypes DEF Done
<1>3. PICK i \in DOMAIN mailDrain'[e].todo : row = mailDrain'[e].todo[i]
  BY DEF RowsOf
<1>4. CASE e = d
  <2>1. p.todo = rest
    BY NoDrainIsFine DEF Working
  <2>2. i \in DOMAIN rest /\ row = rest[i]
    BY <1>2, <1>3, <1>4, <2>1
  <2>3. i + 1 \in DOMAIN todo /\ row = todo[i + 1] /\ i + 1 # 1
    BY <1>1, <2>2, RestOfTodo
  <2> QED
    BY <1>1, <1>4, <2>3 DEF RowsOf, DrainDistinct
<1>5. CASE e # d
  <2>1. i \in DOMAIN mailDrain[e].todo /\ row = mailDrain[e].todo[i]
    BY <1>2, <1>3, <1>5
  <2>2. DrainsApart(mailDrain[d], mailDrain[e])
    BY <1>5, MailTypes
  <2> QED
    BY <1>1, <2>1, <2>2 DEF RowsOf, DrainsApart
<1> QED
  BY <1>4, <1>5

LEMMA GotoRows ==
  ASSUME MailIInv, NEW d \in Drains, NEW pc, Goto(d, pc),
         NEW e \in Drains, NEW row \in RowsOf(mailDrain'[e])
  PROVE  row \in RowsOf(mailDrain[e])
<1>1. mailDrain'[e].todo = mailDrain[e].todo
  BY MailTypes DEF Goto, DrainStates
<1> QED
  BY <1>1 DEF RowsOf

(* One job moves on: the codes stay, and so do the other jobs. *)
LEMMA OneJobMoves ==
  ASSUME MailIInv, NEW h \in Mails, NEW r, mailJob' = [mailJob EXCEPT ![h] = r],
         mailCode' = mailCode, JobMoves(mailJob[h], r, Usable(h))
  PROVE  MailMoves
<1>1. \A j \in Mails : mailJob'[j] = IF j = h THEN r ELSE mailJob[j]
  BY MailTypes
<1>2. ASSUME NEW j \in Mails PROVE JobMoves(mailJob[j], mailJob'[j], Usable(j))
  <2>1. CASE j = h
    BY <1>1, <2>1
  <2>2. CASE j # h
    BY <1>1, <2>2 DEF JobMoves
  <2> QED
    BY <2>1, <2>2
<1> QED
  BY <1>2 DEF MailMoves, Usable

LEMMA HandIsSending ==
  ASSUME MailIInv, CountsHold, TriesLeft, NEW d \in Drains,
         mailDrain[d].pc \in {"next", "sent", "error"}
  PROVE  /\ Hand(d).id \in Mails /\ mailJob[Hand(d).id] \in Jobs
         /\ mailJob[Hand(d).id].status = "sending"
         /\ mailJob[Hand(d).id].attempts = Hand(d).attempts
         /\ Hand(d).attempts \in 0 .. 2
<1>1. /\ 1 \in DOMAIN mailDrain[d].todo /\ Hand(d) = mailDrain[d].todo[1]
      /\ Hand(d).id \in Mails /\ Hand(d).attempts \in 0 .. 3
      /\ HeldJob(mailJob[Hand(d).id], mailDrain[d], 1)
  BY HandIsFirst
<1>2. mailJob[Hand(d).id].attempts = Hand(d).attempts
  BY <1>1 DEF CountsHold, RowsOf
<1>3. mailJob[Hand(d).id].status = "sending"
  BY <1>1 DEF HeldJob
<1>4. Hand(d).attempts < 3
  BY <1>1, <1>2, <1>3 DEF TriesLeft, MailAttempts
<1> QED
  BY <1>1, <1>2, <1>3, <1>4, MailTypes

MailTries == CountsHold /\ TriesLeft

LEMMA FailExpiredMoves ==
  ASSUME MailIInv, MailTries, NEW d \in Drains, FailExpired(d)
  PROVE  CountsHold' /\ MailMoves
<1> DEFINE h == Hand(d).id
           r == [mailJob[h] EXCEPT !.status = "failed", !.age = 0]
<1>1. /\ mailDrain[d].pc = "next" /\ ~Usable(h) /\ Goto(d, "void")
      /\ mailJob' = [mailJob EXCEPT ![h] = r] /\ mailCode' = mailCode
  BY DEF FailExpired, At
<1>2. h \in Mails /\ mailJob[h] \in Jobs /\ mailJob[h].status = "sending"
  BY <1>1, HandIsSending DEF MailTries
<1>3. r.status = "failed" /\ r.attempts = mailJob[h].attempts
  BY <1>2 DEF Jobs
<1> HIDE DEF r, h
<1>4. MailMoves
  BY <1>1, <1>2, <1>3, OneJobMoves DEF JobMoves
<1>5. ASSUME NEW e \in Drains, NEW row \in RowsOf(mailDrain'[e])
      PROVE  /\ row \in RowsOf(mailDrain[e])
             /\ mailJob'[row.id].attempts = mailJob[row.id].attempts
  BY <1>1, <1>2, <1>3, <1>5, GotoRows, HeldIds, MailTypes
<1> QED
  BY <1>4, <1>5, SameRows DEF MailTries

LEMMA MarkErrorMoves ==
  ASSUME MailIInv, MailTries, NEW d \in Drains, MarkError(d)
  PROVE  CountsHold' /\ MailMoves
<1>1. mailDrain[d].pc = "error" /\ mailCode' = mailCode
  BY DEF MarkError, At
<1>2. PICK h \in Mails, k \in 0 .. 2 :
        /\ h = Hand(d).id /\ k = Hand(d).attempts /\ mailJob[h] \in Jobs
        /\ mailJob[h].status = "sending" /\ mailJob[h].attempts = k
  BY <1>1, HandIsSending DEF MailTries
<1>3. CASE k + 1 >= MailAttempts
  <2> DEFINE r == [mailJob[h] EXCEPT !.status = "failed", !.age = 0]
  <2>1. mailJob' = [mailJob EXCEPT ![h] = r] /\ Goto(d, "void")
    BY <1>2, <1>3 DEF MarkError
  <2>2. r.status = "failed" /\ r.attempts = k /\ k + 1 = MailAttempts
    BY <1>2, <1>3 DEF Jobs, MailAttempts
  <2> HIDE DEF r
  <2>3. MailMoves
    BY <1>1, <1>2, <2>1, <2>2, OneJobMoves DEF JobMoves
  <2>4. ASSUME NEW e \in Drains, NEW row \in RowsOf(mailDrain'[e])
        PROVE  /\ row \in RowsOf(mailDrain[e])
               /\ mailJob'[row.id].attempts = mailJob[row.id].attempts
    BY <1>2, <2>1, <2>2, <2>4, GotoRows, HeldIds, MailTypes
  <2> QED
    BY <2>3, <2>4, SameRows DEF MailTries
<1>4. CASE ~(k + 1 >= MailAttempts)
  <2> DEFINE r == Written("pending", k + 1, RetryDelay(k + 1))
  <2>1. mailJob' = [mailJob EXCEPT ![h] = r] /\ Done(d)
    BY <1>2, <1>4 DEF MarkError
  <2>2. r.status = "pending" /\ r.attempts = k + 1 /\ k + 1 < MailAttempts
    BY <1>2, <1>4 DEF Written, MailAttempts
  <2> HIDE DEF r
  <2>3. MailMoves
    BY <1>1, <1>2, <2>1, <2>2, OneJobMoves DEF JobMoves
  <2>4. ASSUME NEW e \in Drains, NEW row \in RowsOf(mailDrain'[e])
        PROVE  /\ row \in RowsOf(mailDrain[e])
               /\ mailJob'[row.id].attempts = mailJob[row.id].attempts
    <3>1. row \in RowsOf(mailDrain[e]) /\ row.id # h
      BY <1>1, <1>2, <2>1, <2>4, DoneRows
    <3> QED
      BY <2>1, <3>1, HeldIds, MailTypes
  <2> QED
    BY <2>3, <2>4, SameRows DEF MailTries
<1> QED
  BY <1>3, <1>4

(* The outcomes that leave the count of attempts as it is. *)
LEMMA DoneMoves ==
  ASSUME MailIInv, MailTries, NEW d \in Drains, mailDrain[d].pc \in {"next", "sent"}, Done(d),
         NEW r, mailJob' = [mailJob EXCEPT ![Hand(d).id] = r], mailCode' = mailCode,
         r.attempts = mailJob[Hand(d).id].attempts, r.status \in {"pending", "sent"}
  PROVE  CountsHold' /\ MailMoves
<1>1. PICK h \in Mails : h = Hand(d).id /\ mailJob[h].status = "sending"
  BY HandIsSending DEF MailTries
<1>2. MailMoves
  BY <1>1, OneJobMoves DEF JobMoves
<1>3. ASSUME NEW e \in Drains, NEW row \in RowsOf(mailDrain'[e])
      PROVE  /\ row \in RowsOf(mailDrain[e])
             /\ mailJob'[row.id].attempts = mailJob[row.id].attempts
  BY <1>3, DoneRows, HeldIds, MailTypes
<1> QED
  BY <1>2, <1>3, SameRows DEF MailTries

LEMMA MarkSentMoves ==
  ASSUME MailIInv, MailTries, NEW d \in Drains, MarkSent(d)
  PROVE  CountsHold' /\ MailMoves
<1> DEFINE h == Hand(d).id
           r == [mailJob[h] EXCEPT !.status = "sent", !.age = 0]
<1>1. /\ mailDrain[d].pc = "sent" /\ mailJob' = [mailJob EXCEPT ![h] = r]
      /\ Done(d) /\ mailCode' = mailCode
  BY DEF MarkSent, At
<1>2. r.status = "sent" /\ r.attempts = mailJob[h].attempts
  BY <1>1, HandIsSending DEF MailTries, Jobs
<1> HIDE DEF r
<1> QED
  BY <1>1, <1>2, DoneMoves

LEMMA SlotBusyMoves ==
  ASSUME MailIInv, MailTries, NEW d \in Drains, SlotBusy(d)
  PROVE  CountsHold' /\ MailMoves
<1> DEFINE h == Hand(d).id
           r == Requeued(Hand(d), PauseMinutes)
<1>1. /\ mailDrain[d].pc = "next" /\ mailJob' = [mailJob EXCEPT ![h] = r]
      /\ Done(d) /\ mailCode' = mailCode
  BY DEF SlotBusy, At
<1>2. r.status = "pending" /\ r.attempts = mailJob[h].attempts
  BY <1>1, HandIsSending DEF MailTries, Requeued, Written
<1> HIDE DEF r
<1> QED
  BY <1>1, <1>2, DoneMoves

(* A step that leaves the jobs alone, and wants no code again. *)
LEMMA JobsStay ==
  ASSUME mailJob' = mailJob, \A j \in Mails : Usable(j)' => Usable(j)
  PROVE  MailMoves
  BY DEF MailMoves, JobMoves

LEMMA DeliverMoves ==
  ASSUME MailIInv, MailTries, NEW d \in Drains, Deliver(d) \/ AnswerLost(d)
  PROVE  CountsHold' /\ MailMoves
<1>1. PICK pc : Goto(d, pc)
  BY DEF Deliver, AnswerLost
<1>2. mailJob' = mailJob /\ mailCode' = mailCode
  BY DEF Deliver, AnswerLost
<1>3. MailMoves
  BY <1>2, JobsStay DEF Usable
<1> QED
  BY <1>1, <1>2, <1>3, GotoRows, SameRows DEF MailTries

LEMMA VoidCodeMoves ==
  ASSUME MailIInv, MailTries, NEW d \in Drains, VoidCode(d)
  PROVE  CountsHold' /\ MailMoves
<1>1. /\ mailDrain[d].pc = "void" /\ Done(d) /\ mailJob' = mailJob
      /\ mailCode' = [mailCode EXCEPT ![Hand(d).id].state =
                        IF @ = "gone" THEN "gone" ELSE "used"]
  BY DEF VoidCode, At
<1>2. ASSUME NEW j \in Mails, Usable(j)' PROVE Usable(j)
  <2>1. mailCode[j] \in Codes /\ mailCode \in [Mails -> Codes]
    BY MailTypes
  <2>2. CASE j = Hand(d).id
    <3>1. mailCode'[j].state # "live"
      BY <1>1, <2>1, <2>2 DEF Codes
    <3> QED
      BY <1>2, <3>1 DEF Usable
  <2>3. CASE j # Hand(d).id
    <3>1. mailCode'[j] = mailCode[j]
      BY <1>1, <2>1, <2>3
    <3> QED
      BY <1>2, <3>1 DEF Usable
  <2> QED
    BY <2>2, <2>3
<1>3. MailMoves
  BY <1>1, <1>2, JobsStay
<1> QED
  BY <1>1, <1>3, DoneRows, SameRows DEF MailTries

LEMMA UseCodeMoves ==
  ASSUME MailIInv, MailTries, NEW j \in Mails, UseCode(j)
  PROVE  CountsHold' /\ MailMoves
<1>1. /\ mailCode' = [mailCode EXCEPT ![j].state = "used"]
      /\ mailJob' = mailJob /\ mailDrain' = mailDrain
  BY DEF UseCode
<1>2. ASSUME NEW c \in Mails, Usable(c)' PROVE Usable(c)
  <2>1. mailCode[j] \in Codes /\ mailCode \in [Mails -> Codes]
    BY MailTypes
  <2>2. c # j
    BY <1>1, <1>2, <2>1 DEF Usable, Codes
  <2> QED
    BY <1>1, <1>2, <2>1, <2>2 DEF Usable
<1>3. MailMoves
  BY <1>1, <1>2, JobsStay
<1> QED
  BY <1>1, <1>3, SameRows DEF MailTries

LEMMA MailCrashMoves ==
  ASSUME MailIInv, MailTries, NEW d \in Drains, MailCrash(d)
  PROVE  CountsHold' /\ MailMoves
<1>1. /\ mailDrain' = [mailDrain EXCEPT ![d] = NoDrain]
      /\ mailJob' = mailJob /\ mailCode' = mailCode
  BY DEF MailCrash
<1>2. MailMoves
  BY <1>1, JobsStay DEF Usable
<1>3. ASSUME NEW e \in Drains, NEW row \in RowsOf(mailDrain'[e]) PROVE row \in RowsOf(mailDrain[e])
  <2>1. e # d
    BY <1>1, <1>3, NoDrainIsFine, MailTypes DEF RowsOf
  <2> QED
    BY <1>1, <1>3, <2>1, MailTypes
<1> QED
  BY <1>1, <1>2, <1>3, SameRows DEF MailTries

LEMMA OverBudgetMoves ==
  ASSUME MailIInv, MailTries, NEW d \in Drains, OverBudget(d)
  PROVE  CountsHold' /\ MailMoves
<1> DEFINE rows == mailDrain[d].todo
           mine(j) == \E i \in DOMAIN rows : rows[i].id = j
           row(j) == rows[CHOOSE i \in DOMAIN rows : rows[i].id = j]
           back(j) == IF mine(j) THEN Requeued(row(j), PauseMinutes) ELSE mailJob[j]
<1>1. /\ mailDrain[d].pc = "next" /\ mailDrain' = [mailDrain EXCEPT ![d] = NoDrain]
      /\ mailJob' = [j \in Mails |-> back(j)] /\ mailCode' = mailCode
  BY DEF OverBudget, At
<1>2. ASSUME NEW j \in Mails
      PROVE  /\ \/ mailJob'[j] = mailJob[j]
                \/ mailJob[j].status = "sending" /\ mailJob'[j].status = "pending"
             /\ mailJob'[j].attempts = mailJob[j].attempts
  <2>1. CASE mine(j)
    <3> DEFINE i == CHOOSE i \in DOMAIN rows : rows[i].id = j
    <3>1. i \in DOMAIN rows /\ rows[i].id = j
      BY <2>1
    <3>2. mailJob'[j] = Requeued(rows[i], PauseMinutes)
      BY <1>1, <2>1
    <3> HIDE DEF i
    <3>3. mailJob[j].status = "sending"
      BY <1>1, <3>1, MailTypes DEF DrainHolds, HeldJob
    <3>4. rows[i].attempts = mailJob[j].attempts
      BY <3>1 DEF MailTries, CountsHold, RowsOf
    <3> QED
      BY <3>2, <3>3, <3>4 DEF Requeued, Written
  <2>2. CASE ~mine(j)
    BY <1>1, <2>2
  <2> QED
    BY <2>1, <2>2
<1>3. MailMoves
  BY <1>1, <1>2 DEF MailMoves, JobMoves, Usable
<1>4. ASSUME NEW e \in Drains, NEW r \in RowsOf(mailDrain'[e])
      PROVE  /\ r \in RowsOf(mailDrain[e])
             /\ mailJob'[r.id].attempts = mailJob[r.id].attempts
  <2>1. e # d
    BY <1>1, <1>4, NoDrainIsFine, MailTypes DEF RowsOf
  <2>2. r \in RowsOf(mailDrain[e])
    BY <1>1, <1>4, <2>1, MailTypes
  <2> QED
    BY <1>2, <2>2, HeldIds
<1> QED
  BY <1>3, <1>4, SameRows DEF MailTries

LEMMA ClaimMoves ==
  ASSUME MailIInv, MailTries, NEW d \in Drains,
         NEW jobs, SeenJobs(jobs), NEW picked, PickedJobs(jobs, picked), Claim(d, jobs, picked)
  PROVE  CountsHold' /\ MailMoves
<1> DEFINE taken(j) == \E i \in DOMAIN picked : picked[i] = j
           todo == [i \in DOMAIN picked |->
                      [id |-> picked[i], attempts |-> jobs[picked[i]].attempts]]
           p == IF picked = <<>> THEN NoDrain ELSE Working(d, todo)
<1>1. /\ mailJob' = [j \in Mails |-> IF taken(j)
                        THEN [jobs[j] EXCEPT !.status = "sending", !.age = 0] ELSE jobs[j]]
      /\ mailDrain' = [mailDrain EXCEPT ![d] = p] /\ mailCode' = mailCode
  BY DEF Claim
<1>2. ASSUME NEW j \in Mails
      PROVE  /\ mailJob'[j].attempts = mailJob[j].attempts
             /\ JobMoves(mailJob[j], mailJob'[j], Usable(j))
  <2>1. /\ jobs[j] \in Jobs /\ jobs[j].attempts = mailJob[j].attempts
        /\ jobs[j] = mailJob[j] \/ (mailJob[j].status = "sending" /\ jobs[j].status = "pending")
    BY DEF SeenJobs, Stale
  <2>2. CASE taken(j)
    <3>1. jobs[j].status = "pending"
      BY <2>2 DEF PickedJobs
    <3>2. mailJob'[j].status = "sending" /\ mailJob'[j].attempts = mailJob[j].attempts
      BY <1>1, <2>1, <2>2 DEF Jobs
    <3> QED
      BY <2>1, <3>1, <3>2 DEF JobMoves
  <2>3. CASE ~taken(j)
    <3>1. mailJob'[j] = jobs[j]
      BY <1>1, <2>3
    <3> QED
      BY <2>1, <3>1 DEF JobMoves
  <2> QED
    BY <2>2, <2>3
<1>3. MailMoves
  BY <1>1, <1>2 DEF MailMoves, Usable
<1>4. ASSUME NEW e \in Drains, NEW row \in RowsOf(mailDrain'[e])
      PROVE  row.attempts = mailJob'[row.id].attempts
  <2>1. CASE row \in RowsOf(mailDrain[e])
    <3>1. row.id \in Mails /\ row.attempts = mailJob[row.id].attempts
      BY <2>1, HeldIds DEF MailTries, CountsHold
    <3> QED
      BY <1>2, <3>1
  <2>2. CASE row \notin RowsOf(mailDrain[e])
    <3>1. e = d
      BY <1>1, <1>4, <2>2, MailTypes
    <3>2. row \in RowsOf(p)
      BY <1>1, <1>4, <3>1, MailTypes
    <3>3. picked # <<>>
      <4>1. p # NoDrain
        <5> HIDE DEF p
        <5> QED
          BY <3>2, NoDrainIsFine DEF RowsOf
      <4> QED
        BY <4>1
    <3>4. p.todo = todo
      BY <3>3 DEF Working
    <3>5. PICK i \in DOMAIN picked : row = todo[i]
      <4> HIDE DEF p
      <4> QED
        BY <3>2, <3>4 DEF RowsOf
    <3>6. row.id = picked[i] /\ row.attempts = jobs[picked[i]].attempts /\ picked[i] \in Mails
      BY <3>5 DEF PickedJobs
    <3>7. jobs[picked[i]].attempts = mailJob[picked[i]].attempts
      BY <3>6 DEF SeenJobs
    <3> QED
      BY <1>2, <3>6, <3>7
  <2> QED
    BY <2>1, <2>2
<1> QED
  BY <1>3, <1>4 DEF CountsHold, RowsOf

LEMMA SendCodeMoves ==
  ASSUME MailIInv, MailTries, NEW d \in Drains, NEW j \in Mails, SendCode(d, j)
  PROVE  CountsHold' /\ MailMoves
<1> DEFINE p == [pc |-> "claim", want |-> j, todo |-> <<>>, age |-> 0]
           code(c) == IF c = j THEN [state |-> "live", left |-> CodeMinutes + 1]
                      ELSE IF mailCode[c].state = "none" \/ Usable(c) THEN mailCode[c]
                      ELSE [state |-> "gone", left |-> 0]
<1>1. /\ mailCode[j].state = "none" /\ mailDrain' = [mailDrain EXCEPT ![d] = p]
      /\ mailJob' = [c \in Mails |->
                       IF c = j THEN Written("pending", 0, 0) ELSE Recovered(mailJob[c])]
      /\ mailCode' = [c \in Mails |-> code(c)]
  BY DEF SendCode
<1>2. mailJob[j].status = "none" /\ mailJob'[j].status = "pending" /\ mailJob'[j].attempts = 0
  BY <1>1, MailTypes DEF JobsHaveCodes, Written
<1>3. ASSUME NEW c \in Mails, c # j
      PROVE  /\ mailJob'[c].attempts = mailJob[c].attempts
             /\ \/ mailJob'[c] = mailJob[c]
                \/ mailJob[c].status = "sending" /\ mailJob'[c].status = "pending"
  <2>1. mailJob'[c] = Recovered(mailJob[c]) /\ mailJob[c] \in Jobs
    BY <1>1, <1>3, MailTypes
  <2> QED
    BY <2>1, RecoveredType DEF Stale
<1>4. ASSUME NEW c \in Mails PROVE Usable(c)' => Usable(c) \/ c = j
  <2> SUFFICES ASSUME c # j, Usable(c)' PROVE Usable(c)
    OBVIOUS
  <2>1. mailCode'[c] = code(c) /\ mailCode'[c].state = "live"
    BY <1>1 DEF Usable
  <2> QED
    BY <2>1
<1>5. MailMoves
  <2> SUFFICES ASSUME NEW c \in Mails
               PROVE  /\ JobMoves(mailJob[c], mailJob'[c], Usable(c))
                      /\ Usable(c)' => Usable(c) \/ IsAdded(c)
    BY DEF MailMoves
  <2>1. CASE c = j
    BY <1>2, <2>1 DEF JobMoves, IsAdded
  <2>2. CASE c # j
    BY <1>3, <1>4, <2>2 DEF JobMoves
  <2> QED
    BY <2>1, <2>2
<1>6. ASSUME NEW e \in Drains, NEW row \in RowsOf(mailDrain'[e])
      PROVE  /\ row \in RowsOf(mailDrain[e])
             /\ mailJob'[row.id].attempts = mailJob[row.id].attempts
  <2>1. e # d
    BY <1>1, <1>6, MailTypes DEF RowsOf
  <2>2. row \in RowsOf(mailDrain[e])
    BY <1>1, <1>6, <2>1, MailTypes
  <2>3. row.id \in Mails /\ row.id # j
    BY <1>2, <2>2, HeldIds
  <2> QED
    BY <1>3, <2>2, <2>3
<1> QED
  BY <1>5, <1>6, SameRows DEF MailTries

LEMMA MailMinuteMoves ==
  ASSUME MailIInv, MailTries, MailMinute
  PROVE  CountsHold' /\ MailMoves
<1>1. /\ mailCode' = [j \in Mails |-> [mailCode[j] EXCEPT !.left = Minus(@)]]
      /\ mailJob' = [j \in Mails |->
           [mailJob[j] EXCEPT !.wait = Minus(@),
                              !.age = IF mailJob[j].status = "sending" THEN Older(@) ELSE 0]]
      /\ mailDrain' = [d \in Drains |->
           IF At(d, "idle") THEN NoDrain ELSE [mailDrain[d] EXCEPT !.age = @ + 1]]
  BY DEF MailMinute
<1>2. ASSUME NEW j \in Mails
      PROVE  mailJob'[j].status = mailJob[j].status /\ mailJob'[j].attempts = mailJob[j].attempts
  BY <1>1, MailTypes DEF Jobs
<1>3. ASSUME NEW j \in Mails, Usable(j)' PROVE Usable(j)
  <2>1. mailCode[j] \in Codes
    BY MailTypes
  <2>2. mailCode'[j].state = mailCode[j].state /\ mailCode'[j].left = Minus(mailCode[j].left)
    BY <1>1, <2>1 DEF Codes
  <2>3. mailCode[j].left \in Nat
    BY <2>1, MailBounds DEF Codes
  <2> QED
    BY <1>3, <2>2, <2>3 DEF Usable, Minus
<1>4. MailMoves
  BY <1>2, <1>3 DEF MailMoves, JobMoves
<1>5. ASSUME NEW e \in Drains, NEW row \in RowsOf(mailDrain'[e])
      PROVE  /\ row \in RowsOf(mailDrain[e])
             /\ mailJob'[row.id].attempts = mailJob[row.id].attempts
  <2>1. mailDrain'[e].todo = mailDrain[e].todo \/ mailDrain'[e] = NoDrain
    BY <1>1, MailTypes DEF DrainStates
  <2>2. row \in RowsOf(mailDrain[e])
    BY <1>5, <2>1, NoDrainIsFine DEF RowsOf
  <2> QED
    BY <1>2, <2>2, HeldIds
<1> QED
  BY <1>4, <1>5, SameRows DEF MailTries

LEMMA MailStepMoves ==
  ASSUME MailIInv, MailTries, MailNext
  PROVE  CountsHold' /\ MailMoves
<1>1. CASE \E d \in Drains : ClaimOwn(d)
  BY <1>1, ClaimOwnPicks, ClaimMoves
<1>2. CASE \E d \in Drains, max \in {1, BatchSize} : ClaimDue(d, max)
  BY <1>2, ClaimDuePicks, ClaimMoves
<1>3. CASE \E d \in Drains : TryMail(d)
  BY <1>3, FailExpiredMoves, SlotBusyMoves, DeliverMoves DEF TryMail
<1>4. CASE \E d \in Drains : OverBudget(d) \/ MarkSent(d) \/ MarkError(d) \/ VoidCode(d)
  BY <1>4, OverBudgetMoves, MarkSentMoves, MarkErrorMoves, VoidCodeMoves
<1>5. CASE \E d \in Drains : AnswerLost(d) \/ MailCrash(d)
  BY <1>5, DeliverMoves, MailCrashMoves
<1>6. CASE \E d \in Drains, j \in Mails : SendCode(d, j)
  BY <1>6, SendCodeMoves
<1>7. CASE \E j \in Mails : UseCode(j)
  BY <1>7, UseCodeMoves
<1>8. CASE MailMinute
  BY <1>8, MailMinuteMoves
<1> QED
  BY <1>1, <1>2, <1>3, <1>4, <1>5, <1>6, <1>7, <1>8 DEF MailNext, DrainStep

(* The mail queue keeps the promise of JobPromise for any number of mails,  *)
(* drains and crashes and any periods: outcomes are written by the job's id *)
(* alone, with the count the drain read when it claimed, yet no try is lost *)
(* or counted twice and a settled job is never touched again.               *)
THEOREM MailsArePromised == MailSpec => MailsKeepPromise
<1>1. MailInit => MailTries /\ Mailing!JobInit
  <2> SUFFICES ASSUME MailInit PROVE MailTries /\ Mailing!JobInit
    OBVIOUS
  <2>1. \A d \in Drains : mailDrain[d] = NoDrain
    BY DEF MailInit
  <2>2. \A j \in Mails : mailJob[j] = NoJob /\ mailCode[j] = NoCode
    BY DEF MailInit
  <2>3. MailTries
    BY <2>1, <2>2, NoDrainIsFine DEF MailTries, CountsHold, TriesLeft, RowsOf, NoJob
  <2>4. \A j \in Mails : MailAsJob(j) = Mailing!Unasked /\ ~Usable(j)
    BY <2>2 DEF MailAsJob, JobState, NoJob, NoCode, Usable, Mailing!Unasked
  <2> QED
    BY <2>3, <2>4 DEF Mailing!JobInit
<1>2. MailIInv /\ MailIInv' /\ MailTries /\ [MailNext]_mailVars
        => MailTries' /\ [Mailing!JobNext]_(Mailing!jobVars)
  <2> SUFFICES ASSUME MailIInv, MailIInv', MailTries, [MailNext]_mailVars
               PROVE  MailTries' /\ [Mailing!JobNext]_(Mailing!jobVars)
    OBVIOUS
  <2>1. CASE MailNext
    BY <2>1, MailStepMoves, MovesLeaveTries, MovesArePromised DEF MailTries
  <2>2. CASE UNCHANGED mailVars
    <3>1. UNCHANGED Mailing!jobVars
      BY <2>2 DEF mailVars, Mailing!jobVars, MailAsJob, Usable
    <3> QED
      BY <2>2, <3>1 DEF mailVars, MailTries, CountsHold, TriesLeft
  <2> QED
    BY <2>1, <2>2
<1> QED
  BY <1>1, <1>2, MailInvariant, PTL DEF MailSpec, MailsKeepPromise, Mailing!Promise

(***************************************************************************)
(* The diagnostic bundles.                                                 *)
(***************************************************************************)
LEMMA PostBounds ==
  /\ Bundles \in Nat /\ MaxPostFaults \in Nat /\ LeaseMinutes \in Nat /\ LeaseMinutes > 0
  /\ NoPoster \notin Posters
  BY DiagnosticAssumption

LEMMA DelaysAreMinutes == \A n \in 1 .. 2 : PostDelay(n) \in Nat
<1>1. PostDelay(1) \in Nat
  BY DEF PostDelay
<1>2. PostDelay(2) \in Nat
  BY DEF PostDelay
<1>3. \A n \in 1 .. 2 : n = 1 \/ n = 2
  OBVIOUS
<1> QED
  BY <1>1, <1>2, <1>3

Rows == [id : Ids, attempts : 0 .. (PostAttempts - 1)]

(* A request still owns the row of the bundle it was given: nobody can have *)
(* claimed, sent or expired it before the request has answered.             *)
FirstHolds(w, p, b) ==
  p.pc = "first" =>
    /\ p.left > 0
    /\ LET row == b[Head(p.todo).id]
       IN  /\ row.status = "sending" /\ row.claim = w /\ row.wait = p.left
           /\ row.attempts = 0 /\ ~row.old

HasRows(p) == IF p.pc = "idle" THEN p = NoPost ELSE p.todo # <<>>

Fresh(b) == \A i \in Ids : b[i].status = "none" => b[i].attempts = 0 /\ ~b[i].old

PostIInv ==
  /\ PostTypeOK /\ Fresh(bundle)
  /\ \A w \in Posters : HasRows(poster[w]) /\ FirstHolds(w, poster[w], bundle)

(* What the retention and the outcomes may do to a row. *)
SettledStays ==
  \A b \in Ids :
    /\ bundle[b].status = "sent" => bundle'[b].status \in {"sent", "expired"}
    /\ bundle[b].status = "expired" => bundle'[b].status = "expired"

LEMMA PostTypes ==
  ASSUME PostIInv
  PROVE  /\ bundle \in [Ids -> BundleRows] /\ poster \in [Posters -> PosterStates]
         /\ postFaults \in 0 .. MaxPostFaults
         /\ \A w \in Posters : /\ poster[w] \in PosterStates
                               /\ poster[w].todo \in Seq(Rows) /\ poster[w].left \in 0 .. LeaseMinutes
                               /\ HasRows(poster[w]) /\ FirstHolds(w, poster[w], bundle)
         /\ Fresh(bundle)
  BY DEF PostIInv, PostTypeOK, PosterStates, Rows

LEMMA NoPostType == NoPost \in PosterStates /\ HasRows(NoPost) /\ NoPost.pc = "idle"
<1>1. <<>> \in Seq(Rows) /\ 0 \in 0 .. LeaseMinutes
  BY PostBounds
<1> QED
  BY <1>1 DEF NoPost, PosterStates, HasRows, Rows

LEMMA PostInitInvariant == PostInit => PostIInv
<1> SUFFICES ASSUME PostInit PROVE PostIInv
  OBVIOUS
<1>1. NoBundle \in BundleRows
  BY DEF NoBundle, BundleRows, PostAttempts
<1>2. PostTypeOK
  BY <1>1, NoPostType, PostBounds DEF PostInit, PostTypeOK
<1>3. \A w \in Posters : poster[w] = NoPost
  BY DEF PostInit
<1> QED
  BY <1>2, <1>3, NoPostType DEF PostIInv, FirstHolds, Fresh, PostInit, NoBundle

LEMMA HandIsRow ==
  ASSUME PostIInv, NEW w \in Posters, poster[w].pc # "idle"
  PROVE  Row(w) \in Rows /\ Row(w).id \in Ids /\ Row(w).attempts \in 0 .. 2
<1>1. poster[w].todo \in Seq(Rows) /\ poster[w].todo # <<>>
  BY PostTypes DEF HasRows
<1>2. Row(w) \in Rows
  BY <1>1, HeadTailProperties DEF Row
<1> QED
  BY <1>2 DEF Rows, PostAttempts

(* One poster moves on, the others and their rows stay. *)
LEMMA PosterMoves ==
  ASSUME PostIInv, NEW w \in Posters, NEW p \in PosterStates, NEW b \in [Ids -> BundleRows],
         poster' = [poster EXCEPT ![w] = p], bundle' = b, postFaults' \in 0 .. MaxPostFaults,
         HasRows(p), FirstHolds(w, p, b), Fresh(b),
         \A x \in Posters : x # w /\ poster[x].pc = "first" => FirstHolds(x, poster[x], b)
  PROVE  PostIInv'
<1>1. poster' \in [Posters -> PosterStates] /\ bundle' \in [Ids -> BundleRows]
  BY PostTypes
<1>2. PostTypeOK'
  BY <1>1 DEF PostTypeOK
<1>3. ASSUME NEW x \in Posters
      PROVE  HasRows(poster'[x]) /\ FirstHolds(x, poster'[x], bundle')
  <2>1. CASE x = w
    BY <2>1, PostTypes
  <2>2. CASE x # w
    <3>1. poster'[x] = poster[x] /\ HasRows(poster[x])
      BY <2>2, PostTypes
    <3> QED
      BY <2>2, <3>1 DEF FirstHolds
  <2> QED
    BY <2>1, <2>2
<1> QED
  BY <1>2, <1>3 DEF PostIInv, Fresh

(* The row of a first request is out of the way of every other poster. *)
LEMMA OthersHold ==
  ASSUME PostIInv, NEW w \in Posters, NEW b, NEW i \in Ids,
         \A j \in Ids : j # i => b[j] = bundle[j],
         bundle[i].status # "sending" \/ bundle[i].claim = w
  PROVE  \A x \in Posters : x # w /\ poster[x].pc = "first" => FirstHolds(x, poster[x], b)
<1> SUFFICES ASSUME NEW x \in Posters, x # w, poster[x].pc = "first"
             PROVE  FirstHolds(x, poster[x], b)
  OBVIOUS
<1>1. Row(x).id \in Ids /\ FirstHolds(x, poster[x], bundle)
  BY HandIsRow, PostTypes
<1>2. Row(x).id # i
  BY <1>1 DEF FirstHolds, Row
<1> QED
  BY <1>1, <1>2 DEF FirstHolds, Row

LEMMA NextRowType ==
  ASSUME PostIInv, NEW w \in Posters, poster[w].pc # "idle", NextRow(w)
  PROVE  \E p \in PosterStates :
           poster' = [poster EXCEPT ![w] = p] /\ HasRows(p) /\ p.pc # "first"
<1> DEFINE rest == Tail(poster[w].todo)
<1>1. poster[w].todo \in Seq(Rows) /\ poster[w].todo # <<>> /\ poster[w].left \in 0 .. LeaseMinutes
  BY PostTypes DEF HasRows
<1>2. rest \in Seq(Rows)
  BY <1>1, HeadTailProperties
<1>3. poster' = [poster EXCEPT ![w] =
        IF rest = <<>> THEN NoPost
        ELSE [pc |-> "next", todo |-> rest, left |-> poster[w].left]]
  BY DEF NextRow
<1> HIDE DEF rest
<1>4. CASE rest = <<>>
  <2>1. poster' = [poster EXCEPT ![w] = NoPost]
    BY <1>3, <1>4
  <2> QED
    BY <2>1, NoPostType
<1>5. CASE rest # <<>>
  <2> DEFINE p == [pc |-> "next", todo |-> rest, left |-> poster[w].left]
  <2>2. poster' = [poster EXCEPT ![w] = p]
    BY <1>3, <1>5
  <2>3. p \in PosterStates /\ p.pc = "next" /\ p.todo # <<>>
    BY <1>1, <1>2, <1>5 DEF PosterStates, Rows
  <2> HIDE DEF p
  <2> QED
    BY <2>2, <2>3 DEF HasRows
<1> QED
  BY <1>4, <1>5

(* What the updates of one row make of it. *)
LEMMA RowFields ==
  ASSUME NEW r \in BundleRows
  PROVE  /\ r.status \in {"none", "sending", "sent", "failed", "expired"}
         /\ r.attempts \in 0 .. 3 /\ r.wait \in Nat
         /\ r.claim \in Posters \cup {NoPoster} /\ r.old \in BOOLEAN
  BY DEF BundleRows, PostAttempts

LEMMA RowUpdated ==
  ASSUME NEW r \in BundleRows, NEW status \in {"none", "sending", "sent", "failed", "expired"},
         NEW attempts \in 0 .. 3, NEW wait \in Nat, NEW claim \in Posters \cup {NoPoster}
  PROVE  [r EXCEPT !.status = status, !.attempts = attempts, !.claim = claim, !.wait = wait]
            \in BundleRows
  BY DEF BundleRows, PostAttempts

LEMMA OutcomeType ==
  ASSUME NEW r \in BundleRows, NEW ok \in BOOLEAN, NEW n \in 1 .. 3
  PROVE  /\ Outcome(r, ok, n) \in BundleRows
         /\ Outcome(r, ok, n).status \in {"sent", "failed"}
<1> DEFINE wait == IF ok \/ n >= PostAttempts THEN 0 ELSE PostDelay(n)
           status == IF ok THEN "sent" ELSE "failed"
<1>1. wait \in Nat
  <2>1. CASE ok \/ n >= PostAttempts
    BY <2>1
  <2>2. CASE ~(ok \/ n >= PostAttempts)
    <3>1. n \in 1 .. 2
      BY <2>2 DEF PostAttempts
    <3> QED
      BY <2>2, <3>1, DelaysAreMinutes
  <2> QED
    BY <2>1, <2>2
<1>2. status \in {"sent", "failed"}
  OBVIOUS
<1>3. Outcome(r, ok, n)
        = [r EXCEPT !.status = status, !.attempts = n, !.claim = NoPoster, !.wait = wait]
  BY DEF Outcome
<1> HIDE DEF wait, status
<1>4. Outcome(r, ok, n) \in BundleRows
  <2>1. status \in {"none", "sending", "sent", "failed", "expired"}
    BY <1>2
  <2>2. n \in 0 .. 3 /\ NoPoster \in Posters \cup {NoPoster}
    OBVIOUS
  <2>3. [r EXCEPT !.status = status, !.attempts = n, !.claim = NoPoster, !.wait = wait]
          \in BundleRows
    BY ONLY r \in BundleRows, <1>1, <2>1, <2>2, RowUpdated
  <2> QED
    BY <1>3, <2>3
<1>5. Outcome(r, ok, n).status = status
  BY <1>3 DEF BundleRows
<1> QED
  BY <1>2, <1>4, <1>5

LEMMA ClaimedType ==
  ASSUME NEW r \in BundleRows, NEW w \in Posters
  PROVE  [r EXCEPT !.status = "sending", !.wait = LeaseMinutes, !.claim = w] \in BundleRows
  BY PostBounds DEF BundleRows

LEMMA FailedType ==
  ASSUME NEW r \in BundleRows
  PROVE  [r EXCEPT !.status = "failed", !.claim = NoPoster] \in BundleRows
  BY DEF BundleRows

LEMMA ReleasedType ==
  ASSUME NEW r \in BundleRows
  PROVE  [r EXCEPT !.status = "failed", !.wait = PostDelay(1), !.claim = NoPoster] \in BundleRows
<1>1. PostDelay(1) \in Nat
  BY DelaysAreMinutes
<1> QED
  BY <1>1 DEF BundleRows

LEMMA ExpiredType ==
  ASSUME NEW r \in BundleRows
  PROVE  /\ [r EXCEPT !.status = "expired"] \in BundleRows
         /\ [r EXCEPT !.old = TRUE] \in BundleRows
  BY DEF BundleRows

LEMMA MinuteType ==
  ASSUME NEW r \in BundleRows
  PROVE  [r EXCEPT !.wait = IF @ = 0 THEN 0 ELSE @ - 1] \in BundleRows
  BY DEF BundleRows

(* One row changes: the others are as final and as fresh as before. *)
LEMMA OneRowChanges ==
  ASSUME PostIInv, NEW i \in Ids, NEW r \in BundleRows, NEW new,
         bundle' = new, new = [bundle EXCEPT ![i] = r], r.status # "none",
         bundle[i].status = "sent" => r.status \in {"sent", "expired"},
         bundle[i].status = "expired" => r.status = "expired"
  PROVE  /\ SettledStays /\ new \in [Ids -> BundleRows] /\ Fresh(new)
         /\ new[i] = r /\ \A j \in Ids : j # i => new[j] = bundle[j]
<1>1. bundle \in [Ids -> BundleRows] /\ Fresh(bundle)
  BY PostTypes
<1>2. new[i] = r /\ \A j \in Ids : j # i => new[j] = bundle[j]
  BY <1>1
<1>3. new \in [Ids -> BundleRows]
  BY <1>1
<1>4. Fresh(new)
  BY <1>1, <1>2 DEF Fresh
<1> QED
  BY <1>2, <1>3, <1>4 DEF SettledStays

LEMMA UploadKeeps ==
  ASSUME PostIInv, NEW w \in Posters, NEW b \in Ids, UploadBundle(w, b)
  PROVE  PostIInv' /\ SettledStays
<1> DEFINE r == [bundle[b] EXCEPT !.status = "sending", !.wait = LeaseMinutes, !.claim = w]
           p == [pc |-> "first", todo |-> <<[id |-> b, attempts |-> 0]>>, left |-> LeaseMinutes]
           new == [bundle EXCEPT ![b] = r]
<1>1. /\ bundle' = new /\ poster' = [poster EXCEPT ![w] = p] /\ postFaults' = postFaults
      /\ bundle[b].status = "none" /\ bundle[b] \in BundleRows
      /\ bundle \in [Ids -> BundleRows] /\ bundle[b].attempts = 0 /\ ~bundle[b].old
  BY PostTypes DEF UploadBundle, Fresh
<1>2. r \in BundleRows
  BY <1>1, ClaimedType
<1>3. /\ r.status = "sending" /\ r.wait = LeaseMinutes /\ r.claim = w
      /\ r.attempts = 0 /\ ~r.old
  <2>1. /\ r.status = "sending" /\ r.wait = LeaseMinutes /\ r.claim = w
        /\ r.attempts = bundle[b].attempts /\ r.old = bundle[b].old
    BY <1>1 DEF BundleRows
  <2> QED
    BY <1>1, <2>1
<1>4. p \in PosterStates
  <2>1. [id |-> b, attempts |-> 0] \in Rows
    BY DEF Rows, PostAttempts
  <2>2. <<[id |-> b, attempts |-> 0]>> \in Seq(Rows)
    BY <2>1
  <2> QED
    BY <2>2, PostBounds DEF PosterStates, Rows
<1>5. p.pc = "first" /\ p.left = LeaseMinutes /\ Head(p.todo).id = b /\ p.todo # <<>>
  OBVIOUS
<1> HIDE DEF r, p
<1>6. /\ SettledStays /\ new \in [Ids -> BundleRows] /\ Fresh(new)
      /\ new[b] = r /\ \A j \in Ids : j # b => new[j] = bundle[j]
  BY <1>1, <1>2, <1>3, OneRowChanges
<1> HIDE DEF new
<1>7. HasRows(p) /\ FirstHolds(w, p, new)
  BY <1>3, <1>5, <1>6, PostBounds DEF HasRows, FirstHolds
<1>8. \A x \in Posters : x # w /\ poster[x].pc = "first" => FirstHolds(x, poster[x], new)
  BY <1>1, <1>6, OthersHold
<1>9. postFaults' \in 0 .. MaxPostFaults
  BY <1>1, PostTypes
<1>10. PostIInv'
  BY <1>1, <1>4, <1>6, <1>7, <1>8, <1>9, PosterMoves
<1> QED
  BY <1>6, <1>10

LEMMA FirstAnswerKeeps ==
  ASSUME PostIInv, NEW w \in Posters, FirstAnswer(w)
  PROVE  PostIInv' /\ SettledStays
<1>1. PICK ok \in BOOLEAN : bundle' = [bundle EXCEPT ![Row(w).id] = Outcome(@, ok, 1)]
  BY DEF FirstAnswer
<1>2. /\ poster[w].pc = "first" /\ poster' = [poster EXCEPT ![w] = NoPost]
      /\ postFaults' = postFaults
  BY DEF FirstAnswer
<1>3. Row(w).id \in Ids
  BY <1>2, HandIsRow
<1>4. PICK i \in Ids : i = Row(w).id
  BY <1>3
<1>5. /\ bundle[i] \in BundleRows /\ bundle[i].status = "sending" /\ bundle[i].claim = w
      /\ bundle \in [Ids -> BundleRows]
  BY <1>2, <1>4, PostTypes DEF FirstHolds, Row
<1> DEFINE r == Outcome(bundle[i], ok, 1)
           new == [bundle EXCEPT ![i] = r]
<1>6. bundle' = new
  BY <1>1, <1>4
<1>7. r \in BundleRows /\ r.status \in {"sent", "failed"}
  BY <1>5, OutcomeType
<1> HIDE DEF r
<1>8. /\ SettledStays /\ new \in [Ids -> BundleRows] /\ Fresh(new)
      /\ new[i] = r /\ \A j \in Ids : j # i => new[j] = bundle[j]
  BY <1>5, <1>6, <1>7, OneRowChanges
<1> HIDE DEF new
<1>9. \A x \in Posters : x # w /\ poster[x].pc = "first" => FirstHolds(x, poster[x], new)
  BY <1>5, <1>8, OthersHold
<1>10. postFaults' \in 0 .. MaxPostFaults /\ FirstHolds(w, NoPost, new)
  BY <1>2, PostTypes, NoPostType DEF FirstHolds
<1>11. PostIInv'
  BY <1>2, <1>6, <1>8, <1>9, <1>10, NoPostType, PosterMoves
<1> QED
  BY <1>8, <1>11

LEMMA PostBundleKeeps ==
  ASSUME PostIInv, NEW w \in Posters, PostBundle(w)
  PROVE  PostIInv' /\ SettledStays
<1>1. PICK pc \in {"accepted", "refused"} : poster' = [poster EXCEPT ![w] = [@ EXCEPT !.pc = pc]]
  BY DEF PostBundle
<1>2. poster[w].pc = "next" /\ bundle' = bundle /\ postFaults' = postFaults
  BY DEF PostBundle
<1>3. /\ poster[w] \in PosterStates /\ poster[w].todo # <<>> /\ bundle \in [Ids -> BundleRows]
      /\ postFaults' \in 0 .. MaxPostFaults /\ Fresh(bundle)
  BY <1>2, PostTypes DEF HasRows
<1> DEFINE p == [poster[w] EXCEPT !.pc = pc]
<1>4. p \in PosterStates
  BY <1>3 DEF PosterStates
<1>5. p.pc = pc /\ p.todo = poster[w].todo
  BY <1>3 DEF PosterStates
<1> HIDE DEF p
<1>6. HasRows(p) /\ FirstHolds(w, p, bundle)
  BY <1>3, <1>5 DEF HasRows, FirstHolds
<1>7. poster' = [poster EXCEPT ![w] = p]
  BY <1>1 DEF p
<1>8. \A x \in Posters : x # w /\ poster[x].pc = "first" => FirstHolds(x, poster[x], bundle)
  BY PostTypes
<1>9. PostIInv'
  BY <1>2, <1>3, <1>4, <1>6, <1>7, <1>8, PosterMoves
<1>10. SettledStays
  BY <1>2 DEF SettledStays
<1> QED
  BY <1>9, <1>10

LEMMA FinishClaimedKeeps ==
  ASSUME PostIInv, NEW w \in Posters, FinishClaimed(w)
  PROVE  PostIInv' /\ SettledStays
<1>1. /\ poster[w].pc \in {"accepted", "refused"} /\ NextRow(w) /\ postFaults' = postFaults
      /\ Holds(w) => bundle' = [bundle EXCEPT ![Row(w).id] =
           Outcome(@, poster[w].pc = "accepted", Row(w).attempts + 1)]
      /\ ~Holds(w) => bundle' = bundle
  BY DEF FinishClaimed
<1>2. PICK p \in PosterStates :
        poster' = [poster EXCEPT ![w] = p] /\ HasRows(p) /\ p.pc # "first"
  BY <1>1, NextRowType
<1>3. PICK i \in Ids, k \in 0 .. 2 : i = Row(w).id /\ k = Row(w).attempts
  BY <1>1, HandIsRow
<1>4. bundle \in [Ids -> BundleRows] /\ Fresh(bundle) /\ postFaults' \in 0 .. MaxPostFaults
  BY <1>1, PostTypes
<1>5. CASE Holds(w)
  <2>1. PICK ok \in BOOLEAN : ok = (poster[w].pc = "accepted")
    OBVIOUS
  <2> DEFINE r == Outcome(bundle[i], ok, k + 1)
             new == [bundle EXCEPT ![i] = r]
  <2>2. bundle' = new
    BY <1>1, <1>3, <1>5, <2>1
  <2>3. r \in BundleRows /\ r.status \in {"sent", "failed"}
    <3>1. bundle[i] \in BundleRows /\ k + 1 \in 1 .. 3
      BY <1>4
    <3> QED
      BY <3>1, OutcomeType
  <2>4. bundle[i].status = "sending" /\ bundle[i].claim = w
    BY <1>3, <1>5 DEF Holds
  <2> HIDE DEF r
  <2>5. /\ SettledStays /\ new \in [Ids -> BundleRows] /\ Fresh(new)
        /\ new[i] = r /\ \A j \in Ids : j # i => new[j] = bundle[j]
    <3>1. /\ bundle' = new /\ new = [bundle EXCEPT ![i] = r] /\ r.status # "none"
          /\ bundle[i].status = "sent" => r.status \in {"sent", "expired"}
          /\ bundle[i].status = "expired" => r.status = "expired"
      BY <2>2, <2>3, <2>4
    <3> QED
      BY <1>4, <2>2, <2>3, <2>4, <3>1, OneRowChanges
  <2> HIDE DEF new
  <2>6. \A x \in Posters : x # w /\ poster[x].pc = "first" => FirstHolds(x, poster[x], new)
    BY <2>4, <2>5, OthersHold
  <2>7. FirstHolds(w, p, new)
    BY <1>2 DEF FirstHolds
  <2>8. PostIInv'
    BY <1>2, <1>4, <2>2, <2>5, <2>6, <2>7, PosterMoves
  <2> QED
    BY <2>5, <2>8
<1>6. CASE ~Holds(w)
  <2>1. bundle' = bundle /\ FirstHolds(w, p, bundle)
    BY <1>1, <1>2, <1>6 DEF FirstHolds
  <2>2. \A x \in Posters : x # w /\ poster[x].pc = "first" => FirstHolds(x, poster[x], bundle)
    BY PostTypes
  <2>3. PostIInv'
    BY <1>2, <1>4, <2>1, <2>2, PosterMoves
  <2> QED
    BY <2>1, <2>3 DEF SettledStays
<1> QED
  BY <1>5, <1>6

LEMMA ReleaseClaimKeeps ==
  ASSUME PostIInv, NEW w \in Posters, ReleaseClaim(w)
  PROVE  PostIInv' /\ SettledStays
<1>1. /\ poster[w].pc = "next" /\ NextRow(w) /\ postFaults' = postFaults
      /\ Holds(w) => bundle' = [bundle EXCEPT ![Row(w).id] =
           [@ EXCEPT !.status = "failed", !.wait = PostDelay(1), !.claim = NoPoster]]
      /\ ~Holds(w) => bundle' = bundle
  BY DEF ReleaseClaim
<1>2. PICK p \in PosterStates :
        poster' = [poster EXCEPT ![w] = p] /\ HasRows(p) /\ p.pc # "first"
  BY <1>1, NextRowType
<1>3. PICK i \in Ids : i = Row(w).id
  BY <1>1, HandIsRow
<1>4. bundle \in [Ids -> BundleRows] /\ Fresh(bundle) /\ postFaults' \in 0 .. MaxPostFaults
  BY <1>1, PostTypes
<1>5. CASE Holds(w)
  <2> DEFINE r == [bundle[i] EXCEPT !.status = "failed", !.wait = PostDelay(1), !.claim = NoPoster]
             new == [bundle EXCEPT ![i] = r]
  <2>2. bundle' = new
    BY <1>1, <1>3, <1>5
  <2>3. r \in BundleRows /\ r.status = "failed"
    <3>1. bundle[i] \in BundleRows
      BY <1>4
    <3>2. r \in BundleRows
      BY <3>1, ReleasedType
    <3>3. r.status = "failed"
      BY <3>1 DEF BundleRows
    <3> QED
      BY <3>2, <3>3
  <2>4. bundle[i].status = "sending" /\ bundle[i].claim = w
    BY <1>3, <1>5 DEF Holds
  <2> HIDE DEF r
  <2>5. /\ SettledStays /\ new \in [Ids -> BundleRows] /\ Fresh(new)
        /\ new[i] = r /\ \A j \in Ids : j # i => new[j] = bundle[j]
    <3>1. /\ bundle' = new /\ new = [bundle EXCEPT ![i] = r] /\ r.status # "none"
          /\ bundle[i].status = "sent" => r.status \in {"sent", "expired"}
          /\ bundle[i].status = "expired" => r.status = "expired"
      BY <2>2, <2>3, <2>4
    <3> QED
      BY <1>4, <2>2, <2>3, <2>4, <3>1, OneRowChanges
  <2> HIDE DEF new
  <2>6. \A x \in Posters : x # w /\ poster[x].pc = "first" => FirstHolds(x, poster[x], new)
    BY <2>4, <2>5, <2>3, OthersHold
  <2>7. FirstHolds(w, p, new)
    BY <1>2 DEF FirstHolds
  <2>8. PostIInv'
    BY <1>2, <1>4, <2>2, <2>5, <2>6, <2>7, PosterMoves
  <2> QED
    BY <2>5, <2>8
<1>6. CASE ~Holds(w)
  <2>1. bundle' = bundle /\ FirstHolds(w, p, bundle)
    BY <1>1, <1>2, <1>6 DEF FirstHolds
  <2>2. \A x \in Posters : x # w /\ poster[x].pc = "first" => FirstHolds(x, poster[x], bundle)
    BY PostTypes
  <2>3. PostIInv'
    BY <1>2, <1>4, <2>1, <2>2, PosterMoves
  <2> QED
    BY <2>1, <2>3 DEF SettledStays
<1> QED
  BY <1>5, <1>6

LEMMA PosterCrashKeeps ==
  ASSUME PostIInv, NEW w \in Posters, PosterCrash(w)
  PROVE  PostIInv' /\ SettledStays
<1>1. /\ poster' = [poster EXCEPT ![w] = NoPost] /\ bundle' = bundle
      /\ postFaults' = postFaults + 1 /\ postFaults < MaxPostFaults
  BY DEF PosterCrash
<1>2. bundle \in [Ids -> BundleRows] /\ Fresh(bundle) /\ postFaults' \in 0 .. MaxPostFaults
  BY <1>1, PostTypes, PostBounds
<1>3. FirstHolds(w, NoPost, bundle)
  BY NoPostType DEF FirstHolds
<1>4. \A x \in Posters : x # w /\ poster[x].pc = "first" => FirstHolds(x, poster[x], bundle)
  BY PostTypes
<1>5. PostIInv'
  BY <1>1, <1>2, <1>3, <1>4, NoPostType, PosterMoves
<1> QED
  BY <1>1, <1>5 DEF SettledStays

(* Only the table changes, and not a row somebody is sending for the first time. *)
LEMMA TableMoves ==
  ASSUME PostIInv, NEW b \in [Ids -> BundleRows], bundle' = b, poster' = poster,
         postFaults' = postFaults, Fresh(b),
         \A x \in Posters : poster[x].pc = "first" => b[Row(x).id] = bundle[Row(x).id]
  PROVE  PostIInv'
<1>1. PostTypeOK'
  BY PostTypes DEF PostTypeOK
<1>2. ASSUME NEW x \in Posters
      PROVE  HasRows(poster'[x]) /\ FirstHolds(x, poster'[x], bundle')
  BY PostTypes DEF FirstHolds, Row
<1> QED
  BY <1>1, <1>2 DEF PostIInv, Fresh

LEMMA OutliveKeeps ==
  ASSUME PostIInv, NEW b \in Ids, Outlive(b)
  PROVE  PostIInv' /\ SettledStays
<1> DEFINE r == [bundle[b] EXCEPT !.old = TRUE]
           new == [bundle EXCEPT ![b] = r]
<1>1. /\ bundle' = new /\ poster' = poster /\ postFaults' = postFaults
      /\ bundle[b].status # "none" /\ \A w \in Posters : poster[w].pc = "first" => Row(w).id # b
  BY DEF Outlive
<1>2. bundle[b] \in BundleRows /\ bundle \in [Ids -> BundleRows]
  BY PostTypes
<1>3. r \in BundleRows /\ r.status = bundle[b].status
  BY <1>2, ExpiredType DEF BundleRows
<1> HIDE DEF r
<1>4. /\ SettledStays /\ new \in [Ids -> BundleRows] /\ Fresh(new)
      /\ new[b] = r /\ \A j \in Ids : j # b => new[j] = bundle[j]
  <2>1. /\ bundle' = new /\ new = [bundle EXCEPT ![b] = r] /\ r.status # "none"
        /\ bundle[b].status = "sent" => r.status \in {"sent", "expired"}
        /\ bundle[b].status = "expired" => r.status = "expired"
    BY <1>1, <1>2, <1>3
  <2> QED
    BY <1>1, <1>2, <1>3, <2>1, OneRowChanges
<1> HIDE DEF new
<1>5. \A x \in Posters : poster[x].pc = "first" => new[Row(x).id] = bundle[Row(x).id]
  BY <1>1, <1>4, HandIsRow
<1>6. PostIInv'
  BY <1>1, <1>4, <1>5, TableMoves
<1> QED
  BY <1>4, <1>6

LEMMA BrowseKeeps ==
  ASSUME PostIInv, BrowseCatalog
  PROVE  PostIInv' /\ SettledStays
<1> DEFINE new == [b \in Ids |-> IF bundle[b].old THEN [bundle[b] EXCEPT !.status = "expired"]
                                 ELSE bundle[b]]
<1>1. bundle' = new /\ poster' = poster /\ postFaults' = postFaults
  BY DEF BrowseCatalog
<1>2. \A b \in Ids : bundle[b] \in BundleRows
  BY PostTypes
<1>3. ASSUME NEW b \in Ids
      PROVE  /\ new[b] \in BundleRows
             /\ bundle[b].old => new[b].status = "expired"
             /\ ~bundle[b].old => new[b] = bundle[b]
  <2>1. CASE bundle[b].old
    <3>1. new[b] = [bundle[b] EXCEPT !.status = "expired"]
      BY <2>1
    <3>2. new[b] \in BundleRows
      BY <1>2, <3>1, ExpiredType
    <3>3. new[b].status = "expired"
      BY <1>2, <3>1 DEF BundleRows
    <3> QED
      BY <2>1, <3>2, <3>3
  <2>2. CASE ~bundle[b].old
    <3>1. new[b] = bundle[b]
      BY <2>2
    <3> QED
      BY <1>2, <2>2, <3>1
  <2> QED
    BY <2>1, <2>2
<1>4. new \in [Ids -> BundleRows]
  BY <1>3
<1> HIDE DEF new
<1>5. Fresh(new)
  BY <1>3, PostTypes DEF Fresh
<1>6. ASSUME NEW x \in Posters, poster[x].pc = "first"
      PROVE  new[Row(x).id] = bundle[Row(x).id]
  <2>1. Row(x).id \in Ids /\ ~bundle[Row(x).id].old
    BY <1>6, HandIsRow, PostTypes DEF FirstHolds, Row
  <2> QED
    BY <1>3, <2>1
<1>7. PostIInv'
  BY <1>1, <1>4, <1>5, <1>6, TableMoves
<1>8. SettledStays
  BY <1>1, <1>3 DEF SettledStays
<1> QED
  BY <1>7, <1>8

LEMMA PostMinuteKeeps ==
  ASSUME PostIInv, PostMinute
  PROVE  PostIInv' /\ SettledStays
<1> DEFINE row(b) == [bundle[b] EXCEPT !.wait = IF @ = 0 THEN 0 ELSE @ - 1]
           one(x) == [poster[x] EXCEPT !.left = IF @ = 0 THEN 0 ELSE @ - 1]
<1>1. /\ bundle' = [b \in Ids |-> row(b)] /\ poster' = [x \in Posters |-> one(x)]
      /\ \A x \in Posters : poster[x].pc = "first" => poster[x].left > 1
  BY DEF PostMinute
<1>2. postFaults' \in 0 .. MaxPostFaults
  <2>1. postFaults \in 0 .. MaxPostFaults
    BY PostTypes
  <2>2. CASE Overdue # {}
    BY <2>1, <2>2, PostBounds DEF PostMinute
  <2>3. CASE Overdue = {}
    BY <2>1, <2>3, PostBounds DEF PostMinute
  <2> QED
    BY <2>2, <2>3
<1>3. ASSUME NEW b \in Ids
      PROVE  /\ row(b) \in BundleRows /\ row(b).status = bundle[b].status
             /\ row(b).claim = bundle[b].claim /\ row(b).old = bundle[b].old
             /\ row(b).attempts = bundle[b].attempts
             /\ row(b).wait = IF bundle[b].wait = 0 THEN 0 ELSE bundle[b].wait - 1
  <2>1. bundle[b] \in BundleRows
    BY PostTypes
  <2>2. row(b) \in BundleRows
    BY <2>1, MinuteType
  <2> QED
    BY <2>1, <2>2 DEF BundleRows
<1>4. ASSUME NEW x \in Posters
      PROVE  /\ one(x) \in PosterStates /\ one(x).pc = poster[x].pc /\ one(x).todo = poster[x].todo
             /\ one(x).left = IF poster[x].left = 0 THEN 0 ELSE poster[x].left - 1
             /\ poster[x] = NoPost => one(x) = NoPost
  <2>1. poster[x] \in PosterStates /\ poster[x].left \in 0 .. LeaseMinutes
    BY PostTypes
  <2>2. (IF poster[x].left = 0 THEN 0 ELSE poster[x].left - 1) \in 0 .. LeaseMinutes
    BY <2>1, PostBounds
  <2>3. one(x) \in PosterStates
    BY <2>1, <2>2 DEF PosterStates
  <2>4. /\ one(x).pc = poster[x].pc /\ one(x).todo = poster[x].todo
        /\ one(x).left = IF poster[x].left = 0 THEN 0 ELSE poster[x].left - 1
    BY <2>1 DEF PosterStates
  <2>5. ASSUME poster[x] = NoPost PROVE one(x) = NoPost
    BY <2>5 DEF NoPost
  <2> QED
    BY <2>3, <2>4, <2>5
<1> HIDE DEF row, one
<1>5. PostTypeOK'
  <2>1. bundle' \in [Ids -> BundleRows]
    BY <1>1, <1>3
  <2>2. poster' \in [Posters -> PosterStates]
    BY <1>1, <1>4
  <2> QED
    BY <2>1, <2>2, <1>2 DEF PostTypeOK
<1>6. ASSUME NEW x \in Posters
      PROVE  HasRows(poster'[x]) /\ FirstHolds(x, poster'[x], bundle')
  <2>1. poster'[x] = one(x) /\ HasRows(poster[x]) /\ FirstHolds(x, poster[x], bundle)
    BY <1>1, PostTypes
  <2>2. HasRows(one(x))
    BY <1>4, <2>1 DEF HasRows
  <2>3. CASE poster[x].pc = "first"
    <3>1. PICK i \in Ids : i = Head(poster[x].todo).id
      BY <2>3, HandIsRow DEF Row
    <3>2. /\ poster[x].left > 1 /\ poster[x].left \in 0 .. LeaseMinutes
          /\ bundle[i].status = "sending" /\ bundle[i].claim = x
          /\ bundle[i].wait = poster[x].left /\ bundle[i].attempts = 0 /\ ~bundle[i].old
      BY <1>1, <2>1, <2>3, <3>1, PostTypes DEF FirstHolds
    <3>3. /\ one(x).left > 0 /\ one(x).left = row(i).wait
      BY <1>3, <1>4, <3>2, PostBounds
    <3>4. bundle'[i] = row(i) /\ Head(one(x).todo).id = i
      BY <1>1, <1>4, <3>1
    <3>5. /\ bundle'[i].status = "sending" /\ bundle'[i].claim = x
          /\ bundle'[i].attempts = 0 /\ ~bundle'[i].old
      BY <1>3, <3>2, <3>4
    <3> QED
      BY <2>1, <3>3, <3>4, <3>5, <2>2 DEF FirstHolds
  <2>4. CASE poster[x].pc # "first"
    BY <1>4, <2>1, <2>2, <2>4 DEF FirstHolds
  <2> QED
    BY <2>3, <2>4
<1>7. Fresh(bundle')
  BY <1>1, <1>3, PostTypes DEF Fresh
<1>8. SettledStays
  BY <1>1, <1>3 DEF SettledStays
<1> QED
  BY <1>5, <1>6, <1>7, <1>8 DEF PostIInv, Fresh

LEMMA ClaimBundlesKeeps ==
  ASSUME PostIInv, NEW w \in Posters, NEW limit \in DrainLimits, ClaimBundles(w, limit)
  PROVE  PostIInv' /\ SettledStays
<1> DEFINE chosen == {b \in Ids : DuePost(bundle[b])}
           due == Select([b \in Ids |-> b], chosen)
           picked == SubSeq(due, 1, IF Len(due) < limit THEN Len(due) ELSE limit)
           taken(b) == \E i \in DOMAIN picked : picked[i] = b
           claimed(b) ==
             IF taken(b)
             THEN [bundle[b] EXCEPT !.status = "sending", !.wait = LeaseMinutes, !.claim = w]
             ELSE IF LeftBehind(bundle[b])
             THEN [bundle[b] EXCEPT !.status = "failed", !.claim = NoPoster]
             ELSE bundle[b]
           new == [b \in Ids |-> claimed(b)]
           todo == [i \in DOMAIN picked |->
                      [id |-> picked[i], attempts |-> bundle[picked[i]].attempts]]
           p == IF picked = <<>> THEN NoPost
                ELSE [pc |-> "next", left |-> LeaseMinutes, todo |-> todo]
<1>1. /\ bundle' = new /\ poster' = [poster EXCEPT ![w] = p] /\ postFaults' = postFaults
      /\ poster[w].pc = "idle"
  BY DEF ClaimBundles
<1>2. /\ picked \in Seq(Ids) /\ Len(picked) \in Nat /\ DOMAIN picked = 1 .. Len(picked)
      /\ \A i \in DOMAIN picked : picked[i] \in chosen
  <2>1. Bundles \in Nat /\ limit \in Nat /\ chosen \in SUBSET (1 .. Bundles) /\ Ids = 1 .. Bundles
    BY PostBounds DEF DrainLimits, Ids
  <2>2. picked = FirstPicked(Bundles, chosen, limit)
    BY <2>1 DEF FirstPicked
  <2> HIDE DEF chosen, picked
  <2>3. /\ picked \in Seq(1 .. Bundles) /\ Len(picked) \in Nat
        /\ DOMAIN picked = 1 .. Len(picked)
        /\ \A i \in DOMAIN picked : picked[i] \in chosen
    BY <2>1, <2>2, FirstPickedRows
  <2> QED
    BY <2>1, <2>3
<1>3. ASSUME NEW b \in Ids
      PROVE  bundle[b] \in BundleRows /\ bundle[b].attempts \in 0 .. PostAttempts
  BY PostTypes DEF BundleRows
<1>4. ASSUME NEW b \in Ids, taken(b)
      PROVE  bundle[b].status = "failed" /\ bundle[b].attempts \in 0 .. (PostAttempts - 1)
  <2>1. DuePost(bundle[b])
    BY <1>2, <1>4
  <2> QED
    BY <1>3, <2>1 DEF DuePost, PostAttempts
<1>5. p \in PosterStates /\ HasRows(p) /\ p.pc # "first"
  <2>1. CASE picked = <<>>
    BY <2>1, NoPostType
  <2>2. CASE picked # <<>>
    <3> HIDE DEF picked, chosen
    <3>1. ASSUME NEW i \in DOMAIN picked
          PROVE  [id |-> picked[i], attempts |-> bundle[picked[i]].attempts] \in Rows
      <4>1. picked[i] \in Ids
        BY <1>2
      <4> QED
        BY <1>4, <4>1 DEF Rows
    <3>2. todo \in Seq(Rows)
      <4>1. todo \in [1 .. Len(picked) -> Rows]
        BY <1>2, <3>1
      <4> QED
        BY <1>2, <4>1, IsASeq
    <3>3. todo # <<>>
      <4>1. DOMAIN picked # {}
        BY <1>2, <2>2
      <4> QED
        BY <4>1
    <3> HIDE DEF todo
    <3>4. p = [pc |-> "next", left |-> LeaseMinutes, todo |-> todo]
      BY <2>2
    <3>5. LeaseMinutes \in 0 .. LeaseMinutes
      BY PostBounds
    <3>6. p \in PosterStates
      BY <3>2, <3>4, <3>5 DEF PosterStates, Rows
    <3>7. p.pc = "next" /\ p.todo # <<>>
      BY <3>3, <3>4
    <3> QED
      BY <3>6, <3>7 DEF HasRows
  <2> QED
    BY <2>1, <2>2
<1> HIDE DEF p, picked
<1>6. ASSUME NEW b \in Ids
      PROVE  /\ claimed(b) \in BundleRows
             /\ \/ claimed(b) = bundle[b] /\ ~taken(b) /\ ~LeftBehind(bundle[b])
                \/ claimed(b).status = "sending" /\ taken(b)
                \/ claimed(b).status = "failed" /\ LeftBehind(bundle[b])
  <2>1. CASE taken(b)
    <3>1. claimed(b) = [bundle[b] EXCEPT !.status = "sending", !.wait = LeaseMinutes, !.claim = w]
      BY <2>1
    <3>2. claimed(b) \in BundleRows
      BY <1>3, <3>1, ClaimedType
    <3>3. claimed(b).status = "sending"
      BY <1>3, <3>1 DEF BundleRows
    <3> QED
      BY <2>1, <3>2, <3>3
  <2>2. CASE ~taken(b) /\ LeftBehind(bundle[b])
    <3>1. claimed(b) = [bundle[b] EXCEPT !.status = "failed", !.claim = NoPoster]
      BY <2>2
    <3>2. claimed(b) \in BundleRows
      BY <1>3, <3>1, FailedType
    <3>3. claimed(b).status = "failed"
      BY <1>3, <3>1 DEF BundleRows
    <3> QED
      BY <2>2, <3>2, <3>3
  <2>3. CASE ~taken(b) /\ ~LeftBehind(bundle[b])
    <3>1. claimed(b) = bundle[b]
      BY <2>3
    <3> QED
      BY <1>3, <2>3, <3>1
  <2> QED
    BY <2>1, <2>2, <2>3
<1>8. \A b \in Ids : taken(b) => bundle[b].status = "failed"
  BY <1>4
<1> HIDE DEF claimed, taken
<1>7. new \in [Ids -> BundleRows] /\ \A b \in Ids : new[b] = claimed(b)
  BY <1>6
<1> HIDE DEF new
<1>9. \A b \in Ids : LeftBehind(bundle[b]) => bundle[b].status = "sending" /\ bundle[b].wait = 0
  BY DEF LeftBehind
<1>10. Fresh(new)
  <2>1. \A b \in Ids : new[b].status = "none" => new[b] = bundle[b]
    BY <1>6, <1>7
  <2> QED
    BY <2>1, PostTypes DEF Fresh
<1>11. ASSUME NEW x \in Posters, x # w, poster[x].pc = "first"
       PROVE  FirstHolds(x, poster[x], new)
  <2>1. Row(x).id \in Ids /\ FirstHolds(x, poster[x], bundle)
    BY <1>11, HandIsRow, PostTypes
  <2>2. PICK i \in Ids : i = Row(x).id
    BY <2>1
  <2>3. bundle[i].status = "sending" /\ bundle[i].wait = poster[x].left /\ poster[x].left > 0
    BY <1>11, <2>1, <2>2 DEF FirstHolds, Row
  <2>4. poster[x].left \in 0 .. LeaseMinutes
    BY PostTypes
  <2>5. new[i] = bundle[i]
    BY <1>6, <1>7, <1>8, <1>9, <2>3, <2>4, PostBounds
  <2> QED
    BY <2>1, <2>2, <2>5 DEF FirstHolds, Row
<1>12. FirstHolds(w, p, new) /\ postFaults' \in 0 .. MaxPostFaults
  BY <1>1, <1>5, PostTypes DEF FirstHolds
<1>13. PostIInv'
  BY <1>1, <1>5, <1>7, <1>10, <1>11, <1>12, PosterMoves
<1>14. SettledStays
  BY <1>1, <1>6, <1>7, <1>8, <1>9 DEF SettledStays
<1> QED
  BY <1>13, <1>14

LEMMA PostStepInvariant ==
  ASSUME PostIInv, [PostNext]_postVars
  PROVE  PostIInv' /\ SettledStays
<1>1. CASE UNCHANGED postVars
  <2>1. bundle' = bundle /\ poster' = poster /\ postFaults' = postFaults
    BY <1>1 DEF postVars
  <2>2. PostIInv'
    BY <2>1 DEF PostIInv, PostTypeOK, Fresh, FirstHolds, HasRows
  <2>3. SettledStays
    BY <2>1 DEF SettledStays
  <2> QED
    BY <2>2, <2>3
<1>2. CASE PostNext
  <2>1. CASE \E w \in Posters : PosterStep(w)
    BY <2>1, FirstAnswerKeeps, PostBundleKeeps, FinishClaimedKeeps, ReleaseClaimKeeps
       DEF PosterStep
  <2>2. CASE \E w \in Posters : PosterCrash(w)
    BY <2>2, PosterCrashKeeps
  <2>3. CASE \E w \in Posters, limit \in DrainLimits : ClaimBundles(w, limit)
    BY <2>3, ClaimBundlesKeeps
  <2>4. CASE \E w \in Posters, b \in Ids : UploadBundle(w, b)
    BY <2>4, UploadKeeps
  <2>5. CASE \E b \in Ids : Outlive(b)
    BY <2>5, OutliveKeeps
  <2>6. CASE BrowseCatalog
    BY <2>6, BrowseKeeps
  <2>7. CASE PostMinute
    BY <2>7, PostMinuteKeeps
  <2> QED
    BY <1>2, <2>1, <2>2, <2>3, <2>4, <2>5, <2>6, <2>7 DEF PostNext
<1> QED
  BY <1>1, <1>2

LEMMA PostInvariant == PostSpec => []PostIInv
<1>1. PostIInv /\ [PostNext]_postVars => PostIInv'
  BY PostStepInvariant
<1> QED
  BY <1>1, PostInitInvariant, PTL DEF PostSpec

(* What was sent stays sent and what expired stays expired, however many    *)
(* bundles, workers and faults there are and however long the leases: the   *)
(* first attempt of handleSend writes by the row's id alone, but no drain   *)
(* can have claimed that row within its lease, and every later outcome is   *)
(* fenced by the claim.                                                     *)
THEOREM SentIsFinal == PostSpec => SettledIsFinal
<1>1. PostIInv /\ [PostNext]_postVars => SettledStays
  BY PostStepInvariant
<1>2. SettledStays => [\A b \in Ids :
        /\ bundle[b].status = "sent" => bundle'[b].status \in {"sent", "expired"}
        /\ bundle[b].status = "expired" => bundle'[b].status = "expired"]_postVars
  BY DEF SettledStays
<1> QED
  BY <1>1, <1>2, PostInvariant, PTL DEF PostSpec, SettledIsFinal

(***************************************************************************)
(* The promise of the diagnostic bundles.  The count a worker read with    *)
(* its claim is that of the row for as long as the row carries the claim.  *)
(***************************************************************************)
SendsFor(row, w) == row.status = "sending" /\ row.claim = w

ClaimCounts ==
  \A w \in Posters : \A row \in RowsOf(poster[w]) :
    SendsFor(bundle[row.id], w) => bundle[row.id].attempts = row.attempts

BundleTries ==
  \A b \in Ids : bundle[b].status = "sending" => bundle[b].attempts < PostAttempts

PostTries == ClaimCounts /\ BundleTries

(* What a step may make of the row of a bundle. *)
BundleMoves(old, new) ==
  \/ new.status = old.status /\ new.attempts = old.attempts
  \/ old.status = "none" /\ new.status = "sending" /\ new.attempts = 0
  \/ /\ old.status = "failed" /\ new.status = "sending"
     /\ new.attempts = old.attempts /\ old.attempts < PostAttempts
  \/ old.status = "sending" /\ new.status = "failed" /\ new.attempts = old.attempts
  \/ old.status = "sending" /\ new.status = "failed" /\ new.attempts = old.attempts + 1
  \/ old.status = "sending" /\ new.status = "sent"
  \/ old.status # "none" /\ old.old /\ new.status = "expired"

PostMoves ==
  \A b \in Ids : /\ BundleMoves(bundle[b], bundle'[b])
                 /\ bundle[b].old => bundle'[b].old

LEMMA PostMovesLeaveTries ==
  ASSUME PostIInv, PostIInv', BundleTries, PostMoves
  PROVE  BundleTries'
<1> SUFFICES ASSUME NEW b \in Ids, bundle'[b].status = "sending"
             PROVE  bundle'[b].attempts < PostAttempts
  BY DEF BundleTries
<1>1. BundleMoves(bundle[b], bundle'[b])
  BY DEF PostMoves
<1> QED
  BY <1>1 DEF BundleMoves, BundleTries, PostAttempts

LEMMA PostMovesArePromised ==
  ASSUME PostIInv, PostIInv', BundleTries, PostMoves
  PROVE  Posting!JobNext
<1> DEFINE unsettled(b) == bundle[b].status # "none" /\ ~bundle[b].old
<1> SUFFICES ASSUME NEW b \in Ids
             PROVE  /\ BundleAsJob(b)' = BundleAsJob(b) \/ Posting!Moves(b)
                    /\ unsettled(b)' => unsettled(b) \/ Posting!Add(b)
  BY DEF Posting!JobNext
<1> DEFINE old == bundle[b]
           new == bundle'[b]
           again(row) == row.status = "failed" /\ row.attempts < PostAttempts
<1>1. BundleMoves(old, new) /\ (old.old => new.old)
  BY DEF PostMoves
<1>2. old \in BundleRows /\ new \in BundleRows
  BY PostTypes DEF PostIInv, PostTypeOK
<1>3. /\ BundleAsJob(b) =
           [state |-> IF again(old) THEN "waiting"
                      ELSE IF old.status = "failed" THEN "dropped" ELSE PostState[old.status],
            tries |-> IF again(old) \/ old.status = "sending" THEN old.attempts ELSE 0]
      /\ BundleAsJob(b)' =
           [state |-> IF again(new) THEN "waiting"
                      ELSE IF new.status = "failed" THEN "dropped" ELSE PostState[new.status],
            tries |-> IF again(new) \/ new.status = "sending" THEN new.attempts ELSE 0]
  BY DEF BundleAsJob, PostState
<1>4. [i \in Ids |-> BundleAsJob(i)][b] = BundleAsJob(b)
      /\ [i \in Ids |-> BundleAsJob(i)]'[b] = BundleAsJob(b)'
  OBVIOUS
<1>5. /\ PostState["none"] = "none" /\ PostState["sending"] = "taken"
      /\ PostState["sent"] = "sent" /\ PostState["expired"] = "dropped"
  BY DEF PostState
<1>6. ASSUME NEW state, NEW tries
      PROVE  /\ Posting!Is(b, state) <=> BundleAsJob(b).state = state
             /\ Posting!Becomes(b, state, tries)
                  <=> BundleAsJob(b)' = [state |-> state, tries |-> tries]
  BY <1>4 DEF Posting!Is, Posting!Becomes
<1> DEFINE tries == [i \in Ids |-> BundleAsJob(i)][b].tries
<1>7. tries = BundleAsJob(b).tries
  BY <1>4
<1>8. /\ old.status \in {"none", "sending", "sent", "failed", "expired"}
      /\ old.attempts \in 0 .. 3 /\ new.attempts \in 0 .. 3
      /\ old.status = "sending" => old.attempts < PostAttempts
  BY <1>2, RowFields DEF BundleTries
<1>9. unsettled(b)' => unsettled(b) \/ (old.status = "none" /\ new.status # "none")
  BY <1>1
<1> HIDE DEF tries, old, new, unsettled
<1>10. CASE new.status = old.status /\ new.attempts = old.attempts
  BY <1>3, <1>9, <1>10
<1>11. CASE old.status = "none" /\ new.status = "sending" /\ new.attempts = 0
  <2>1. Posting!Add(b)
    BY <1>3, <1>5, <1>6, <1>11 DEF Posting!Add
  <2> QED
    BY <2>1 DEF Posting!Moves
<1>12. CASE /\ old.status = "failed" /\ new.status = "sending"
            /\ new.attempts = old.attempts /\ old.attempts < PostAttempts
  <2>1. Posting!Take(b)
    BY <1>3, <1>5, <1>6, <1>7, <1>12 DEF Posting!Take, tries
  <2> QED
    BY <1>9, <1>12, <2>1 DEF Posting!Moves
<1>13. CASE old.status = "sending" /\ new.status = "failed" /\ new.attempts = old.attempts
  <2>1. Posting!GiveBack(b)
    BY <1>3, <1>5, <1>6, <1>7, <1>8, <1>13 DEF Posting!GiveBack, tries
  <2> QED
    BY <1>9, <1>13, <2>1 DEF Posting!Moves
<1>14. CASE old.status = "sending" /\ new.status = "failed" /\ new.attempts = old.attempts + 1
  <2>1. CASE new.attempts < PostAttempts
    <3>1. Posting!FailTry(b)
      BY <1>3, <1>5, <1>6, <1>7, <1>14, <2>1 DEF Posting!FailTry, tries
    <3> QED
      BY <1>9, <1>14, <3>1 DEF Posting!Moves
  <2>2. CASE ~(new.attempts < PostAttempts)
    <3>1. new.attempts = PostAttempts
      BY <1>8, <1>14, <2>2 DEF PostAttempts
    <3>2. Posting!FailTry(b)
      BY <1>3, <1>5, <1>6, <1>7, <1>14, <2>2, <3>1 DEF Posting!FailTry, tries
    <3> QED
      BY <1>9, <1>14, <3>2 DEF Posting!Moves
  <2> QED
    BY <2>1, <2>2
<1>15. CASE old.status = "sending" /\ new.status = "sent"
  <2>1. Posting!Send(b)
    BY <1>3, <1>5, <1>6, <1>15 DEF Posting!Send
  <2> QED
    BY <1>9, <1>15, <2>1 DEF Posting!Moves
<1>16. CASE old.status # "none" /\ old.old /\ new.status = "expired"
  <2>1. ~Posting!Is(b, "none")
    <3>1. BundleAsJob(b).state # "none"
      BY <1>3, <1>5, <1>8, <1>16
    <3> QED
      BY <1>6, <3>1
  <2>2. Posting!Becomes(b, "dropped", 0)
    BY <1>3, <1>5, <1>6, <1>16
  <2>3. Posting!Withdraw(b)
    BY <1>16, <2>1, <2>2 DEF Posting!Withdraw, old
  <2> QED
    BY <1>9, <1>16, <2>3 DEF Posting!Moves
<1> QED
  BY <1>1, <1>10, <1>11, <1>12, <1>13, <1>14, <1>15, <1>16 DEF BundleMoves

LEMMA PosterRows ==
  ASSUME PostIInv, NEW x \in Posters, NEW row \in RowsOf(poster[x])
  PROVE  row \in Rows /\ row.id \in Ids
<1>1. poster[x].todo \in Seq(Rows)
  BY PostTypes
<1>2. row \in Rows
  BY <1>1 DEF RowsOf
<1> QED
  BY <1>2 DEF Rows

(* Nobody claims anything, and a count changes only with the claim. *)
LEMMA ClaimsStay ==
  ASSUME PostIInv, ClaimCounts,
         \A x \in Posters : \A row \in RowsOf(poster'[x]) : row \in RowsOf(poster[x]),
         \A b \in Ids, x \in Posters :
           SendsFor(bundle'[b], x) =>
             SendsFor(bundle[b], x) /\ bundle'[b].attempts = bundle[b].attempts
  PROVE  ClaimCounts'
<1> SUFFICES ASSUME NEW x \in Posters, NEW row \in RowsOf(poster'[x]), SendsFor(bundle'[row.id], x)
             PROVE  bundle'[row.id].attempts = row.attempts
  BY DEF ClaimCounts, RowsOf, SendsFor
<1>1. row \in RowsOf(poster[x]) /\ row.id \in Ids
  BY PosterRows
<1> QED
  BY <1>1 DEF ClaimCounts

LEMMA NextRowRows ==
  ASSUME PostIInv, NEW w \in Posters, poster[w].pc # "idle", NextRow(w),
         NEW x \in Posters, NEW row \in RowsOf(poster'[x])
  PROVE  row \in RowsOf(poster[x])
<1> DEFINE todo == poster[w].todo
           rest == Tail(todo)
           p == IF rest = <<>> THEN NoPost
                ELSE [pc |-> "next", todo |-> rest, left |-> poster[w].left]
<1>1. todo \in Seq(Rows) /\ todo # <<>>
  BY PostTypes DEF HasRows
<1>2. poster' = [poster EXCEPT ![w] = p] /\ poster \in [Posters -> PosterStates]
  BY PostTypes DEF NextRow
<1>3. p.todo = rest
  BY DEF NoPost
<1> HIDE DEF p
<1>4. CASE x = w
  <2>1. PICK i \in DOMAIN rest : row = rest[i]
    BY <1>2, <1>3, <1>4 DEF RowsOf
  <2>2. i + 1 \in DOMAIN todo /\ row = todo[i + 1]
    <3> HIDE DEF todo
    <3>1. PICK n \in Nat : n = Len(todo) /\ n > 0
      BY <1>1
    <3>2. /\ DOMAIN todo = 1 .. n /\ DOMAIN rest = 1 .. (n - 1)
          /\ \A k \in 1 .. (n - 1) : rest[k] = todo[k + 1]
      BY <1>1, <3>1, HeadTailProperties
    <3> QED
      BY <2>1, <3>1, <3>2
  <2> QED
    BY <1>4, <2>2 DEF RowsOf
<1>5. CASE x # w
  BY <1>2, <1>5
<1> QED
  BY <1>4, <1>5

LEMMA GoneRows ==
  ASSUME PostIInv, NEW w \in Posters, poster' = [poster EXCEPT ![w] = NoPost],
         NEW x \in Posters, NEW row \in RowsOf(poster'[x])
  PROVE  row \in RowsOf(poster[x])
<1>1. x # w
  BY PostTypes DEF RowsOf, NoPost
<1> QED
  BY <1>1, PostTypes

(* One row, sent for w, gets its outcome or goes back. *)
LEMMA ClaimEnds ==
  ASSUME PostIInv, PostTries, NEW w \in Posters, NEW i \in Ids, SendsFor(bundle[i], w),
         NEW r, bundle' = [bundle EXCEPT ![i] = r],
         BundleMoves(bundle[i], r), r.status # "sending", r.old = bundle[i].old,
         \A x \in Posters : \A row \in RowsOf(poster'[x]) : row \in RowsOf(poster[x])
  PROVE  ClaimCounts' /\ PostMoves
<1>1. \A b \in Ids : bundle'[b] = IF b = i THEN r ELSE bundle[b]
  BY PostTypes
<1>2. PostMoves
  <2> SUFFICES ASSUME NEW b \in Ids
               PROVE  BundleMoves(bundle[b], bundle'[b]) /\ (bundle[b].old => bundle'[b].old)
    BY DEF PostMoves
  <2>1. CASE b = i
    BY <1>1, <2>1
  <2>2. CASE b # i
    BY <1>1, <2>2 DEF BundleMoves
  <2> QED
    BY <2>1, <2>2
<1>3. ASSUME NEW b \in Ids, NEW x \in Posters, SendsFor(bundle'[b], x)
      PROVE  SendsFor(bundle[b], x) /\ bundle'[b].attempts = bundle[b].attempts
  BY <1>1, <1>3 DEF SendsFor
<1> QED
  BY <1>2, <1>3, ClaimsStay DEF PostTries

LEMMA HandIsHeld ==
  ASSUME PostIInv, NEW w \in Posters, poster[w].pc # "idle"
  PROVE  /\ Row(w) \in RowsOf(poster[w])
         /\ poster[w].todo[1] = Row(w) /\ 1 \in DOMAIN poster[w].todo
<1>1. poster[w].todo \in Seq(Rows) /\ poster[w].todo # <<>>
  BY PostTypes DEF HasRows
<1>2. 1 \in DOMAIN poster[w].todo /\ poster[w].todo[1] = Row(w)
  BY <1>1 DEF Row
<1> QED
  BY <1>2 DEF RowsOf

(* The table stays as it is, and nobody gets more to send. *)
LEMMA BundlesStay ==
  ASSUME PostIInv, PostTries, bundle' = bundle,
         \A x \in Posters : \A row \in RowsOf(poster'[x]) : row \in RowsOf(poster[x])
  PROVE  ClaimCounts' /\ PostMoves
<1>1. PostMoves
  BY DEF PostMoves, BundleMoves
<1> QED
  BY <1>1, ClaimsStay DEF PostTries

LEMMA OutcomeFields ==
  ASSUME NEW r \in BundleRows, NEW ok \in BOOLEAN, NEW n
  PROVE  LET new == Outcome(r, ok, n)
         IN  /\ new.status = (IF ok THEN "sent" ELSE "failed")
             /\ new.attempts = n /\ new.old = r.old
  BY DEF Outcome, BundleRows

LEMMA FirstAnswerMoves ==
  ASSUME PostIInv, PostTries, NEW w \in Posters, FirstAnswer(w)
  PROVE  ClaimCounts' /\ PostMoves
<1>1. PICK ok \in BOOLEAN : bundle' = [bundle EXCEPT ![Row(w).id] = Outcome(@, ok, 1)]
  BY DEF FirstAnswer
<1>2. poster[w].pc = "first" /\ poster' = [poster EXCEPT ![w] = NoPost]
  BY DEF FirstAnswer
<1>3. PICK i \in Ids : i = Row(w).id
  BY <1>2, HandIsRow
<1>4. bundle[i] \in BundleRows /\ SendsFor(bundle[i], w)
  BY <1>2, <1>3, PostTypes DEF FirstHolds, Row, SendsFor
<1> DEFINE r == Outcome(bundle[i], ok, 1)
<1>5. bundle' = [bundle EXCEPT ![i] = r]
  BY <1>1, <1>3
<1>6. r.status \in {"sent", "failed"} /\ r.attempts = 1 /\ r.old = bundle[i].old
  BY <1>4, OutcomeFields
<1>7. bundle[i].attempts = 0
  BY <1>2, <1>3, PostTypes DEF FirstHolds, Row
<1> HIDE DEF r
<1>8. BundleMoves(bundle[i], r)
  BY <1>4, <1>6, <1>7 DEF BundleMoves, SendsFor
<1> QED
  BY <1>2, <1>4, <1>5, <1>6, <1>8, GoneRows, ClaimEnds

LEMMA FinishClaimedMoves ==
  ASSUME PostIInv, PostTries, NEW w \in Posters, FinishClaimed(w)
  PROVE  ClaimCounts' /\ PostMoves
<1>1. poster[w].pc \in {"accepted", "refused"} /\ NextRow(w)
  BY DEF FinishClaimed
<1>2. \A x \in Posters : \A row \in RowsOf(poster'[x]) : row \in RowsOf(poster[x])
  BY <1>1, NextRowRows
<1>3. CASE Holds(w)
  <2>1. PICK ok \in BOOLEAN : ok = (poster[w].pc = "accepted")
    OBVIOUS
  <2>2. PICK i \in Ids, k \in 0 .. 2 : i = Row(w).id /\ k = Row(w).attempts
    BY <1>1, HandIsRow
  <2> DEFINE r == Outcome(bundle[i], ok, k + 1)
  <2>3. bundle' = [bundle EXCEPT ![i] = r]
    BY <1>3, <2>1, <2>2 DEF FinishClaimed
  <2>4. bundle[i] \in BundleRows /\ SendsFor(bundle[i], w) /\ bundle[i].attempts = k
    <3>1. SendsFor(bundle[i], w)
      BY <1>3, <2>2 DEF Holds, SendsFor
    <3>2. Row(w) \in RowsOf(poster[w])
      BY <1>1, HandIsHeld
    <3> QED
      BY <2>2, <3>1, <3>2, PostTypes DEF PostTries, ClaimCounts
  <2>5. r.status \in {"sent", "failed"} /\ r.attempts = k + 1 /\ r.old = bundle[i].old
    BY <2>4, OutcomeFields
  <2> HIDE DEF r
  <2>6. BundleMoves(bundle[i], r)
    BY <2>4, <2>5 DEF BundleMoves, SendsFor
  <2> QED
    BY <1>2, <2>3, <2>4, <2>5, <2>6, ClaimEnds
<1>4. CASE ~Holds(w)
  BY <1>2, <1>4, BundlesStay DEF FinishClaimed
<1> QED
  BY <1>3, <1>4

LEMMA ReleaseClaimMoves ==
  ASSUME PostIInv, PostTries, NEW w \in Posters, ReleaseClaim(w)
  PROVE  ClaimCounts' /\ PostMoves
<1>1. poster[w].pc = "next" /\ NextRow(w)
  BY DEF ReleaseClaim
<1>2. \A x \in Posters : \A row \in RowsOf(poster'[x]) : row \in RowsOf(poster[x])
  BY <1>1, NextRowRows
<1>3. CASE Holds(w)
  <2>1. PICK i \in Ids : i = Row(w).id
    BY <1>1, HandIsRow
  <2> DEFINE r == [bundle[i] EXCEPT !.status = "failed", !.wait = PostDelay(1), !.claim = NoPoster]
  <2>2. bundle' = [bundle EXCEPT ![i] = r]
    BY <1>3, <2>1 DEF ReleaseClaim
  <2>3. bundle[i] \in BundleRows /\ SendsFor(bundle[i], w)
    BY <1>3, <2>1, PostTypes DEF Holds, SendsFor
  <2>4. r.status = "failed" /\ r.attempts = bundle[i].attempts /\ r.old = bundle[i].old
    BY <2>3 DEF BundleRows
  <2> HIDE DEF r
  <2>5. BundleMoves(bundle[i], r)
    BY <2>3, <2>4 DEF BundleMoves, SendsFor
  <2> QED
    BY <1>2, <2>2, <2>3, <2>4, <2>5, ClaimEnds
<1>4. CASE ~Holds(w)
  BY <1>2, <1>4, BundlesStay DEF ReleaseClaim
<1> QED
  BY <1>3, <1>4

LEMMA UploadMoves ==
  ASSUME PostIInv, PostTries, NEW w \in Posters, NEW b \in Ids, UploadBundle(w, b)
  PROVE  ClaimCounts' /\ PostMoves
<1> DEFINE r == [bundle[b] EXCEPT !.status = "sending", !.wait = LeaseMinutes, !.claim = w]
           p == [pc |-> "first", todo |-> <<[id |-> b, attempts |-> 0]>>, left |-> LeaseMinutes]
<1>1. /\ bundle' = [bundle EXCEPT ![b] = r] /\ poster' = [poster EXCEPT ![w] = p]
      /\ bundle[b].status = "none" /\ bundle[b] \in BundleRows
      /\ bundle[b].attempts = 0 /\ ~bundle[b].old
  BY PostTypes DEF UploadBundle, Fresh
<1>2. r.status = "sending" /\ r.attempts = 0 /\ r.claim = w
  BY <1>1 DEF BundleRows
<1>3. RowsOf(p) = {[id |-> b, attempts |-> 0]}
  BY DEF RowsOf
<1> HIDE DEF r, p
<1>4. \A i \in Ids : bundle'[i] = IF i = b THEN r ELSE bundle[i]
  BY <1>1, PostTypes
<1>5. PostMoves
  <2> SUFFICES ASSUME NEW i \in Ids
               PROVE  BundleMoves(bundle[i], bundle'[i]) /\ (bundle[i].old => bundle'[i].old)
    BY DEF PostMoves
  <2>1. CASE i = b
    BY <1>1, <1>2, <1>4, <2>1 DEF BundleMoves
  <2>2. CASE i # b
    BY <1>4, <2>2 DEF BundleMoves
  <2> QED
    BY <2>1, <2>2
<1>6. ASSUME NEW x \in Posters, NEW row \in RowsOf(poster'[x]), SendsFor(bundle'[row.id], x)
      PROVE  bundle'[row.id].attempts = row.attempts
  <2>1. CASE x = w
    <3>1. row = [id |-> b, attempts |-> 0]
      BY <1>1, <1>3, <1>6, <2>1, PostTypes
    <3> QED
      BY <1>2, <1>4, <3>1
  <2>2. CASE x # w
    <3>1. row \in RowsOf(poster[x]) /\ row.id \in Ids
      BY <1>1, <1>6, <2>2, PostTypes, PosterRows
    <3>2. row.id # b
      BY <1>2, <1>4, <1>6, <2>2, <3>1 DEF SendsFor
    <3> QED
      BY <1>4, <1>6, <3>1, <3>2 DEF PostTries, ClaimCounts
  <2> QED
    BY <2>1, <2>2
<1> QED
  BY <1>5, <1>6 DEF ClaimCounts, RowsOf, SendsFor

LEMMA PostBundleMoves ==
  ASSUME PostIInv, PostTries, NEW w \in Posters, PostBundle(w)
  PROVE  ClaimCounts' /\ PostMoves
<1>1. PICK pc : poster' = [poster EXCEPT ![w] = [@ EXCEPT !.pc = pc]]
  BY DEF PostBundle
<1>2. \A x \in Posters : poster'[x].todo = poster[x].todo
  BY <1>1, PostTypes DEF PosterStates
<1> QED
  BY <1>2, BundlesStay DEF PostBundle, RowsOf

LEMMA PosterCrashMoves ==
  ASSUME PostIInv, PostTries, NEW w \in Posters, PosterCrash(w)
  PROVE  ClaimCounts' /\ PostMoves
<1>1. poster' = [poster EXCEPT ![w] = NoPost] /\ bundle' = bundle
  BY DEF PosterCrash
<1> QED
  BY <1>1, GoneRows, BundlesStay

(* Rows grow old, expire or wait, and keep their counts and claims. *)
LEMMA RowsAge ==
  ASSUME PostIInv, PostTries, \A x \in Posters : poster'[x].todo = poster[x].todo,
         \A b \in Ids :
           /\ bundle'[b].attempts = bundle[b].attempts /\ bundle'[b].claim = bundle[b].claim
           /\ bundle[b].old => bundle'[b].old
           /\ \/ bundle'[b].status = bundle[b].status
              \/ bundle[b].old /\ bundle'[b].status = "expired"
  PROVE  ClaimCounts' /\ PostMoves
<1>1. PostMoves
  BY PostTypes DEF PostMoves, BundleMoves, Fresh
<1>2. \A b \in Ids, x \in Posters :
        SendsFor(bundle'[b], x) =>
          SendsFor(bundle[b], x) /\ bundle'[b].attempts = bundle[b].attempts
  BY DEF SendsFor
<1> QED
  BY <1>1, <1>2, ClaimsStay DEF PostTries, RowsOf

LEMMA OutliveMoves ==
  ASSUME PostIInv, PostTries, NEW b \in Ids, Outlive(b)
  PROVE  ClaimCounts' /\ PostMoves
<1>1. bundle' = [bundle EXCEPT ![b] = [@ EXCEPT !.old = TRUE]] /\ poster' = poster
  BY DEF Outlive
<1>2. ASSUME NEW i \in Ids
      PROVE  /\ bundle'[i].attempts = bundle[i].attempts /\ bundle'[i].claim = bundle[i].claim
             /\ bundle[i].old => bundle'[i].old
             /\ bundle'[i].status = bundle[i].status
  BY <1>1, PostTypes DEF BundleRows
<1> QED
  BY <1>1, <1>2, RowsAge

LEMMA BrowseMoves ==
  ASSUME PostIInv, PostTries, BrowseCatalog
  PROVE  ClaimCounts' /\ PostMoves
<1>1. /\ bundle' = [b \in Ids |->
           IF bundle[b].old THEN [bundle[b] EXCEPT !.status = "expired"] ELSE bundle[b]]
      /\ poster' = poster
  BY DEF BrowseCatalog
<1>2. ASSUME NEW i \in Ids
      PROVE  /\ bundle'[i].attempts = bundle[i].attempts /\ bundle'[i].claim = bundle[i].claim
             /\ bundle[i].old => bundle'[i].old
             /\ \/ bundle'[i].status = bundle[i].status
                \/ bundle[i].old /\ bundle'[i].status = "expired"
  <2>1. CASE bundle[i].old
    BY <1>1, <2>1, PostTypes DEF BundleRows
  <2>2. CASE ~bundle[i].old
    BY <1>1, <2>2
  <2> QED
    BY <2>1, <2>2
<1> QED
  BY <1>1, <1>2, RowsAge

LEMMA PostMinuteMoves ==
  ASSUME PostIInv, PostTries, PostMinute
  PROVE  ClaimCounts' /\ PostMoves
<1>1. /\ bundle' = [b \in Ids |-> [bundle[b] EXCEPT !.wait = IF @ = 0 THEN 0 ELSE @ - 1]]
      /\ poster' = [w \in Posters |-> [poster[w] EXCEPT !.left = IF @ = 0 THEN 0 ELSE @ - 1]]
  BY DEF PostMinute
<1>2. ASSUME NEW i \in Ids
      PROVE  /\ bundle'[i].attempts = bundle[i].attempts /\ bundle'[i].claim = bundle[i].claim
             /\ bundle'[i].old = bundle[i].old /\ bundle'[i].status = bundle[i].status
  BY <1>1, PostTypes DEF BundleRows
<1>3. \A x \in Posters : poster'[x].todo = poster[x].todo
  BY <1>1, PostTypes DEF PosterStates
<1> QED
  BY <1>2, <1>3, RowsAge

LEMMA ClaimBundlesMoves ==
  ASSUME PostIInv, PostTries, NEW w \in Posters, NEW limit \in DrainLimits, ClaimBundles(w, limit)
  PROVE  ClaimCounts' /\ PostMoves
<1> DEFINE chosen == {b \in Ids : DuePost(bundle[b])}
           due == Select([b \in Ids |-> b], chosen)
           picked == SubSeq(due, 1, IF Len(due) < limit THEN Len(due) ELSE limit)
           taken(b) == \E i \in DOMAIN picked : picked[i] = b
           todo == [i \in DOMAIN picked |->
                      [id |-> picked[i], attempts |-> bundle[picked[i]].attempts]]
           p == IF picked = <<>> THEN NoPost
                ELSE [pc |-> "next", left |-> LeaseMinutes, todo |-> todo]
<1>1. /\ bundle' = [b \in Ids |->
           IF taken(b)
           THEN [bundle[b] EXCEPT !.status = "sending", !.wait = LeaseMinutes, !.claim = w]
           ELSE IF LeftBehind(bundle[b])
           THEN [bundle[b] EXCEPT !.status = "failed", !.claim = NoPoster]
           ELSE bundle[b]]
      /\ poster' = [poster EXCEPT ![w] = p]
  BY DEF ClaimBundles
<1>2. \A i \in DOMAIN picked : picked[i] \in chosen
  <2>1. Bundles \in Nat /\ limit \in Nat /\ chosen \in SUBSET (1 .. Bundles) /\ Ids = 1 .. Bundles
    BY PostBounds DEF DrainLimits, Ids
  <2>2. picked = FirstPicked(Bundles, chosen, limit)
    BY <2>1 DEF FirstPicked
  <2> HIDE DEF chosen, picked
  <2> QED
    BY <2>1, <2>2, FirstPickedRows
<1> HIDE DEF picked
<1>3. \A b \in Ids : taken(b) => DuePost(bundle[b])
  BY <1>2
<1>4. ASSUME NEW b \in Ids
      PROVE  /\ BundleMoves(bundle[b], bundle'[b]) /\ bundle'[b].old = bundle[b].old
             /\ bundle'[b].attempts = bundle[b].attempts
             /\ \A x \in Posters : SendsFor(bundle'[b], x) => x = w \/ SendsFor(bundle[b], x)
  <2>1. bundle[b] \in BundleRows
    BY PostTypes
  <2>2. CASE taken(b)
    <3>1. bundle'[b] = [bundle[b] EXCEPT !.status = "sending", !.wait = LeaseMinutes, !.claim = w]
      BY <1>1, <2>2
    <3>2. /\ bundle'[b].status = "sending" /\ bundle'[b].attempts = bundle[b].attempts
          /\ bundle'[b].old = bundle[b].old /\ bundle'[b].claim = w
      BY <2>1, <3>1 DEF BundleRows
    <3>3. bundle[b].status = "failed" /\ bundle[b].attempts < PostAttempts
      BY <1>3, <2>2 DEF DuePost
    <3> QED
      BY <3>2, <3>3 DEF BundleMoves, SendsFor
  <2>3. CASE ~taken(b) /\ LeftBehind(bundle[b])
    <3>1. bundle'[b] = [bundle[b] EXCEPT !.status = "failed", !.claim = NoPoster]
      BY <1>1, <2>3
    <3>2. /\ bundle'[b].status = "failed" /\ bundle'[b].attempts = bundle[b].attempts
          /\ bundle'[b].old = bundle[b].old
      BY <2>1, <3>1 DEF BundleRows
    <3> QED
      BY <2>3, <3>2 DEF BundleMoves, LeftBehind, SendsFor
  <2>4. CASE ~taken(b) /\ ~LeftBehind(bundle[b])
    <3>1. bundle'[b] = bundle[b]
      BY <1>1, <2>4
    <3> QED
      BY <3>1 DEF BundleMoves
  <2> QED
    BY <2>2, <2>3, <2>4
<1>5. PostMoves
  BY <1>4 DEF PostMoves
<1>6. ASSUME NEW x \in Posters, NEW row \in RowsOf(poster'[x]), SendsFor(bundle'[row.id], x)
      PROVE  bundle'[row.id].attempts = row.attempts
  <2>1. CASE x = w
    <3>1. row \in RowsOf(p)
      BY <1>1, <1>6, <2>1, PostTypes
    <3>2. p # NoPost
      <4> HIDE DEF p
      <4> QED
        BY <3>1 DEF RowsOf, NoPost
    <3>3. p.todo = todo
      BY <3>2
    <3>4. PICK i \in DOMAIN picked : row = todo[i]
      <4> HIDE DEF p
      <4> QED
        BY <3>1, <3>3 DEF RowsOf
    <3>5. picked[i] \in Ids /\ row.id = picked[i] /\ row.attempts = bundle[picked[i]].attempts
      BY <1>2, <3>4
    <3> QED
      BY <1>4, <3>5
  <2>2. CASE x # w
    <3>1. row \in RowsOf(poster[x]) /\ row.id \in Ids
      BY <1>1, <1>6, <2>2, PostTypes, PosterRows
    <3>2. SendsFor(bundle[row.id], x)
      BY <1>4, <1>6, <2>2, <3>1
    <3> QED
      BY <1>4, <3>1, <3>2 DEF PostTries, ClaimCounts
  <2> QED
    BY <2>1, <2>2
<1> QED
  BY <1>5, <1>6 DEF ClaimCounts, RowsOf, SendsFor

LEMMA PostStepMoves ==
  ASSUME PostIInv, PostTries, PostNext
  PROVE  ClaimCounts' /\ PostMoves
<1>1. CASE \E w \in Posters : PosterStep(w)
  BY <1>1, FirstAnswerMoves, PostBundleMoves, FinishClaimedMoves, ReleaseClaimMoves DEF PosterStep
<1>2. CASE \E w \in Posters : PosterCrash(w)
  BY <1>2, PosterCrashMoves
<1>3. CASE \E w \in Posters, limit \in DrainLimits : ClaimBundles(w, limit)
  BY <1>3, ClaimBundlesMoves
<1>4. CASE \E w \in Posters, b \in Ids : UploadBundle(w, b)
  BY <1>4, UploadMoves
<1>5. CASE \E b \in Ids : Outlive(b)
  BY <1>5, OutliveMoves
<1>6. CASE BrowseCatalog
  BY <1>6, BrowseMoves
<1>7. CASE PostMinute
  BY <1>7, PostMinuteMoves
<1> QED
  BY <1>1, <1>2, <1>3, <1>4, <1>5, <1>6, <1>7 DEF PostNext

(* The diagnostic queue keeps the promise of JobPromise for any number of   *)
(* bundles, workers and faults and any lease: an outcome that is written is *)
(* that of the one try under way, although a worker held up beyond its      *)
(* lease may answer for a row others have failed, claimed or expired.       *)
THEOREM BundlesArePromised == PostSpec => BundlesKeepPromise
<1>1. PostInit => PostTries /\ Posting!JobInit
  <2> SUFFICES ASSUME PostInit PROVE PostTries /\ Posting!JobInit
    OBVIOUS
  <2>1. \A w \in Posters : RowsOf(poster[w]) = {}
    BY DEF PostInit, RowsOf, NoPost
  <2>2. \A b \in Ids : bundle[b] = NoBundle
    BY DEF PostInit
  <2>3. PostTries
    BY <2>1, <2>2 DEF PostTries, ClaimCounts, BundleTries, NoBundle
  <2>4. \A b \in Ids : BundleAsJob(b) = Posting!Unasked /\ bundle[b].status = "none"
    BY <2>2 DEF BundleAsJob, PostState, NoBundle, Posting!Unasked
  <2> QED
    BY <2>3, <2>4 DEF Posting!JobInit
<1>2. PostIInv /\ PostIInv' /\ PostTries /\ [PostNext]_postVars
        => PostTries' /\ [Posting!JobNext]_(Posting!jobVars)
  <2> SUFFICES ASSUME PostIInv, PostIInv', PostTries, [PostNext]_postVars
               PROVE  PostTries' /\ [Posting!JobNext]_(Posting!jobVars)
    OBVIOUS
  <2>1. CASE PostNext
    BY <2>1, PostStepMoves, PostMovesLeaveTries, PostMovesArePromised DEF PostTries
  <2>2. CASE UNCHANGED postVars
    <3>1. UNCHANGED Posting!jobVars
      BY <2>2 DEF postVars, Posting!jobVars, BundleAsJob
    <3> QED
      BY <2>2, <3>1 DEF postVars, PostTries, ClaimCounts, BundleTries
  <2> QED
    BY <2>1, <2>2
<1> QED
  BY <1>1, <1>2, PostInvariant, PTL DEF PostSpec, BundlesKeepPromise, Posting!Promise

(***************************************************************************)
(* The write queue of a client.                                            *)
(***************************************************************************)
LEMMA WriteBounds == LastWrite \in Nat /\ NoKey \notin WriteKeys
  BY WriteAssumption

Writes == [id : WriteIds, kind : Kinds]

(* The wave counts no more writes than were submitted. *)
QueueIInv ==
  /\ QueueTypeOK /\ WaveCoversPending
  /\ \A i \in 1 .. wave.total : answers[i].was # "none"

LEMMA QueueTypes ==
  ASSUME QueueIInv
  PROVE  /\ business \in Seq(Writes) /\ Len(business) \in Nat
         /\ dispatcher.pc \in {"idle", "wait", "run", "answered"}
         /\ dispatcher.write \in 0 .. LastWrite
         /\ dispatcher \in [pc : {"idle", "wait", "run", "answered"}, write : 0 .. LastWrite]
         /\ wave \in [total : 0 .. LastWrite, completed : 0 .. LastWrite, timer : BOOLEAN]
         /\ wave.total \in Nat /\ wave.completed \in Nat /\ wave.total <= LastWrite
         /\ wave.completed <= wave.total
         /\ answers \in [WriteIds -> [was : {"none", "waiting", "superseded", "sent"},
                                      key : WriteKeys \cup {NoKey}]]
         /\ slow \in BOOLEAN
         /\ Len(business) + (IF dispatcher.pc = "idle" THEN 0 ELSE 1)
              <= wave.total - wave.completed
<1>1. business \in Seq(Writes) /\ Len(business) \in Nat
  BY DEF QueueIInv, QueueTypeOK, Writes
<1>2. /\ wave.total \in Nat /\ wave.completed \in Nat /\ wave.total <= LastWrite
  BY WriteBounds DEF QueueIInv, QueueTypeOK
<1>3. Len(business) + (IF dispatcher.pc = "idle" THEN 0 ELSE 1) <= wave.total - wave.completed
  BY DEF QueueIInv, WaveCoversPending, PendingCount
<1>4. wave.completed <= wave.total
  <2>1. PICK n \in Nat : n = Len(business)
    BY <1>1
  <2> QED
    BY <1>2, <1>3, <2>1
<1> QED
  BY <1>1, <1>2, <1>3, <1>4 DEF QueueIInv, QueueTypeOK

LEMMA QueueInitInvariant == QueueInit => QueueIInv
<1> SUFFICES ASSUME QueueInit PROVE QueueIInv
  OBVIOUS
<1>1. /\ wave.total = 0 /\ wave.completed = 0 /\ Len(business) = 0 /\ dispatcher.pc = "idle"
  BY DEF QueueInit, NoDispatch
<1>2. QueueTypeOK
  <2>1. business \in Seq([id : WriteIds, kind : Kinds])
    BY DEF QueueInit
  <2>2. dispatcher \in [pc : {"idle", "wait", "run", "answered"}, write : 0 .. LastWrite]
    BY WriteBounds DEF QueueInit, NoDispatch, NoWrite
  <2>3. wave \in [total : 0 .. LastWrite, completed : 0 .. LastWrite, timer : BOOLEAN]
    BY WriteBounds DEF QueueInit
  <2>4. slow \in BOOLEAN
    BY DEF QueueInit
  <2> QED
    BY <2>1, <2>2, <2>3, <2>4 DEF QueueInit, QueueTypeOK
<1> QED
  BY <1>1, <1>2 DEF QueueIInv, WaveCoversPending, PendingCount

(* How long the queue is after the dispatcher has looked at it. *)
LEMMA DispatchedCounts ==
  ASSUME NEW queue \in Seq(Writes), Dispatched(queue)
  PROVE  /\ business' \in Seq(Writes)
         /\ dispatcher' \in [pc : {"idle", "wait", "run", "answered"}, write : 0 .. LastWrite]
         /\ PendingCount' = Len(queue)
<1>0. Len(queue) \in Nat
  OBVIOUS
<1>1. CASE queue = <<>>
  <2>1. /\ business' = <<>> /\ dispatcher' = [pc |-> "idle", write |-> 0]
    BY <1>1 DEF Dispatched, NoDispatch, NoWrite
  <2>2. Len(business') = 0 /\ dispatcher'.pc = "idle"
    BY <2>1
  <2> QED
    BY <1>1, <2>1, <2>2, WriteBounds DEF PendingCount
<1>2. CASE queue # <<>>
  <2>1. Head(queue) \in Writes /\ Tail(queue) \in Seq(Writes) /\ Len(Tail(queue)) = Len(queue) - 1
    BY <1>2, HeadTailProperties
  <2>2. /\ business' = Tail(queue) /\ dispatcher' = [pc |-> "wait", write |-> Head(queue).id]
    BY <1>2 DEF Dispatched
  <2>3. Head(queue).id \in 0 .. LastWrite
    BY <2>1, WriteBounds DEF Writes, WriteIds
  <2>4. Len(business') = Len(queue) - 1 /\ dispatcher'.pc = "wait"
    BY <2>1, <2>2
  <2>5. PendingCount' = Len(business') + 1
    BY <2>4 DEF PendingCount
  <2> QED
    BY <1>0, <2>1, <2>2, <2>3, <2>4, <2>5
<1> QED
  BY <1>1, <1>2

(* A submission: what it replaces leaves the queue, and it enters.          *)
LEMMA QueueGrows ==
  ASSUME NEW s \in Seq(Writes), NEW new \in Writes, NEW high
  PROVE  LET urgent == {p \in DOMAIN s : s[p].kind.high}
             queue == IF high
                      THEN Select(s, urgent) \o <<new>> \o Select(s, DOMAIN s \ urgent)
                      ELSE s \o <<new>>
         IN  queue \in Seq(Writes) /\ Len(queue) = Len(s) + 1
<1> DEFINE urgent == {p \in DOMAIN s : s[p].kind.high}
           front == Select(s, urgent)
           back == Select(s, DOMAIN s \ urgent)
<1>1. DOMAIN s = 1 .. Len(s)
  OBVIOUS
<1>2. \A i \in 1 .. Len(s) : i \in urgent <=> i \notin DOMAIN s \ urgent
  BY <1>1
<1> HIDE DEF urgent
<1>3. Len(front) + Len(back) = Len(s)
  BY <1>2, SelectSplits
<1>4. front \in Seq(Writes) /\ back \in Seq(Writes)
  BY SelectPicks
<1> HIDE DEF front, back
<1>5. <<new>> \in Seq(Writes) /\ Len(<<new>>) = 1
  OBVIOUS
<1>6. front \o <<new>> \in Seq(Writes) /\ Len(front \o <<new>>) = Len(front) + 1
  BY <1>4, <1>5, ConcatProperties
<1>7. /\ front \o <<new>> \o back \in Seq(Writes)
      /\ Len(front \o <<new>> \o back) = Len(front) + 1 + Len(back)
  BY <1>4, <1>6, ConcatProperties
<1>8. Len(front \o <<new>> \o back) = Len(s) + 1
  <2>1. PICK i, k, n \in Nat : i = Len(front) /\ k = Len(back) /\ n = Len(s)
    BY <1>4
  <2>2. i + k = n /\ Len(front \o <<new>> \o back) = i + 1 + k
    BY <1>3, <1>7, <2>1
  <2>3. i + 1 + k = n + 1
    BY <2>2
  <2> QED
    BY <2>1, <2>2, <2>3
<1>9. s \o <<new>> \in Seq(Writes) /\ Len(s \o <<new>>) = Len(s) + 1
  BY <1>5, ConcatProperties
<1> QED
  BY <1>7, <1>8, <1>9 DEF front, back, urgent

LEMMA RunQueuedInvariant ==
  ASSUME QueueIInv, NEW i \in WriteIds, NEW kind \in Kinds, RunQueued(i, kind)
  PROVE  QueueIInv'
<1> DEFINE kept == Select(business, {p \in DOMAIN business : ~Replaced(business[p], kind)})
           new == [id |-> i, kind |-> kind]
           urgent == {p \in DOMAIN kept : kept[p].kind.high}
           queue == IF kind.high
                    THEN Select(kept, urgent) \o <<new>> \o Select(kept, DOMAIN kept \ urgent)
                    ELSE kept \o <<new>>
<1>1. kept \in Seq(Writes) /\ Len(kept) <= Len(business)
  <2> DEFINE some == {p \in DOMAIN business : ~Replaced(business[p], kind)}
  <2>1. DOMAIN business = 1 .. Len(business)
    BY QueueTypes
  <2>2. \A p \in 1 .. Len(business) : p \in some <=> p \notin DOMAIN business \ some
    BY <2>1
  <2> HIDE DEF some
  <2>3. Len(Select(business, some)) + Len(Select(business, DOMAIN business \ some)) = Len(business)
    BY <2>2, QueueTypes, SelectSplits
  <2>4. Select(business, some) \in Seq(Writes) /\ Select(business, DOMAIN business \ some) \in Seq(Writes)
    BY QueueTypes, SelectPicks
  <2>5. PICK k, m \in Nat : k = Len(Select(business, some))
                            /\ m = Len(Select(business, DOMAIN business \ some))
    BY <2>4
  <2>6. Len(Select(business, some)) <= Len(business)
    BY <2>3, <2>5
  <2> QED
    BY <2>4, <2>6 DEF some
<1>2. new \in Writes
  BY DEF Writes
<1>3. queue \in Seq(Writes) /\ Len(queue) = Len(kept) + 1
  <2> HIDE DEF kept, new
  <2> QED
    BY <1>1, <1>2, QueueGrows
<1>4. /\ answers[i].was = "none" /\ \A b \in 1 .. (i - 1) : answers[b].was # "none"
      /\ wave' = EnteredWave /\ slow' = slow
      /\ answers' = [b \in WriteIds |->
           IF b = i THEN [was |-> "waiting", key |-> kind.key]
           ELSE IF \E p \in DOMAIN business : business[p].id = b /\ Replaced(business[p], kind)
           THEN [answers[b] EXCEPT !.was = "superseded"] ELSE answers[b]]
      /\ IF dispatcher.pc = "idle" THEN Dispatched(queue)
         ELSE business' = queue /\ UNCHANGED dispatcher
  BY DEF RunQueued
<1> HIDE DEF kept, new, urgent, queue
<1>5. /\ business' \in Seq(Writes)
      /\ dispatcher' \in [pc : {"idle", "wait", "run", "answered"}, write : 0 .. LastWrite]
      /\ PendingCount' = Len(queue) + (IF dispatcher.pc = "idle" THEN 0 ELSE 1)
  <2>1. CASE dispatcher.pc = "idle"
    <3>1. Len(queue) + 0 = Len(queue)
      BY <1>3
    <3> QED
      BY <1>3, <1>4, <2>1, <3>1, DispatchedCounts
  <2>2. CASE dispatcher.pc # "idle"
    BY <1>3, <1>4, <2>2, QueueTypes DEF PendingCount
  <2> QED
    BY <2>1, <2>2
<1>6. answers' \in [WriteIds -> [was : {"none", "waiting", "superseded", "sent"},
                                 key : WriteKeys \cup {NoKey}]]
  <2>1. ASSUME NEW b \in WriteIds
        PROVE  /\ [was |-> "waiting", key |-> kind.key]
                    \in [was : {"none", "waiting", "superseded", "sent"}, key : WriteKeys \cup {NoKey}]
               /\ [answers[b] EXCEPT !.was = "superseded"]
                    \in [was : {"none", "waiting", "superseded", "sent"}, key : WriteKeys \cup {NoKey}]
               /\ answers[b]
                    \in [was : {"none", "waiting", "superseded", "sent"}, key : WriteKeys \cup {NoKey}]
    BY QueueTypes DEF Kinds
  <2> QED
    BY <1>4, <2>1
<1>7. \A b \in WriteIds : b <= i => answers'[b].was # "none"
  BY <1>4, QueueTypes, WriteBounds DEF WriteIds
<1>8. wave.total < i /\ i \in Nat /\ 1 <= i /\ i <= LastWrite
  <2>1. i \in Nat /\ 1 <= i /\ i <= LastWrite
    BY WriteBounds DEF WriteIds
  <2>2. ~(i <= wave.total)
    BY <1>4, <2>1, QueueTypes DEF QueueIInv
  <2> QED
    BY <2>1, <2>2, QueueTypes
<1>9. /\ wave' \in [total : 0 .. LastWrite, completed : 0 .. LastWrite, timer : BOOLEAN]
      /\ wave'.total <= i
      /\ PendingCount' <= wave'.total - wave'.completed
  <2>1. PICK n \in Nat : n = Len(kept)
    BY <1>1
  <2>2. PICK m \in Nat : m = Len(business)
    BY QueueTypes
  <2>3. n <= m /\ Len(queue) = n + 1
    BY <1>1, <1>3, <2>1, <2>2
  <2>4. CASE PendingCount = 0 /\ wave.total > 0 /\ wave.completed >= wave.total
    <3>1. wave' = [total |-> 1, completed |-> 0, timer |-> FALSE]
      BY <1>4, <2>4 DEF EnteredWave
    <3>2. m = 0 /\ dispatcher.pc = "idle"
      BY <2>2, <2>4 DEF PendingCount
    <3>3. PendingCount' = 1
      BY <1>5, <2>3, <3>2
    <3>4. wave'.total = 1 /\ wave'.completed = 0
      BY <3>1
    <3>5. 0 \in 0 .. LastWrite /\ 1 \in 0 .. LastWrite
      BY <1>8, WriteBounds
    <3> QED
      BY <1>8, <3>1, <3>3, <3>4, <3>5
  <2>5. CASE ~(PendingCount = 0 /\ wave.total > 0 /\ wave.completed >= wave.total)
    <3>1. wave' = [total |-> wave.total + 1, completed |-> wave.completed, timer |-> FALSE]
      BY <1>4, <2>5 DEF EnteredWave
    <3>2. wave'.total = wave.total + 1 /\ wave'.completed = wave.completed
      BY <3>1
    <3>3. PendingCount' = n + 1 + (IF dispatcher.pc = "idle" THEN 0 ELSE 1)
      BY <1>5, <2>3
    <3>4. m + (IF dispatcher.pc = "idle" THEN 0 ELSE 1) <= wave.total - wave.completed
      BY <2>2, QueueTypes
    <3>5. PendingCount' <= wave'.total - wave'.completed
      BY <2>3, <3>2, <3>3, <3>4, QueueTypes
    <3>6. wave' \in [total : 0 .. LastWrite, completed : 0 .. LastWrite, timer : BOOLEAN]
      BY <1>8, <3>1, QueueTypes, WriteBounds
    <3> QED
      BY <1>8, <3>2, <3>5, <3>6, QueueTypes
  <2> QED
    BY <2>4, <2>5
<1>10. \A b \in 1 .. wave'.total : answers'[b].was # "none"
  <2>1. PICK n \in 0 .. LastWrite : n = wave'.total
    BY <1>9
  <2>2. ASSUME NEW b \in 1 .. n PROVE b \in WriteIds /\ b <= i
    BY <1>8, <1>9, <2>1, WriteBounds DEF WriteIds
  <2> QED
    BY <1>7, <2>1, <2>2
<1>11. QueueTypeOK'
  BY <1>4, <1>5, <1>6, <1>9, QueueTypes DEF QueueTypeOK, Writes
<1> QED
  BY <1>9, <1>10, <1>11 DEF QueueIInv, WaveCoversPending

LEMMA QueueNextInvariant == QueueIInv /\ [QueueNext]_queueVars => QueueIInv'
<1> SUFFICES ASSUME QueueIInv, [QueueNext]_queueVars PROVE QueueIInv'
  OBVIOUS
<1>1. CASE \E i \in WriteIds, kind \in Kinds : RunQueued(i, kind)
  BY <1>1, RunQueuedInvariant
<1>2. CASE UNCHANGED queueVars
  BY <1>2 DEF queueVars, QueueIInv, QueueTypeOK, WaveCoversPending, PendingCount
<1>3. CASE WriteIsSlow
  BY <1>3 DEF WriteIsSlow, QueueIInv, QueueTypeOK, WaveCoversPending, PendingCount
<1>4. CASE StartWrite
  <2>1. /\ dispatcher.pc = "wait" /\ UNCHANGED <<business, wave, slow, answers>>
        /\ dispatcher' = [dispatcher EXCEPT !.pc = "run"]
    BY <1>4 DEF StartWrite
  <2>2. /\ dispatcher' \in [pc : {"idle", "wait", "run", "answered"}, write : 0 .. LastWrite]
        /\ dispatcher'.pc = "run"
    BY <2>1, QueueTypes
  <2>3. PendingCount' = PendingCount
    BY <2>1, <2>2 DEF PendingCount
  <2> QED
    BY <2>1, <2>2, <2>3 DEF QueueIInv, QueueTypeOK, WaveCoversPending
<1>5. CASE AnswerWrite
  <2>1. /\ dispatcher.pc = "run" /\ UNCHANGED <<business, wave, slow>>
        /\ dispatcher' = [dispatcher EXCEPT !.pc = "answered"]
        /\ answers' = [answers EXCEPT ![dispatcher.write].was = "sent"]
    BY <1>5 DEF AnswerWrite
  <2>2. /\ dispatcher' \in [pc : {"idle", "wait", "run", "answered"}, write : 0 .. LastWrite]
        /\ dispatcher'.pc = "answered"
    BY <2>1, QueueTypes
  <2>3. PendingCount' = PendingCount
    BY <2>1, <2>2 DEF PendingCount
  <2>4. /\ answers' \in [WriteIds -> [was : {"none", "waiting", "superseded", "sent"},
                                      key : WriteKeys \cup {NoKey}]]
        /\ \A i \in WriteIds : answers[i].was # "none" => answers'[i].was # "none"
    <3> DEFINE Answers == [was : {"none", "waiting", "superseded", "sent"},
                           key : WriteKeys \cup {NoKey}]
    <3>1. answers \in [WriteIds -> Answers]
      BY QueueTypes
    <3>2. ASSUME NEW a \in Answers
          PROVE  [a EXCEPT !.was = "sent"] \in Answers /\ [a EXCEPT !.was = "sent"].was = "sent"
      OBVIOUS
    <3> DEFINE sent(i) == [answers[i] EXCEPT !.was = "sent"]
    <3>3. answers' = [answers EXCEPT ![dispatcher.write] = sent(dispatcher.write)]
      BY <2>1
    <3>4. \A i \in WriteIds : sent(i) \in Answers /\ sent(i).was = "sent"
      BY <3>1, <3>2
    <3> HIDE DEF Answers, sent
    <3>5. /\ answers' \in [WriteIds -> Answers]
          /\ \A i \in WriteIds : answers'[i] = answers[i] \/ answers'[i] = sent(i)
      BY <3>1, <3>3, <3>4
    <3> QED
      BY <3>4, <3>5 DEF Answers
  <2>5. \A i \in 1 .. wave'.total : answers'[i].was # "none"
    BY <2>1, <2>4, QueueTypes, WriteBounds DEF QueueIInv, WriteIds
  <2> QED
    BY <2>1, <2>2, <2>3, <2>4, <2>5 DEF QueueIInv, QueueTypeOK, WaveCoversPending
<1>6. CASE FinishWrite
  <2>1. /\ dispatcher.pc = "answered" /\ slow' = FALSE /\ Dispatched(business) /\ answers' = answers
        /\ wave' = [wave EXCEPT !.completed = @ + 1, !.timer = TRUE]
    BY <1>6 DEF FinishWrite
  <2>2. /\ business' \in Seq(Writes)
        /\ dispatcher' \in [pc : {"idle", "wait", "run", "answered"}, write : 0 .. LastWrite]
        /\ PendingCount' = Len(business)
    BY <2>1, QueueTypes, DispatchedCounts
  <2>3. PICK n \in Nat : n = Len(business)
    BY QueueTypes
  <2>4. n + 1 <= wave.total - wave.completed
    BY <2>1, <2>3, QueueTypes
  <2>5. wave' = [total |-> wave.total, completed |-> wave.completed + 1, timer |-> TRUE]
    BY <2>1, QueueTypes
  <2>6. /\ wave'.total = wave.total /\ wave'.completed = wave.completed + 1
        /\ wave.completed + 1 \in 0 .. LastWrite /\ wave.total \in 0 .. LastWrite
    BY <2>4, <2>5, QueueTypes, WriteBounds
  <2>7. wave' \in [total : 0 .. LastWrite, completed : 0 .. LastWrite, timer : BOOLEAN]
    BY <2>5, <2>6
  <2>8. PendingCount' <= wave'.total - wave'.completed
    BY <2>2, <2>3, <2>4, <2>6, QueueTypes
  <2>9. QueueTypeOK'
    BY <2>1, <2>2, <2>7, QueueTypes DEF QueueTypeOK, Writes
  <2> QED
    BY <2>1, <2>6, <2>8, <2>9 DEF QueueIInv, WaveCoversPending
<1>7. CASE CloseWave
  <2>1. UNCHANGED <<business, dispatcher, slow, answers>>
    BY <1>7 DEF CloseWave
  <2>2. PendingCount' = PendingCount
    BY <2>1 DEF PendingCount
  <2>3. CASE PendingCount = 0
    <3>1. wave' = [total |-> 0, completed |-> 0, timer |-> FALSE]
      BY <1>7, <2>3 DEF CloseWave
    <3>2. /\ wave' \in [total : 0 .. LastWrite, completed : 0 .. LastWrite, timer : BOOLEAN]
          /\ wave'.total = 0 /\ wave'.completed = 0
      BY <3>1, WriteBounds
    <3>3. QueueTypeOK'
      BY <2>1, <3>2, QueueTypes DEF QueueTypeOK, Writes
    <3> QED
      BY <2>2, <2>3, <3>2, <3>3 DEF QueueIInv, WaveCoversPending
  <2>4. CASE PendingCount # 0
    <3>1. wave' = [wave EXCEPT !.timer = FALSE]
      BY <1>7, <2>4 DEF CloseWave
    <3>2. /\ wave' \in [total : 0 .. LastWrite, completed : 0 .. LastWrite, timer : BOOLEAN]
          /\ wave'.total = wave.total /\ wave'.completed = wave.completed
      BY <3>1, QueueTypes
    <3>3. QueueTypeOK'
      BY <2>1, <3>2, QueueTypes DEF QueueTypeOK, Writes
    <3> QED
      BY <2>1, <2>2, <3>2, <3>3 DEF QueueIInv, WaveCoversPending
  <2> QED
    BY <2>3, <2>4
<1> QED
  BY <1>1, <1>2, <1>3, <1>4, <1>5, <1>6, <1>7 DEF QueueNext

LEMMA QueueInvariant == QueueSpec => []QueueIInv
  BY QueueInitInvariant, QueueNextInvariant, PTL DEF QueueSpec

(* The progress a page shows covers every write that waits, is held back or *)
(* is under way, however many writes there are and whichever replace which: *)
(* runQueued, enterWave, dispatch and scheduleWaveClose.                    *)
THEOREM WaveCovers == QueueSpec => []WaveCoversPending
<1>1. QueueIInv => WaveCoversPending
  BY DEF QueueIInv
<1> QED
  BY <1>1, QueueInvariant, PTL
=============================================================================
