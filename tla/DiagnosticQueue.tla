--------------------------- MODULE DiagnosticQueue ---------------------------
(***************************************************************************)
(* Diagnostic bundles on their way to the author's server.  The request    *)
(* that uploads a bundle inserts its row as being sent, posts it once and  *)
(* writes the outcome by the row's id.  Failed bundles are retried by      *)
(* drains, of the cron worker and of an administrator: a drain claims due  *)
(* rows under a lease of RETRY_CLAIM_TIMEOUT_MS, and its outcome counts    *)
(* only while the row still carries that claim, that is, the same          *)
(* next_attempt_at.  Two claims of one row never carry the same time, so   *)
(* the claim is modelled by the one who made it.                           *)
(*                                                                         *)
(* Time is counted down in minutes: wait is the time to next_attempt_at of *)
(* a row, left the time a worker has before its claims are up.             *)
(***************************************************************************)
EXTENDS Selections

CONSTANTS
  Bundles,        \* how many bundles are uploaded
  Posters,        \* requests and workers that post bundles
  NoPoster,       \* the claim of a row nobody is sending
  LeaseMinutes,   \* RETRY_CLAIM_TIMEOUT_MS
  MaxPostFaults   \* how many workers die, or are held up beyond their lease

ASSUME DiagnosticAssumption ==
  /\ {Bundles, MaxPostFaults} \subseteq Nat
  /\ LeaseMinutes \in Nat \ {0}
  /\ NoPoster \notin Posters

VARIABLES
  bundle,      \* app_diagnostic_bundles
  poster,      \* the running requests and drains
  postFaults

postVars == <<bundle, poster, postFaults>>

Ids == 1..Bundles
PostAttempts == 3                                 \* MAX_RETRY_ATTEMPTS
DrainLimits == {1, 10}                            \* clampDrainLimit

(* retryDelayMs: a minute, then twice as long each time. *)
PostDelay(attempts) == 2 ^ (attempts - 1)

NoBundle ==
  [status |-> "none", attempts |-> 0, wait |-> 0, claim |-> NoPoster,
   old |-> FALSE]
NoPost == [pc |-> "idle", todo |-> <<>>, left |-> 0]

BundleRows == [status : {"none", "sending", "sent", "failed", "expired"},
               attempts : 0..PostAttempts, wait : Nat,
               claim : Posters \cup {NoPoster}, old : BOOLEAN]
PosterStates == [pc : {"idle", "first", "next", "accepted", "refused"},
                 todo : Seq([id : Ids, attempts : 0..(PostAttempts - 1)]),
                 left : 0..LeaseMinutes]

PostTypeOK ==
  /\ bundle \in [Ids -> BundleRows]
  /\ poster \in [Posters -> PosterStates]
  /\ postFaults \in 0..MaxPostFaults

PostInit ==
  /\ bundle = [b \in Ids |-> NoBundle]
  /\ poster = [w \in Posters |-> NoPost]
  /\ postFaults = 0

Row(w) == Head(poster[w].todo)

NextRow(w) ==
  LET rest == Tail(poster[w].todo)
  IN poster' = [poster EXCEPT ![w] =
       IF rest = <<>> THEN NoPost
       ELSE [pc |-> "next", todo |-> rest, left |-> poster[w].left]]

(* nextAttemptAfterFailure and the columns written with it. *)
Outcome(row, ok, attempts) ==
  [row EXCEPT !.status = IF ok THEN "sent" ELSE "failed",
              !.attempts = attempts, !.claim = NoPoster,
              !.wait = IF ok \/ attempts >= PostAttempts THEN 0
                       ELSE PostDelay(attempts)]
----------------------------------------------------------------------------
(* handleSend stores the bundle as being sent.  A bundle already known is   *)
(* answered with its status and changes nothing.                            *)
UploadBundle(w, b) ==
  /\ poster[w].pc = "idle"
  /\ bundle[b].status = "none"
  /\ bundle' = [bundle EXCEPT ![b] =
       [@ EXCEPT !.status = "sending", !.wait = LeaseMinutes, !.claim = w]]
  /\ poster' = [poster EXCEPT ![w] =
       [pc |-> "first", todo |-> <<[id |-> b, attempts |-> 0]>>, left |-> LeaseMinutes]]
  /\ UNCHANGED postFaults

(* The request's one attempt; its outcome is written by the row's id alone. *)
FirstAnswer(w) ==
  /\ poster[w].pc = "first"
  /\ \E ok \in BOOLEAN :
       bundle' = [bundle EXCEPT ![Row(w).id] = Outcome(@, ok, 1)]
  /\ poster' = [poster EXCEPT ![w] = NoPost]
  /\ UNCHANGED postFaults

(* Mutant: a row being sent is left to the one who sends it. *)
LeftBehindNever(row) == FALSE

(* Mutant: a row being sent counts as left behind within its lease. *)
LeftBehindAny(row) == row.status = "sending"

(* Its claim is up. *)
LeftBehind(row) == row.status = "sending" /\ row.wait = 0

(* Mutant: the number of attempts is not limited. *)
DuePostAlways(row) == row.status = "failed" /\ row.wait = 0 /\ ~row.old

DuePost(row) ==
  row.status = "failed" /\ row.attempts < PostAttempts /\ row.wait = 0 /\ ~row.old

(* A drain: one statement fails the rows whose claim is up and claims those *)
(* that were due before it, oldest first.                                   *)
ClaimBundles(w, limit) ==
  LET due == Select([b \in Ids |-> b], {b \in Ids : DuePost(bundle[b])})
      picked == SubSeq(due, 1, IF Len(due) < limit THEN Len(due) ELSE limit)
  IN /\ poster[w].pc = "idle"
     /\ \E b \in Ids : LeftBehind(bundle[b]) \/ DuePost(bundle[b])
     /\ bundle' = [b \in Ids |->
          IF \E i \in DOMAIN picked : picked[i] = b
          THEN [bundle[b] EXCEPT !.status = "sending", !.wait = LeaseMinutes, !.claim = w]
          ELSE IF LeftBehind(bundle[b])
          THEN [bundle[b] EXCEPT !.status = "failed", !.claim = NoPoster]
          ELSE bundle[b]]
     /\ poster' = [poster EXCEPT ![w] =
          IF picked = <<>> THEN NoPost
          ELSE [pc |-> "next", left |-> LeaseMinutes,
                todo |-> [i \in DOMAIN picked |->
                            [id |-> picked[i], attempts |-> bundle[picked[i]].attempts]]]]
     /\ UNCHANGED postFaults

(* Mutant: an outcome is written to any row still being sent, or beyond. *)
HoldsUnfenced(w) == TRUE

(* WHERE status='sending' AND next_attempt_at = claimedUntil. *)
Holds(w) ==
  bundle[Row(w).id].status = "sending" /\ bundle[Row(w).id].claim = w

(* sendDiagnosticBundle: the author's server accepts, or refuses, is away   *)
(* or too slow.                                                             *)
PostBundle(w) ==
  /\ poster[w].pc = "next"
  /\ \E pc \in {"accepted", "refused"} :
       poster' = [poster EXCEPT ![w] = [@ EXCEPT !.pc = pc]]
  /\ UNCHANGED <<bundle, postFaults>>

FinishClaimed(w) ==
  /\ poster[w].pc \in {"accepted", "refused"}
  /\ bundle' = IF Holds(w)
               THEN [bundle EXCEPT ![Row(w).id] =
                       Outcome(@, poster[w].pc = "accepted", Row(w).attempts + 1)]
               ELSE bundle
  /\ NextRow(w)
  /\ UNCHANGED postFaults

(* Out of time: the rest of the claimed rows goes back. *)
ReleaseClaim(w) ==
  /\ poster[w].pc = "next"
  /\ bundle' = IF Holds(w)
               THEN [bundle EXCEPT ![Row(w).id] =
                 [@ EXCEPT !.status = "failed", !.wait = PostDelay(1), !.claim = NoPoster]]
               ELSE bundle
  /\ NextRow(w)
  /\ UNCHANGED postFaults

(* Days pass: retention is over for a bundle.  It is at least a day, far    *)
(* beyond the request that uploaded the bundle.                             *)
Outlive(b) ==
  /\ bundle[b].status # "none" /\ ~bundle[b].old
  /\ \A w \in Posters : poster[w].pc = "first" => Row(w).id # b
  /\ bundle' = [bundle EXCEPT ![b] = [@ EXCEPT !.old = TRUE]]
  /\ UNCHANGED <<poster, postFaults>>

(* handleCatalog: reading the list marks what is over.                      *)
BrowseCatalog ==
  /\ \E b \in Ids : bundle[b].old /\ bundle[b].status # "expired"
  /\ bundle' = [b \in Ids |->
       IF bundle[b].old THEN [bundle[b] EXCEPT !.status = "expired"] ELSE bundle[b]]
  /\ UNCHANGED <<poster, postFaults>>

PosterCrash(w) ==
  /\ poster[w].pc # "idle"
  /\ postFaults < MaxPostFaults
  /\ postFaults' = postFaults + 1
  /\ poster' = [poster EXCEPT ![w] = NoPost]
  /\ UNCHANGED bundle

(* A minute passes.  The eight seconds of a post keep a request and a drain *)
(* within their lease, unless a drain is held up, which is a fault.         *)
Overdue == {w \in Posters : poster[w].pc # "idle" /\ poster[w].left = 1}

PostMinute ==
  /\ \A w \in Posters : poster[w].pc = "first" => poster[w].left > 1
  /\ Overdue # {} => postFaults < MaxPostFaults
  /\ postFaults' = IF Overdue # {} THEN postFaults + 1 ELSE postFaults
  /\ bundle' = [b \in Ids |-> [bundle[b] EXCEPT !.wait = IF @ = 0 THEN 0 ELSE @ - 1]]
  /\ poster' = [w \in Posters |->
       [poster[w] EXCEPT !.left = IF @ = 0 THEN 0 ELSE @ - 1]]

PosterStep(w) ==
  FirstAnswer(w) \/ PostBundle(w) \/ FinishClaimed(w) \/ ReleaseClaim(w)

PostNext ==
  \/ \E w \in Posters : PosterStep(w) \/ PosterCrash(w)
  \/ \E w \in Posters, limit \in DrainLimits : ClaimBundles(w, limit)
  \/ \E w \in Posters, b \in Ids : UploadBundle(w, b)
  \/ \E b \in Ids : Outlive(b)
  \/ BrowseCatalog
  \/ PostMinute

PostSpec == PostInit /\ [][PostNext]_postVars
----------------------------------------------------------------------------
(* What was sent stays sent and what expired stays expired: no drain held   *)
(* up beyond its lease writes its late outcome over the row, however often  *)
(* the row was claimed, sent or expired meanwhile.                          *)
SettledIsFinal ==
  [][\A b \in Ids :
       /\ bundle[b].status = "sent" => bundle'[b].status \in {"sent", "expired"}
       /\ bundle[b].status = "expired" => bundle'[b].status = "expired"]_postVars

(* A row as the job of a queue: a bundle is wanted within its retention.    *)
PostState ==
  [none |-> "none", sending |-> "taken", sent |-> "sent", expired |-> "dropped"]

BundleAsJob(b) ==
  LET row == bundle[b]
      again == row.status = "failed" /\ row.attempts < PostAttempts
  IN  [state |-> IF again THEN "waiting"
                 ELSE IF row.status = "failed" THEN "dropped" ELSE PostState[row.status],
       tries |-> IF again \/ row.status = "sending" THEN row.attempts ELSE 0]

Posting == INSTANCE JobPromise WITH
  JobIds <- Ids, MaxTries <- PostAttempts,
  job <- [b \in Ids |-> BundleAsJob(b)],
  wanted <- {b \in Ids : bundle[b].status # "none" /\ ~bundle[b].old}

(* What the queue promises of each bundle, although a late worker may find  *)
(* its row failed, claimed, sent or expired by others: every outcome that   *)
(* is written is that of the one try under way, and no bundle is given up   *)
(* before its third refusal or its retention.                               *)
BundlesKeepPromise == Posting!Promise

(* Every bundle is sent, refused three times, or over its retention,        *)
(* whatever died with the row in its hands.                                 *)
Settled(row) ==
  row.status \in {"none", "sent", "expired"} \/ row.attempts = PostAttempts \/ row.old

BundlesSettle == <>[](\A b \in Ids : Settled(bundle[b]))
============================================================================
