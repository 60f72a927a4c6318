------------------------- MODULE AnnouncementReceipts -------------------------
(***************************************************************************)
(* The receipts of one classroom device: what it has shown goes to a       *)
(* buffer in local storage and from there to the server, in batches, when  *)
(* an announcement was shown and with every poll.  Flushes may overlap: a  *)
(* batch leaves the buffer when it is answered, not when it is sent, and   *)
(* the server adds up whatever arrives.                                    *)
(*                                                                         *)
(* Time on screen is counted in showings.  The buffer holds more           *)
(* announcements than are modelled (PENDING_LIMIT), a batch fewer.         *)
(***************************************************************************)
EXTENDS Naturals, FiniteSets

CONSTANTS
  Notices,        \* announcements
  Flushes,        \* flushes that may be under way at once
  AckBatch,       \* ANNOUNCEMENT_ACK_BATCH_MAX
  MaxShowings,
  MaxErased,      \* announcements a restored backup does not know
  MaxAckFaults    \* requests and answers lost, pages closed, devices revoked

ASSUME ReceiptAssumption ==
  /\ {MaxShowings, MaxErased, MaxAckFaults} \subseteq Nat
  /\ AckBatch \in Nat \ {0}

VARIABLES
  unsent,       \* the buffer: showings by announcement
  flush,        \* the batches under way
  receipts,     \* exam_announcement_receipts.seen_count; 0 without a row
  noticesGone,  \* announcements without a row
  seen,         \* announcements that were on screen
  showings,     \* how often, all together
  ackFaults

ackVars == <<unsent, flush, receipts, noticesGone, seen, showings, ackFaults>>

NoFlush == [pc |-> "idle", batch |-> [a \in Notices |-> 0], recorded |-> FALSE]

Buffers == [Notices -> 0..MaxShowings]
FlushStates == [pc : {"idle", "sent", "answered"}, batch : Buffers, recorded : BOOLEAN]

ReceiptTypeOK ==
  /\ unsent \in Buffers
  /\ flush \in [Flushes -> FlushStates]
  /\ receipts \in [Notices -> Nat]
  /\ noticesGone \subseteq Notices /\ seen \subseteq Notices
  /\ showings \in 0..MaxShowings
  /\ ackFaults \in 0..MaxAckFaults

ReceiptInit ==
  /\ unsent = [a \in Notices |-> 0]
  /\ flush = [f \in Flushes |-> NoFlush]
  /\ receipts = [a \in Notices |-> 0]
  /\ noticesGone = {}
  /\ seen = {}
  /\ showings = 0
  /\ ackFaults = 0

(* The choices of a batch: the entries shown longest. *)
Batches(buffer) ==
  LET held == {a \in Notices : buffer[a] > 0}
  IN {S \in SUBSET held :
        /\ Cardinality(S) = AckBatch \/ (Cardinality(S) < AckBatch /\ S = held)
        /\ \A a \in S, b \in held \ S : buffer[a] >= buffer[b]}

(* flushAnnouncementAcks up to its request. *)
FlushBegun(f, buffer) ==
  /\ flush[f].pc = "idle"
  /\ \E S \in Batches(buffer) \ {{}} :
       flush' = [flush EXCEPT ![f] =
         [pc |-> "sent", batch |-> [a \in Notices |-> IF a \in S THEN buffer[a] ELSE 0],
          recorded |-> FALSE]]
----------------------------------------------------------------------------
(* An announcement was on screen for three seconds: its time is added to    *)
(* the buffer and a flush begins.                                           *)
NoticeSeen(a, f) ==
  /\ a \notin noticesGone
  /\ showings < MaxShowings
  /\ showings' = showings + 1
  /\ seen' = seen \cup {a}
  /\ unsent' = [unsent EXCEPT ![a] = @ + 1]
  /\ FlushBegun(f, unsent')
  /\ UNCHANGED <<receipts, noticesGone, ackFaults>>

(* Every minute.                                                            *)
PollFlush(f) ==
  /\ FlushBegun(f, unsent)
  /\ UNCHANGED <<unsent, receipts, noticesGone, seen, showings, ackFaults>>

(* handleAnnouncementAck: one statement adds the batch to the receipts of   *)
(* the announcements that exist.                                            *)
RecordBatch(f) ==
  LET known == {a \in Notices \ noticesGone : flush[f].batch[a] > 0}
  IN /\ flush[f].pc = "sent"
     /\ receipts' = [a \in Notices |-> IF a \in known THEN receipts[a] + 1 ELSE receipts[a]]
     /\ flush' = [flush EXCEPT ![f].pc = "answered", ![f].recorded = known # {}]
     /\ UNCHANGED <<unsent, noticesGone, seen, showings, ackFaults>>

(* dropPendingAnnouncementAcks: the whole batch goes once one of it counts, *)
(* with the time that was added since.                                      *)
Dropped(f) ==
  IF flush[f].recorded
  THEN [a \in Notices |-> IF flush[f].batch[a] > 0 THEN 0 ELSE unsent[a]]
  ELSE unsent

BatchAnswered(f) ==
  /\ flush[f].pc = "answered"
  /\ unsent' = Dropped(f)
  /\ flush' = [flush EXCEPT ![f] = NoFlush]
  /\ UNCHANGED <<receipts, noticesGone, seen, showings, ackFaults>>

(* Mutant: what was sent is not kept for another try. *)
BatchForgotten(f) ==
  /\ flush[f].pc # "idle"
  /\ ackFaults < MaxAckFaults
  /\ ackFaults' = ackFaults + 1
  /\ unsent' = [a \in Notices |-> IF flush[f].batch[a] > 0 THEN 0 ELSE unsent[a]]
  /\ flush' = [flush EXCEPT ![f] = NoFlush]
  /\ UNCHANGED <<receipts, noticesGone, seen, showings>>

(* The request fails or is refused, its answer is lost, or the page closes. *)
BatchFails(f) ==
  /\ flush[f].pc # "idle"
  /\ ackFaults < MaxAckFaults
  /\ ackFaults' = ackFaults + 1
  /\ flush' = [flush EXCEPT ![f] = NoFlush]
  /\ UNCHANGED <<unsent, receipts, noticesGone, seen, showings>>

(* A backup from before the announcement is restored. *)
EraseNotice(a) ==
  /\ a \notin noticesGone
  /\ Cardinality(noticesGone) < MaxErased
  /\ noticesGone' = noticesGone \cup {a}
  /\ receipts' = [receipts EXCEPT ![a] = 0]
  /\ UNCHANGED <<unsent, flush, seen, showings, ackFaults>>

FlushStep(f) == RecordBatch(f) \/ BatchAnswered(f)

ReceiptNext ==
  \/ \E a \in Notices, f \in Flushes : NoticeSeen(a, f)
  \/ \E f \in Flushes : PollFlush(f) \/ FlushStep(f) \/ BatchFails(f)
  \/ \E a \in Notices : EraseNotice(a)

ReceiptSpec == ReceiptInit /\ [][ReceiptNext]_ackVars
----------------------------------------------------------------------------
(* Whatever was seen is counted in the end, also when requests fail, when   *)
(* flushes overlap, and when the batch holds announcements the server does  *)
(* not know, as long as they do not fill it.                                *)
ReceiptsArrive == <>[](\A a \in seen : receipts[a] > 0 \/ a \in noticesGone)
============================================================================
