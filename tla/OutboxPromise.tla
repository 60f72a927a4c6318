--------------------------- MODULE OutboxPromise ---------------------------
(***************************************************************************)
(* What the outbox of the browser is meant to do for its user: the latest  *)
(* edit of a part of the exam document is kept until the server has stored *)
(* it.  Reloads, lost requests, conflicts and merges are not visible here. *)
(* The browser breaks it by one order of events (EditsAreKept of           *)
(* SaveProtocol), and keeps it for edits of which that is known not to     *)
(* happen (RestedEditsAreKept).                                            *)
(***************************************************************************)
EXTENDS Naturals

CONSTANTS
  Parts,    \* parts of the document that are edited on their own
  LastOwn   \* the user's edits are numbered 1 .. LastOwn

VARIABLES
  kept,     \* part -> its latest edit that the server has not stored, 0 if none
  stored    \* edits the server has stored

promiseVars == <<kept, stored>>

PromiseInit ==
  /\ kept = [p \in Parts |-> 0]
  /\ stored = {}

(* A newer edit takes the place of the one that was kept. *)
Make(p, e) ==
  /\ kept[p] < e /\ e \notin stored
  /\ kept' = [kept EXCEPT ![p] = e]
  /\ UNCHANGED stored

(* One save stores the edits of several parts; a save under way may also    *)
(* store edits whose place a newer one has taken.                           *)
Store(S, replaced) ==
  /\ \A p \in S : kept[p] # 0
  /\ \A p \in Parts : kept[p] \notin replaced
  /\ kept' = [p \in Parts |-> IF p \in S THEN 0 ELSE kept[p]]
  /\ stored' = stored \cup replaced \cup {kept[p] : p \in S}

PromiseNext ==
  \/ \E p \in Parts, e \in 1 .. LastOwn : Make(p, e)
  \/ \E S \in SUBSET Parts, replaced \in SUBSET (1 .. LastOwn) : Store(S, replaced)

Promise == PromiseInit /\ [][PromiseNext]_promiseVars
=============================================================================
