--------------------------- MODULE MCSaveProtocol ---------------------------
(* Two exam records in one revision domain and the reminders in another. *)
EXTENDS SaveProtocol

DocumentParts == {"exam1", "exam2", "alerts"}
Domain == [p \in DocumentParts |-> IF p = "alerts" THEN "alerts" ELSE "major"]
=============================================================================
