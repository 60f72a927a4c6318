--------------------------- MODULE MCExamLifecycle ---------------------------
(* ExamLifecycle on small instances. *)
EXTENDS ExamLifecycle, TLC

(* One exam of one unit, and the same a unit earlier. *)
OneWindow == {<<1, 2>>}
TwoWindows == {<<0, 1>>, <<1, 2>>}

FirstWindow == {<<0, 1>>}
LiveActions == {"pause", "resume", "end", "copy"}
RecordActions == Operations \cup Transitions

Symmetry ==
  Permutations(Workers) \cup Permutations(Requests) \cup Permutations(Instances)
=============================================================================
