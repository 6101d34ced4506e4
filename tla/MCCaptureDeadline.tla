--------------------------- MODULE MCCaptureDeadline ---------------------------
(* Instances of CaptureDeadline for TLC. *)
EXTENDS CaptureDeadline, TLC

\* Sound: only safety is checked, and the requests are alike.
Symmetry == Permutations(Requests)
================================================================================
