-------------------------- MODULE MCScreenshotPortal --------------------------
(* Instances of ScreenshotPortal for TLC. *)
EXTENDS ScreenshotPortal

\* A compositor with a capture protocol, or with none.
AglOrNone == {{"agl"}, {}}

OnlyWeston == {{"weston"}}
===============================================================================
