--------------------------- MODULE MCOutputRegistry ---------------------------
(* Instances of OutputRegistry for TLC. *)
EXTENDS OutputRegistry

TwoModes == {"hd", "uhd"}
===============================================================================
