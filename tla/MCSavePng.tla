------------------------------- MODULE MCSavePng -------------------------------
(* Instances of SavePng for TLC. *)
EXTENDS SavePng

OneDir == <<"Pictures">>
================================================================================
