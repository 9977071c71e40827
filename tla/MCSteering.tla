------------------------------ MODULE MCSteering ------------------------------
(* The scheduled turn t1. *)
EXTENDS Steering

CONSTANT t1
=============================================================================
