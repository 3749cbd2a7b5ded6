---------------------------- MODULE MCPlayground ----------------------------
(* The playground with three runs of up to two pieces.                     *)
EXTENDS Playground
=============================================================================
