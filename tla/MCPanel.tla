------------------------------ MODULE MCPanel ------------------------------
(* Two writes, or one and a change of page, every entry watched in turn.    *)
EXTENDS Panel
=============================================================================
