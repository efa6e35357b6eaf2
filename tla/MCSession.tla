------------------------------ MODULE MCSession ------------------------------
(* Two people and a browser with two tabs. *)
EXTENDS Session

CONSTANTS a, b
=============================================================================
