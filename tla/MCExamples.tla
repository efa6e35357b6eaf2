----------------------------- MODULE MCExamples -----------------------------
(***************************************************************************)
(* Instances of Examples for TLC: one example c and one request p to       *)
(* publish it, each on its own channel.                                    *)
(***************************************************************************)
EXTENDS Examples

CONSTANTS c, p, created, asked, k

Channels == [j \in Job |-> IF j = c THEN created ELSE asked]
Keys == [j \in Job |-> IF j = c THEN k ELSE NoKey]
Targets == [j \in Job |-> c]
OneAttempt == [j \in Job |-> 1]
TwoForRequests == [j \in Job |-> IF j = c THEN 1 ELSE 2]
=============================================================================
