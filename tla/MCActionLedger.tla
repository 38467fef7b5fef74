-------------------------- MODULE MCActionLedger --------------------------
(* Small instances of ActionLedger for TLC.                                *)
EXTENDS ActionLedger

CONSTANTS a1, a2, r1, w1, c1, shell, browser

\* Both actions belong to one run, so one decision may cover both; no worker
\* advertises the tool of the second, so only a continuation can claim it.
MCRunOf == [a \in {a1, a2} |-> r1]
MCToolOf == [a \in {a1, a2} |-> IF a = a1 THEN shell ELSE browser]
MCCapabilities == [w \in {w1} |-> {shell}]
==========================================================================
