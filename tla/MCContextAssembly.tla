------------------------ MODULE MCContextAssembly ------------------------
(* Small instances of ContextAssembly for TLC: lengths around the limits of *)
(* _truncate_with_line_range, one run that searches and others that store.  *)
EXTENDS ContextAssembly, TLC

CONSTANTS r1, w1, v1, v2, k1, k2

Kept(k, v, stale_, until) == k :> [key |-> k, value |-> v, stale |-> stale_, expires |-> until]

MCEarlier ==
    { <<>>, Kept(k1, v1, FALSE, 1), Kept(k1, v2, TRUE, Never),
      Kept(k1, v1, FALSE, Never) @@ Kept(k2, v2, FALSE, Never) }

MCMaxCalls == (r1 :> 1) @@ (w1 :> 2)
MCLengthOf == (v1 :> 50) @@ (v2 :> 85)

MCResult ==
    { [text |-> "a", length |-> 30, verified |-> TRUE],
      [text |-> "a", length |-> 30, verified |-> FALSE],
      [text |-> "b", length |-> 70, verified |-> TRUE] }

\* Four short lines, one long line, a hundred lines.
MCText == { <<40, 80, 120, 160>>, <<400>>, [n \in 1..100 |-> 3 * n] }
\* The assembly is followed to its end where nobody stored before it: of the
\* memory it sees the hits only.
MCNext ==
    /\ (stage = "recall" /\ pc[Reader] = "idle") => (pc[w1] = "idle" /\ told[w1] = "none")
    /\ ContextNext

MCSpec == ContextInit /\ [][MCNext]_<<memoryVars, contextVars>>
==========================================================================
