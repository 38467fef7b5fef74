------------------------ MODULE MCFileTransactions ------------------------
(* Small instances of FileTransactions for TLC: one run that changes a      *)
(* file twice, another that gets in its way once.                           *)
EXTENDS FileTransactions, TLC

CONSTANTS r1, r2

MCMaxCalls == (r1 :> 2) @@ (r2 :> 1)
MCSymmetry == Permutations(Content)
==========================================================================
