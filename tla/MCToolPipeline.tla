-------------------------- MODULE MCToolPipeline --------------------------
(* Small instances of ToolPipeline for TLC: a read, a write, a deletion, a  *)
(* shell command, a deletion with arguments its validator rejects, a call   *)
(* of no registered tool and one that cannot be read.                       *)
EXTENDS ToolPipeline

CONSTANTS read, write, delete, shell, misused, unknown, garbled

MCCall == {read, write, delete, shell, misused, unknown, garbled}
MCReadable == MCCall \ {garbled}
MCRegistered == MCReadable \ {unknown}
MCWellFormed == MCRegistered \ {misused}
MCRisk == [c \in MCRegistered |->
             CASE c = read -> "LOW" [] c = write -> "MEDIUM" [] OTHER -> "HIGH"]
==========================================================================
