------------------------------ MODULE EventLog ------------------------------
(* Table agent_events of one run: appended to by every process that works   *)
(* on it.  The index of an entry is its event_id.                           *)
EXTENDS Sequences, Naturals

CONSTANT NoUnit         \* of an event that does not name a delegation unit

VARIABLE log

LogInit == log = <<>>

Record(type, unit) == log' = Append(log, [type |-> type, unit |-> unit])
==========================================================================
