------------------------- MODULE FileTransactions -------------------------
(***************************************************************************)
(* The tools that change the workspace: writes and deletes through         *)
(* TransactionManager, and containers of the Docker sandbox.  The lock of  *)
(* a run is on the name of its workspace, while all runs of one            *)
(* installation share one project directory: two runs can be at the same   *)
(* file.  A run has one transaction at a time (OneThreadPerRun) and each   *)
(* has a process of its own, which may die between any two steps.          *)
(***************************************************************************)
EXTENDS Naturals, Sequences

CONSTANTS
    RunId,
    File,           \* paths of regular files under the project directory
    Content,        \* texts; a text stands for its SHA-256 as well
    Missing,        \* no such file
    Torn,           \* what a reader finds in the middle of a copy
    NoFile,
    MaxCalls        \* bound: tool calls of each run

ASSUME FileConstants ==
    /\ Missing \notin Content /\ Torn \notin Content /\ Missing # Torn
    /\ NoFile \notin File
    /\ MaxCalls \in [RunId -> Nat]

Image == Content \cup {Missing, Torn}

VARIABLES
    disk,       \* project directory
    backup,     \* backups/<run>/: one file for each path, whatever the run did to it
    rows,       \* table file_backups, by run
    pc,         \* where the run's tool call is; see Place
    job,        \* the mutation: its path, and what is to be there (Missing: a delete)
    before,     \* FileSnapshot.original_hash
    source,     \* file that copy2 has opened to read
    told,       \* status of the run's last tool result
    box,        \* the run's container
    dead,       \* runs whose process has died
    used,       \* calls so far, for the bound
    clash       \* history: has another writer touched job.file since the call began?

work == <<pc, job, before, source, told>>
vars == <<disk, backup, rows, work, box, dead, used, clash>>

--------------------------------------------------------------------------
Place == {"idle", "copy", "copying", "apply", "check", "restore", "restoring",
          "record", "verify", "sandbox", "settled", "wrecked"}

NoJob == [file |-> NoFile, after |-> Missing]

FilesInit ==
    /\ disk \in [File -> Content \cup {Missing}]
    /\ backup = [r \in RunId |-> [f \in File |-> Missing]]
    /\ rows = [r \in RunId |-> <<>>]
    /\ pc = [r \in RunId |-> "idle"]
    /\ job = [r \in RunId |-> NoJob]
    /\ before = [r \in RunId |-> Missing]
    /\ source = [r \in RunId |-> Missing]
    /\ told = [r \in RunId |-> "none"]
    /\ box = [r \in RunId |-> "none"]
    /\ dead = {}
    /\ used = [r \in RunId |-> 0]
    /\ clash = [r \in RunId |-> FALSE]

Target(r)  == job[r].file
Existed(r) == before[r] # Missing
After(r)   == job[r].after

At(r, place) == r \notin dead /\ pc[r] = place
Goto(r, place) == pc' = [pc EXCEPT ![r] = place]
Settle(r, place, status) ==
    /\ Goto(r, place)
    /\ told' = [told EXCEPT ![r] = status]

Ready(r) == r \notin dead /\ pc[r] \in {"idle", "settled", "wrecked"} /\ used[r] < MaxCalls[r]

\* Everybody at f but those in own learns that f has changed.
Disturb(own, f) ==
    clash' = [q \in RunId |-> clash[q] \/ (q \notin own /\ job[q].file = f)]

\* r puts c where its target is.
Put(r, c) ==
    /\ disk' = [disk EXCEPT ![Target(r)] = c]
    /\ Disturb({r}, Target(r))

\* What a copy of c comes to: c, or anything if others write meanwhile.
Copied(r, c) == {c} \cup (IF clash[r] THEN {disk[Target(r)], Torn} \ {Missing} ELSE {})

--------------------------------------------------------------------------
(* TransactionManager._snapshot, outside the try block                     *)

TakeJob(r, f, c) ==
    /\ Ready(r)
    /\ used' = [used EXCEPT ![r] = @ + 1]
    /\ job' = [job EXCEPT ![r] = [file |-> f, after |-> c]]
    /\ before' = [before EXCEPT ![r] = IF f = NoFile THEN Missing ELSE disk[f]]
    /\ clash' = [clash EXCEPT ![r] = FALSE]

\* The path or the command is refused, there is nothing to delete or no Docker.
RefuseCall(r) ==
    /\ TakeJob(r, NoFile, Missing)
    /\ Settle(r, "settled", "ERROR")
    /\ UNCHANGED <<disk, backup, rows, source, box, dead>>

\* Faulty variant: the backup is left for later.
BeginWithoutBackup(r) ==
    /\ \E f \in File, c \in Content \cup {Missing} :
          /\ c = Missing => disk[f] # Missing
          /\ TakeJob(r, f, c)
    /\ Goto(r, "apply")
    /\ UNCHANGED <<disk, backup, rows, source, told, box, dead>>

BeginMutation(r) ==
    /\ \E f \in File, c \in Content \cup {Missing} :
          /\ c = Missing => disk[f] # Missing
          /\ TakeJob(r, f, c)
          /\ Goto(r, IF disk[f] # Missing THEN "copy" ELSE "apply")
    /\ UNCHANGED <<disk, backup, rows, source, told, box, dead>>

\* Faulty variant: what was there a moment ago is still there.
StartBackupUnseen(r) ==
    /\ At(r, "copy")
    /\ source' = [source EXCEPT ![r] = disk[Target(r)]]
    /\ backup' = [backup EXCEPT ![r][Target(r)] = Torn]
    /\ Goto(r, "copying")
    /\ UNCHANGED <<disk, rows, job, before, told, box, dead, used, clash>>

\* shutil.copy2 empties the backup of an earlier mutation before it fills it.
StartBackup(r) ==
    /\ At(r, "copy") /\ disk[Target(r)] # Missing
    /\ source' = [source EXCEPT ![r] = disk[Target(r)]]
    /\ backup' = [backup EXCEPT ![r][Target(r)] = Torn]
    /\ Goto(r, "copying")
    /\ UNCHANGED <<disk, rows, job, before, told, box, dead, used, clash>>

EndBackup(r) ==
    /\ At(r, "copying")
    /\ \E c \in Copied(r, source[r]) : backup' = [backup EXCEPT ![r][Target(r)] = c]
    /\ source' = [source EXCEPT ![r] = Missing]
    /\ Goto(r, "apply")
    /\ UNCHANGED <<disk, rows, job, before, told, box, dead, used, clash>>

\* Not a TransactionError: the handler raises, the router makes it TOOL_FAILURE.
BackupFails(r) ==
    /\ At(r, "copy") \/ At(r, "copying")
    /\ source' = [source EXCEPT ![r] = Missing]
    /\ Settle(r, "settled", "TOOL_FAILURE")
    /\ UNCHANGED <<disk, backup, rows, job, before, box, dead, used, clash>>

--------------------------------------------------------------------------
(* write_text and delete_file, inside the try block                        *)

\* Faulty variant: the text is written in place.
ApplyInPlace(r) ==
    /\ At(r, "apply")
    /\ After(r) = Missing => disk[Target(r)] # Missing
    /\ \/ After(r) # Missing /\ Put(r, Torn) /\ Goto(r, "apply")
       \/ Put(r, After(r)) /\ Goto(r, "check")
    /\ UNCHANGED <<backup, rows, job, before, source, told, box, dead, used>>

\* os.replace of a temporary file that is complete, or unlink.
Apply(r) ==
    /\ At(r, "apply")
    /\ After(r) = Missing => disk[Target(r)] # Missing
    /\ Put(r, After(r))
    /\ Goto(r, "check")
    /\ UNCHANGED <<backup, rows, job, before, source, told, box, dead, used>>

\* The hash is as expected, or the path is gone.
CheckApplied(r) ==
    /\ At(r, "check") /\ disk[Target(r)] = After(r)
    /\ Goto(r, "record")
    /\ UNCHANGED <<disk, backup, rows, job, before, source, told, box, dead, used, clash>>

\* A full disk, a missing directory, a file that has gone, a wrong hash.
OperationFails(r) ==
    /\ At(r, "apply") \/ At(r, "check")
    /\ Goto(r, "restore")
    /\ UNCHANGED <<disk, backup, rows, job, before, source, told, box, dead, used, clash>>

--------------------------------------------------------------------------
(* _rollback, in the except block                                          *)

\* Faulty variant: a file that was not there before stays.
RemoveNothing(r) ==
    /\ At(r, "restore") /\ ~Existed(r)
    /\ UNCHANGED <<disk, clash>>
    /\ Settle(r, "settled", "TRANSACTION_FAILED")
    /\ UNCHANGED <<backup, rows, job, before, source, box, dead, used>>

RemoveNew(r) ==
    /\ At(r, "restore") /\ ~Existed(r)
    /\ Put(r, Missing)
    /\ Settle(r, "settled", "TRANSACTION_FAILED")
    /\ UNCHANGED <<backup, rows, job, before, source, box, dead, used>>

StartRestore(r) ==
    /\ At(r, "restore") /\ Existed(r)
    /\ Put(r, Torn)
    /\ Goto(r, "restoring")
    /\ UNCHANGED <<backup, rows, job, before, source, told, box, dead, used>>

EndRestore(r) ==
    /\ At(r, "restoring")
    /\ \E c \in Copied(r, backup[r][Target(r)]) : Put(r, c)
    /\ Settle(r, "settled", "TRANSACTION_FAILED")
    /\ UNCHANGED <<backup, rows, job, before, source, box, dead, used>>

\* An error of the rollback replaces the TransactionError.
RestoreFails(r) ==
    /\ At(r, "restore") \/ At(r, "restoring")
    /\ Settle(r, IF pc[r] = "restore" THEN "settled" ELSE "wrecked", "TOOL_FAILURE")
    /\ UNCHANGED <<disk, backup, rows, job, before, source, box, dead, used, clash>>

--------------------------------------------------------------------------
(* MutationTools: the row of the backup, then the verification             *)

\* Faulty variant: an error of the database does not fail the call.
RecordIfPossible(r) ==
    /\ At(r, "record")
    /\ Goto(r, "verify")
    /\ UNCHANGED <<disk, backup, rows, job, before, source, told, box, dead, used, clash>>

RecordBackup(r) ==
    /\ At(r, "record")
    /\ rows' = [rows EXCEPT ![r] = Append(@, [file |-> Target(r), original |-> before[r]])]
    /\ Goto(r, "verify")
    /\ UNCHANGED <<disk, backup, job, before, source, told, box, dead, used, clash>>

\* sqlite3.Error is caught by nobody in the handler; the file stays changed.
RecordFails(r) ==
    /\ At(r, "record")
    /\ Settle(r, "settled", "TOOL_FAILURE")
    /\ UNCHANGED <<disk, backup, rows, job, before, source, box, dead, used, clash>>

\* verify_write_file, verify_delete_file: a second look.
VerifyMutation(r) ==
    /\ At(r, "verify")
    /\ Settle(r, "settled", IF disk[Target(r)] = After(r) THEN "SUCCESS" ELSE "PARTIAL")
    /\ UNCHANGED <<disk, backup, rows, job, before, source, box, dead, used, clash>>

--------------------------------------------------------------------------
(* execute_shell, execute_python: DockerSandboxExecutor.execute            *)

\* Bound: one container of a run at a time, left behind by its client or not; a
\* second would write to the same directory like the first.
StartSandbox(r) ==
    /\ box[r] = "none"
    /\ TakeJob(r, NoFile, Missing)
    /\ box' = [box EXCEPT ![r] = "running"]
    /\ Goto(r, "sandbox")
    /\ UNCHANGED <<disk, backup, rows, source, told, dead>>

\* The command writes where it likes in the mounted project directory.
BoxWrites(r) ==
    /\ box[r] = "running"
    /\ \E f \in File, c \in Content \cup {Missing} :
          /\ disk[f] # c
          /\ disk' = [disk EXCEPT ![f] = c]
          /\ Disturb({}, f)
    /\ UNCHANGED <<backup, rows, work, box, dead, used>>

BoxEnds(r) ==
    /\ box[r] = "running"
    /\ box' = [box EXCEPT ![r] = IF At(r, "sandbox") THEN "ended" ELSE "none"]
    /\ UNCHANGED <<disk, backup, rows, work, dead, used, clash>>

\* Exit code and stderr decide; verify_process doubts a clean exit with stderr.
EndSandbox(r) ==
    /\ At(r, "sandbox") /\ box[r] = "ended"
    /\ \E status \in {"SUCCESS", "PARTIAL", "ERROR"} : Settle(r, "settled", status)
    /\ box' = [box EXCEPT ![r] = "none"]
    /\ UNCHANGED <<disk, backup, rows, job, before, source, dead, used, clash>>

\* The client is killed, the container removed: best effort.  `docker rm` may
\* be refused, or hang until its own timeout is raised out of the handler.
SandboxTimesOut(r) ==
    /\ At(r, "sandbox") /\ box[r] = "running"
    /\ \/ Settle(r, "settled", "TIMEOUT") /\ box' = [box EXCEPT ![r] = "none"]
       \/ /\ \E status \in {"TIMEOUT", "TOOL_FAILURE"} : Settle(r, "settled", status)
          /\ UNCHANGED box
    /\ UNCHANGED <<disk, backup, rows, job, before, source, dead, used, clash>>

\* The process of the run dies; a container it waited for goes on.
Crash(r) ==
    /\ r \notin dead /\ pc[r] \notin {"idle", "settled", "wrecked"}
    /\ dead' = dead \cup {r}
    /\ UNCHANGED <<disk, backup, rows, work, box, used, clash>>

--------------------------------------------------------------------------
MutationStep(r) ==
    \/ RefuseCall(r) \/ BeginMutation(r)
    \/ StartBackup(r) \/ EndBackup(r) \/ BackupFails(r)
    \/ Apply(r) \/ CheckApplied(r) \/ OperationFails(r)
    \/ RemoveNew(r) \/ StartRestore(r) \/ EndRestore(r) \/ RestoreFails(r)
    \/ RecordBackup(r) \/ RecordFails(r) \/ VerifyMutation(r)

SandboxStep(r) ==
    \/ StartSandbox(r) \/ BoxWrites(r) \/ BoxEnds(r)
    \/ EndSandbox(r) \/ SandboxTimesOut(r)

FilesNext == \E r \in RunId : MutationStep(r) \/ SandboxStep(r) \/ Crash(r)

FilesSpec == FilesInit /\ [][FilesNext]_vars

--------------------------------------------------------------------------
(* Properties                                                              *)

Status == {"none", "SUCCESS", "PARTIAL", "TRANSACTION_FAILED", "TOOL_FAILURE", "TIMEOUT",
           "ERROR"}

Job == [file : File \cup {NoFile}, after : Content \cup {Missing}]

FilesTypeOK ==
    /\ disk \in [File -> Image]
    /\ backup \in [RunId -> [File -> Image]]
    /\ rows \in [RunId -> Seq([file : File, original : Image])]
    /\ pc \in [RunId -> Place] /\ job \in [RunId -> Job]
    /\ before \in [RunId -> Image] /\ source \in [RunId -> Image]
    /\ \A r \in RunId : source[r] # Missing <=> pc[r] = "copying"
    /\ told \in [RunId -> Status]
    /\ box \in [RunId -> {"none", "running", "ended"}]
    /\ dead \subseteq RunId /\ used \in [RunId -> Nat] /\ clash \in [RunId -> BOOLEAN]

\* A mutation that no other run and no container has interfered with.
Undisturbed(r) == job[r].file # NoFile /\ ~clash[r]

(* A file is what it was or what it is to become, whatever fails and       *)
(* wherever the process dies; only a rollback that is under way or has     *)
(* broken off shows anything else (transaction_manager.py:49-53, 107).     *)
OldOrNew ==
    \A r \in RunId :
        (Undisturbed(r) /\ pc[r] \notin {"restoring", "wrecked"}) =>
            disk[Target(r)] \in {before[r], After(r)}

(* TRANSACTION_FAILED means that nothing has changed, also when the        *)
(* operation had been carried out and its check failed                     *)
(* (transaction_manager.py:59, 76).                                        *)
FailureRestores ==
    \A r \in RunId :
        (Undisturbed(r) /\ pc[r] = "settled" /\ told[r] = "TRANSACTION_FAILED") =>
            disk[Target(r)] = before[r]

(* From the moment a file has changed, what it was lies beside it: also    *)
(* after a crash, after a rollback that broke off and when the database    *)
(* refused the row (transaction_manager.py:94).                            *)
BeforeImageKept ==
    \A r \in RunId :
        (Undisturbed(r) /\ Existed(r) /\ disk[Target(r)] # before[r]) =>
            backup[r][Target(r)] = before[r]

(* A mutation reported as SUCCESS is on the disk, and its newest row in    *)
(* file_backups names what it replaced; unless the file did not exist, the *)
(* backup that row points to holds just that, whatever the run did to the  *)
(* path before (mutation.py:116-127, 206).                                 *)
SuccessIsReversible ==
    \A r \in RunId :
        (job[r].file # NoFile /\ pc[r] = "settled" /\ told[r] = "SUCCESS") =>
            /\ rows[r] # <<>>
            /\ rows[r][Len(rows[r])] = [file |-> Target(r), original |-> before[r]]
            /\ ~clash[r] => disk[Target(r)] = After(r)
            /\ (~clash[r] /\ Existed(r)) => backup[r][Target(r)] = before[r]

==========================================================================
