---------------------- MODULE FileTransactionsProofs ----------------------
(* Theorems about FileTransactions, for every set of runs, files and texts  *)
(* and any number of calls.                                                 *)
EXTENDS FileTransactions, TLAPS

--------------------------------------------------------------------------
(* The inductive invariant                                                 *)

\* Where the process stands tells whether it has a mutation in hand, and what
\* its last answer says is in the table.
Placed(r) ==
    /\ pc[r] \in {"idle", "sandbox"} => job[r].file = NoFile
    /\ pc[r] \notin {"idle", "sandbox", "settled"} => job[r].file # NoFile
    /\ pc[r] \in {"copy", "copying", "restoring", "wrecked"} => Existed(r)
    /\ (pc[r] = "verify" \/ (pc[r] = "settled" /\ told[r] = "SUCCESS" /\ job[r].file # NoFile)) =>
          /\ rows[r] # <<>>
          /\ rows[r][Len(rows[r])] = [file |-> Target(r), original |-> before[r]]

\* What the file and its backup hold at each place when nobody interferes.
Imaged(r) ==
    LET now  == disk[Target(r)]
        kept == Existed(r) => backup[r][Target(r)] = before[r]
    IN  /\ pc[r] \in {"copy", "copying"} => now = before[r]
        /\ pc[r] = "copying" => source[r] = before[r]
        /\ pc[r] = "apply" => now = before[r] /\ kept
        /\ pc[r] \in {"check", "record", "verify"} => now = After(r) /\ kept
        /\ pc[r] = "restore" => now \in {before[r], After(r)} /\ kept
        /\ pc[r] \in {"restoring", "wrecked"} => kept
        /\ pc[r] = "settled" =>
              /\ now \in {before[r], After(r)}
              /\ now # before[r] => kept
              /\ told[r] = "TRANSACTION_FAILED" => now = before[r]
              /\ told[r] = "SUCCESS" => now = After(r) /\ kept

RunOK(r) == Placed(r) /\ (Undisturbed(r) => Imaged(r))

FInv == FilesTypeOK /\ \A r \in RunId : RunOK(r)

--------------------------------------------------------------------------
(* Steps                                                                   *)

\* What a step of r leaves of the other runs.
Apart(r) ==
    \A q \in RunId \ {r} :
        /\ pc'[q] = pc[q] /\ job'[q] = job[q] /\ before'[q] = before[q]
        /\ source'[q] = source[q] /\ told'[q] = told[q] /\ rows'[q] = rows[q]
        /\ backup'[q] = backup[q]
        /\ clash[q] => clash'[q]
        /\ ~clash'[q] /\ job[q].file # NoFile => disk'[job[q].file] = disk[job[q].file]

\* A run keeps its part of the invariant while another one takes a step.
LEMMA OthersKeep ==
    ASSUME FInv, FilesTypeOK', NEW r \in RunId, Apart(r), NEW q \in RunId, q # r
    PROVE  RunOK(q)'
<1>1. RunOK(q)
  BY DEF FInv
<1>2. /\ pc'[q] = pc[q] /\ job'[q] = job[q] /\ before'[q] = before[q]
      /\ source'[q] = source[q] /\ told'[q] = told[q] /\ rows'[q] = rows[q]
      /\ backup'[q] = backup[q]
      /\ clash[q] => clash'[q]
      /\ ~clash'[q] /\ job[q].file # NoFile => disk'[job[q].file] = disk[job[q].file]
  BY DEF Apart
<1>3. Placed(q)'
  BY <1>1, <1>2 DEF RunOK, Placed, Existed, Target
<1>4. Undisturbed(q)' => Imaged(q)'
  BY <1>1, <1>2 DEF RunOK, Imaged, Undisturbed, Existed, Target, After
<1> QED
  BY <1>3, <1>4 DEF RunOK

\* Faces of the type invariant that the steps need.
LEMMA TypesOf ==
    ASSUME FilesTypeOK, NEW r \in RunId
    PROVE  /\ job[r].file \in File \cup {NoFile} /\ job[r].after \in Content \cup {Missing}
           /\ before[r] \in Image /\ source[r] \in Image /\ backup[r] \in [File -> Image]
           /\ rows[r] \in Seq([file : File, original : Image])
           /\ pc[r] \in Place /\ told[r] \in Status /\ clash[r] \in BOOLEAN
  BY DEF FilesTypeOK, Job

THEOREM FilesInitInv == FilesInit => FInv
<1> SUFFICES ASSUME FilesInit PROVE FInv
  OBVIOUS
<1>1. NoJob \in Job
  BY DEF NoJob, Job
<1>2. FilesTypeOK
  BY <1>1 DEF FilesInit, FilesTypeOK, Image, Place, Status
<1>3. ASSUME NEW r \in RunId PROVE RunOK(r)
  BY DEF FilesInit, RunOK, Placed, Imaged, Undisturbed, NoJob
<1> QED
  BY <1>2, <1>3 DEF FInv

LEMMA CallTaken ==
    ASSUME FInv, NEW r \in RunId, NEW f \in File \cup {NoFile}, NEW c \in Content \cup {Missing},
           TakeJob(r, f, c)
    PROVE  /\ job' \in [RunId -> Job] /\ job'[r] = [file |-> f, after |-> c]
           /\ before' \in [RunId -> Image]
           /\ before'[r] = IF f = NoFile THEN Missing ELSE disk[f]
           /\ used' \in [RunId -> Nat]
           /\ clash' \in [RunId -> BOOLEAN] /\ ~clash'[r]
           /\ pc[r] \in {"idle", "settled", "wrecked"} /\ source[r] = Missing
           /\ \A q \in RunId \ {r} : job'[q] = job[q] /\ before'[q] = before[q] /\ clash'[q] = clash[q]
<1>1. [file |-> f, after |-> c] \in Job
  BY DEF Job
<1>2. (IF f = NoFile THEN Missing ELSE disk[f]) \in Image
  BY DEF FInv, FilesTypeOK, Image
<1>3. job' = [job EXCEPT ![r] = [file |-> f, after |-> c]]
  BY DEF TakeJob
<1> QED
  BY <1>1, <1>2, <1>3 DEF FInv, FilesTypeOK, TakeJob, Ready

\* Everything but the file and the witnesses of a change stays for the others.
LEMMA PutDisturbs ==
    ASSUME FInv, NEW r \in RunId, job[r].file # NoFile, NEW c \in Image, Put(r, c)
    PROVE  /\ disk' \in [File -> Image] /\ disk'[Target(r)] = c
           /\ clash' \in [RunId -> BOOLEAN] /\ clash'[r] = clash[r]
           /\ \A q \in RunId \ {r} :
                 /\ clash[q] => clash'[q]
                 /\ ~clash'[q] /\ job[q].file # NoFile => disk'[job[q].file] = disk[job[q].file]
<1>1. Target(r) \in File
  BY TypesOf DEF FInv, Target
<1>2. /\ disk' = [disk EXCEPT ![Target(r)] = c]
      /\ clash' = [q \in RunId |-> clash[q] \/ (q \notin {r} /\ job[q].file = Target(r))]
  BY DEF Put, Disturb
<1>3. disk' \in [File -> Image] /\ disk'[Target(r)] = c
  BY <1>1, <1>2 DEF FInv, FilesTypeOK
<1>4. \A q \in RunId : clash'[q] = (clash[q] \/ (q \notin {r} /\ job[q].file = Target(r)))
  BY <1>2, Zenon
<1>5. clash' \in [RunId -> BOOLEAN]
  BY <1>2, Zenon DEF FInv, FilesTypeOK
<1>6. clash'[r] = clash[r]
  <2>1. r \notin {r} <=> FALSE
    OBVIOUS
  <2>2. clash[r] \in BOOLEAN /\ clash'[r] \in BOOLEAN
    BY <1>5 DEF FInv, FilesTypeOK
  <2> QED
    BY <1>4, <2>1, <2>2
<1>7. ASSUME NEW q \in RunId \ {r} PROVE clash[q] => clash'[q]
  BY <1>4, Zenon
<1>8. ASSUME NEW q \in RunId \ {r}, ~clash'[q], job[q].file # NoFile
      PROVE  disk'[job[q].file] = disk[job[q].file]
  <2>1. job[q].file # Target(r)
    BY <1>4, <1>8, Zenon
  <2>2. job[q].file \in File
    BY <1>8, TypesOf DEF FInv
  <2> QED
    BY <1>2, <2>1, <2>2 DEF FInv, FilesTypeOK
<1> QED
  BY <1>3, <1>5, <1>6, <1>7, <1>8

LEMMA StepRefuseCall ==
    ASSUME FInv, NEW r \in RunId, RefuseCall(r) PROVE FInv'
<1>1. TakeJob(r, NoFile, Missing)
  BY DEF RefuseCall
<1>2. FilesTypeOK'
  BY <1>1, CallTaken DEF FInv, FilesTypeOK, RefuseCall, Settle, Goto, Place, Status
<1>3. RunOK(r)'
  <2>1. job'[r] = [file |-> NoFile, after |-> Missing]
    BY <1>1, CallTaken
  <2>2. pc'[r] = "settled" /\ told'[r] = "ERROR"
    BY DEF FInv, FilesTypeOK, RefuseCall, Settle, Goto
  <2> QED
    BY <2>1, <2>2 DEF RunOK, Placed, Undisturbed
<1>4. Apart(r)
  BY ZenonT(40), <1>1, CallTaken DEF FInv, FilesTypeOK, RefuseCall, Settle, Goto, Apart
<1> QED
  BY <1>2, <1>3, <1>4, OthersKeep DEF FInv

LEMMA StepBeginMutation ==
    ASSUME FInv, NEW r \in RunId, BeginMutation(r) PROVE FInv'
<1>1. PICK f \in File, c \in Content \cup {Missing} :
          /\ TakeJob(r, f, c)
          /\ pc' = [pc EXCEPT ![r] = IF disk[f] # Missing THEN "copy" ELSE "apply"]
  BY DEF BeginMutation, Goto
<1>2. f # NoFile
  BY FileConstants
<1>3. FilesTypeOK'
  BY <1>1, CallTaken DEF FInv, FilesTypeOK, BeginMutation, Place
<1>4. RunOK(r)'
  <2>1. /\ job'[r] = [file |-> f, after |-> c]
        /\ before'[r] = IF f = NoFile THEN Missing ELSE disk[f]
        /\ disk' = disk
    BY <1>1, CallTaken DEF BeginMutation
  <2>2. pc'[r] = IF disk[f] # Missing THEN "copy" ELSE "apply"
    BY <1>1 DEF FInv, FilesTypeOK
  <2>3. Placed(r)'
    BY <1>2, <2>1, <2>2 DEF Placed, Existed
  <2>4. Imaged(r)'
    BY <1>2, <2>1, <2>2 DEF Imaged, Existed, Target
  <2> QED
    BY <2>3, <2>4 DEF RunOK
<1>5. Apart(r)
  BY ZenonT(40), <1>1, CallTaken DEF FInv, FilesTypeOK, BeginMutation, Apart
<1> QED
  BY <1>3, <1>4, <1>5, OthersKeep DEF FInv
LEMMA StepBackupFails ==
    ASSUME FInv, NEW r \in RunId, BackupFails(r) PROVE FInv'
<1>1. RunOK(r) /\ Target(r) \in File \cup {NoFile} /\ r \in RunId
  BY TypesOf DEF FInv, Target
<1>2. FilesTypeOK'
  BY <1>1 DEF FInv, FilesTypeOK, BackupFails, At, Settle, Goto, Place, Status, Image, RunOK, Placed
<1>3. RunOK(r)'
  BY <1>1 DEF FInv, FilesTypeOK, BackupFails, At, Settle, Goto, RunOK, Placed, Imaged, Undisturbed, Target,
              Existed, After
<1>4. Apart(r)
  BY DEF FInv, FilesTypeOK, BackupFails, At, Settle, Goto, Apart
<1> QED
  BY <1>2, <1>3, <1>4, OthersKeep DEF FInv

LEMMA StepCheckApplied ==
    ASSUME FInv, NEW r \in RunId, CheckApplied(r) PROVE FInv'
<1>1. RunOK(r) /\ Target(r) \in File \cup {NoFile} /\ r \in RunId
  BY TypesOf DEF FInv, Target
<1>2. FilesTypeOK'
  BY <1>1 DEF FInv, FilesTypeOK, CheckApplied, At, Goto, Place, Status, Image, RunOK, Placed
<1>3. RunOK(r)'
  BY <1>1 DEF FInv, FilesTypeOK, CheckApplied, At, Goto, RunOK, Placed, Imaged, Undisturbed, Target,
              Existed, After
<1>4. Apart(r)
  BY DEF FInv, FilesTypeOK, CheckApplied, At, Goto, Apart
<1> QED
  BY <1>2, <1>3, <1>4, OthersKeep DEF FInv

LEMMA StepOperationFails ==
    ASSUME FInv, NEW r \in RunId, OperationFails(r) PROVE FInv'
<1>1. RunOK(r) /\ Target(r) \in File \cup {NoFile} /\ r \in RunId
  BY TypesOf DEF FInv, Target
<1>2. FilesTypeOK'
  BY <1>1 DEF FInv, FilesTypeOK, OperationFails, At, Goto, Place, Status, Image, RunOK, Placed
<1>3. RunOK(r)'
  BY <1>1 DEF FInv, FilesTypeOK, OperationFails, At, Goto, RunOK, Placed, Imaged, Undisturbed, Target,
              Existed, After
<1>4. Apart(r)
  BY DEF FInv, FilesTypeOK, OperationFails, At, Goto, Apart
<1> QED
  BY <1>2, <1>3, <1>4, OthersKeep DEF FInv

LEMMA StepRestoreFails ==
    ASSUME FInv, NEW r \in RunId, RestoreFails(r) PROVE FInv'
<1>1. RunOK(r) /\ Target(r) \in File \cup {NoFile} /\ r \in RunId
  BY TypesOf DEF FInv, Target
<1>2. FilesTypeOK'
  BY <1>1 DEF FInv, FilesTypeOK, RestoreFails, At, Settle, Goto, Place, Status, Image, RunOK, Placed
<1>3. RunOK(r)'
  BY <1>1 DEF FInv, FilesTypeOK, RestoreFails, At, Settle, Goto, RunOK, Placed, Imaged, Undisturbed, Target,
              Existed, After
<1>4. Apart(r)
  BY DEF FInv, FilesTypeOK, RestoreFails, At, Settle, Goto, Apart
<1> QED
  BY <1>2, <1>3, <1>4, OthersKeep DEF FInv

LEMMA StepRecordFails ==
    ASSUME FInv, NEW r \in RunId, RecordFails(r) PROVE FInv'
<1>1. RunOK(r) /\ Target(r) \in File \cup {NoFile} /\ r \in RunId
  BY TypesOf DEF FInv, Target
<1>2. FilesTypeOK'
  BY <1>1 DEF FInv, FilesTypeOK, RecordFails, At, Settle, Goto, Place, Status, Image, RunOK, Placed
<1>3. RunOK(r)'
  BY <1>1 DEF FInv, FilesTypeOK, RecordFails, At, Settle, Goto, RunOK, Placed, Imaged, Undisturbed, Target,
              Existed, After
<1>4. Apart(r)
  BY DEF FInv, FilesTypeOK, RecordFails, At, Settle, Goto, Apart
<1> QED
  BY <1>2, <1>3, <1>4, OthersKeep DEF FInv

LEMMA StepVerifyMutation ==
    ASSUME FInv, NEW r \in RunId, VerifyMutation(r) PROVE FInv'
<1>1. RunOK(r) /\ Target(r) \in File \cup {NoFile} /\ r \in RunId
  BY TypesOf DEF FInv, Target
<1>2. FilesTypeOK'
  BY <1>1 DEF FInv, FilesTypeOK, VerifyMutation, At, Settle, Goto, Place, Status, Image, RunOK, Placed
<1>3. RunOK(r)'
  BY <1>1 DEF FInv, FilesTypeOK, VerifyMutation, At, Settle, Goto, RunOK, Placed, Imaged, Undisturbed, Target,
              Existed, After
<1>4. Apart(r)
  BY DEF FInv, FilesTypeOK, VerifyMutation, At, Settle, Goto, Apart
<1> QED
  BY <1>2, <1>3, <1>4, OthersKeep DEF FInv

LEMMA StepEndSandbox ==
    ASSUME FInv, NEW r \in RunId, EndSandbox(r) PROVE FInv'
<1>1. RunOK(r) /\ Target(r) \in File \cup {NoFile} /\ r \in RunId
  BY TypesOf DEF FInv, Target
<1>2. FilesTypeOK'
  <2>1. pc[r] = "sandbox" /\ pc' = [pc EXCEPT ![r] = "settled"]
    BY DEF EndSandbox, At, Settle, Goto
  <2>2. told' \in [RunId -> Status]
    <3>1. PICK s \in Status : told' = [told EXCEPT ![r] = s]
      BY DEF EndSandbox, Settle, Status
    <3> QED
      BY <3>1 DEF FInv, FilesTypeOK
  <2>3. box' \in [RunId -> {"none", "running", "ended"}]
    BY DEF FInv, FilesTypeOK, EndSandbox
  <2>4. /\ pc' \in [RunId -> Place]
        /\ \A q \in RunId : pc'[q] = "copying" <=> pc[q] = "copying"
    BY <2>1 DEF FInv, FilesTypeOK, Place
  <2>5. /\ source' = source /\ disk' = disk /\ backup' = backup /\ rows' = rows
        /\ job' = job /\ before' = before /\ dead' = dead /\ used' = used /\ clash' = clash
    BY DEF EndSandbox
  <2> QED
    BY <2>2, <2>3, <2>4, <2>5 DEF FInv, FilesTypeOK
<1>3. RunOK(r)'
  <2>1. job'[r].file = NoFile /\ pc'[r] = "settled"
    BY <1>1 DEF FInv, FilesTypeOK, EndSandbox, At, Settle, Goto, RunOK, Placed
  <2> QED
    BY <2>1 DEF RunOK, Placed, Undisturbed
<1>4. Apart(r)
  BY DEF FInv, FilesTypeOK, EndSandbox, At, Settle, Goto, Apart
<1> QED
  BY <1>2, <1>3, <1>4, OthersKeep DEF FInv

LEMMA StepSandboxTimesOut ==
    ASSUME FInv, NEW r \in RunId, SandboxTimesOut(r) PROVE FInv'
<1>1. RunOK(r) /\ Target(r) \in File \cup {NoFile} /\ r \in RunId
  BY TypesOf DEF FInv, Target
<1>2. FilesTypeOK'
  <2>1. pc[r] = "sandbox" /\ pc' = [pc EXCEPT ![r] = "settled"]
    BY DEF SandboxTimesOut, At, Settle, Goto
  <2>2. told' \in [RunId -> Status]
    <3>1. PICK s \in Status : told' = [told EXCEPT ![r] = s]
      BY DEF SandboxTimesOut, Settle, Status
    <3> QED
      BY <3>1 DEF FInv, FilesTypeOK
  <2>3. box' \in [RunId -> {"none", "running", "ended"}]
    BY DEF FInv, FilesTypeOK, SandboxTimesOut
  <2>4. /\ pc' \in [RunId -> Place]
        /\ \A q \in RunId : pc'[q] = "copying" <=> pc[q] = "copying"
    BY <2>1 DEF FInv, FilesTypeOK, Place
  <2>5. /\ source' = source /\ disk' = disk /\ backup' = backup /\ rows' = rows
        /\ job' = job /\ before' = before /\ dead' = dead /\ used' = used /\ clash' = clash
    BY DEF SandboxTimesOut
  <2> QED
    BY <2>2, <2>3, <2>4, <2>5 DEF FInv, FilesTypeOK
<1>3. RunOK(r)'
  <2>1. job'[r].file = NoFile /\ pc'[r] = "settled"
    BY <1>1 DEF FInv, FilesTypeOK, SandboxTimesOut, At, Settle, Goto, RunOK, Placed
  <2> QED
    BY <2>1 DEF RunOK, Placed, Undisturbed
<1>4. Apart(r)
  BY DEF FInv, FilesTypeOK, SandboxTimesOut, At, Settle, Goto, Apart
<1> QED
  BY <1>2, <1>3, <1>4, OthersKeep DEF FInv

LEMMA StepStartBackup ==
    ASSUME FInv, NEW r \in RunId, StartBackup(r) PROVE FInv'
<1>1. RunOK(r) /\ pc[r] \in Place /\ job[r].file # NoFile
  BY DEF FInv, FilesTypeOK, RunOK, Placed, StartBackup, At
<1>2. Target(r) \in File
  BY <1>1, TypesOf DEF FInv, Target
<1>3. backup' \in [RunId -> [File -> Image]] /\ disk[Target(r)] \in Image
  BY <1>2 DEF FInv, FilesTypeOK, StartBackup, Image
<1>4. FilesTypeOK'
  BY <1>3 DEF FInv, FilesTypeOK, StartBackup, At, Goto, Place
<1>5. RunOK(r)'
  BY <1>1 DEF FInv, FilesTypeOK, StartBackup, At, Goto, RunOK, Placed, Imaged, Undisturbed, Target,
              Existed
<1>6. Apart(r)
  BY DEF FInv, FilesTypeOK, StartBackup, At, Goto, Apart
<1> QED
  BY <1>4, <1>5, <1>6, OthersKeep DEF FInv

LEMMA StepEndBackup ==
    ASSUME FInv, NEW r \in RunId, EndBackup(r) PROVE FInv'
<1>1. RunOK(r) /\ pc[r] \in Place /\ job[r].file # NoFile
  BY DEF FInv, FilesTypeOK, RunOK, Placed, EndBackup, At
<1>2. Target(r) \in File
  BY <1>1, TypesOf DEF FInv, Target
<1>3. source[r] \in Image /\ disk[Target(r)] \in Image
  BY <1>2, TypesOf DEF FInv, FilesTypeOK
<1>4. PICK c \in Copied(r, source[r]) : backup' = [backup EXCEPT ![r][Target(r)] = c]
  BY DEF EndBackup
<1>5. c \in Image /\ (~clash[r] => c = source[r])
  BY <1>3, <1>4 DEF Copied, Image
<1>6. backup' \in [RunId -> [File -> Image]] /\ backup'[r][Target(r)] = c
      /\ \A q \in RunId \ {r} : backup'[q] = backup[q]
  BY <1>2, <1>4, <1>5 DEF FInv, FilesTypeOK
<1>7. FilesTypeOK'
  BY <1>6 DEF FInv, FilesTypeOK, EndBackup, At, Goto, Place, Image
<1>8. RunOK(r)'
  BY <1>1, <1>5, <1>6 DEF FInv, FilesTypeOK, EndBackup, At, Goto, RunOK, Placed, Imaged,
                          Undisturbed, Target, Existed
<1>9. Apart(r)
  BY <1>6 DEF FInv, FilesTypeOK, EndBackup, At, Goto, Apart
<1> QED
  BY <1>7, <1>8, <1>9, OthersKeep DEF FInv

LEMMA AppendedLast ==
    ASSUME NEW S, NEW s \in Seq(S), NEW e \in S
    PROVE  Append(s, e) # <<>> /\ Append(s, e)[Len(Append(s, e))] = e
  OBVIOUS

LEMMA StepRecordBackup ==
    ASSUME FInv, NEW r \in RunId, RecordBackup(r) PROVE FInv'
<1>1. RunOK(r) /\ pc[r] \in Place /\ job[r].file # NoFile
  BY DEF FInv, FilesTypeOK, RunOK, Placed, RecordBackup, At
<1>2. Target(r) \in File
  BY <1>1, TypesOf DEF FInv, Target
<1> DEFINE Row == [file : File, original : Image]
           row == [file |-> Target(r), original |-> before[r]]
<1>3. /\ row \in Row /\ rows \in [RunId -> Seq(Row)]
      /\ rows' = [rows EXCEPT ![r] = Append(rows[r], row)]
  BY <1>2, TypesOf DEF FInv, FilesTypeOK, RecordBackup
<1> HIDE DEF row, Row
<1>4. /\ rows' \in [RunId -> Seq(Row)] /\ rows[r] \in Seq(Row)
      /\ rows'[r] = Append(rows[r], row)
      /\ \A q \in RunId \ {r} : rows'[q] = rows[q]
  BY <1>3
<1>5. rows'[r] # <<>> /\ rows'[r][Len(rows'[r])] = row
  BY <1>3, <1>4, AppendedLast
<1>6. FilesTypeOK'
  BY <1>4 DEF FInv, FilesTypeOK, RecordBackup, At, Goto, Place, Row
<1>7. RunOK(r)'
  BY <1>1, <1>5 DEF FInv, FilesTypeOK, RecordBackup, At, Goto, RunOK, Placed, Imaged, Undisturbed,
                    Target, Existed, After, row
<1>8. Apart(r)
  BY <1>4 DEF FInv, FilesTypeOK, RecordBackup, At, Goto, Apart
<1> QED
  BY <1>6, <1>7, <1>8, OthersKeep DEF FInv

LEMMA StepApply ==
    ASSUME FInv, NEW r \in RunId, Apply(r) PROVE FInv'
<1>1. RunOK(r) /\ pc[r] \in Place /\ job[r].file # NoFile
  BY DEF FInv, FilesTypeOK, RunOK, Placed, Apply, At
<1>2. Target(r) \in File
  BY <1>1, TypesOf DEF FInv, Target
<1>3. After(r) \in Image /\ Put(r, After(r))
  BY <1>1, TypesOf DEF FInv, Apply, Image, After
<1>4. /\ disk' \in [File -> Image] /\ disk'[Target(r)] = After(r)
      /\ clash' \in [RunId -> BOOLEAN] /\ clash'[r] = clash[r]
      /\ \A q \in RunId \ {r} :
            /\ clash[q] => clash'[q]
            /\ ~clash'[q] /\ job[q].file # NoFile => disk'[job[q].file] = disk[job[q].file]
  BY <1>1, <1>3, PutDisturbs
<1>5. FilesTypeOK'
  BY <1>4 DEF FInv, FilesTypeOK, Apply, At, Settle, Goto, Place, Status
<1>6. RunOK(r)'
  BY <1>1, <1>4 DEF FInv, FilesTypeOK, Apply, At, Settle, Goto, RunOK, Placed, Imaged, Undisturbed,
                    Target, Existed, After
<1>7. Apart(r)
  BY <1>4 DEF FInv, FilesTypeOK, Apply, At, Settle, Goto, Apart
<1> QED
  BY <1>5, <1>6, <1>7, OthersKeep DEF FInv

LEMMA StepRemoveNew ==
    ASSUME FInv, NEW r \in RunId, RemoveNew(r) PROVE FInv'
<1>1. RunOK(r) /\ pc[r] \in Place /\ job[r].file # NoFile
  BY DEF FInv, FilesTypeOK, RunOK, Placed, RemoveNew, At
<1>2. Target(r) \in File
  BY <1>1, TypesOf DEF FInv, Target
<1>3. Missing \in Image /\ Put(r, Missing)
  BY <1>1, TypesOf DEF FInv, RemoveNew, Image, After
<1>4. /\ disk' \in [File -> Image] /\ disk'[Target(r)] = Missing
      /\ clash' \in [RunId -> BOOLEAN] /\ clash'[r] = clash[r]
      /\ \A q \in RunId \ {r} :
            /\ clash[q] => clash'[q]
            /\ ~clash'[q] /\ job[q].file # NoFile => disk'[job[q].file] = disk[job[q].file]
  BY <1>1, <1>3, PutDisturbs
<1>5. FilesTypeOK'
  BY <1>4 DEF FInv, FilesTypeOK, RemoveNew, At, Settle, Goto, Place, Status
<1>6. RunOK(r)'
  BY <1>1, <1>4 DEF FInv, FilesTypeOK, RemoveNew, At, Settle, Goto, RunOK, Placed, Imaged, Undisturbed,
                    Target, Existed, After
<1>7. Apart(r)
  BY <1>4 DEF FInv, FilesTypeOK, RemoveNew, At, Settle, Goto, Apart
<1> QED
  BY <1>5, <1>6, <1>7, OthersKeep DEF FInv

LEMMA StepStartRestore ==
    ASSUME FInv, NEW r \in RunId, StartRestore(r) PROVE FInv'
<1>1. RunOK(r) /\ pc[r] \in Place /\ job[r].file # NoFile
  BY DEF FInv, FilesTypeOK, RunOK, Placed, StartRestore, At
<1>2. Target(r) \in File
  BY <1>1, TypesOf DEF FInv, Target
<1>3. Torn \in Image /\ Put(r, Torn)
  BY <1>1, TypesOf DEF FInv, StartRestore, Image, After
<1>4. /\ disk' \in [File -> Image] /\ disk'[Target(r)] = Torn
      /\ clash' \in [RunId -> BOOLEAN] /\ clash'[r] = clash[r]
      /\ \A q \in RunId \ {r} :
            /\ clash[q] => clash'[q]
            /\ ~clash'[q] /\ job[q].file # NoFile => disk'[job[q].file] = disk[job[q].file]
  BY <1>1, <1>3, PutDisturbs
<1>5. FilesTypeOK'
  BY <1>4 DEF FInv, FilesTypeOK, StartRestore, At, Settle, Goto, Place, Status
<1>6. RunOK(r)'
  BY <1>1, <1>4 DEF FInv, FilesTypeOK, StartRestore, At, Settle, Goto, RunOK, Placed, Imaged, Undisturbed,
                    Target, Existed, After
<1>7. Apart(r)
  BY <1>4 DEF FInv, FilesTypeOK, StartRestore, At, Settle, Goto, Apart
<1> QED
  BY <1>5, <1>6, <1>7, OthersKeep DEF FInv

LEMMA StepEndRestore ==
    ASSUME FInv, NEW r \in RunId, EndRestore(r) PROVE FInv'
<1>1. RunOK(r) /\ pc[r] \in Place /\ job[r].file # NoFile
  BY DEF FInv, FilesTypeOK, RunOK, Placed, EndRestore, At
<1>2. Target(r) \in File
  BY <1>1, TypesOf DEF FInv, Target
<1>3. backup[r][Target(r)] \in Image /\ disk[Target(r)] \in Image
  BY <1>2, TypesOf DEF FInv, FilesTypeOK
<1>4. PICK c \in Copied(r, backup[r][Target(r)]) : Put(r, c)
  BY DEF EndRestore
<1>5. c \in Image /\ (~clash[r] => c = backup[r][Target(r)])
  BY <1>3, <1>4 DEF Copied, Image
<1>6. /\ disk' \in [File -> Image] /\ disk'[Target(r)] = c
      /\ clash' \in [RunId -> BOOLEAN] /\ clash'[r] = clash[r]
      /\ \A q \in RunId \ {r} :
            /\ clash[q] => clash'[q]
            /\ ~clash'[q] /\ job[q].file # NoFile => disk'[job[q].file] = disk[job[q].file]
  BY <1>1, <1>4, <1>5, PutDisturbs
<1>7. FilesTypeOK'
  BY <1>6 DEF FInv, FilesTypeOK, EndRestore, At, Settle, Goto, Place, Status
<1>8. RunOK(r)'
  BY <1>1, <1>5, <1>6 DEF FInv, FilesTypeOK, EndRestore, At, Settle, Goto, RunOK, Placed, Imaged,
                          Undisturbed, Target, Existed, After
<1>9. Apart(r)
  BY <1>6 DEF FInv, FilesTypeOK, EndRestore, At, Settle, Goto, Apart
<1> QED
  BY <1>7, <1>8, <1>9, OthersKeep DEF FInv

LEMMA StepStartSandbox ==
    ASSUME FInv, NEW r \in RunId, StartSandbox(r) PROVE FInv'
<1>1. TakeJob(r, NoFile, Missing)
  BY DEF StartSandbox
<1>2. FilesTypeOK'
  BY <1>1, CallTaken DEF FInv, FilesTypeOK, StartSandbox, Goto, Place
<1>3. RunOK(r)'
  <2>1. job'[r] = [file |-> NoFile, after |-> Missing]
    BY <1>1, CallTaken
  <2>2. pc'[r] = "sandbox"
    BY DEF FInv, FilesTypeOK, StartSandbox, Goto
  <2> QED
    BY <2>1, <2>2 DEF RunOK, Placed, Undisturbed
<1>4. Apart(r)
  BY <1>1, CallTaken DEF FInv, FilesTypeOK, StartSandbox, Goto, Apart
<1> QED
  BY <1>2, <1>3, <1>4, OthersKeep DEF FInv

\* A step that moves no run.
LEMMA NobodyMoves ==
    ASSUME FInv, FilesTypeOK', UNCHANGED <<backup, rows, work>>,
           \A q \in RunId : /\ clash[q] => clash'[q]
                            /\ ~clash'[q] /\ job[q].file # NoFile =>
                                  disk'[job[q].file] = disk[job[q].file]
    PROVE  FInv'
<1>1. ASSUME NEW q \in RunId PROVE RunOK(q)'
  <2>1. RunOK(q)
    BY DEF FInv
  <2>2. Placed(q)'
    BY <2>1 DEF RunOK, Placed, Existed, Target, work
  <2>3. Undisturbed(q)' => Imaged(q)'
    BY <2>1 DEF RunOK, Imaged, Undisturbed, Existed, Target, After, work
  <2> QED
    BY <2>2, <2>3 DEF RunOK
<1> QED
  BY <1>1 DEF FInv

LEMMA StepBoxWrites ==
    ASSUME FInv, NEW r \in RunId, BoxWrites(r) PROVE FInv'
<1>1. PICK f \in File, c \in Content \cup {Missing} :
          /\ disk' = [disk EXCEPT ![f] = c]
          /\ clash' = [q \in RunId |-> clash[q] \/ (q \notin {} /\ job[q].file = f)]
  BY DEF BoxWrites, Disturb
<1>2. \A q \in RunId : clash'[q] = (clash[q] \/ (q \notin {} /\ job[q].file = f))
  BY <1>1, Zenon
<1>3. clash' \in [RunId -> BOOLEAN]
  BY <1>1, Zenon DEF FInv, FilesTypeOK
<1>4. disk' \in [File -> Image] /\ \A g \in File : g # f => disk'[g] = disk[g]
  BY <1>1 DEF FInv, FilesTypeOK, Image
<1>5. FilesTypeOK'
  BY <1>3, <1>4 DEF FInv, FilesTypeOK, BoxWrites, work
<1>6. ASSUME NEW q \in RunId PROVE clash[q] => clash'[q]
  BY <1>2, Zenon
<1>7. ASSUME NEW q \in RunId, ~clash'[q], job[q].file # NoFile
      PROVE  disk'[job[q].file] = disk[job[q].file]
  <2>1. job[q].file # f
    BY <1>2, <1>7, Zenon
  <2>2. job[q].file \in File
    BY <1>7, TypesOf DEF FInv
  <2> QED
    BY <1>4, <2>1, <2>2
<1> QED
  BY <1>5, <1>6, <1>7, NobodyMoves DEF BoxWrites

LEMMA StepOutside ==
    ASSUME FInv, NEW r \in RunId, BoxEnds(r) \/ Crash(r) \/ UNCHANGED vars PROVE FInv'
<1>1. UNCHANGED <<disk, backup, rows, work, clash>>
  BY DEF BoxEnds, Crash, vars
<1>2. FilesTypeOK'
  BY <1>1 DEF FInv, FilesTypeOK, BoxEnds, Crash, vars, work
<1> QED
  BY <1>1, <1>2, NobodyMoves DEF work

--------------------------------------------------------------------------
(* Theorems                                                                *)

THEOREM FilesInvariant == FilesSpec => []FInv
<1>1. FilesInit => FInv
  BY FilesInitInv
<1>2. FInv /\ [FilesNext]_vars => FInv'
  <2> SUFFICES ASSUME FInv, [FilesNext]_vars PROVE FInv'
    OBVIOUS
  <2>1. ASSUME NEW r \in RunId, MutationStep(r) PROVE FInv'
    BY <2>1, StepRefuseCall, StepBeginMutation, StepStartBackup, StepEndBackup, StepBackupFails,
       StepApply, StepCheckApplied, StepOperationFails, StepRemoveNew, StepStartRestore,
       StepEndRestore, StepRestoreFails, StepRecordBackup, StepRecordFails, StepVerifyMutation
    DEF MutationStep
  <2>2. ASSUME NEW r \in RunId, SandboxStep(r) PROVE FInv'
    BY <2>2, StepStartSandbox, StepBoxWrites, StepOutside, StepEndSandbox, StepSandboxTimesOut
    DEF SandboxStep
  <2>3. ASSUME NEW r \in RunId, Crash(r) PROVE FInv'
    BY <2>3, StepOutside
  <2>4. CASE UNCHANGED vars
    <3>1. FilesTypeOK'
      BY <2>4 DEF FInv, FilesTypeOK, vars, work
    <3> QED
      BY <2>4, <3>1, NobodyMoves DEF vars, work
  <2> QED
    BY <2>1, <2>2, <2>3, <2>4 DEF FilesNext
<1> QED
  BY <1>1, <1>2, PTL DEF FilesSpec

\* The tables, the files and the locals of each run have their types: a copy
\* is under way exactly while a file is open for it (transaction_manager.py:94).
THEOREM FilesTypeCorrect == FilesSpec => []FilesTypeOK
<1>1. FInv => FilesTypeOK
  BY DEF FInv
<1> QED
  BY <1>1, FilesInvariant, PTL

\* An undisturbed mutation leaves a file as it was or as it should be, unless a
\* rollback is copying or broke off while it was (transaction_manager.py:49-53).
THEOREM FilesOldOrNew == FilesSpec => []OldOrNew
<1>1. FInv => OldOrNew
  <2> SUFFICES ASSUME FInv, NEW r \in RunId, Undisturbed(r), pc[r] \notin {"restoring", "wrecked"}
               PROVE  disk[Target(r)] \in {before[r], After(r)}
    BY DEF OldOrNew
  <2>1. Placed(r) /\ Imaged(r) /\ pc[r] \in Place
    BY TypesOf DEF FInv, RunOK
  <2> QED
    BY <2>1 DEF Imaged, Placed, Undisturbed, Place
<1> QED
  BY <1>1, FilesInvariant, PTL

\* A mutation that reports TRANSACTION_FAILED has left no trace in the
\* workspace (transaction_manager.py:59, 76).
THEOREM FilesFailureRestores == FilesSpec => []FailureRestores
<1>1. FInv => FailureRestores
  BY DEF FInv, RunOK, FailureRestores, Imaged
<1> QED
  BY <1>1, FilesInvariant, PTL

\* While a file differs from what it was, its backup has what it was
\* (transaction_manager.py:94).
THEOREM FilesBeforeImageKept == FilesSpec => []BeforeImageKept
<1>1. FInv => BeforeImageKept
  <2> SUFFICES ASSUME FInv, NEW r \in RunId, Undisturbed(r), Existed(r), disk[Target(r)] # before[r]
               PROVE  backup[r][Target(r)] = before[r]
    BY DEF BeforeImageKept
  <2>1. Placed(r) /\ Imaged(r) /\ pc[r] \in Place
    BY TypesOf DEF FInv, RunOK
  <2> QED
    BY <2>1 DEF Imaged, Placed, Undisturbed, Place
<1> QED
  BY <1>1, FilesInvariant, PTL

\* SUCCESS is on the disk, in the table and can be undone (mutation.py:116-127).
THEOREM FilesSuccessIsReversible == FilesSpec => []SuccessIsReversible
<1>1. FInv => SuccessIsReversible
  BY DEF FInv, RunOK, SuccessIsReversible, Placed, Imaged, Undisturbed
<1> QED
  BY <1>1, FilesInvariant, PTL

==========================================================================
