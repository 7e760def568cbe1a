------------------------------ MODULE FileMover ------------------------------
(***************************************************************************)
(* One file on its way between hot and cold storage, system call by system *)
(* call: app/services/file_mover.py (move_file, move_with_rollback and     *)
(* their helpers) and the inline move of a scan's thaw in                  *)
(* app/services/file_workflow_service.py.                                  *)
(*                                                                         *)
(* "hot" is the path in the monitored tree, "cold" the path the file has   *)
(* in the storage location, "aside" a file elsewhere that a symlink at the *)
(* hot path may lead to.  A system call may fail (Faults), the user may    *)
(* save or remove the file between any two calls, and the process may be   *)
(* killed between any two calls; the next job finds whatever is left.      *)
(***************************************************************************)
EXTENDS Naturals

CONSTANTS
    Data,       \* the contents a file can hold
    NoFile,     \* nothing at a path
    Torn,       \* the content of a copy that was cut short or raced a writer
    NoSum,      \* checksum_verifier.calculate_checksum returned None
    NoLink,     \* the hot path is not a symlink
    Starts,     \* where the user's file may be before the first job
    Ops,        \* the operations that jobs run
    Checked,    \* may a job verify checksums?  (a subset of BOOLEAN)
    Faults,     \* the system calls that may fail
    MaxWrites,  \* bound on the user's saves and removals
    MaxJobs     \* bound on the number of jobs

Operations == {"move", "copy", "symlink", "thaw"}
FaultKinds == {"read", "rename", "copy", "unlink", "symlink", "restore"}
Places     == {"hot", "cold", "aside"}

ASSUME MoverAssumption ==
    /\ NoFile \notin Data /\ Torn \notin Data /\ NoFile # Torn
    /\ NoSum \notin Data \cup {NoFile, Torn}
    /\ NoLink \notin Places
    /\ Starts \subseteq Places
    /\ Ops \subseteq Operations
    /\ Checked \subseteq BOOLEAN
    /\ Faults \subseteq FaultKinds
    /\ MaxWrites \in Nat /\ MaxJobs \in Nat

VARIABLES
    file,     \* what each place holds
    link,     \* where the symlink at the hot path leads, if it is one
    op,       \* the operation of the current job
    checked,  \* does the current job verify checksums?
    pc,       \* the next call of the current job
    from,     \* the place the job takes the file from
    to,       \* the place it puts it
    sum,      \* the source checksum, taken first
    snap,     \* the content of the source when the copy loop opened it
    result,   \* what the last job returned
    latest,   \* ghost: what the user last saved (NoFile: removed)
    sound,    \* ghost: did the current job's source hold the latest content?
    calm,     \* ghost: since the job began nobody has touched the file
    unread,   \* ghost: the job could not read its destination to verify it
    writes, jobs

vars == <<file, link, op, checked, pc, from, to, sum, snap, result,
          latest, sound, calm, unread, writes, jobs>>
jobVars == <<op, checked, from, to, sum, snap, sound, jobs>>

Contents == Data \cup {NoFile, Torn}

Labels == {"idle", "precheck", "dispatch", "thaw", "rename", "copy", "copying",
           "copied", "unlinkSource", "unlinkLink", "mklink", "restore",
           "verify", "rollback", "done"}

TypeOK ==
    /\ file \in [Places -> Contents]
    /\ link \in {NoLink, "cold", "aside"}
    /\ op \in Operations
    /\ checked \in BOOLEAN
    /\ pc \in Labels
    /\ from \in Places /\ to \in Places
    /\ sum \in Contents \cup {NoSum}
    /\ snap \in Contents
    /\ result \in {"none", "ok", "failed"}
    /\ latest \in Data \cup {NoFile}
    /\ sound \in BOOLEAN /\ calm \in BOOLEAN /\ unread \in BOOLEAN
    /\ writes \in 0..MaxWrites /\ jobs \in 0..MaxJobs

\* Opening the hot path follows the symlink, if there is one.
Resolved(p) == IF p = "hot" /\ link # NoLink THEN link ELSE p
Read(p)     == file[Resolved(p)]

\* A hot file, a hot symlink to a file elsewhere, or a file frozen earlier.
Init ==
    /\ latest \in Data
    /\ \E place \in Starts :
          /\ file = [p \in Places |-> IF p = place THEN latest ELSE NoFile]
          /\ \/ place # "aside" /\ link = NoLink
             \/ place # "hot" /\ link = place
    /\ op \in Ops /\ checked \in Checked
    /\ pc = "idle" /\ from = "hot" /\ to = "cold"
    /\ sum = NoSum /\ snap = NoFile /\ result = "none"
    /\ sound = FALSE /\ calm = FALSE /\ unread = FALSE /\ writes = 0 /\ jobs = 0

-----------------------------------------------------------------------------
(* The user.                                                               *)

\* An application saves the file through its hot path.
UserSaves(d) ==
    /\ writes < MaxWrites
    /\ d # latest
    /\ file' = [file EXCEPT ![Resolved("hot")] = d]
    /\ latest' = d
    /\ writes' = writes + 1 /\ calm' = FALSE
    /\ UNCHANGED <<link, pc, result, unread, jobVars>>

\* The user deletes the entry at the hot path: the file, or the symlink.
UserRemoves ==
    /\ writes < MaxWrites
    /\ link # NoLink \/ file["hot"] # NoFile
    /\ link' = NoLink
    /\ file' = IF link = NoLink THEN [file EXCEPT !["hot"] = NoFile] ELSE file
    /\ latest' = NoFile
    /\ writes' = writes + 1 /\ calm' = FALSE
    /\ UNCHANGED <<pc, result, unread, jobVars>>

-----------------------------------------------------------------------------
(* The job.                                                                *)

Return(r) == pc' = "done" /\ result' = r
Goto(l)   == pc' = l /\ UNCHANGED result
Fault(k)  == k \in Faults

\* calculate_checksum: None when the file is missing or cannot be read.
Checksum(p) ==
    {IF Read(p) = NoFile THEN NoSum ELSE Read(p)}
        \cup {s \in {NoSum} : Fault("read")}

\* move_with_rollback takes the source checksum first; move_file checks that
\* the source is there.  A scan thaws what it finds in cold storage when the
\* hot path leads to it or is free.
Begin(o, c) ==
    /\ pc \in {"idle", "done"}
    /\ jobs < MaxJobs
    /\ jobs' = jobs + 1
    /\ op' = o /\ checked' = c
    /\ IF o = "thaw"
       THEN /\ file["cold"] # NoFile
            /\ link = "cold" \/ (link = NoLink /\ file["hot"] = NoFile)
            /\ from' = "cold" /\ to' = "hot"
            /\ sound' = (latest \in Data /\ file["cold"] = latest)
       ELSE /\ from' = "hot" /\ to' = "cold"
            /\ sound' = (latest \in Data /\ Read("hot") = latest)
    /\ pc' = IF o = "thaw" THEN "thaw" ELSE IF c THEN "dispatch" ELSE "precheck"
    /\ sum' \in IF c /\ o # "thaw" THEN Checksum("hot") ELSE {NoSum}
    /\ snap' = NoFile /\ result' = "none" /\ calm' = TRUE /\ unread' = FALSE
    /\ UNCHANGED <<file, link, latest, writes>>

\* move_file's checks: the source exists and the destination has room.
PreCheck ==
    /\ pc = "precheck"
    /\ \/ (Read("hot") # NoFile \/ link # NoLink) /\ Goto("dispatch")
       \/ (Read("hot") = NoFile \/ Fault("copy")) /\ Return("failed")
    /\ UNCHANGED <<file, link, latest, writes, calm, unread, jobVars>>

\* _move on a plain file, _copy, _move_and_symlink on a plain file.
DispatchFile ==
    /\ pc = "dispatch" /\ link = NoLink
    /\ Goto(IF op = "copy" THEN "copy" ELSE "rename")
    /\ UNCHANGED <<file, link, latest, writes, calm, unread, jobVars>>

\* _copy follows a symlink; copying a file onto itself raises.
DispatchLinkCopy ==
    /\ pc = "dispatch" /\ link # NoLink /\ op = "copy"
    /\ IF link = "cold" THEN Return("failed") ELSE Goto("copy")
    /\ UNCHANGED <<file, link, latest, writes, calm, unread, jobVars>>

\* _move_symlink and the symlink branch of _move_and_symlink.  A link that
\* already leads to the destination is removed (move) or left (symlink);
\* otherwise the file it leads to is the one that moves, and only
\* _move_and_symlink removes the link before it moves anything.
DispatchLink ==
    /\ pc = "dispatch" /\ link # NoLink /\ op # "copy"
    /\ \/ /\ link = "cold" /\ op = "move"
          /\ Goto("unlinkLink") /\ UNCHANGED <<link, from>>
       \/ /\ link = "cold" /\ op = "symlink"
          /\ Goto("verify") /\ UNCHANGED <<link, from>>
       \/ /\ link = "aside" /\ file["aside"] = NoFile
          /\ Return("failed") /\ UNCHANGED <<link, from>>
       \/ /\ link = "aside" /\ file["aside"] # NoFile
          /\ from' = "aside" /\ Goto("rename")
          /\ link' = IF op = "symlink" THEN NoLink ELSE link
       \/ /\ link = "aside" /\ file["aside"] # NoFile /\ op = "symlink"
          /\ Fault("unlink") /\ Return("failed") /\ UNCHANGED <<link, from>>
    /\ UNCHANGED <<file, latest, writes, calm, unread, op, checked, to, sum, snap, sound, jobs>>

\* _thaw_single_file: a symlink at the hot path goes first; it needs the cold
\* file to be there.
ThawLink ==
    /\ pc = "thaw"
    /\ \/ /\ file["cold"] # NoFile
          /\ link' = NoLink /\ Goto("rename")
          /\ sum' \in IF checked THEN Checksum("cold") ELSE {NoSum}
       \/ /\ file["cold"] = NoFile \/ (Fault("unlink") /\ link # NoLink)
          /\ Return("failed") /\ UNCHANGED <<link, sum>>
    /\ UNCHANGED <<file, latest, writes, calm, unread, op, checked, from, to, snap, sound, jobs>>

\* What follows once the content is at the destination.
AfterMove ==
    CASE op = "symlink"                   -> Goto("mklink")
      [] op = "move" /\ from = "aside"    -> Goto("unlinkLink")
      [] OTHER                            -> Goto("verify")

\* The atomic rename; any OSError falls through to the copy.
Rename ==
    /\ pc = "rename"
    /\ \/ /\ file[from] # NoFile
          /\ file' = [file EXCEPT ![to] = file[from], ![from] = NoFile]
          /\ link' = IF to = "hot" THEN NoLink ELSE link
          /\ AfterMove
       \/ /\ file[from] = NoFile \/ Fault("rename")
          /\ Goto("copy") /\ UNCHANGED <<file, link>>
    /\ UNCHANGED <<latest, writes, calm, unread, jobVars>>

\* _copy_with_progress: stat and open the source, truncate the destination.
CopyOpen ==
    /\ pc = "copy"
    /\ \/ /\ Read(from) # NoFile
          /\ snap' = Read(from)
          /\ file' = [file EXCEPT ![Resolved(to)] = Torn]
          /\ Goto("copying")
       \/ /\ Read(from) = NoFile \/ Fault("copy")
          /\ Return("failed") /\ UNCHANGED <<snap, file>>
    /\ UNCHANGED <<link, latest, writes, calm, unread, op, checked, from, to, sum, sound, jobs>>

\* Variant with a bug: an error of the copy loop is ignored.
CopyLoopUnchecked ==
    /\ pc = "copying"
    /\ \/ file' = [file EXCEPT ![Resolved(to)] = snap]
       \/ Fault("copy") /\ UNCHANGED file
    /\ Goto("copied")
    /\ UNCHANGED <<link, latest, writes, calm, unread, jobVars>>

\* The loop ends: a save that came in between may be copied, missed or torn.
CopyLoop ==
    /\ pc = "copying"
    /\ \/ /\ \E d \in (IF Read(from) \in {snap, NoFile} THEN {snap}
                       ELSE {snap, Read(from), Torn}) :
                file' = [file EXCEPT ![Resolved(to)] = d]
          /\ Goto("copied")
       \/ Fault("copy") /\ Return("failed") /\ UNCHANGED file
    /\ UNCHANGED <<link, latest, writes, calm, unread, jobVars>>

\* Variant with a bug: the source is unlinked before the copy is finished.
CopyStatLate ==
    /\ pc = "copied"
    /\ file' = [file EXCEPT ![from] = NoFile]
    /\ \/ AfterMove
       \/ Fault("copy") /\ Return("failed")
    /\ UNCHANGED <<link, latest, writes, calm, unread, jobVars>>

\* copystat and os.utime need the source and the destination.
CopyStat ==
    /\ pc = "copied"
    /\ \/ /\ Read(from) # NoFile
          /\ Goto(IF op = "copy" THEN "verify" ELSE "unlinkSource")
       \/ /\ Read(from) = NoFile \/ Fault("copy")
          /\ Return("failed")
    /\ UNCHANGED <<file, link, latest, writes, calm, unread, jobVars>>

\* source.unlink() after the copy.
UnlinkSource ==
    /\ pc = "unlinkSource"
    /\ \/ /\ file[from] # NoFile
          /\ file' = [file EXCEPT ![from] = NoFile]
          /\ AfterMove
       \/ /\ file[from] = NoFile \/ Fault("unlink")
          /\ Return("failed") /\ UNCHANGED file
    /\ UNCHANGED <<link, latest, writes, calm, unread, jobVars>>

\* source.unlink() of the symlink that led to the moved file.
UnlinkLink ==
    /\ pc = "unlinkLink"
    /\ \/ /\ link # NoLink \/ file["hot"] # NoFile
          /\ link' = NoLink
          /\ file' = IF link = NoLink THEN [file EXCEPT !["hot"] = NoFile] ELSE file
          /\ Goto("verify")
       \/ /\ (link = NoLink /\ file["hot"] = NoFile) \/ Fault("unlink")
          /\ Return("failed") /\ UNCHANGED <<file, link>>
    /\ UNCHANGED <<latest, writes, calm, unread, jobVars>>

\* Variant with a bug: its failure is ignored.
MakeLinkUnchecked ==
    /\ pc = "mklink"
    /\ link' = "cold" \/ (Fault("symlink") /\ UNCHANGED link)
    /\ Goto("verify")
    /\ UNCHANGED <<file, latest, writes, calm, unread, jobVars>>

\* original_source.symlink_to(...); an entry at the hot path makes it fail.
MakeLink ==
    /\ pc = "mklink"
    /\ \/ /\ link = NoLink /\ file["hot"] = NoFile
          /\ link' = "cold" /\ Goto("verify")
       \/ /\ link # NoLink \/ file["hot"] # NoFile \/ Fault("symlink")
          /\ Goto("restore") /\ UNCHANGED link
    /\ UNCHANGED <<file, latest, writes, calm, unread, jobVars>>

\* destination.rename(original_source), its own failure suppressed.
Restore ==
    /\ pc = "restore"
    /\ \/ /\ file["cold"] # NoFile
          /\ file' = [file EXCEPT !["hot"] = file["cold"], !["cold"] = NoFile]
          /\ link' = NoLink
       \/ /\ file["cold"] = NoFile \/ Fault("restore")
          /\ UNCHANGED <<file, link>>
    /\ Return("failed")
    /\ UNCHANGED <<latest, writes, calm, unread, jobVars>>

\* The destination checksum is compared when the source one was taken.  A
\* destination that cannot be read has checksum None, which is a mismatch: what was
\* moved is then deleted, though it may be whole.
Verify ==
    /\ pc = "verify"
    /\ \/ sum \in {NoSum, Read(to)} /\ Return("ok") /\ UNCHANGED unread
       \/ sum \notin {NoSum, Read(to)} /\ Goto("rollback") /\ UNCHANGED unread
       \/ sum # NoSum /\ Fault("read") /\ Goto("rollback") /\ unread' = TRUE
    /\ UNCHANGED <<file, link, latest, writes, calm, jobVars>>

\* Variant with a bug: the rollback deletes the source.
RollbackSource ==
    pc = "rollback" /\ file' = [file EXCEPT ![Resolved(from)] = NoFile] /\ Return("failed")
    /\ UNCHANGED <<link, latest, writes, calm, unread, jobVars>>

\* Rollback of move_with_rollback deletes the destination.  The thaw deletes
\* the hot file only while the cold one is still there.
Rollback ==
    /\ pc = "rollback"
    /\ \/ /\ op # "thaw" \/ file["cold"] # NoFile
          /\ file' = [file EXCEPT ![Resolved(to)] = NoFile]
       \/ /\ Fault("unlink") \/ (op = "thaw" /\ file["cold"] = NoFile)
          /\ UNCHANGED file
    /\ Return("failed")
    /\ UNCHANGED <<link, latest, writes, calm, unread, jobVars>>

\* The process is killed between two calls.
Crash ==
    /\ pc \notin {"idle", "done"}
    /\ pc' = "idle" /\ result' = "none"
    /\ UNCHANGED <<file, link, latest, writes, calm, unread, jobVars>>

User == (\E d \in Data : UserSaves(d)) \/ UserRemoves

Step ==
    \/ PreCheck \/ DispatchFile \/ DispatchLinkCopy \/ DispatchLink \/ ThawLink
    \/ Rename \/ CopyOpen \/ CopyLoop \/ CopyStat \/ UnlinkSource \/ UnlinkLink
    \/ MakeLink \/ Restore \/ Verify \/ Rollback

Next ==
    \/ \E o \in Ops, c \in Checked : Begin(o, c)
    \/ Step \/ Crash \/ User

Spec == Init /\ [][Next]_vars
-----------------------------------------------------------------------------
(* Properties.                                                             *)

\* A job that started from the user's current content leaves what the user
\* last saved whole in some place at every moment, whatever happens
\* (file_mover.py:22-287, file_workflow_service.py:667-764).
JobKeepsContent ==
    sound /\ latest # NoFile => \E p \in Places : file[p] = latest

\* So it does while nobody else touches the file, wherever the process is killed
\* and whichever calls fail but one: the reading of the destination that verifies
\* it (file_mover.py:228-237 takes a failure to read for a mismatch and deletes
\* what may be the only copy).
CalmJobKeepsContent == calm /\ ~unread => JobKeepsContent

\* A copy does so whatever the user saves or removes under it.
CopyKeepsContent == op = "copy" => JobKeepsContent

\* A move, copy or thaw that reports failure has not taken the file away from
\* where it was: the caller puts the inventory row back to its old status.  Here
\* too the destination could be read.
FailedJobKeepsSource ==
    calm /\ ~unread /\ pc = "done" /\ result = "failed" /\ sound /\ op # "symlink" /\ from # "aside"
        => Read(from) = latest

\* A job that reports success has delivered the whole content, and the hot
\* path is what the operation promises: gone (move), leading to the cold file
\* (symlink), the content itself (copy, thaw).
SuccessDelivers ==
    calm /\ pc = "done" /\ result = "ok" /\ sound =>
        /\ Read(to) = latest
        /\ op \in {"symlink", "copy"} => Read("hot") = latest
        /\ op \in {"move", "thaw"} => file[from] = NoFile
        /\ op = "symlink" <=> link = "cold"

-----------------------------------------------------------------------------
(* The strengthening that makes the three properties inductive: where the  *)
(* content is at each call of a sound job.                                 *)

FreezeShape == op \in {"move", "symlink"} /\ from \in {"hot", "aside"} /\ to = "cold"
ThawShape   == op = "thaw" /\ from = "cold" /\ to = "hot"
CopyShape   == op = "copy" /\ from = "hot" /\ to = "cold"

\* A plain source, with no symlink in the way of a rename or an unlink.
PlainMove ==
    /\ FreezeShape \/ ThawShape
    /\ from = "hot" \/ to = "hot" => link = NoLink
    /\ from = "aside" => link = IF op = "move" THEN "aside" ELSE NoLink

ContentAt ==
    CASE pc \in {"precheck", "dispatch"} ->
             Read("hot") = latest /\ op # "thaw" /\ from = "hot" /\ to = "cold"
      [] pc = "thaw"         -> ThawShape /\ file["cold"] = latest
      [] pc = "rename"       -> PlainMove /\ file[from] = latest
      [] pc \in {"copy", "copying", "copied"} ->
             /\ PlainMove \/ (CopyShape /\ link # "cold")
             /\ Read(from) = latest
             /\ pc # "copy" => snap = latest
             /\ pc = "copied" => file[to] = latest
      [] pc = "unlinkSource" -> PlainMove /\ file[from] = latest /\ file[to] = latest
      [] pc = "unlinkLink"   ->
             /\ FreezeShape /\ op = "move" /\ link # NoLink
             /\ from = "hot" => link = "cold"
             /\ file[from] = NoFile /\ file["cold"] = latest
      [] pc = "mklink"       ->
             FreezeShape /\ op = "symlink" /\ link = NoLink /\ file["cold"] = latest
      [] pc = "restore"      -> op = "symlink" /\ file["cold"] = latest
      [] pc = "verify"       ->
             /\ FreezeShape \/ ThawShape \/ CopyShape
             /\ op \in {"move", "thaw"} => file[from] = NoFile
             /\ op \in {"symlink", "copy"} => Read("hot") = latest
             /\ op = "symlink" <=> link = "cold"
             /\ Read(to) = latest
      [] pc = "rollback"     -> FALSE
      [] OTHER               -> TRUE

\* What a copy job leaves alone: the content at, or behind, the hot path.
CopyInv ==
    op = "copy" /\ sound =>
        /\ latest # NoFile => Read("hot") = latest
        /\ pc \in {"idle", "precheck", "dispatch", "copy", "copying", "copied",
                  "verify", "rollback", "done"}
        /\ pc \notin {"idle", "done"} => from = "hot" /\ to = "cold"
        /\ pc \in {"copy", "copying", "copied", "verify", "rollback"} => link # "cold"

MoverInv ==
    /\ TypeOK
    /\ link # NoLink => file["hot"] = NoFile
    /\ unread => pc \in {"idle", "rollback"} \/ (pc = "done" /\ result = "failed")
    /\ calm /\ ~unread /\ sound =>
          /\ latest \in Data
          /\ pc # "idle" => sum \in {NoSum, latest}
          /\ ContentAt
    /\ CopyInv
    /\ CalmJobKeepsContent
    /\ CopyKeepsContent
    /\ FailedJobKeepsSource
    /\ SuccessDelivers
=============================================================================
