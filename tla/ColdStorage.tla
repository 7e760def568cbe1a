------------------------------ MODULE ColdStorage ------------------------------
(***************************************************************************)
(* A storage location that is encrypted and decrypted while its files are  *)
(* frozen, thawed and given back: the encryption toggle and the deletion   *)
(* of a location (app/routers/api/storage.py), the two background jobs     *)
(* (app/services/scheduler.py, encryption_service.py), the encrypted       *)
(* branches of a manual freeze and thaw (file_freezer.py, file_thawer.py), *)
(* the deletion of the path with or without undoing its operations         *)
(* (app/routers/api/paths.py, path_reverser.py), and crashes.              *)
(*                                                                         *)
(* One path with one file and one location.  The file is at its hot path   *)
(* or at its path in the location, perhaps with the suffix .ffenc.  A      *)
(* rename is one step (FileMover has its system calls); an encryption      *)
(* writes its output in two.  A job's place in the queue survives a        *)
(* restart.                                                                *)
(***************************************************************************)
EXTENDS Naturals, FiniteSets, Absent

CONSTANTS
    Ops,        \* the operation types of the path: a subset of "move", "copy"
    IOErrors,   \* may a system call fail?
    CommitFails,\* may a commit fail?
    Deletes,    \* are the path and the location deleted?
    ManyFiles,  \* do a job's other files come before this one?
    MaxToggles, MaxRequests, MaxCrashes

ASSUME ColdAssumption ==
    /\ Ops \subseteq {"move", "copy"}
    /\ {IOErrors, CommitFails, Deletes, ManyFiles} \subseteq BOOLEAN
    /\ {MaxToggles, MaxRequests, MaxCrashes} \subseteq Nat

VARIABLES
    file,       \* what is at each place
    inv,        \* the row of file_inventory, or None
    recs,       \* the cold places that rows of file_records name
    stale,      \* who holds a row of file_inventory that has been deleted since
    loc,        \* the row of the location, or None
    op,         \* the operation type of the path; None once it is deleted
    queued,     \* jobs in the scheduler's store
    jpc, work,  \* a running job's next step, the file it is at and what it read there
    toggle,     \* an update of the location that has yet to schedule its job
    rpc, asked, \* the request that is served: its next step and what it has read
    left,       \* the records it has yet to reverse
    toggles, requests, crashes,
    calm,       \* ghost: no job has lost its row or its files, nothing unfinished was put back,
                \* and the location is not given up
    undone,     \* ghost: the path's operations were undone
    astray      \* ghost: a job went on to a file whose row has changed since it was selected

coldVars == <<file, inv, stale, recs, loc, op, queued, jpc, work, toggle, rpc, asked, left,
              toggles, requests, crashes, calm, undone, astray>>

Places   == {"hot", "hotenc", "plain", "enc", "twice"}
Contents == {"none", "torn", "clear", "cipher", "double"}
Whole    == {"clear", "cipher", "double"}
Kinds    == {"encrypt", "decrypt"}
Inventory == [at: Places, cold: BOOLEAN, encrypted: BOOLEAN, status: {"active", "migrating"}]
Location  == [encrypted: BOOLEAN, status: {"none", "pending", "encrypted", "decrypting"}]
Asked == [at: Places, encrypted: BOOLEAN, data: Contents]
Holders == Kinds \cup {"request"}
NoWork == [at |-> "hot", data |-> "none"]

ASSUME ColdNone == None \notin Inventory \cup Places \cup Location \cup Asked \cup {"move", "copy"}

ColdTypeOK ==
    /\ file \in [Places -> Contents]
    /\ inv \in Inventory \cup {None}
    /\ recs \subseteq {"plain", "enc"} /\ left \subseteq {"plain", "enc"}
    /\ loc \in Location \cup {None}
    /\ op \in Ops \cup {None}
    /\ queued \subseteq Kinds
    /\ jpc \in [Kinds -> {"idle", "write", "finish", "unlink", "commit", "status"}]
    /\ work \in [Kinds -> [at: Places, data: Contents]]
    /\ stale \subseteq Holders
    /\ toggle \in Location \cup {None}
    /\ rpc \in {"idle", "encrypting", "freezing", "frozen",
                "thaw", "thawed", "forget", "row", "undo"}
    /\ asked \in Asked \cup {None}
    /\ toggles \in 0..MaxToggles /\ requests \in 0..MaxRequests /\ crashes \in 0..MaxCrashes
    /\ calm \in BOOLEAN /\ undone \in BOOLEAN /\ astray \in BOOLEAN

ColdInit ==
    /\ file = [p \in Places |-> IF p = "hot" THEN "clear" ELSE "none"]
    /\ inv = [at |-> "hot", cold |-> FALSE, encrypted |-> FALSE, status |-> "active"]
    /\ recs = {} /\ left = {} /\ stale = {}
    /\ loc = [encrypted |-> FALSE, status |-> "none"]
    /\ op \in Ops
    /\ queued = {} /\ jpc = [k \in Kinds |-> "idle"]
    /\ work = [k \in Kinds |-> NoWork]
    /\ toggle = None /\ rpc = "idle" /\ asked = None
    /\ toggles = 0 /\ requests = 0 /\ crashes = 0
    /\ calm = TRUE /\ undone = FALSE /\ astray = FALSE

rows    == <<inv, stale, recs, loc, op>>
jobs    == <<queued, jpc, work>>
request == <<rpc, asked, left>>
counts  == <<toggles, requests, crashes>>

\* The suffix .ffenc, and what AES makes of a content.
Coded   == [plain |-> "enc", hot |-> "hotenc", enc |-> "twice"]
Encoded == [clear |-> "cipher", cipher |-> "double", double |-> "double", torn |-> "torn"]
Decodes(c, d) == d \in {"clear", "cipher"} /\ Encoded[d] = c
\* An output that was removed while it was written stays removed.
Finished(out, c) == IF out = "none" THEN "none" ELSE c

Source(k) == work[k].at
Target(k) == IF k = "encrypt" THEN Coded[Source(k)]
             ELSE CHOOSE p \in DOMAIN Coded : Coded[p] = Source(k)
NoTarget(k) == IF k = "encrypt" THEN {"hotenc", "twice"} ELSE {"hot", "plain"}
\* A job that has begun its output and not yet committed the row.
AtWork(k) == jpc[k] \in {"finish", "unlink", "commit"}
\* A running job's input or output is moved away or replaced by somebody else.
Taken(p)  == calm' = (calm /\ \A k \in Kinds : ~(AtWork(k) /\ p \in {Source(k), Target(k)}))

\* The row its holder has read is there.
Has(h)    == inv # None /\ h \notin stale
Fresh(h)  == stale' = stale \ {h}
RowGone == inv' = None /\ stale' = Holders

-----------------------------------------------------------------------------
(* PUT /storage/locations/{id}.                                            *)

\* The row is committed, then the job is scheduled.
UpdateLocation ==
    /\ toggles < MaxToggles /\ toggle = None /\ loc # None
    /\ toggles' = toggles + 1
    /\ toggle' = loc
    /\ loc' = [encrypted |-> ~loc.encrypted,
               status |-> IF loc.encrypted THEN "decrypting" ELSE "pending"]
    /\ UNCHANGED <<file, inv, stale, recs, op, jobs, request, requests, crashes, calm, undone, astray>>

\* trigger_encryption_job, trigger_decryption_job; when it fails the row is set
\* back to what it was.
ScheduleJob ==
    /\ toggle # None /\ toggle' = None
    /\ \/ /\ queued' = queued \cup {IF toggle.encrypted THEN "decrypt" ELSE "encrypt"}
          /\ UNCHANGED loc
       \/ /\ IOErrors /\ UNCHANGED queued
          /\ loc' = IF loc = None THEN None ELSE toggle
    /\ UNCHANGED <<file, inv, stale, recs, op, jpc, work, request, counts, calm, undone, astray>>

-----------------------------------------------------------------------------
(* encrypt_location_job_func and decrypt_location_job_func.                *)

JobStep(k, l) == jpc' = [jpc EXCEPT ![k] = l]

\* The rows a job looks for: cold, and not yet as they should be.
Due(row, k) == row.cold /\ row.encrypted = (k = "decrypt")

\* A file's turn that fails is logged with the row's id.  When the row has gone
\* that raises too, and the job ends there, without a status.
AfterFailure(k) == IF Has(k) THEN "status" ELSE "idle"

\* A job has one instance: a second one is not run.
StartJob(k) ==
    /\ k \in queued /\ queued' = queued \ {k}
    /\ IF jpc[k] # "idle" \/ loc = None
       THEN UNCHANGED <<jpc, work, stale>>
       ELSE IF inv # None /\ Due(inv, k)
       THEN JobStep(k, "write") /\ work' = [work EXCEPT ![k].at = inv.at] /\ Fresh(k)
       ELSE JobStep(k, "status") /\ UNCHANGED <<work, stale>>
    /\ UNCHANGED <<file, inv, recs, loc, op, toggle, request, counts, calm, undone, astray>>

\* The end of another file's turn expires the rows: this one's is read again,
\* for its path only: its form is not looked at any more.
ReadAgain(k) ==
    /\ ManyFiles /\ jpc[k] = "write"
    /\ IF Has(k) THEN work' = [work EXCEPT ![k].at = inv.at] /\ UNCHANGED jpc
                 ELSE JobStep(k, AfterFailure(k)) /\ UNCHANGED work
    /\ UNCHANGED <<file, rows, queued, toggle, request, counts, calm, undone, astray>>

\* The source is opened, the target created; a missing file is passed over.  A
\* file without the suffix is not decrypted: it has no tag.  A third suffix is
\* left out.
WriteTarget(k) ==
    /\ jpc[k] = "write"
    /\ IF file[Source(k)] = "none" \/ Source(k) \in NoTarget(k)
       THEN /\ JobStep(k, IF file[Source(k)] = "none" THEN "status" ELSE AfterFailure(k))
            /\ UNCHANGED <<file, work, calm, astray>>
       ELSE /\ JobStep(k, "finish") /\ file' = [file EXCEPT ![Target(k)] = "torn"]
            /\ work' = [work EXCEPT ![k].data = file[Source(k)]]
            /\ Taken(Target(k))
            /\ astray' = (astray \/ ~(Has(k) /\ Due(inv, k) /\ inv.at = Source(k)))
    /\ UNCHANGED <<rows, queued, toggle, request, counts, undone>>

\* A bug: the source goes while the target is still being written.
FinishEarly(k) ==
    /\ jpc[k] = "finish" /\ UNCHANGED work
    /\ JobStep(k, "unlink")
    /\ file' = [file EXCEPT ![Source(k)] = "none"]
    /\ UNCHANGED <<rows, queued, toggle, request, counts, calm, undone, astray>>

\* The output is removed again when it cannot be written, or its tag is wrong.
FinishTarget(k) ==
    /\ jpc[k] = "finish" /\ UNCHANGED work
    /\ \/ /\ JobStep(k, "unlink")
          /\ \E c \in Contents :
                /\ IF k = "encrypt" THEN c = Encoded[work[k].data] ELSE Decodes(work[k].data, c)
                /\ file' = [file EXCEPT ![Target(k)] = Finished(@, c)]
       \/ /\ IOErrors \/ (k = "decrypt" /\ ~\E c \in Contents : Decodes(work[k].data, c))
          /\ JobStep(k, AfterFailure(k))
          /\ file' = [file EXCEPT ![Target(k)] = "none"]
    /\ UNCHANGED <<rows, queued, toggle, request, counts, calm, undone, astray>>

\* The source is removed before the row is committed; when that fails, the
\* target is removed.
UnlinkSource(k) ==
    /\ jpc[k] = "unlink"
    /\ \/ /\ file[Source(k)] # "none"
          /\ JobStep(k, "commit") /\ file' = [file EXCEPT ![Source(k)] = "none"]
       \/ /\ file[Source(k)] = "none" \/ IOErrors
          /\ JobStep(k, AfterFailure(k)) /\ file' = [file EXCEPT ![Target(k)] = "none"]
    /\ UNCHANGED <<rows, queued, work, toggle, request, counts, calm, undone, astray>>

\* A bug: the row's flag is left as it is.
SwitchedForgetful(row, k) == [row EXCEPT !.at = Target(k)]

Switched(row, k) == [row EXCEPT !.at = Target(k), !.encrypted = (k = "encrypt")]

\* The target is removed too when the commit fails, or the row has gone: the
\* source is no longer there then.
CommitFile(k) ==
    /\ jpc[k] = "commit" /\ JobStep(k, AfterFailure(k))
    /\ \/ Has(k) /\ inv' = Switched(inv, k) /\ UNCHANGED <<file, calm>>
       \/ /\ ~Has(k) \/ CommitFails
          /\ file' = [file EXCEPT ![Target(k)] = "none"]
          /\ calm' = FALSE /\ UNCHANGED inv
    /\ UNCHANGED <<stale, recs, loc, op, queued, work, toggle, request, counts, undone, astray>>

\* A bug: the name of a status that the column does not have.
SetStatusDone(k) ==
    /\ jpc[k] = "status" /\ JobStep(k, "idle") /\ work' = [work EXCEPT ![k] = NoWork]
    /\ loc' = IF loc = None THEN None ELSE [loc EXCEPT !.status = "completed"]
    /\ UNCHANGED <<file, inv, stale, recs, op, queued, toggle, request, counts, calm, undone, astray>>

\* Whatever became of the files, the status is that of a finished job.
SetStatus(k) ==
    /\ jpc[k] = "status" /\ JobStep(k, "idle") /\ work' = [work EXCEPT ![k] = NoWork]
    /\ \/ loc' = IF loc = None THEN None
                 ELSE [loc EXCEPT !.status = IF k = "encrypt" THEN "encrypted" ELSE "none"]
       \/ CommitFails /\ UNCHANGED loc
    /\ UNCHANGED <<file, inv, stale, recs, op, queued, toggle, request, counts, calm, undone, astray>>

-----------------------------------------------------------------------------
(* The requests for the file, one at a time, and the scan's part.          *)

Begin(l) == requests < MaxRequests /\ requests' = requests + 1 /\ rpc = "idle" /\ rpc' = l
            /\ Fresh("request")
Then(l)  == rpc' = l /\ UNCHANGED <<asked, left>>
Done     == rpc' = "idle" /\ asked' = None /\ left' = {}
Place(p, c)     == [file EXCEPT ![p] = c]
Moved(from, to) == [file EXCEPT ![from] = "none", ![to] = file[from]]
WithStatus(s)   == IF Has("request") THEN [inv EXCEPT !.status = s] ELSE inv

\* POST /files/freeze: the destination depends on the location and must be free.
FreezeFile ==
    LET to == IF loc.encrypted THEN "enc" ELSE "plain"
    IN  /\ op # None /\ loc # None /\ inv # None
        /\ ~inv.cold /\ inv.at = "hot" /\ file["hot"] # "none" /\ file[to] = "none"
        /\ Begin(IF loc.encrypted THEN "encrypting" ELSE "freezing")
        /\ inv' = [inv EXCEPT !.status = "migrating"]
        /\ asked' = [at |-> to, encrypted |-> loc.encrypted, data |-> "none"]
        /\ UNCHANGED <<file, recs, loc, op, jobs, toggle, left, toggles, crashes, calm, undone, astray>>

\* encrypt_file opens the source and creates its output; then that is whole and
\* a MOVE removes the source, or it is removed again.  If it is the source that
\* cannot be removed, the output stays.  Nobody looks whether it is still there.
FreezeEncrypted ==
    /\ rpc = "encrypting"
    /\ \/ /\ asked.data = "none" /\ file["hot"] # "none"
          /\ asked' = [asked EXCEPT !.data = file["hot"]] /\ UNCHANGED <<rpc, left, inv>>
          /\ file' = Place("enc", "torn")
       \/ /\ asked.data # "none" /\ (op = "move" => file["hot"] # "none")
          /\ Then("frozen") /\ UNCHANGED inv
          /\ file' = [file EXCEPT !["enc"] = Finished(@, Encoded[asked.data]),
                                  !["hot"] = IF op = "move" THEN "none" ELSE @]
       \/ /\ IOErrors \/ file["hot"] = "none"
          /\ Done /\ inv' = WithStatus("active")
          /\ file' \in IF asked.data = "none" THEN {file}
                       ELSE {Place("enc", "none"), Place("enc", Finished(file["enc"], Encoded[asked.data]))}
    /\ UNCHANGED <<stale, recs, loc, op, jobs, toggle, counts, calm, undone, astray>>

FreezePlain ==
    /\ rpc = "freezing"
    /\ \/ /\ file["hot"] # "none" /\ Then("frozen") /\ UNCHANGED inv
          /\ file' = IF op = "move" THEN Moved("hot", "plain") ELSE Place("plain", file["hot"])
       \/ /\ IOErrors \/ file["hot"] = "none"
          /\ Done /\ UNCHANGED file
          /\ inv' = WithStatus("active")
    /\ UNCHANGED <<stale, recs, loc, op, jobs, toggle, counts, calm, undone, astray>>

\* One commit has the record and the row; when it fails the row stays migrating.
CommitFreeze ==
    /\ rpc = "frozen" /\ Done
    /\ \/ /\ Has("request") /\ recs' = recs \cup {asked.at}
          /\ inv' = [at |-> asked.at, cold |-> TRUE, encrypted |-> asked.encrypted, status |-> "active"]
       \/ (~Has("request") \/ CommitFails) /\ UNCHANGED <<inv, recs>>
    /\ UNCHANGED <<stale, file, loc, op, jobs, toggle, counts, calm, undone, astray>>

\* A bug: the location tells.
ThawByLocation ==
    /\ inv # None /\ inv.cold /\ inv.at \in recs /\ file[inv.at] # "none" /\ loc # None
    /\ Begin("thaw")
    /\ asked' = [at |-> inv.at, encrypted |-> loc.encrypted, data |-> "none"]
    /\ UNCHANGED <<file, inv, recs, loc, op, jobs, toggle, left, toggles, crashes, calm, undone, astray>>

\* POST /files/thaw: the record is found by the row's path, and the row tells
\* whether the file is encrypted.
ThawFile ==
    /\ inv # None /\ inv.cold /\ inv.at \in recs /\ file[inv.at] # "none"
    /\ Begin("thaw")
    /\ asked' = [at |-> inv.at, encrypted |-> inv.encrypted, data |-> "none"]
    /\ UNCHANGED <<file, inv, recs, loc, op, jobs, toggle, left, toggles, crashes, calm, undone, astray>>

\* A COPY whose original is there is only removed from the location.  An
\* encrypted file is decrypted beside the hot path and renamed to it.
ThawMove ==
    /\ rpc = "thaw"
    /\ \/ /\ file[asked.at] # "none"
          /\ IF op = "copy" /\ file["hot"] # "none"
             THEN file' = Place(asked.at, "none") /\ Then("forget")
             ELSE IF asked.encrypted
             THEN /\ \E c \in Contents : Decodes(file[asked.at], c) /\ file' = Place("hot", c)
                  /\ Then("thawed")
             ELSE file' = Moved(asked.at, "hot") /\ Then("forget")
          /\ Taken(asked.at)
       \/ /\ \/ file[asked.at] = "none" \/ IOErrors
             \/ asked.encrypted /\ ~\E c \in Contents : Decodes(file[asked.at], c)
          /\ Done /\ UNCHANGED <<file, calm>>
    /\ UNCHANGED <<rows, jobs, toggle, counts, undone, astray>>

\* Then the encrypted file is removed; without it the thaw ends in an error.
RemoveThawed ==
    /\ rpc = "thawed"
    /\ \/ file[asked.at] # "none" /\ file' = Place(asked.at, "none") /\ Then("forget") /\ Taken(asked.at)
       \/ (file[asked.at] = "none" \/ IOErrors) /\ Done /\ UNCHANGED <<file, calm>>
    /\ UNCHANGED <<rows, jobs, toggle, counts, undone, astray>>

\* The record is removed in a commit of its own, then the row is set.
ForgetRecord ==
    /\ rpc = "forget"
    /\ \/ recs' = recs \ {asked.at} /\ Then("row")
       \/ CommitFails /\ Done /\ UNCHANGED recs
    /\ UNCHANGED <<file, inv, stale, loc, op, jobs, toggle, counts, calm, undone, astray>>

SetRow ==
    /\ rpc = "row" /\ Done
    /\ \/ inv' = IF ~Has("request") THEN inv
                 ELSE [at |-> "hot", cold |-> FALSE, encrypted |-> FALSE, status |-> "active"]
       \/ CommitFails /\ UNCHANGED inv
    /\ UNCHANGED <<stale, file, recs, loc, op, jobs, toggle, counts, calm, undone, astray>>

\* DELETE /paths/{id}, which may undo the path's operations first.
DeletePath ==
    /\ Deletes /\ op # None /\ Begin("undo")
    /\ \E undo \in BOOLEAN : left' = IF undo THEN recs ELSE {}
    /\ UNCHANGED <<file, inv, recs, loc, op, jobs, toggle, asked, toggles, crashes, calm, undone, astray>>

\* One record after the other, over what is at the hot path; what fails is reported and does not stop the rest.
ReverseFile(r) ==
    /\ rpc = "undo" /\ r \in left /\ left' = left \ {r}
    /\ \/ /\ file[r] # "none" /\ undone' = TRUE
          /\ IF (op = "move" /\ file["hot"] # "none") \/ file[r] = "torn" THEN calm' = FALSE ELSE Taken(r)
          /\ file' = IF op = "copy" /\ file["hot"] # "none" THEN Place(r, "none") ELSE Moved(r, "hot")
       \/ (file[r] = "none" \/ IOErrors) /\ UNCHANGED <<file, undone, calm>>
    /\ UNCHANGED <<rows, jobs, toggle, rpc, asked, counts, astray>>

\* The path takes its records and its rows with it.
DeleteRows ==
    /\ rpc = "undo" /\ left = {} /\ Done
    /\ op' = None /\ recs' = {} /\ RowGone
    /\ UNCHANGED <<file, loc, jobs, toggle, counts, calm, undone, astray>>

\* DELETE /storage/locations/{id}: not while a path has it, unless it is forced.
\* Then its rows and files go too, as many files as can be removed.
DeleteLocation ==
    /\ Deletes /\ loc # None /\ rpc = "idle" /\ loc' = None
    /\ \/ op = None /\ UNCHANGED <<file, inv, stale, recs, calm>>
       \/ /\ calm' = FALSE /\ recs' = {}
          /\ IF inv # None /\ inv.cold THEN RowGone ELSE UNCHANGED <<inv, stale>>
          /\ \E gone \in SUBSET {"plain", "enc"} :
                /\ IOErrors \/ gone = {"plain", "enc"}
                /\ file' = [p \in Places |-> IF p \in gone THEN "none" ELSE file[p]]
    /\ UNCHANGED <<op, jobs, toggle, request, counts, undone, astray>>

\* What a scan does to this file.  Its freeze knows nothing of encryption.
ScanFreezes ==
    /\ op # None /\ loc # None /\ inv # None /\ requests < MaxRequests /\ rpc = "idle"
    /\ ~inv.cold /\ inv.at = "hot" /\ file["hot"] # "none"
    /\ requests' = requests + 1
    /\ IF op = "move"
       THEN file' = Moved("hot", "plain") /\ inv' = [inv EXCEPT !.at = "plain", !.cold = TRUE, !.status = "active"]
       ELSE file' = Place("plain", file["hot"]) /\ UNCHANGED inv
    /\ IF recs = {} THEN recs' = {"plain"} ELSE \E r \in recs : recs' = (recs \ {r}) \cup {"plain"}
    /\ Taken("plain")
    /\ UNCHANGED <<stale, loc, op, jobs, toggle, request, toggles, crashes, undone, astray>>

\* A row whose file is gone, and a record whose files are gone, are removed.
ScanForgets ==
    /\ op # None
    /\ \/ /\ inv # None /\ inv.status = "active" /\ file[inv.at] = "none"
          /\ RowGone /\ UNCHANGED recs
       \/ /\ op = "move" \/ file["hot"] = "none"
          /\ \E r \in recs : file[r] = "none" /\ recs' = recs \ {r}
          /\ UNCHANGED <<inv, stale>>
    /\ UNCHANGED <<file, loc, op, jobs, toggle, request, counts, calm, undone, astray>>

ScanAdds ==
    /\ op # None /\ inv = None /\ file["hot"] # "none"
    /\ inv' = [at |-> "hot", cold |-> FALSE, encrypted |-> FALSE, status |-> "active"]
    /\ UNCHANGED <<stale, file, recs, loc, op, jobs, toggle, request, counts, calm, undone, astray>>

-----------------------------------------------------------------------------
\* The process stops.  A job that has not started is kept in the store, unless
\* its time has passed for too long.
Crash ==
    /\ crashes < MaxCrashes /\ crashes' = crashes + 1
    /\ jpc' = [k \in Kinds |-> "idle"] /\ work' = [k \in Kinds |-> NoWork]
    /\ queued' \in SUBSET queued
    /\ toggle' = None /\ Done
    /\ UNCHANGED <<file, rows, toggles, requests, calm, undone, astray>>

JobSteps == \E k \in Kinds : StartJob(k) \/ ReadAgain(k) \/ WriteTarget(k) \/ FinishTarget(k)
                             \/ UnlinkSource(k) \/ CommitFile(k) \/ SetStatus(k)

ColdNext ==
    \/ UpdateLocation \/ ScheduleJob \/ JobSteps
    \/ FreezeFile \/ FreezeEncrypted \/ FreezePlain \/ CommitFreeze
    \/ ThawFile \/ ThawMove \/ RemoveThawed \/ ForgetRecord \/ SetRow
    \/ DeletePath \/ (\E r \in left : ReverseFile(r)) \/ DeleteRows \/ DeleteLocation
    \/ ScanFreezes \/ ScanForgets \/ ScanAdds
    \/ Crash

ColdSpec == ColdInit /\ [][ColdNext]_coldVars

-----------------------------------------------------------------------------
\* The file is whole at one place at least, whatever fails or is interrupted:
\* unless a job has lost its row or gone astray, a running job's file was moved
\* under it, an undo went over a file that was there or put an unfinished one back,
\* or the location was given up.
ContentKept == calm /\ ~astray => \E p \in Places : file[p] \in Whole

\* A cold row tells the form of the file it names: the thaw and the jobs go by it.
\* (Undoing a path puts encrypted files back as they are; a job that has gone astray
\* encrypts twice.)
FlagTellsForm ==
    (inv # None /\ inv.cold /\ file[inv.at] \in Whole /\ ~undone /\ ~astray)
        => file[inv.at] = IF inv.encrypted THEN "cipher" ELSE "clear"

\* What a thaw puts back can be read: with the same two exceptions.
ThawIsReadable == undone \/ astray \/ file["hot"] \notin {"cipher", "double"}

\* "Job to encrypt all files in a storage location" (scheduler.py:520): a job
\* removes no file that is outside its location.
OnlyItsLocation ==
    [][\A k \in Kinds : (jpc[k] = "unlink" /\ jpc'[k] = "commit")
                        => Source(k) \in {"plain", "enc", "twice"}]_coldVars
=============================================================================
