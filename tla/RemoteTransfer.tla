---------------------------- MODULE RemoteTransfer ----------------------------
(***************************************************************************)
(* The transfer of one file to another instance: the jobs and runs of the  *)
(* sender (app/services/remote_transfer_service.py with                    *)
(* app/utils/retry_strategy.py, the job endpoints of                       *)
(* app/routers/api/remote.py, the scheduler's minute job, the zombie       *)
(* detection of stats_cleanup.py), HTTP calls that may be lost, time out   *)
(* or be handled after their sender has given up, and the receiver's       *)
(* endpoints transfer-status, receive and verify-transfer.                 *)
(*                                                                         *)
(* All jobs send the same file to the same path.  The file is Size units   *)
(* long and sent in chunks of ChunkSize; a unit is its offset and the      *)
(* version of the file it was read from.                                   *)
(***************************************************************************)
EXTENDS Integers, Sequences, FiniteSets

CONSTANTS
    Jobs,
    Pulls,      \* the jobs a remote instance asked for (serve-transfer)
    Moves,      \* the jobs with strategy MOVE
    Size, ChunkSize,
    MaxRetries,
    CallIds,    \* HTTP calls under way at one time
    MaxTmp,     \* bound on the partial file's length
    MaxVersion, \* bound on the user's edits of the file
    Foreign,    \* sizes of the other file the receiver may have at that path
    MaxCrashes,
    HashFails,  \* whether the sender may fail to hash the file
    None, NoFile

ASSUME TransferAssumption ==
    /\ Pulls \subseteq Jobs /\ Moves \subseteq Jobs
    /\ Size \in Nat \ {0} /\ ChunkSize \in Nat \ {0} /\ MaxRetries \in Nat \ {0}
    /\ MaxVersion \in Nat \ {0} /\ MaxCrashes \in Nat
    /\ MaxTmp \in Nat /\ MaxTmp >= Size /\ Foreign \subseteq Nat
    /\ HashFails \in BOOLEAN /\ None \notin CallIds

VARIABLES
    version, there, \* the source: its content, and whether it exists
    job,            \* remote_transfer_jobs
    batch,          \* the jobs the scheduler's job has read as pending, or None
    rpc, run,       \* a run's next step, and what it knows
    calls,          \* the HTTP calls under way
    tmp, final,     \* the receiver's .fftmp file and final file
    calm,           \* ghost: one run at a time, no call was handled after its
                    \* sender had given it up, and none confirmed a transfer
                    \* without a checksum
    crashes

source   == <<version, there>>
sender   == <<job, batch, rpc, run>>
receiver == <<tmp, final>>
vars == <<version, there, job, batch, rpc, run, calls, tmp, final, calm, crashes>>

Versions == 1..MaxVersion
Sums     == Versions \cup {None}    \* a file's checksum, or NULL
Unit     == Nat \X (0..MaxVersion)
Runs     == {r \in Jobs \X {"scheduled", "served"} : r[2] = "served" => r[1] \in Pulls}
JobStatuses == {"none", "pending", "in_progress", "completed", "failed", "cancelled"}
Job == [status: JobStatuses, sum: Sums, sent: 0..Size, full: BOOLEAN]  \* full: progress >= 100
Labels == {"idle", "start", "ask", "asked", "read", "sent", "verify", "verifying", "cleanup"}
Waiting == {"asked", "sent", "verifying"}
Run == [attempt: 0..(MaxRetries - 1), pos: Nat, idx: Nat]
Answers == {"ok", "transient", "permanent"}
Call == [run: Runs \cup {None}, kind: {"status", "chunk", "verify"}, idx: Nat, data: Seq(Unit),
         sum: Sums, state: {"sent", "renamed", "mismatch", "answered"}, answer: Answers,
         size: Nat]

ASSUME ValueAssumption ==
    /\ None \notin Runs \cup Versions \cup Call
    /\ NoFile \notin Seq(Unit)

TypeOK ==
    /\ version \in Versions /\ there \in BOOLEAN
    /\ job \in [Jobs -> Job]
    /\ batch \in (SUBSET Jobs) \cup {None}
    /\ rpc \in [Runs -> Labels]
    /\ run \in [Runs -> Run]
    /\ calls \in [CallIds -> Call \cup {None}]
    /\ tmp \in Seq(Unit) \cup {NoFile} /\ final \in Seq(Unit) \cup {NoFile}
    /\ calm \in BOOLEAN /\ crashes \in 0..MaxCrashes

Whole(v)     == [k \in 1..Size |-> <<k, v>>]
OtherFile(n) == [k \in 1..n |-> <<k, 0>>]
NewJob(s, v) == [status |-> s, sum |-> v, sent |-> 0, full |-> FALSE]
NoRun        == [attempt |-> 0, pos |-> 0, idx |-> 0]

Init ==
    /\ version = 1 /\ there = TRUE
    /\ job = [j \in Jobs |-> NewJob("none", 1)]
    /\ batch = None
    /\ rpc = [r \in Runs |-> "idle"] /\ run = [r \in Runs |-> NoRun]
    /\ calls = [c \in CallIds |-> None]
    /\ tmp = NoFile
    /\ final \in {NoFile} \cup {OtherFile(n) : n \in Foreign}
    /\ calm = TRUE /\ crashes = 0

SetStatus(j, s) == job' = [job EXCEPT ![j].status = s]
Go(r, l)        == rpc' = [rpc EXCEPT ![r] = l]
AtMost(n)       == IF n > Size THEN Size ELSE n

-----------------------------------------------------------------------------
(* Jobs.                                                                   *)

\* create_transfer_job takes the checksum the inventory knows, which may be an
\* older one, or hashes the file, and has none when that fails.  A served job's
\* run is started with it, still PENDING.  (A name stands for a new job when no
\* run of the last one is left.)
CreateTransferJob(j) ==
    /\ job[j].status = "none" /\ there
    /\ \A r \in Runs : r[1] = j => rpc[r] = "idle"
    /\ \E v \in 1..version \cup (IF HashFails THEN {None} ELSE {}) :
          job' = [job EXCEPT ![j] = NewJob("pending", v)]
    /\ IF j \in Pulls THEN Go(<<j, "served">>, "start") ELSE UNCHANGED rpc
    /\ UNCHANGED <<source, batch, run, calls, receiver, calm, crashes>>

CancelTransfer(j) ==
    /\ job[j].status \in {"pending", "in_progress"}
    /\ SetStatus(j, "cancelled")
    /\ UNCHANGED <<source, batch, rpc, run, calls, receiver, calm, crashes>>

RetryTransfer(j) ==
    /\ job[j].status \in {"failed", "cancelled"}
    /\ job' = [job EXCEPT ![j] = NewJob("pending", @.sum)]
    /\ UNCHANGED <<source, batch, rpc, run, calls, receiver, calm, crashes>>

DeleteTransfer(j) ==
    /\ job[j].status \in {"completed", "failed", "cancelled"}
    /\ SetStatus(j, "none")
    /\ UNCHANGED <<source, batch, rpc, run, calls, receiver, calm, crashes>>

\* detect_zombie_transfers: started more than an hour ago, not at 100 percent.
DetectZombie(j) ==
    /\ job[j].status = "in_progress" /\ ~job[j].full
    /\ SetStatus(j, "failed")
    /\ UNCHANGED <<source, batch, rpc, run, calls, receiver, calm, crashes>>

\* process_pending_transfers.  Its next call waits until all its runs have ended.
Poll ==
    /\ batch = None /\ \A r \in Runs : r[2] = "scheduled" => rpc[r] = "idle"
    /\ batch' = {j \in Jobs : job[j].status = "pending"} /\ batch' # {}
    /\ UNCHANGED <<source, job, rpc, run, calls, receiver, calm, crashes>>

Begin(js) == job' = [j \in Jobs |-> IF j \in js THEN [job[j] EXCEPT !.status = "in_progress"] ELSE job[j]]

Launch ==
    /\ batch # None /\ \A j \in batch : job[j].status # "none"
    /\ Begin(batch)
    /\ rpc' = [r \in Runs |-> IF r[2] = "scheduled" /\ r[1] \in batch THEN "start" ELSE rpc[r]]
    /\ batch' = None
    /\ UNCHANGED <<source, run, calls, receiver, calm, crashes>>

\* A job deleted since raises: none is run, the ones before it are IN_PROGRESS.
LaunchFails ==
    /\ batch # None /\ \E j \in batch : job[j].status = "none"
    /\ \E js \in SUBSET {j \in batch : job[j].status # "none"} : Begin(js)
    /\ batch' = None
    /\ UNCHANGED <<source, rpc, run, calls, receiver, calm, crashes>>

-----------------------------------------------------------------------------
(* A run.                                                                  *)

Active(r)  == rpc[r] \notin {"idle", "start"}
Deleted(r) == job[r[1]].status = "none"
CallOf(r)  == {c \in CallIds : calls[c] # None /\ calls[c].run = r}
End(r)     == Go(r, "idle") /\ run' = [run EXCEPT ![r] = NoRun]

\* A row that has been deleted makes the run's next use of it raise.
StopDeleted(r) ==
    /\ rpc[r] # "idle" /\ rpc[r] \notin Waiting /\ Deleted(r)
    /\ End(r)
    /\ UNCHANGED <<source, job, batch, calls, receiver, calm, crashes>>

StartRun(r) ==
    /\ rpc[r] = "start" /\ ~Deleted(r)
    /\ IF there THEN Go(r, "ask") /\ UNCHANGED <<job, run>>
                ELSE End(r) /\ SetStatus(r[1], "failed")
    /\ calm' = (calm /\ \A q \in Runs : ~Active(q))
    /\ UNCHANGED <<source, batch, calls, receiver, crashes>>

Send(r, kind, idx, data) ==
    \E c \in CallIds :
        /\ calls[c] = None
        /\ calls' = [calls EXCEPT ![c] = [run |-> r, kind |-> kind, idx |-> idx, data |-> data,
                                          sum |-> job[r[1]].sum, state |-> "sent",
                                          answer |-> "ok", size |-> 0]]

AskStatus(r) ==
    /\ rpc[r] = "ask" /\ ~Deleted(r)
    /\ Send(r, "status", 0, <<>>)
    /\ Go(r, "asked")
    /\ UNCHANGED <<source, job, batch, run, receiver, calm, crashes>>

\* A bug: the attempts are not counted.
RetryForever(r, permanent) ==
    LET attempt == run[r].attempt + 1
    IN  IF Deleted(r)     THEN End(r) /\ UNCHANGED job
        ELSE IF permanent THEN End(r) /\ SetStatus(r[1], "failed")
        ELSE /\ run' = [run EXCEPT ![r] = [NoRun EXCEPT !.attempt = attempt]]
             /\ Go(r, "ask") /\ UNCHANGED job

\* A bug: the last attempt's failure is not noted.
RetrySilently(r, permanent) ==
    LET attempt == run[r].attempt + 1
        ends    == permanent \/ attempt >= MaxRetries
    IN  IF Deleted(r) \/ ends THEN End(r) /\ UNCHANGED job
        ELSE /\ run' = [run EXCEPT ![r] = [NoRun EXCEPT !.attempt = attempt]]
             /\ Go(r, "ask") /\ UNCHANGED job

\* should_retry: a permanent error or the last attempt ends the run.
Retry(r, permanent) ==
    LET attempt == run[r].attempt + 1
        ends    == permanent \/ attempt >= MaxRetries
    IN  IF Deleted(r) THEN End(r) /\ UNCHANGED job
        ELSE IF ends  THEN End(r) /\ SetStatus(r[1], "failed")
        ELSE /\ run' = [run EXCEPT ![r] = [NoRun EXCEPT !.attempt = attempt]]
             /\ Go(r, "ask") /\ UNCHANGED job

\* The file is opened, if it still exists, and read from the receiver's size on.
Resume(r, size) ==
    IF there
    THEN /\ run' = [run EXCEPT ![r].pos = size, ![r].idx = size \div ChunkSize]
         /\ IF size > 0 /\ ~Deleted(r) THEN job' = [job EXCEPT ![r[1]].sent = AtMost(size)]
                                       ELSE UNCHANGED job
         /\ Go(r, "read")
    ELSE Retry(r, FALSE)

Answered(r, c) == calls[c] # None /\ calls[c].run = r /\ calls[c].state = "answered"
Free(c)        == calls' = [calls EXCEPT ![c] = None]

\* Without an answer, or with an error, the transfer starts afresh.
GetStatus(r) ==
    /\ rpc[r] = "asked"
    /\ \E c \in CallIds :
          /\ Answered(r, c)
          /\ Resume(r, IF calls[c].answer = "ok" THEN calls[c].size ELSE 0)
          /\ Free(c)
    /\ UNCHANGED <<source, batch, receiver, calm, crashes>>

\* An old status call does nothing any more.
StatusTimeout(r) ==
    /\ rpc[r] = "asked" /\ Resume(r, 0)
    /\ calls' = [c \in CallIds |-> IF c \in CallOf(r) THEN None ELSE calls[c]]
    /\ UNCHANGED <<source, batch, receiver, calm, crashes>>

Chunk(r) == [k \in 1..(AtMost(run[r].pos + ChunkSize) - run[r].pos) |-> <<run[r].pos + k, version>>]

\* Whether the job is cancelled is looked up before each chunk.
SendChunk(r) ==
    /\ rpc[r] = "read" /\ ~Deleted(r)
    /\ run[r].pos < Size /\ job[r[1]].status # "cancelled"
    /\ Send(r, "chunk", run[r].idx, Chunk(r))
    /\ run' = [run EXCEPT ![r].pos = AtMost(@ + ChunkSize)]
    /\ Go(r, "sent")
    /\ UNCHANGED <<source, job, batch, receiver, calm, crashes>>

ChunkSent(r) ==
    /\ rpc[r] = "sent"
    /\ \E c \in CallIds :
          /\ Answered(r, c) /\ calls[c].answer = "ok"
          /\ run' = [run EXCEPT ![r].idx = @ + 1]
          /\ job' = IF Deleted(r) THEN job
                    ELSE LET sent == AtMost(job[r[1]].sent + Len(calls[c].data))
                         IN  [job EXCEPT ![r[1]].sent = sent, ![r[1]].full = (sent = Size)]
          /\ Free(c)
    /\ Go(r, "read")
    /\ UNCHANGED <<source, batch, receiver, calm, crashes>>

\* At the end of the file, and when the job was cancelled too.
SendVerify(r) ==
    /\ rpc[r] = "read" /\ ~Deleted(r)
    /\ run[r].pos >= Size \/ job[r[1]].status = "cancelled"
    /\ Send(r, "verify", 0, <<>>)
    /\ Go(r, "verifying")
    /\ UNCHANGED <<source, job, batch, run, receiver, calm, crashes>>

\* A bug: the answer is not looked at.
CompleteUnchecked(r) ==
    /\ rpc[r] = "verifying" /\ ~Deleted(r)
    /\ \E c \in CallIds : Answered(r, c) /\ Free(c)
    /\ job' = [job EXCEPT ![r[1]].status = "completed", ![r[1]].full = TRUE]
    /\ Go(r, "cleanup")
    /\ calm' = (calm /\ job[r[1]].sum # None)
    /\ UNCHANGED <<source, batch, run, receiver, crashes>>

\* Whatever the status has become meanwhile, it is now COMPLETED.
Complete(r) ==
    /\ rpc[r] = "verifying" /\ ~Deleted(r)
    /\ \E c \in CallIds : Answered(r, c) /\ calls[c].answer = "ok" /\ Free(c)
    /\ job' = [job EXCEPT ![r[1]].status = "completed", ![r[1]].full = TRUE]
    /\ Go(r, "cleanup")
    /\ calm' = (calm /\ job[r[1]].sum # None)
    /\ UNCHANGED <<source, batch, run, receiver, crashes>>

\* A commit that finds the row deleted raises, and the run ends.
CompleteDeleted(r) ==
    /\ rpc[r] = "verifying" /\ Deleted(r)
    /\ \E c \in CallIds : Answered(r, c) /\ calls[c].answer = "ok" /\ Free(c)
    /\ End(r)
    /\ UNCHANGED <<source, job, batch, receiver, calm, crashes>>

Cleanup(r) ==
    /\ rpc[r] = "cleanup" /\ ~Deleted(r)
    /\ there' = (there /\ r[1] \notin Moves)
    /\ End(r)
    /\ UNCHANGED <<version, job, batch, calls, receiver, calm, crashes>>

CallFails(r) ==
    /\ rpc[r] \in {"sent", "verifying"}
    /\ \E c \in CallIds : /\ Answered(r, c) /\ calls[c].answer # "ok"
                          /\ Retry(r, calls[c].answer = "permanent")
                          /\ Free(c)
    /\ UNCHANGED <<source, batch, receiver, calm, crashes>>

\* The answer has not come, or is lost: the call is left to itself or has not
\* arrived.
GiveUp(r) ==
    IF CallOf(r) = {} THEN UNCHANGED calls
    ELSE \E c \in CallOf(r) :
            \/ Free(c)
            \/ calls[c].state # "answered" /\ calls' = [calls EXCEPT ![c].run = None]

CallTimeout(r) ==
    /\ rpc[r] \in {"sent", "verifying"}
    /\ GiveUp(r) /\ Retry(r, FALSE)
    /\ UNCHANGED <<source, batch, receiver, calm, crashes>>

-----------------------------------------------------------------------------
(* The receiver.                                                           *)

Arrived(c, kind, state) == calls[c] # None /\ calls[c].kind = kind /\ calls[c].state = state

\* Nobody hears the answer to a call that was given up.
Answer(c, answer, size) ==
    calls' = [calls EXCEPT ![c] = IF @.run = None THEN None
                                  ELSE [@ EXCEPT !.state = "answered", !.answer = answer, !.size = size]]
Late(c) == calls[c].run = None

\* An error before anything was done: no trust, no such path, no space.
Refuse(c, answer) ==
    /\ calls[c] # None /\ calls[c].state = "sent" /\ ~Late(c)
    /\ Answer(c, answer, 0)
    /\ UNCHANGED <<source, sender, receiver, calm, crashes>>

\* get_transfer_status: the final file's size comes before the partial one's.
AnswerStatus(c) ==
    /\ Arrived(c, "status", "sent")
    /\ Answer(c, "ok", IF final # NoFile THEN Len(final) ELSE IF tmp # NoFile THEN Len(tmp) ELSE 0)
    /\ UNCHANGED <<source, sender, receiver, calm, crashes>>

\* A bug: every chunk is appended.
WrittenAlways(idx, data) == IF tmp # NoFile THEN tmp \o data ELSE data

\* receive_chunk writes the first chunk to a new file and appends the others.
Written(idx, data) == IF idx > 0 /\ tmp # NoFile THEN tmp \o data ELSE data

ReceiveChunk(c) ==
    /\ Arrived(c, "chunk", "sent")
    /\ tmp' = Written(calls[c].idx, calls[c].data) /\ Len(tmp') <= MaxTmp
    /\ Answer(c, "ok", 0)
    /\ calm' = (calm /\ ~Late(c))
    /\ UNCHANGED <<source, sender, final, crashes>>

\* The disk is full, or the receiver is killed, part way.
ReceivePart(c, n) ==
    /\ Arrived(c, "chunk", "sent") /\ n < Len(calls[c].data)
    /\ tmp' = Written(calls[c].idx, SubSeq(calls[c].data, 1, n)) /\ Len(tmp') <= MaxTmp
    /\ Answer(c, "transient", 0)
    /\ calm' = (calm /\ ~Late(c))
    /\ UNCHANGED <<source, sender, final, crashes>>

\* verify_transfer: the partial file becomes the final file, which is confirmed
\* as it is when the job has no checksum, ...
VerifyRename(c) ==
    /\ Arrived(c, "verify", "sent")
    /\ IF tmp = NoFile
       THEN Answer(c, "permanent", 0) /\ UNCHANGED <<receiver, calm>>
       ELSE /\ final' = tmp /\ tmp' = NoFile
            /\ IF calls[c].sum = None THEN Answer(c, "ok", 0)
                                      ELSE calls' = [calls EXCEPT ![c].state = "renamed"]
            /\ calm' = (calm /\ ~Late(c))
    /\ UNCHANGED <<source, sender, crashes>>

\* A bug: the sizes are compared.
VerifyLength(c) ==
    /\ Arrived(c, "verify", "renamed")
    /\ IF final # NoFile /\ Len(final) = Size THEN Answer(c, "ok", 0)
                                       ELSE calls' = [calls EXCEPT ![c].state = "mismatch"]
    /\ UNCHANGED <<source, sender, receiver, calm, crashes>>

\* ... and else is hashed (a file that is gone by then has no hash), ...
VerifyHash(c) ==
    /\ Arrived(c, "verify", "renamed")
    /\ IF final = Whole(calls[c].sum) THEN Answer(c, "ok", 0)
                                       ELSE calls' = [calls EXCEPT ![c].state = "mismatch"]
    /\ UNCHANGED <<source, sender, receiver, calm, crashes>>

\* ... and deleted when the checksum is another.
VerifyUnlink(c) ==
    /\ Arrived(c, "verify", "mismatch")
    /\ final' = NoFile
    /\ Answer(c, "permanent", 0)
    /\ calm' = (calm /\ ~Late(c))
    /\ UNCHANGED <<source, sender, tmp, crashes>>

\* A call is lost on its way, or with the receiver's process.
Lose(c) ==
    /\ calls[c] # None /\ calls[c].state # "answered"
    /\ Free(c)
    /\ UNCHANGED <<source, sender, receiver, calm, crashes>>

\* cleanup_orphaned_temp_files: nobody has written to it for a day.
CleanTmp ==
    /\ tmp # NoFile /\ tmp' = NoFile
    /\ \A r \in Runs : ~Active(r)
    /\ UNCHANGED <<source, sender, calls, final, calm, crashes>>

-----------------------------------------------------------------------------
\* The user edits the source.
Save ==
    /\ there /\ version < MaxVersion /\ version' = version + 1
    /\ UNCHANGED <<there, sender, calls, receiver, calm, crashes>>

\* The sender's process restarts; what it has sent goes on.
Crash ==
    /\ crashes < MaxCrashes /\ crashes' = crashes + 1
    /\ batch' = None
    /\ rpc' = [r \in Runs |-> "idle"] /\ run' = [r \in Runs |-> NoRun]
    /\ calls' = [c \in CallIds |-> IF calls[c] = None \/ calls[c].state = "answered" THEN None
                                   ELSE [calls[c] EXCEPT !.run = None]]
    /\ UNCHANGED <<source, job, receiver, calm>>

RunStep(r) ==
    \/ StopDeleted(r) \/ StartRun(r) \/ AskStatus(r) \/ GetStatus(r) \/ StatusTimeout(r)
    \/ SendChunk(r) \/ ChunkSent(r) \/ SendVerify(r) \/ Complete(r) \/ CompleteDeleted(r)
    \/ Cleanup(r) \/ CallFails(r) \/ CallTimeout(r)

Handle(c) ==
    \/ AnswerStatus(c) \/ ReceiveChunk(c) \/ VerifyRename(c) \/ VerifyHash(c) \/ VerifyUnlink(c)
    \/ \E n \in 0..ChunkSize : ReceivePart(c, n)
    \/ \E answer \in Answers \ {"ok"} : Refuse(c, answer)

Schedule == Poll \/ Launch \/ LaunchFails

Next ==
    \/ Schedule \/ Save \/ Crash \/ CleanTmp
    \/ \E r \in Runs : RunStep(r)
    \/ \E c \in CallIds : Handle(c) \/ Lose(c)
    \/ \E j \in Jobs : \/ CreateTransferJob(j) \/ CancelTransfer(j) \/ RetryTransfer(j)
                       \/ DeleteTransfer(j) \/ DetectZombie(j)

Spec == Init /\ [][Next]_vars

\* The scheduler's job comes back every minute and the daily clean-up every day;
\* a run goes on, at the latest when its call times out; a call is handled or
\* lost.
FairSpec ==
    /\ Spec /\ WF_vars(Schedule)
    /\ \A r \in Runs : WF_vars(RunStep(r))
    /\ \A c \in CallIds : WF_vars(Handle(c) \/ Lose(c))
    /\ \A j \in Jobs : WF_vars(DetectZombie(j))
-----------------------------------------------------------------------------
(* Properties.                                                             *)

\* The receiver holds the file, as it was at some time.
Delivered(v) == final = Whole(v)
InTransfer   == final = NoFile /\ tmp # NoFile

\* A resumed transfer neither repeats nor leaves out a unit of the file
\* (remote_transfer_service.py:317-322, remote.py:893-895), whatever call failed
\* half way.  Not if the first chunk was cut short: the receiver then starts a
\* new file with what comes behind it.
TmpIsPrefix ==
    calm /\ InTransfer /\ tmp # <<>> /\ tmp[1][1] = 1 => \A k \in DOMAIN tmp : tmp[k][1] = k

\* When a run goes on to remove the source, the receiver has the file, in the
\* version that the job's checksum names (remote_transfer_service.py:475-487,
\* remote.py:920-940), whichever calls were lost or repeated on the way.  Not for
\* a job without a checksum, which is confirmed as it is (remote.py:943-944) and
\* ends the calm.
ConfirmedIsDelivered ==
    calm => \A r \in Runs : rpc[r] = "cleanup" => Delivered(job[r[1]].sum) \/ Deleted(r)

\* MOVE removes the source only when the receiver has it, in one version or
\* another ("delete the source file safely", remote_transfer_service.py:566-569).
MoveKeepsContent == there \/ \E v \in Versions : Delivered(v)

\* A transfer that was started ends, except one whose sender was stopped between
\* its last chunk and the end: the zombie detection leaves it alone
\* (stats_cleanup.py:119-126).
TransferEnds ==
    \A j \in Jobs :
        job[j].status = "in_progress"
            ~> job[j].status # "in_progress" \/ (crashes > 0 /\ job[j].full)

Confirmed(j) == \E r \in Runs : r[1] = j /\ rpc[r] = "cleanup"
DeliveredVersion == IF \E v \in Versions : Delivered(v)
                    THEN CHOOSE v \in Versions : Delivered(v) ELSE None
Promise == INSTANCE Delivery WITH
               dst  <- DeliveredVersion,
               done <- {j \in Jobs : job[j].status = "completed" \/ Confirmed(j)}

\* The transfer implements Delivery, as long as it is calm: in particular until
\* a job without a checksum is confirmed.
Delivers == Promise!Spec
===============================================================================
