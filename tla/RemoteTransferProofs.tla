------------------------- MODULE RemoteTransferProofs -------------------------
(***************************************************************************)
(* Theorems about RemoteTransfer, for any jobs, sizes, calls and crashes.  *)
(*                                                                         *)
(* The inductive invariant has four parts.  CallInv, which holds always:   *)
(* a call whose sender still waits for it belongs to a run at the step     *)
(* that waits for such a call, no run has two, and its checksum is the     *)
(* job's.  DeliveryInv and PrefixInv hold while the transfers are calm:    *)
(* one run at a time is under way, its source is there, what was confirmed *)
(* had a checksum and is still what the receiver holds; and the next chunk *)
(* goes where the partial file ends.                                       *)
(***************************************************************************)
EXTENDS RemoteTransfer, TLAPS

\* The sender waits for the call's answer.
Heard(c) == calls[c] # None /\ calls[c].run # None
Await    == [status |-> "asked", chunk |-> "sent", verify |-> "verifying"]

CallFits(c) == Heard(c) => /\ rpc[calls[c].run] = Await[calls[c].kind]
                           /\ calls[c].sum = job[calls[c].run[1]].sum

OneCall(c, d) == Heard(c) /\ Heard(d) /\ calls[c].run = calls[d].run => c = d

CallInv ==
    /\ \A c \in CallIds : CallFits(c)
    /\ \A c, d \in CallIds : OneCall(c, d)
    /\ batch # None => \A r \in Runs : r[2] = "scheduled" => rpc[r] = "idle"

-----------------------------------------------------------------------------
(* While calm.                                                             *)

OneRun     == \A q, r \in Runs : Active(q) /\ Active(r) => q = r
StillThere == \A r \in Runs : Active(r) => there

Holds(s) == s # None /\ Delivered(s)

\* Between the renaming and the end of a verification there is no partial file.
Checked(c) ==
    Heard(c) /\ calls[c].kind = "verify" =>
        /\ calls[c].state = "answered" /\ calls[c].answer = "ok" =>
               calls[c].sum = None \/ Delivered(calls[c].sum)
        /\ calls[c].state \in {"renamed", "mismatch"} => tmp = NoFile

DeliveryInv ==
    calm => /\ OneRun
            /\ StillThere
            /\ \A r \in Runs : rpc[r] = "cleanup" => Holds(job[r[1]].sum)
            /\ \A c \in CallIds : Checked(c)

\* A partial file that begins where the file begins.
Begun   == InTransfer /\ tmp # <<>> /\ tmp[1][1] = 1
Upto(n) == Begun => Len(tmp) = n

\* The next chunk starts a new file or is appended at the right place, ...
ReadFits(r) ==
    rpc[r] = "read" => /\ run[r].idx > 0 => run[r].pos > 0
                       /\ run[r].idx = 0 \/ Upto(run[r].pos)

\* ... so does the one under way, ...
ChunkFits(c) ==
    Heard(c) /\ calls[c].kind = "chunk" =>
        LET r    == calls[c].run
            data == calls[c].data
            from == run[r].pos - Len(data)
        IN  /\ calls[c].idx = run[r].idx
            /\ Len(data) > 0 /\ from >= 0
            /\ \A k \in 1..Len(data) : data[k][1] = from + k
            /\ run[r].idx > 0 => from > 0
            /\ calls[c].state = "sent" => run[r].idx = 0 \/ Upto(from)
            /\ calls[c].state = "answered" /\ calls[c].answer = "ok" => Upto(run[r].pos)

\* ... and the receiver has reported the size of what it holds.
SizeFits(c) ==
    Heard(c) /\ calls[c].kind = "status" /\ calls[c].state = "answered" /\ calls[c].answer = "ok"
        => Upto(calls[c].size)

PrefixInv ==
    calm => /\ Begun => \A k \in DOMAIN tmp : tmp[k][1] = k
            /\ \A r \in Runs : ReadFits(r)
            /\ \A c \in CallIds : ChunkFits(c) /\ SizeFits(c)
-----------------------------------------------------------------------------
(* Operators.                                                              *)

LEMMA AtMostBounds ==
    ASSUME NEW n \in Nat
    PROVE  AtMost(n) \in 0..Size /\ AtMost(n) <= n /\ (n < Size => AtMost(n) = n)
BY TransferAssumption DEF AtMost

LEMMA Chunks ==
    ASSUME NEW n \in Nat
    PROVE  n \div ChunkSize \in Nat /\ (n \div ChunkSize > 0 => n > 0)
BY TransferAssumption

LEMMA RunIsPair ==
    ASSUME NEW r \in Runs
    PROVE  r[1] \in Jobs /\ r # None
BY ValueAssumption DEF Runs

LEMMA ChunkIsData ==
    ASSUME TypeOK, NEW r \in Runs, run[r].pos < Size
    PROVE  /\ Chunk(r) \in Seq(Unit)
           /\ Len(Chunk(r)) = AtMost(run[r].pos + ChunkSize) - run[r].pos
           /\ Len(Chunk(r)) > 0
           /\ \A k \in 1..Len(Chunk(r)) : Chunk(r)[k][1] = run[r].pos + k
<1> DEFINE p == run[r].pos
           n == AtMost(p + ChunkSize) - p
<1>1. p \in Nat /\ p < Size BY DEF TypeOK, Run
<1>2. n \in Nat /\ n > 0 BY <1>1, TransferAssumption DEF AtMost
<1>3. version \in 0..MaxVersion BY TransferAssumption DEF TypeOK, Versions
<1>4. Chunk(r) = [k \in 1..n |-> <<p + k, version>>] BY DEF Chunk
<1> HIDE DEF n, p
<1>5. \A k \in 1..n : <<p + k, version>> \in Unit BY <1>1, <1>2, <1>3 DEF Unit
<1>6. Chunk(r) \in Seq(Unit) BY <1>2, <1>4, <1>5
<1>7. Len(Chunk(r)) = n BY <1>2, <1>4
<1>8. \A k \in 1..n : Chunk(r)[k][1] = p + k BY <1>4
<1> QED BY <1>2, <1>6, <1>7, <1>8 DEF n, p

LEMMA WrittenIsFile ==
    ASSUME TypeOK, NEW i \in Nat, NEW data \in Seq(Unit)
    PROVE  Written(i, data) \in Seq(Unit)
BY ValueAssumption DEF TypeOK, Written

-----------------------------------------------------------------------------
(* Types.                                                                  *)

LEMMA StatusTypes ==
    ASSUME TypeOK, NEW j \in Jobs, NEW s \in JobStatuses, SetStatus(j, s)
    PROVE  job' \in [Jobs -> Job]
<1>1. [job[j] EXCEPT !.status = s] \in Job BY DEF TypeOK, Job
<1> QED BY <1>1 DEF SetStatus, TypeOK

LEMMA NewJobTypes ==
    ASSUME NEW s \in JobStatuses, NEW v \in Sums
    PROVE  NewJob(s, v) \in Job
BY TransferAssumption DEF NewJob, Job

LEMMA NoRunTypes == NoRun \in Run
BY TransferAssumption DEF NoRun, Run

LEMMA GoTypes ==
    ASSUME TypeOK, NEW r \in Runs, NEW l \in Labels, Go(r, l)
    PROVE  rpc' \in [Runs -> Labels]
BY DEF Go, TypeOK

LEMMA EndTypes ==
    ASSUME TypeOK, NEW r \in Runs, End(r)
    PROVE  rpc' \in [Runs -> Labels] /\ run' \in [Runs -> Run]
BY NoRunTypes DEF End, Go, TypeOK, Labels

LEMMA RetryTypes ==
    ASSUME TypeOK, NEW r \in Runs, NEW permanent \in BOOLEAN, Retry(r, permanent)
    PROVE  /\ job' \in [Jobs -> Job] /\ rpc' \in [Runs -> Labels] /\ run' \in [Runs -> Run]
<1> DEFINE n == run[r].attempt + 1
<1>1. r[1] \in Jobs BY RunIsPair
<1>2. CASE End(r) /\ UNCHANGED job BY <1>2, EndTypes DEF TypeOK
<1>3. CASE End(r) /\ SetStatus(r[1], "failed") BY <1>1, <1>3, EndTypes, StatusTypes DEF JobStatuses
<1>4. CASE /\ n < MaxRetries
           /\ run' = [run EXCEPT ![r] = [NoRun EXCEPT !.attempt = n]]
           /\ Go(r, "ask") /\ UNCHANGED job
  <2>1. n \in 0..(MaxRetries - 1) BY <1>4, TransferAssumption DEF TypeOK, Run
  <2>2. [NoRun EXCEPT !.attempt = n] \in Run BY <2>1 DEF NoRun, Run
  <2> QED BY <1>4, <2>2, GoTypes DEF TypeOK, Labels
<1>5. n \in Nat BY DEF TypeOK, Run
<1> QED BY <1>2, <1>3, <1>4, <1>5, TransferAssumption DEF Retry

LEMMA ResumeTypes ==
    ASSUME TypeOK, NEW r \in Runs, NEW size \in Nat, Resume(r, size)
    PROVE  /\ job' \in [Jobs -> Job] /\ rpc' \in [Runs -> Labels] /\ run' \in [Runs -> Run]
<1>1. CASE ~there BY <1>1, RetryTypes DEF Resume
<1>2. CASE there
  <2>1. r[1] \in Jobs BY RunIsPair
  <2>2. [job[r[1]] EXCEPT !.sent = AtMost(size)] \in Job BY <2>1, AtMostBounds DEF TypeOK, Job
  <2>3. job' \in [Jobs -> Job] BY <1>2, <2>1, <2>2 DEF Resume, TypeOK
  <2>4. [run[r] EXCEPT !.pos = size, !.idx = size \div ChunkSize] \in Run BY Chunks DEF TypeOK, Run
  <2>5. run' = [run EXCEPT ![r] = [run[r] EXCEPT !.pos = size, !.idx = size \div ChunkSize]]
        BY <1>2 DEF Resume, TypeOK
  <2>6. Go(r, "read") BY <1>2 DEF Resume
  <2> QED BY <2>3, <2>4, <2>5, <2>6, GoTypes DEF TypeOK, Labels
<1> QED BY <1>1, <1>2

LEMMA SendTypes ==
    ASSUME TypeOK, NEW r \in Runs, NEW kind \in {"status", "chunk", "verify"}, NEW i \in Nat,
           NEW data \in Seq(Unit), Send(r, kind, i, data)
    PROVE  calls' \in [CallIds -> Call \cup {None}]
<1>1. job[r[1]].sum \in Sums BY RunIsPair DEF TypeOK, Job
<1>2. [run |-> r, kind |-> kind, idx |-> i, data |-> data, sum |-> job[r[1]].sum,
       state |-> "sent", answer |-> "ok", size |-> 0] \in Call
      BY <1>1 DEF Call, Answers
<1> QED BY <1>2 DEF Send, TypeOK

LEMMA FreeTypes ==
    ASSUME TypeOK, NEW c \in CallIds, Free(c)
    PROVE  calls' \in [CallIds -> Call \cup {None}]
BY DEF Free, TypeOK

LEMMA StateTypes ==
    ASSUME TypeOK, NEW c \in CallIds, calls[c] # None,
           NEW s \in {"sent", "renamed", "mismatch", "answered"},
           calls' = [calls EXCEPT ![c].state = s]
    PROVE  calls' \in [CallIds -> Call \cup {None}]
<1>1. [calls[c] EXCEPT !.state = s] \in Call BY DEF TypeOK, Call
<1> QED BY <1>1 DEF TypeOK

LEMMA AnswerTypes ==
    ASSUME TypeOK, NEW c \in CallIds, calls[c] # None, NEW answer \in Answers, NEW size \in Nat,
           Answer(c, answer, size)
    PROVE  calls' \in [CallIds -> Call \cup {None}]
<1>1. [calls[c] EXCEPT !.state = "answered", !.answer = answer, !.size = size] \in Call
      BY DEF TypeOK, Call
<1> QED BY <1>1 DEF Answer, TypeOK

LEMMA GiveUpTypes ==
    ASSUME TypeOK, NEW r \in Runs, GiveUp(r)
    PROVE  calls' \in [CallIds -> Call \cup {None}]
<1>1. \A c \in CallIds : calls[c] # None => [calls[c] EXCEPT !.run = None] \in Call
      BY DEF TypeOK, Call
<1>2. ASSUME NEW c \in CallIds, calls[c] # None, calls' = [calls EXCEPT ![c].run = None]
      PROVE  calls' \in [CallIds -> Call \cup {None}]
      BY <1>1, <1>2 DEF TypeOK
<1> QED BY <1>2, FreeTypes DEF GiveUp, CallOf, TypeOK

LEMMA TypesInit == Init => TypeOK
<1> SUFFICES ASSUME Init PROVE TypeOK
    OBVIOUS
<1>1. version \in Versions /\ there \in BOOLEAN BY TransferAssumption DEF Init, Versions
<1>2. job \in [Jobs -> Job]
      BY NewJobTypes, TransferAssumption DEF Init, JobStatuses, Sums, Versions
<1>3. rpc \in [Runs -> Labels] /\ run \in [Runs -> Run] BY NoRunTypes DEF Init, Labels
<1>4. calls \in [CallIds -> Call \cup {None}] BY DEF Init
<1>5. ASSUME NEW n \in Foreign PROVE OtherFile(n) \in Seq(Unit)
  <2>1. n \in Nat BY TransferAssumption
  <2>2. \A k \in 1..n : <<k, 0>> \in Unit BY <2>1, TransferAssumption DEF Unit
  <2> QED BY <2>1, <2>2 DEF OtherFile
<1>6. final \in Seq(Unit) \cup {NoFile} BY <1>5 DEF Init
<1>7. crashes \in 0..MaxCrashes BY TransferAssumption DEF Init
<1> QED BY <1>1, <1>2, <1>3, <1>4, <1>6, <1>7 DEF Init, TypeOK

LEMMA JobStepTypes ==
    ASSUME TypeOK, NEW j \in Jobs,
           \/ CreateTransferJob(j) \/ CancelTransfer(j) \/ RetryTransfer(j)
           \/ DeleteTransfer(j) \/ DetectZombie(j)
    PROVE  TypeOK'
<1>1. CASE CancelTransfer(j) \/ DeleteTransfer(j) \/ DetectZombie(j)
  <2>1. job' \in [Jobs -> Job]
        BY <1>1, StatusTypes DEF CancelTransfer, DeleteTransfer, DetectZombie, JobStatuses
  <2> QED BY <1>1, <2>1 DEF CancelTransfer, DeleteTransfer, DetectZombie, TypeOK, source, receiver
<1>2. CASE RetryTransfer(j)
  <2>1. NewJob("pending", job[j].sum) \in Job BY NewJobTypes DEF TypeOK, Job, JobStatuses
  <2>2. job' \in [Jobs -> Job] BY <1>2, <2>1 DEF RetryTransfer, TypeOK
  <2> QED BY <1>2, <2>2 DEF RetryTransfer, TypeOK, source, receiver
<1>3. CASE CreateTransferJob(j)
  <2>0. version \in 1..MaxVersion BY DEF TypeOK, Versions
  <2>1. ASSUME NEW v \in 1..version \cup (IF HashFails THEN {None} ELSE {})
        PROVE  NewJob("pending", v) \in Job
    <3>1. v \in Sums BY <2>0, TransferAssumption DEF Sums, Versions
    <3> QED BY <3>1, NewJobTypes DEF JobStatuses
  <2>2. job' \in [Jobs -> Job] BY <1>3, <2>1 DEF CreateTransferJob, TypeOK
  <2>3. j \in Pulls => <<j, "served">> \in Runs BY DEF Runs
  <2>4. rpc' \in [Runs -> Labels] BY <1>3, <2>3, GoTypes DEF CreateTransferJob, TypeOK, Labels
  <2> QED BY <1>3, <2>2, <2>4 DEF CreateTransferJob, TypeOK, source, receiver
<1> QED BY <1>1, <1>2, <1>3

LEMMA BeginTypes ==
    ASSUME TypeOK, NEW js, Begin(js)
    PROVE  job' \in [Jobs -> Job]
<1>1. \A j \in Jobs : [job[j] EXCEPT !.status = "in_progress"] \in Job
      BY DEF TypeOK, Job, JobStatuses
<1> QED BY <1>1 DEF Begin, TypeOK

LEMMA ScheduleTypes ==
    ASSUME TypeOK, Schedule
    PROVE  TypeOK'
<1>1. CASE Poll BY <1>1 DEF Poll, TypeOK, source, receiver
<1>2. CASE Launch
  <2>1. job' \in [Jobs -> Job] BY <1>2, BeginTypes DEF Launch
  <2>2. rpc' \in [Runs -> Labels] BY <1>2 DEF Launch, TypeOK, Labels
  <2>3. batch' = None BY <1>2 DEF Launch
  <2> QED BY <1>2, <2>1, <2>2, <2>3 DEF Launch, TypeOK, source, receiver
<1>3. CASE LaunchFails
  <2>1. job' \in [Jobs -> Job] BY <1>3, BeginTypes DEF LaunchFails
  <2> QED BY <1>3, <2>1 DEF LaunchFails, TypeOK, source, receiver
<1> QED BY <1>1, <1>2, <1>3 DEF Schedule

LEMMA RunStepTypes ==
    ASSUME TypeOK, NEW r \in Runs, RunStep(r)
    PROVE  TypeOK'
<1> USE DEF source, sender, receiver
<1>1. CASE StopDeleted(r) BY <1>1, EndTypes DEF StopDeleted, TypeOK
<1>2. CASE StartRun(r)
  <2>1. calm' \in BOOLEAN BY <1>2 DEF StartRun, TypeOK
  <2>2. job' \in [Jobs -> Job] /\ rpc' \in [Runs -> Labels] /\ run' \in [Runs -> Run]
        BY <1>2, EndTypes, GoTypes, StatusTypes, RunIsPair DEF StartRun, TypeOK, Labels, JobStatuses
  <2> QED BY <1>2, <2>1, <2>2 DEF StartRun, TypeOK
<1>3. CASE AskStatus(r)
  <2>0. <<>> \in Seq(Unit) OBVIOUS
  <2>1. calls' \in [CallIds -> Call \cup {None}] BY <1>3, <2>0, SendTypes DEF AskStatus
  <2>2. rpc' \in [Runs -> Labels] BY <1>3, GoTypes DEF AskStatus, Labels
  <2> QED BY <1>3, <2>1, <2>2 DEF AskStatus, TypeOK
<1>4. CASE GetStatus(r)
  <2>1. PICK c \in CallIds :
            /\ Answered(r, c)
            /\ Resume(r, IF calls[c].answer = "ok" THEN calls[c].size ELSE 0)
            /\ Free(c)
        BY <1>4 DEF GetStatus
  <2>2. (IF calls[c].answer = "ok" THEN calls[c].size ELSE 0) \in Nat
        BY <2>1 DEF Answered, TypeOK, Call
  <2>3. job' \in [Jobs -> Job] /\ rpc' \in [Runs -> Labels] /\ run' \in [Runs -> Run]
        BY <2>1, <2>2, ResumeTypes
  <2>4. calls' \in [CallIds -> Call \cup {None}] BY <2>1, FreeTypes
  <2> QED BY <1>4, <2>3, <2>4 DEF GetStatus, TypeOK
<1>5. CASE StatusTimeout(r)
  <2>1. job' \in [Jobs -> Job] /\ rpc' \in [Runs -> Labels] /\ run' \in [Runs -> Run]
        BY <1>5, ResumeTypes DEF StatusTimeout
  <2>2. calls' \in [CallIds -> Call \cup {None}] BY <1>5 DEF StatusTimeout, TypeOK
  <2> QED BY <1>5, <2>1, <2>2 DEF StatusTimeout, TypeOK
<1>6. CASE SendChunk(r)
  <2>1. run[r].pos < Size /\ Chunk(r) \in Seq(Unit) BY <1>6, ChunkIsData DEF SendChunk
  <2>2. calls' \in [CallIds -> Call \cup {None}]
        BY <1>6, <2>1, SendTypes DEF SendChunk, TypeOK, Run
  <2>3. run[r].pos + ChunkSize \in Nat BY TransferAssumption DEF TypeOK, Run
  <2>4. AtMost(run[r].pos + ChunkSize) \in Nat BY <2>3, AtMostBounds, TransferAssumption
  <2>5. run' \in [Runs -> Run]
    <3> DEFINE n == AtMost(run[r].pos + ChunkSize)
    <3>1. run' = [run EXCEPT ![r].pos = n] BY <1>6 DEF SendChunk
    <3>2. n \in Nat BY <2>4
    <3> HIDE DEF n
    <3>3. [run[r] EXCEPT !.pos = n] \in Run BY <3>2 DEF TypeOK, Run
    <3> QED BY <3>1, <3>3 DEF TypeOK
  <2>6. rpc' \in [Runs -> Labels] BY <1>6, GoTypes DEF SendChunk, Labels
  <2> QED BY <1>6, <2>2, <2>5, <2>6 DEF SendChunk, TypeOK
<1>7. CASE ChunkSent(r)
  <2>1. PICK c \in CallIds :
            /\ Answered(r, c)
            /\ run' = [run EXCEPT ![r].idx = @ + 1]
            /\ job' = IF Deleted(r) THEN job
                      ELSE LET sent == AtMost(job[r[1]].sent + Len(calls[c].data))
                           IN  [job EXCEPT ![r[1]].sent = sent, ![r[1]].full = (sent = Size)]
            /\ Free(c)
        BY <1>7 DEF ChunkSent
  <2>2. run[r].idx + 1 \in Nat BY DEF TypeOK, Run
  <2>3. run' \in [Runs -> Run]
    <3>1. [run[r] EXCEPT !.idx = run[r].idx + 1] \in Run BY <2>2 DEF TypeOK, Run
    <3> QED BY <2>1, <3>1 DEF TypeOK
  <2>4. r[1] \in Jobs /\ job[r[1]].sent \in Nat BY RunIsPair, TransferAssumption DEF TypeOK, Job
  <2>5. Len(calls[c].data) \in Nat BY <2>1 DEF Answered, TypeOK, Call
  <2> DEFINE n == AtMost(job[r[1]].sent + Len(calls[c].data))
  <2>6. n \in 0..Size
    <3>1. job[r[1]].sent + Len(calls[c].data) \in Nat BY <2>4, <2>5
    <3> QED BY <3>1, AtMostBounds
  <2>7. PICK b \in BOOLEAN : b = (n = Size) OBVIOUS
  <2> HIDE DEF n
  <2>8. [job[r[1]] EXCEPT !.sent = n, !.full = b] \in Job BY <2>4, <2>6 DEF TypeOK, Job
  <2>9. ~Deleted(r) => job' = [job EXCEPT ![r[1]].sent = n, ![r[1]].full = b] BY <2>1, <2>7 DEF n
  <2>10. ~Deleted(r) => job' = [job EXCEPT ![r[1]] = [job[r[1]] EXCEPT !.sent = n, !.full = b]]
         BY <2>9, <2>4 DEF TypeOK, Job
  <2>11. job' \in [Jobs -> Job] BY <2>1, <2>4, <2>8, <2>10 DEF TypeOK
  <2>12. calls' \in [CallIds -> Call \cup {None}] BY <2>1, FreeTypes
  <2>13. rpc' \in [Runs -> Labels] BY <1>7, GoTypes DEF ChunkSent, Labels
  <2> QED BY <1>7, <2>3, <2>11, <2>12, <2>13 DEF ChunkSent, TypeOK
<1>8. CASE SendVerify(r)
  <2>0. <<>> \in Seq(Unit) OBVIOUS
  <2>1. calls' \in [CallIds -> Call \cup {None}] BY <1>8, <2>0, SendTypes DEF SendVerify
  <2>2. rpc' \in [Runs -> Labels] BY <1>8, GoTypes DEF SendVerify, Labels
  <2> QED BY <1>8, <2>1, <2>2 DEF SendVerify, TypeOK
<1>9. CASE Complete(r)
  <2>1. calls' \in [CallIds -> Call \cup {None}] BY <1>9, FreeTypes DEF Complete
  <2>2. rpc' \in [Runs -> Labels] BY <1>9, GoTypes DEF Complete, Labels
  <2>3. r[1] \in Jobs BY RunIsPair
  <2>4. [job[r[1]] EXCEPT !.status = "completed", !.full = TRUE] \in Job
        BY <2>3 DEF TypeOK, Job, JobStatuses
  <2>5. job' \in [Jobs -> Job] BY <1>9, <2>3, <2>4 DEF Complete, TypeOK
  <2>6. calm' \in BOOLEAN BY <1>9 DEF Complete, TypeOK
  <2> QED BY <1>9, <2>1, <2>2, <2>5, <2>6 DEF Complete, TypeOK
<1>10. CASE CompleteDeleted(r)
  <2>1. calls' \in [CallIds -> Call \cup {None}] BY <1>10, FreeTypes DEF CompleteDeleted
  <2> QED BY <1>10, <2>1, EndTypes DEF CompleteDeleted, TypeOK
<1>11. CASE Cleanup(r)
  <2>1. there' \in BOOLEAN BY <1>11 DEF Cleanup
  <2> QED BY <1>11, <2>1, EndTypes DEF Cleanup, TypeOK
<1>12. CASE CallFails(r)
  <2>1. PICK c \in CallIds : Retry(r, calls[c].answer = "permanent") /\ Free(c)
        BY <1>12 DEF CallFails
  <2>2. (calls[c].answer = "permanent") \in BOOLEAN OBVIOUS
  <2>3. job' \in [Jobs -> Job] /\ rpc' \in [Runs -> Labels] /\ run' \in [Runs -> Run]
        BY <2>1, <2>2, RetryTypes
  <2>4. calls' \in [CallIds -> Call \cup {None}] BY <2>1, FreeTypes
  <2> QED BY <1>12, <2>3, <2>4 DEF CallFails, TypeOK
<1>13. CASE CallTimeout(r)
  <2>1. job' \in [Jobs -> Job] /\ rpc' \in [Runs -> Labels] /\ run' \in [Runs -> Run]
        BY <1>13, RetryTypes DEF CallTimeout
  <2>2. calls' \in [CallIds -> Call \cup {None}] BY <1>13, GiveUpTypes DEF CallTimeout
  <2> QED BY <1>13, <2>1, <2>2 DEF CallTimeout, TypeOK
<1> QED BY <1>1, <1>2, <1>3, <1>4, <1>5, <1>6, <1>7, <1>8, <1>9, <1>10, <1>11, <1>12, <1>13
        DEF RunStep

LEMMA HandleTypes ==
    ASSUME TypeOK, NEW c \in CallIds, Handle(c) \/ Lose(c)
    PROVE  TypeOK'
<1> USE DEF source, sender, receiver
<1>1. CASE AnswerStatus(c)
  <2>1. (IF final # NoFile THEN Len(final) ELSE IF tmp # NoFile THEN Len(tmp) ELSE 0) \in Nat
        BY DEF TypeOK
  <2>2. calls' \in [CallIds -> Call \cup {None}]
        BY <1>1, <2>1, AnswerTypes DEF AnswerStatus, Arrived, Answers
  <2> QED BY <1>1, <2>2 DEF AnswerStatus, TypeOK
<1>2. CASE ReceiveChunk(c)
  <2>1. calls' \in [CallIds -> Call \cup {None}]
        BY <1>2, AnswerTypes DEF ReceiveChunk, Arrived, Answers
  <2>2. calls[c].data \in Seq(Unit) /\ calls[c].idx \in Nat
        BY <1>2 DEF ReceiveChunk, Arrived, TypeOK, Call
  <2>3. tmp' \in Seq(Unit) BY <1>2, <2>2, WrittenIsFile DEF ReceiveChunk
  <2>4. calm' \in BOOLEAN BY <1>2 DEF ReceiveChunk, TypeOK
  <2> QED BY <1>2, <2>1, <2>3, <2>4 DEF ReceiveChunk, TypeOK
<1>3. ASSUME NEW n \in 0..ChunkSize, ReceivePart(c, n) PROVE TypeOK'
  <2>1. calls' \in [CallIds -> Call \cup {None}]
        BY <1>3, AnswerTypes DEF ReceivePart, Arrived, Answers
  <2>2. calls[c].data \in Seq(Unit) /\ calls[c].idx \in Nat
        BY <1>3 DEF ReceivePart, Arrived, TypeOK, Call
  <2>3. SubSeq(calls[c].data, 1, n) \in Seq(Unit) BY <1>3, <2>2 DEF ReceivePart
  <2>4. tmp' \in Seq(Unit) BY <1>3, <2>2, <2>3, WrittenIsFile DEF ReceivePart
  <2>5. calm' \in BOOLEAN BY <1>3 DEF ReceivePart, TypeOK
  <2> QED BY <1>3, <2>1, <2>4, <2>5 DEF ReceivePart, TypeOK
<1>4. CASE VerifyRename(c)
  <2>1. calls' \in [CallIds -> Call \cup {None}]
    <3>1. CASE tmp = NoFile \/ calls[c].sum = None
          BY <1>4, <3>1, AnswerTypes DEF VerifyRename, Arrived, Answers
    <3>2. CASE tmp # NoFile /\ calls[c].sum # None
          BY <1>4, <3>2, StateTypes DEF VerifyRename, Arrived
    <3> QED BY <3>1, <3>2
  <2>2. calm' \in BOOLEAN BY <1>4 DEF VerifyRename, TypeOK
  <2> QED BY <1>4, <2>1, <2>2 DEF VerifyRename, TypeOK
<1>5. CASE VerifyHash(c)
  <2>1. calls' \in [CallIds -> Call \cup {None}]
        BY <1>5, AnswerTypes, StateTypes DEF VerifyHash, Arrived, Answers
  <2> QED BY <1>5, <2>1 DEF VerifyHash, TypeOK
<1>6. CASE VerifyUnlink(c)
  <2>1. calls' \in [CallIds -> Call \cup {None}]
        BY <1>6, AnswerTypes DEF VerifyUnlink, Arrived, Answers
  <2>2. calm' \in BOOLEAN BY <1>6 DEF VerifyUnlink, TypeOK
  <2> QED BY <1>6, <2>1, <2>2 DEF VerifyUnlink, TypeOK
<1>7. ASSUME NEW answer \in Answers, Refuse(c, answer) PROVE TypeOK'
  <2>1. calls' \in [CallIds -> Call \cup {None}] BY <1>7, AnswerTypes DEF Refuse
  <2> QED BY <1>7, <2>1 DEF Refuse, TypeOK
<1>8. CASE Lose(c) BY <1>8, FreeTypes DEF Lose, TypeOK
<1> QED BY <1>1, <1>2, <1>3, <1>4, <1>5, <1>6, <1>7, <1>8 DEF Handle

LEMMA CrashTypes ==
    ASSUME TypeOK, Crash
    PROVE  TypeOK'
<1>1. \A c \in CallIds : calls[c] # None => [calls[c] EXCEPT !.run = None] \in Call
      BY DEF TypeOK, Call
<1>2. calls' \in [CallIds -> Call \cup {None}] BY <1>1 DEF Crash, TypeOK
<1>3. rpc' \in [Runs -> Labels] /\ run' \in [Runs -> Run] BY NoRunTypes DEF Crash, Labels
<1>4. crashes' \in 0..MaxCrashes BY TransferAssumption DEF Crash, TypeOK
<1> QED BY <1>2, <1>3, <1>4 DEF Crash, TypeOK, source, receiver

LEMMA StepTypes == TypeOK /\ [Next]_vars => TypeOK'
<1> SUFFICES ASSUME TypeOK, [Next]_vars PROVE TypeOK'
    OBVIOUS
<1>1. CASE Save
  <2>1. version' \in Versions BY <1>1, TransferAssumption DEF Save, TypeOK, Versions
  <2> QED BY <1>1, <2>1 DEF Save, TypeOK, sender, receiver
<1>2. CASE CleanTmp BY <1>2 DEF CleanTmp, TypeOK, source, sender
<1>3. CASE UNCHANGED vars BY <1>3 DEF vars, TypeOK
<1> QED BY <1>1, <1>2, <1>3, JobStepTypes, ScheduleTypes, RunStepTypes, HandleTypes, CrashTypes
        DEF Next

-----------------------------------------------------------------------------
(* Calls.                                                                  *)

OnlyRun(r)   == \A q \in Runs \ {r} : rpc'[q] = rpc[q] /\ run'[q] = run[q]
SameSums     == \A j \in Jobs : job'[j].sum = job[j].sum
GoesOn(c)    == Heard(c)' => /\ Heard(c)
                             /\ calls'[c].run = calls[c].run /\ calls'[c].kind = calls[c].kind
                             /\ calls'[c].sum = calls[c].sum /\ calls'[c].idx = calls[c].idx
                             /\ calls'[c].data = calls[c].data
CallsGoOn    == \A c \in CallIds : GoesOn(c)
CallsSame    == \A c \in CallIds : Heard(c)' => Heard(c) /\ calls'[c] = calls[c]
HasNoCall(r) == \A c \in CallIds : Heard(c) => calls[c].run # r

LEMMA SameGoesOn == CallsSame => CallsGoOn
BY DEF CallsSame, CallsGoOn, GoesOn

LEMMA HeardRun ==
    ASSUME TypeOK, NEW c \in CallIds, Heard(c)
    PROVE  calls[c] \in Call /\ calls[c].run \in Runs /\ calls[c].run[1] \in Jobs
<1>1. calls[c] \in Call /\ calls[c].run \in Runs BY DEF TypeOK, Heard, Call
<1> QED BY <1>1, RunIsPair

LEMMA EndEffect ==
    ASSUME TypeOK, NEW r \in Runs, End(r)
    PROVE  rpc'[r] = "idle" /\ OnlyRun(r)
BY DEF TypeOK, End, Go, OnlyRun

LEMMA StatusEffect ==
    ASSUME TypeOK, NEW j \in Jobs, NEW s, SetStatus(j, s)
    PROVE  SameSums
BY DEF TypeOK, SetStatus, Job, SameSums

LEMMA RetryEffect ==
    ASSUME TypeOK, NEW r \in Runs, NEW permanent \in BOOLEAN, Retry(r, permanent)
    PROVE  rpc'[r] \in {"idle", "ask"} /\ OnlyRun(r) /\ SameSums
<1>1. r[1] \in Jobs BY RunIsPair
<1>2. CASE End(r) /\ (UNCHANGED job \/ SetStatus(r[1], "failed"))
      BY <1>1, <1>2, EndEffect, StatusEffect DEF SameSums
<1>3. CASE /\ run' = [run EXCEPT ![r] = [NoRun EXCEPT !.attempt = run[r].attempt + 1]]
           /\ Go(r, "ask") /\ UNCHANGED job
      BY <1>3 DEF TypeOK, Go, OnlyRun, SameSums
<1> QED BY <1>2, <1>3 DEF Retry

LEMMA ResumeEffect ==
    ASSUME TypeOK, NEW r \in Runs, NEW size \in Nat, Resume(r, size)
    PROVE  /\ OnlyRun(r) /\ SameSums
           /\ \/ rpc'[r] \in {"idle", "ask"}
              \/ rpc'[r] = "read" /\ run'[r].pos = size /\ run'[r].idx = size \div ChunkSize
<1>1. CASE ~there BY <1>1, RetryEffect DEF Resume
<1>2. CASE there
  <2>1. r[1] \in Jobs BY RunIsPair
  <2>2. SameSums
    <3>1. job' = job \/ job' = [job EXCEPT ![r[1]].sent = AtMost(size)] BY <1>2 DEF Resume
    <3>2. CASE job' = [job EXCEPT ![r[1]].sent = AtMost(size)]
          BY <2>1, <3>2 DEF TypeOK, Job, SameSums
    <3> QED BY <3>1, <3>2 DEF SameSums
  <2>3. OnlyRun(r) BY <1>2 DEF Resume, TypeOK, Go, OnlyRun
  <2>4. rpc'[r] = "read" BY <1>2 DEF Resume, TypeOK, Go
  <2>5. run'[r].pos = size /\ run'[r].idx = size \div ChunkSize BY <1>2 DEF Resume, TypeOK, Run
  <2> QED BY <2>2, <2>3, <2>4, <2>5
<1> QED BY <1>1, <1>2

LEMMA SendEffect ==
    ASSUME TypeOK, NEW r \in Runs, NEW kind, NEW i, NEW data, Send(r, kind, i, data)
    PROVE  \E c \in CallIds :
              /\ calls[c] = None
              /\ calls'[c] = [run |-> r, kind |-> kind, idx |-> i, data |-> data,
                              sum |-> job[r[1]].sum, state |-> "sent", answer |-> "ok", size |-> 0]
              /\ \A d \in CallIds \ {c} : calls'[d] = calls[d]
BY DEF TypeOK, Send

LEMMA FreeEffect ==
    ASSUME TypeOK, NEW c \in CallIds, Free(c)
    PROVE  calls'[c] = None /\ \A d \in CallIds \ {c} : calls'[d] = calls[d]
BY DEF TypeOK, Free

LEMMA FreeGoesOn ==
    ASSUME TypeOK, CallInv, NEW c \in CallIds, Free(c), NEW r, calls[c] # None => calls[c].run = r
    PROVE  CallsSame /\ (calls[c] # None /\ r # None => HasNoCall(r)')
<1>1. calls'[c] = None /\ \A d \in CallIds \ {c} : calls'[d] = calls[d] BY FreeEffect
<1>2. CallsSame BY <1>1 DEF CallsSame, Heard
<1>3. ASSUME calls[c] # None, r # None, NEW d \in CallIds, Heard(d)' PROVE calls'[d].run # r
  <2>1. d # c /\ calls'[d] = calls[d] BY <1>1, <1>3 DEF Heard
  <2>2. Heard(d) /\ Heard(c) BY <1>3, <2>1 DEF Heard
  <2> QED BY <1>3, <2>1, <2>2 DEF CallInv, OneCall
<1> QED BY <1>2, <1>3 DEF HasNoCall

LEMMA StateEffect ==
    ASSUME TypeOK, NEW c \in CallIds, calls[c] # None, NEW s,
           calls' = [calls EXCEPT ![c].state = s]
    PROVE  /\ \A d \in CallIds \ {c} : calls'[d] = calls[d]
           /\ calls'[c] = [calls[c] EXCEPT !.state = s]
           /\ CallsGoOn
<1>1. calls'[c] = [calls[c] EXCEPT !.state = s] /\ \A d \in CallIds \ {c} : calls'[d] = calls[d]
      BY DEF TypeOK
<1>2. calls[c] \in Call BY DEF TypeOK
<1>3. GoesOn(c) BY <1>1, <1>2 DEF GoesOn, Heard, Call
<1> QED BY <1>1, <1>3 DEF CallsGoOn, GoesOn, Heard

LEMMA AnswerEffect ==
    ASSUME TypeOK, NEW c \in CallIds, calls[c] # None, NEW answer, NEW size,
           Answer(c, answer, size)
    PROVE  /\ \A d \in CallIds \ {c} : calls'[d] = calls[d]
           /\ CallsGoOn
           /\ Late(c) => calls'[c] = None
           /\ ~Late(c) => calls'[c] = [calls[c] EXCEPT !.state = "answered", !.answer = answer,
                                                       !.size = size]
<1>1. /\ \A d \in CallIds \ {c} : calls'[d] = calls[d]
      /\ Late(c) => calls'[c] = None
      /\ ~Late(c) => calls'[c] = [calls[c] EXCEPT !.state = "answered", !.answer = answer,
                                                  !.size = size]
      BY DEF TypeOK, Answer, Late
<1>2. calls[c] \in Call BY DEF TypeOK
<1>3. GoesOn(c) BY <1>1, <1>2 DEF GoesOn, Heard, Call, Late
<1> QED BY <1>1, <1>3 DEF CallsGoOn, GoesOn, Heard

LEMMA GiveUpEffect ==
    ASSUME TypeOK, CallInv, NEW r \in Runs, GiveUp(r)
    PROVE  CallsSame /\ HasNoCall(r)'
<1>1. CASE CallOf(r) = {}
      BY <1>1 DEF GiveUp, CallOf, CallsSame, HasNoCall, Heard
<1>2. CASE CallOf(r) # {}
  <2>1. PICK c \in CallOf(r) : Free(c) \/ calls' = [calls EXCEPT ![c].run = None]
        BY <1>2 DEF GiveUp
  <2>2. c \in CallIds /\ calls[c] # None /\ calls[c].run = r /\ r # None
        BY <2>1, RunIsPair DEF CallOf
  <2>3. CASE Free(c) BY <2>2, <2>3, FreeGoesOn
  <2>4. CASE calls' = [calls EXCEPT ![c].run = None]
    <3>1. calls[c] \in Call BY <2>2 DEF TypeOK
    <3>2. /\ \A d \in CallIds \ {c} : calls'[d] = calls[d]
          /\ calls'[c] = [calls[c] EXCEPT !.run = None]
          BY <2>2, <2>4 DEF TypeOK
    <3>3. calls'[c].run = None BY <3>1, <3>2 DEF Call
    <3>4. CallsSame BY <3>2, <3>3 DEF CallsSame, Heard
    <3>5. ASSUME NEW d \in CallIds, Heard(d)' PROVE calls'[d].run # r
      <4>1. d # c /\ calls'[d] = calls[d] BY <3>2, <3>3, <3>5 DEF Heard
      <4>2. Heard(d) /\ Heard(c) BY <2>2, <3>5, <4>1 DEF Heard
      <4> QED BY <2>2, <4>1, <4>2 DEF CallInv, OneCall
    <3> QED BY <3>4, <3>5 DEF HasNoCall
  <2> QED BY <2>1, <2>3, <2>4
<1> QED BY <1>1, <1>2

LEMMA NotWaiting ==
    ASSUME TypeOK, CallInv, NEW r \in Runs, rpc[r] \notin Waiting
    PROVE  HasNoCall(r)
<1> SUFFICES ASSUME NEW c \in CallIds, Heard(c), calls[c].run = r PROVE FALSE
    BY DEF HasNoCall
<1>1. rpc[r] = Await[calls[c].kind] BY DEF CallInv, CallFits
<1>2. calls[c].kind \in {"status", "chunk", "verify"} BY HeardRun DEF Call
<1> QED BY <1>1, <1>2 DEF Await, Waiting

LEMMA CallsUnchanged ==
    ASSUME UNCHANGED calls
    PROVE  CallsSame /\ CallsGoOn /\ \A r : HasNoCall(r) => HasNoCall(r)'
BY SameGoesOn DEF CallsSame, Heard, HasNoCall

\* What a run's step leaves alone.
LEMMA RunStepFrame ==
    ASSUME TypeOK, CallInv, NEW r \in Runs, RunStep(r)
    PROVE  rpc[r] # "idle" /\ OnlyRun(r) /\ SameSums /\ batch' = batch /\ version' = version
           /\ tmp' = tmp /\ final' = final /\ (calm' => calm)
<1>0. r[1] \in Jobs BY RunIsPair
<1> USE DEF source, sender, receiver
<1>1. CASE StopDeleted(r) BY <1>1, EndEffect DEF StopDeleted, SameSums
<1>2. CASE StartRun(r)
  <2>1. OnlyRun(r) BY <1>2, EndEffect DEF StartRun, Go, OnlyRun, TypeOK
  <2>2. SameSums BY <1>0, <1>2, StatusEffect DEF StartRun, SameSums
  <2> QED BY <1>2, <2>1, <2>2 DEF StartRun
<1>3. CASE AskStatus(r) BY <1>3 DEF AskStatus, Go, OnlyRun, SameSums, TypeOK
<1>4. CASE GetStatus(r)
  <2>1. PICK c \in CallIds :
            /\ Answered(r, c)
            /\ Resume(r, IF calls[c].answer = "ok" THEN calls[c].size ELSE 0)
        BY <1>4 DEF GetStatus
  <2>2. (IF calls[c].answer = "ok" THEN calls[c].size ELSE 0) \in Nat
        BY <2>1 DEF Answered, TypeOK, Call
  <2>3. OnlyRun(r) /\ SameSums BY <2>1, <2>2, ResumeEffect
  <2> QED BY <1>4, <2>3 DEF GetStatus
<1>5. CASE StatusTimeout(r)
  <2>1. OnlyRun(r) /\ SameSums BY <1>5, ResumeEffect DEF StatusTimeout
  <2> QED BY <1>5, <2>1 DEF StatusTimeout
<1>6. CASE SendChunk(r) BY <1>6 DEF SendChunk, Go, OnlyRun, SameSums, TypeOK
<1>7. CASE ChunkSent(r)
  <2>1. OnlyRun(r) BY <1>7 DEF ChunkSent, Go, OnlyRun, TypeOK
  <2>2. SameSums BY <1>0, <1>7 DEF ChunkSent, SameSums, TypeOK, Job
  <2> QED BY <1>7, <2>1, <2>2 DEF ChunkSent
<1>8. CASE SendVerify(r) BY <1>8 DEF SendVerify, Go, OnlyRun, SameSums, TypeOK
<1>9. CASE Complete(r)
  <2>1. OnlyRun(r) BY <1>9 DEF Complete, Go, OnlyRun, TypeOK
  <2>2. SameSums BY <1>0, <1>9 DEF Complete, SameSums, TypeOK, Job
  <2> QED BY <1>9, <2>1, <2>2 DEF Complete
<1>10. CASE CompleteDeleted(r) BY <1>10, EndEffect DEF CompleteDeleted, SameSums
<1>11. CASE Cleanup(r) BY <1>11, EndEffect DEF Cleanup, SameSums
<1>12. CASE CallFails(r)
  <2>1. PICK c \in CallIds : Retry(r, calls[c].answer = "permanent") BY <1>12 DEF CallFails
  <2>2. (calls[c].answer = "permanent") \in BOOLEAN OBVIOUS
  <2>3. OnlyRun(r) /\ SameSums BY <2>1, <2>2, RetryEffect
  <2> QED BY <1>12, <2>3 DEF CallFails
<1>13. CASE CallTimeout(r)
  <2>1. OnlyRun(r) /\ SameSums BY <1>13, RetryEffect DEF CallTimeout
  <2> QED BY <1>13, <2>1 DEF CallTimeout
<1> QED BY <1>1, <1>2, <1>3, <1>4, <1>5, <1>6, <1>7, <1>8, <1>9, <1>10, <1>11, <1>12, <1>13
        DEF RunStep

Sends(r) == AskStatus(r) \/ SendChunk(r) \/ SendVerify(r)

\* A run that does not send has no call after its step.
LEMMA RunCalls ==
    ASSUME TypeOK, CallInv, NEW r \in Runs, RunStep(r), ~Sends(r)
    PROVE  CallsSame /\ HasNoCall(r)'
<1>0. r # None BY RunIsPair
<1>1. CASE StopDeleted(r) \/ StartRun(r) \/ Cleanup(r)
  <2>1. HasNoCall(r) BY <1>1, NotWaiting DEF StopDeleted, StartRun, Cleanup, Waiting
  <2> QED BY <1>1, <2>1, CallsUnchanged DEF StopDeleted, StartRun, Cleanup
<1>2. CASE GetStatus(r) \/ ChunkSent(r) \/ Complete(r) \/ CompleteDeleted(r) \/ CallFails(r)
  <2>1. PICK c \in CallIds : Answered(r, c) /\ Free(c)
        BY <1>2 DEF GetStatus, ChunkSent, Complete, CompleteDeleted, CallFails
  <2> QED BY <1>0, <2>1, FreeGoesOn DEF Answered
<1>3. CASE StatusTimeout(r)
  <2>1. calls' = [c \in CallIds |-> IF c \in CallOf(r) THEN None ELSE calls[c]]
        BY <1>3 DEF StatusTimeout
  <2> QED BY <2>1 DEF CallsSame, HasNoCall, Heard, CallOf
<1>4. CASE CallTimeout(r) BY <1>4, GiveUpEffect DEF CallTimeout
<1> QED BY <1>1, <1>2, <1>3, <1>4 DEF RunStep, Sends

LEMMA HandleFrame ==
    ASSUME TypeOK, NEW c \in CallIds, Handle(c) \/ Lose(c)
    PROVE  /\ UNCHANGED <<version, there, job, batch, rpc, run>> /\ (calm' => calm)
           /\ CallsGoOn
           /\ \A d \in CallIds \ {c} : calls'[d] = calls[d]
<1> USE DEF source, sender, receiver
<1>1. UNCHANGED <<version, there, job, batch, rpc, run>> /\ (calm' => calm)
  <2>1. CASE AnswerStatus(c) \/ VerifyHash(c) \/ Lose(c)
        BY <2>1 DEF AnswerStatus, VerifyHash, Lose
  <2>2. CASE ReceiveChunk(c) \/ VerifyRename(c) \/ VerifyUnlink(c)
        BY <2>2 DEF ReceiveChunk, VerifyRename, VerifyUnlink
  <2>3. CASE \E n \in 0..ChunkSize : ReceivePart(c, n) BY <2>3 DEF ReceivePart
  <2>4. CASE \E answer \in Answers \ {"ok"} : Refuse(c, answer) BY <2>4 DEF Refuse
  <2> QED BY <2>1, <2>2, <2>3, <2>4 DEF Handle
<1>2. CASE AnswerStatus(c) BY <1>1, <1>2, AnswerEffect DEF AnswerStatus, Arrived
<1>3. CASE ReceiveChunk(c) BY <1>1, <1>3, AnswerEffect DEF ReceiveChunk, Arrived
<1>4. CASE VerifyRename(c)
  <2>1. CASE tmp = NoFile \/ calls[c].sum = None
        BY <1>1, <1>4, <2>1, AnswerEffect DEF VerifyRename, Arrived
  <2>2. CASE tmp # NoFile /\ calls[c].sum # None
        BY <1>1, <1>4, <2>2, StateEffect DEF VerifyRename, Arrived
  <2> QED BY <2>1, <2>2
<1>5. CASE VerifyHash(c) BY <1>1, <1>5, AnswerEffect, StateEffect DEF VerifyHash, Arrived
<1>6. CASE VerifyUnlink(c) BY <1>1, <1>6, AnswerEffect DEF VerifyUnlink, Arrived
<1>7. CASE \E n \in 0..ChunkSize : ReceivePart(c, n)
      BY <1>1, <1>7, AnswerEffect DEF ReceivePart, Arrived
<1>8. CASE \E answer \in Answers \ {"ok"} : Refuse(c, answer)
      BY <1>1, <1>8, AnswerEffect DEF Refuse
<1>9. CASE Lose(c)
  <2>1. calls'[c] = None /\ \A d \in CallIds \ {c} : calls'[d] = calls[d]
        BY <1>9, FreeEffect DEF Lose
  <2> QED BY <1>1, <2>1 DEF CallsGoOn, GoesOn, Heard
<1> QED BY <1>2, <1>3, <1>4, <1>5, <1>6, <1>7, <1>8, <1>9 DEF Handle

JobEdit(j) == CancelTransfer(j) \/ RetryTransfer(j) \/ DeleteTransfer(j) \/ DetectZombie(j)

LEMMA JobEditFrame ==
    ASSUME TypeOK, NEW j \in Jobs, JobEdit(j)
    PROVE  UNCHANGED <<source, batch, rpc, run, calls, receiver, calm, crashes>> /\ SameSums
<1>1. CASE RetryTransfer(j)
  <2>1. SameSums BY <1>1 DEF RetryTransfer, NewJob, TypeOK, SameSums
  <2> QED BY <1>1, <2>1 DEF RetryTransfer
<1>2. CASE CancelTransfer(j) \/ DeleteTransfer(j) \/ DetectZombie(j)
      BY <1>2, StatusEffect DEF CancelTransfer, DeleteTransfer, DetectZombie
<1> QED BY <1>1, <1>2 DEF JobEdit

LEMMA BeginEffect ==
    ASSUME TypeOK, NEW js, Begin(js)
    PROVE  SameSums
BY DEF Begin, TypeOK, Job, SameSums

CallParts == (\A c \in CallIds : CallFits(c)) /\ (\A c, d \in CallIds : OneCall(c, d))

\* Calls that go on, of runs that stay where they are, still fit.
LEMMA CallsStillFit ==
    ASSUME TypeOK, CallInv, CallsGoOn,
           \A c \in CallIds : Heard(c)' => rpc'[calls'[c].run] = rpc[calls'[c].run],
           \A c \in CallIds : Heard(c)' => job'[calls'[c].run[1]].sum = job[calls'[c].run[1]].sum
    PROVE  CallParts'
<1>1. ASSUME NEW c \in CallIds PROVE CallFits(c)'
  <2> SUFFICES ASSUME Heard(c)'
               PROVE  /\ rpc'[calls'[c].run] = Await'[calls'[c].kind]
                      /\ calls'[c].sum = job'[calls'[c].run[1]].sum
      BY DEF CallFits
  <2>1. /\ Heard(c) /\ calls'[c].run = calls[c].run /\ calls'[c].kind = calls[c].kind
        /\ calls'[c].sum = calls[c].sum
        BY DEF CallsGoOn, GoesOn
  <2>2. CallFits(c) BY DEF CallInv
  <2> QED BY <2>1, <2>2 DEF CallFits, Await
<1>2. ASSUME NEW c \in CallIds, NEW d \in CallIds, Heard(c)', Heard(d)',
             calls'[c].run = calls'[d].run
      PROVE  c = d
      BY <1>2 DEF CallInv, OneCall, CallsGoOn, GoesOn
<1> QED BY <1>1, <1>2 DEF CallParts, OneCall

LEMMA SendFits ==
    ASSUME TypeOK, TypeOK', CallInv, NEW r \in Runs, HasNoCall(r), SameSums, OnlyRun(r),
           NEW kind \in {"status", "chunk", "verify"}, NEW i, NEW data,
           Send(r, kind, i, data), rpc'[r] = Await[kind]
    PROVE  CallParts'
<1>1. PICK c \in CallIds :
              /\ calls[c] = None
              /\ calls'[c] = [run |-> r, kind |-> kind, idx |-> i, data |-> data,
                              sum |-> job[r[1]].sum, state |-> "sent", answer |-> "ok", size |-> 0]
              /\ \A d \in CallIds \ {c} : calls'[d] = calls[d]
      BY SendEffect
<1>2. r[1] \in Jobs BY RunIsPair
<1>3. ASSUME NEW d \in CallIds PROVE CallFits(d)'
  <2>1. CASE d = c
        BY <1>1, <1>2, <2>1 DEF CallFits, Await, SameSums
  <2>2. CASE d # c /\ Heard(d)'
    <3>1. calls'[d] = calls[d] /\ Heard(d) BY <1>1, <2>2 DEF Heard
    <3>2. calls[d].run \in Runs \ {r} /\ calls[d].run[1] \in Jobs
          BY <3>1, HeardRun DEF HasNoCall
    <3>3. CallFits(d) BY DEF CallInv
    <3>4. rpc'[calls[d].run] = rpc[calls[d].run] /\ job'[calls[d].run[1]].sum = job[calls[d].run[1]].sum
          BY <3>2 DEF OnlyRun, SameSums
    <3> QED BY <3>1, <3>3, <3>4 DEF CallFits, Await
  <2> QED BY <2>1, <2>2 DEF CallFits
<1>4. ASSUME NEW d \in CallIds, NEW e \in CallIds, Heard(d)', Heard(e)',
             calls'[d].run = calls'[e].run
      PROVE  d = e
  <2>1. \A f \in CallIds \ {c} : Heard(f)' => calls'[f].run # r
        BY <1>1 DEF Heard, HasNoCall
  <2>2. calls'[c].run = r BY <1>1
  <2>3. CASE d # c /\ e # c BY <1>1, <1>4, <2>3 DEF Heard, CallInv, OneCall
  <2> QED BY <1>4, <2>1, <2>2, <2>3
<1> QED BY <1>3, <1>4 DEF CallParts, OneCall

LEMMA CallInvStep ==
    ASSUME TypeOK, TypeOK', CallInv, [Next]_vars
    PROVE  CallInv'
<1> USE DEF source, sender, receiver
<1>0. ASSUME UNCHANGED <<batch, rpc>>, CallsGoOn, SameSums
      PROVE  CallInv'
  <2>1. \A c \in CallIds : Heard(c)' => calls'[c].run[1] \in Jobs
        BY <1>0, HeardRun DEF CallsGoOn, GoesOn
  <2>2. CallParts' BY <1>0, <2>1, CallsStillFit DEF SameSums
  <2> QED BY <1>0, <2>2 DEF CallInv, CallParts
<1>1. ASSUME NEW r \in Runs, RunStep(r) PROVE CallInv'
  <2>1. rpc[r] # "idle" /\ OnlyRun(r) /\ SameSums /\ batch' = batch BY <1>1, RunStepFrame
  <2>2. batch' # None => \A q \in Runs : q[2] = "scheduled" => rpc'[q] = "idle"
        BY <2>1 DEF CallInv, OnlyRun
  <2>3. CallParts'
    <3>1. CASE ~Sends(r)
      <4>1. CallsGoOn /\ HasNoCall(r)' BY <1>1, <3>1, RunCalls, SameGoesOn
      <4>2. \A c \in CallIds : Heard(c)' => calls'[c].run \in Runs \ {r} /\ calls'[c].run[1] \in Jobs
            BY <4>1, HeardRun DEF CallsGoOn, GoesOn, HasNoCall
      <4>3. \A c \in CallIds : Heard(c)' => rpc'[calls'[c].run] = rpc[calls'[c].run]
            BY <2>1, <4>2 DEF OnlyRun
      <4>4. \A c \in CallIds : Heard(c)' => job'[calls'[c].run[1]].sum = job[calls'[c].run[1]].sum
            BY <2>1, <4>2 DEF SameSums
      <4> QED BY <4>1, <4>3, <4>4, CallsStillFit
    <3>2. CASE AskStatus(r)
      <4>1. HasNoCall(r) BY <3>2, NotWaiting DEF AskStatus, Waiting
      <4>2. rpc'[r] = Await["status"] BY <3>2 DEF AskStatus, Go, TypeOK, Await
      <4> QED BY <2>1, <3>2, <4>1, <4>2, SendFits DEF AskStatus
    <3>3. CASE SendChunk(r)
      <4>1. HasNoCall(r) BY <3>3, NotWaiting DEF SendChunk, Waiting
      <4>2. rpc'[r] = Await["chunk"] BY <3>3 DEF SendChunk, Go, TypeOK, Await
      <4> QED BY <2>1, <3>3, <4>1, <4>2, SendFits DEF SendChunk
    <3>4. CASE SendVerify(r)
      <4>1. HasNoCall(r) BY <3>4, NotWaiting DEF SendVerify, Waiting
      <4>2. rpc'[r] = Await["verify"] BY <3>4 DEF SendVerify, Go, TypeOK, Await
      <4> QED BY <2>1, <3>4, <4>1, <4>2, SendFits DEF SendVerify
    <3> QED BY <3>1, <3>2, <3>3, <3>4 DEF Sends
  <2> QED BY <2>2, <2>3 DEF CallInv, CallParts
<1>2. ASSUME NEW c \in CallIds, Handle(c) \/ Lose(c) PROVE CallInv'
      BY <1>0, <1>2, HandleFrame DEF SameSums
<1>3. ASSUME NEW j \in Jobs, JobEdit(j) PROVE CallInv'
      BY <1>0, <1>3, JobEditFrame, CallsUnchanged
<1>4. ASSUME NEW j \in Jobs, CreateTransferJob(j) PROVE CallInv'
  <2>1. \A r \in Runs : r[1] = j => rpc[r] = "idle" BY <1>4 DEF CreateTransferJob
  <2>2. /\ calls' = calls /\ batch' = batch
        /\ \A i \in Jobs \ {j} : job'[i] = job[i]
        BY <1>4 DEF CreateTransferJob, TypeOK
  <2>3. \A r \in Runs : rpc'[r] = rpc[r] \/ (r[1] = j /\ r[2] = "served")
    <3>1. rpc' = rpc \/ rpc' = [rpc EXCEPT ![<<j, "served">>] = "start"]
          BY <1>4 DEF CreateTransferJob, Go
    <3>2. \A r \in Runs : r = <<j, "served">> \/ rpc'[r] = rpc[r] BY <3>1 DEF TypeOK
    <3> QED BY <3>2
  <2>4. \A r \in Runs : r[1] = j => HasNoCall(r) BY <2>1, NotWaiting DEF Waiting
  <2>5. \A c \in CallIds : Heard(c)' => /\ Heard(c) /\ calls'[c].run = calls[c].run
                                        /\ calls[c].run \in Runs /\ calls[c].run[1] \in Jobs \ {j}
        BY <2>2, <2>4, HeardRun DEF Heard, HasNoCall
  <2>6. CallParts' BY <2>2, <2>3, <2>5, CallsUnchanged, CallsStillFit
  <2>7. batch' # None => \A r \in Runs : r[2] = "scheduled" => rpc'[r] = "idle"
        BY <2>2, <2>3 DEF CallInv
  <2> QED BY <2>6, <2>7 DEF CallInv, CallParts
<1>5. CASE Poll
  <2>1. CallParts' BY <1>5 DEF Poll, CallInv, CallParts, CallFits, OneCall, Heard, Await
  <2> QED BY <1>5, <2>1 DEF Poll, CallInv, CallParts
<1>6. CASE Launch
  <2>1. SameSums BY <1>6, BeginEffect DEF Launch
  <2>2. \A r \in Runs : rpc'[r] = rpc[r] \/ (r[2] = "scheduled" /\ rpc[r] = "idle")
    <3>1. \A r \in Runs : r[2] = "scheduled" => rpc[r] = "idle" BY <1>6 DEF Launch, CallInv
    <3>2. \A r \in Runs : r[2] = "scheduled" \/ rpc'[r] = rpc[r] BY <1>6 DEF Launch
    <3> QED BY <3>1, <3>2
  <2>3. calls' = calls /\ batch' = None BY <1>6 DEF Launch
  <2>4. \A r \in Runs : rpc[r] = "idle" => HasNoCall(r) BY NotWaiting DEF Waiting
  <2>5. \A c \in CallIds : Heard(c)' => /\ calls'[c].run \in Runs /\ calls'[c].run[1] \in Jobs
                                        /\ rpc[calls'[c].run] # "idle"
        BY <2>3, <2>4, HeardRun DEF Heard, HasNoCall
  <2>6. CallParts' BY <2>1, <2>2, <2>3, <2>5, CallsUnchanged, CallsStillFit DEF SameSums
  <2> QED BY <2>3, <2>6 DEF CallInv, CallParts
<1>7. CASE LaunchFails
  <2>1. SameSums /\ rpc' = rpc /\ calls' = calls /\ batch' = None
        BY <1>7, BeginEffect DEF LaunchFails
  <2>2. \A c \in CallIds : Heard(c)' => calls'[c].run[1] \in Jobs
        BY <2>1, HeardRun DEF Heard
  <2>3. CallParts' BY <2>1, <2>2, CallsUnchanged, CallsStillFit DEF SameSums
  <2> QED BY <2>1, <2>3 DEF CallInv, CallParts
<1>8. CASE Crash
  <2>1. \A c \in CallIds : ~Heard(c)'
    <3> SUFFICES ASSUME NEW c \in CallIds, calls'[c] # None PROVE calls'[c].run = None
        BY DEF Heard
    <3>1. calls[c] # None /\ calls'[c] = [calls[c] EXCEPT !.run = None] BY <1>8 DEF Crash
    <3> QED BY <3>1 DEF TypeOK, Call
  <2> QED BY <1>8, <2>1 DEF Crash, CallInv, CallFits, OneCall
<1>9. CASE Save BY <1>0, <1>9, CallsUnchanged DEF Save, SameSums
<1>10. CASE CleanTmp BY <1>0, <1>10, CallsUnchanged DEF CleanTmp, SameSums
<1>11. CASE UNCHANGED vars BY <1>0, <1>11, CallsUnchanged DEF vars, SameSums
<1> QED BY <1>1, <1>2, <1>3, <1>4, <1>5, <1>6, <1>7, <1>8, <1>9, <1>10, <1>11
        DEF Next, Schedule, JobEdit

LEMMA CallInvInit == Init => CallInv
BY DEF Init, CallInv, CallFits, OneCall, Heard

-----------------------------------------------------------------------------
(* What the receiver holds.                                                *)

LEMMA DeliveryInvInit == Init => DeliveryInv
BY DEF Init, DeliveryInv, OneRun, StillThere, Active, Checked, Heard

\* The one run that is active has the one call that is heard.
LEMMA OnlyHeard ==
    ASSUME TypeOK, CallInv, OneRun, NEW c \in CallIds, Heard(c)
    PROVE  /\ Active(calls[c].run) /\ rpc[calls[c].run] = Await[calls[c].kind]
           /\ \A d \in CallIds : Heard(d) => d = c
           /\ \A r \in Runs : Active(r) => r = calls[c].run
<1>1. ASSUME NEW d \in CallIds, Heard(d)
      PROVE  calls[d].run \in Runs /\ Active(calls[d].run) /\ rpc[calls[d].run] = Await[calls[d].kind]
  <2>1. rpc[calls[d].run] = Await[calls[d].kind] BY <1>1 DEF CallInv, CallFits
  <2>2. calls[d].run \in Runs /\ calls[d].kind \in {"status", "chunk", "verify"}
        BY <1>1, HeardRun DEF Call
  <2> QED BY <2>1, <2>2 DEF Await, Active
<1> QED BY <1>1 DEF OneRun, CallInv, OneCall

LEMMA DeliveryKept ==
    ASSUME TypeOK, CallInv, DeliveryInv, calm' => calm, there' = there, final' = final,
           tmp' = tmp \/ tmp' = NoFile, CallsSame,
           \A r \in Runs : Active(r)' => Active(r),
           \A r \in Runs : rpc'[r] = "cleanup" =>
                               rpc[r] = "cleanup" /\ job'[r[1]].sum = job[r[1]].sum
    PROVE  DeliveryInv'
<1> SUFFICES ASSUME calm' PROVE DeliveryInv'
    BY DEF DeliveryInv
<1>1. OneRun' BY DEF DeliveryInv, OneRun
<1>2. StillThere' BY DEF DeliveryInv, StillThere
<1>3. \A r \in Runs : rpc'[r] = "cleanup" => Holds(job[r[1]].sum)'
      BY DEF DeliveryInv, Holds, Delivered
<1>4. \A c \in CallIds : Checked(c)' BY DEF DeliveryInv, Checked, CallsSame, Delivered
<1> QED BY <1>1, <1>2, <1>3, <1>4 DEF DeliveryInv

LEMMA SendNew ==
    ASSUME TypeOK, NEW r \in Runs, NEW kind, NEW i, NEW data, Send(r, kind, i, data)
    PROVE  \E c \in CallIds :
              /\ ~Heard(c)
              /\ calls'[c].run = r /\ calls'[c].kind = kind /\ calls'[c].state = "sent"
              /\ calls'[c].idx = i /\ calls'[c].data = data
              /\ \A d \in CallIds \ {c} : calls'[d] = calls[d] /\ (Heard(d)' => Heard(d))
<1>1. PICK c \in CallIds :
              /\ calls[c] = None
              /\ calls'[c] = [run |-> r, kind |-> kind, idx |-> i, data |-> data,
                              sum |-> job[r[1]].sum, state |-> "sent", answer |-> "ok", size |-> 0]
              /\ \A d \in CallIds \ {c} : calls'[d] = calls[d]
      BY SendEffect
<1>2. ~Heard(c) /\ \A d \in CallIds \ {c} : Heard(d)' => Heard(d) BY <1>1 DEF Heard
<1> QED BY <1>1, <1>2

\* A run's step that is none of these starts, confirms and removes nothing.
LEMMA OtherSteps ==
    ASSUME TypeOK, NEW r \in Runs, RunStep(r),
           ~StartRun(r), ~Complete(r), ~Sends(r), ~Cleanup(r)
    PROVE  there' = there /\ rpc'[r] # "cleanup" /\ (Active(r)' => Active(r))
<1> USE DEF source, sender, receiver
<1>1. CASE StopDeleted(r) \/ CompleteDeleted(r)
      BY <1>1, EndEffect DEF StopDeleted, CompleteDeleted, Active
<1>2. CASE GetStatus(r)
  <2>1. PICK c \in CallIds :
            /\ Answered(r, c)
            /\ Resume(r, IF calls[c].answer = "ok" THEN calls[c].size ELSE 0)
        BY <1>2 DEF GetStatus
  <2>2. (IF calls[c].answer = "ok" THEN calls[c].size ELSE 0) \in Nat
        BY <2>1 DEF Answered, TypeOK, Call
  <2>3. rpc'[r] \in {"idle", "ask", "read"} BY <2>1, <2>2, ResumeEffect
  <2> QED BY <1>2, <2>3 DEF GetStatus, Active
<1>3. CASE StatusTimeout(r)
  <2>1. rpc'[r] \in {"idle", "ask", "read"} BY <1>3, ResumeEffect DEF StatusTimeout
  <2> QED BY <1>3, <2>1 DEF StatusTimeout, Active
<1>4. CASE ChunkSent(r) BY <1>4 DEF ChunkSent, Go, TypeOK, Active
<1>5. CASE CallFails(r)
  <2>1. PICK c \in CallIds : Retry(r, calls[c].answer = "permanent") BY <1>5 DEF CallFails
  <2>2. (calls[c].answer = "permanent") \in BOOLEAN OBVIOUS
  <2>3. rpc'[r] \in {"idle", "ask"} BY <2>1, <2>2, RetryEffect
  <2> QED BY <1>5, <2>3 DEF CallFails, Active
<1>6. CASE CallTimeout(r)
  <2>1. rpc'[r] \in {"idle", "ask"} BY <1>6, RetryEffect DEF CallTimeout
  <2> QED BY <1>6, <2>1 DEF CallTimeout, Active
<1> QED BY <1>1, <1>2, <1>3, <1>4, <1>5, <1>6 DEF RunStep, Sends

LEMMA RunStepDelivery ==
    ASSUME TypeOK, TypeOK', CallInv, DeliveryInv, NEW r \in Runs, RunStep(r)
    PROVE  DeliveryInv'
<1> USE DEF source, sender, receiver
<1> SUFFICES ASSUME calm' PROVE DeliveryInv'
    BY DEF DeliveryInv
<1>0. /\ calm /\ OneRun /\ StillThere
      /\ \A q \in Runs : rpc[q] = "cleanup" => Holds(job[q[1]].sum)
      /\ \A c \in CallIds : Checked(c)
      BY RunStepFrame DEF DeliveryInv
<1>1. rpc[r] # "idle" /\ OnlyRun(r) /\ SameSums /\ tmp' = tmp /\ final' = final BY RunStepFrame
<1>2. \A q \in Runs : q[1] \in Jobs BY RunIsPair
<1>3. CASE StartRun(r)
  <2>1. \A q \in Runs : ~Active(q) BY <1>3 DEF StartRun
  <2>2. \A q \in Runs : Active(q)' => q = r BY <1>1, <2>1 DEF OnlyRun, Active
  <2>3. there' = there BY <1>3 DEF StartRun
  <2>4. Active(r)' => there BY <1>3 DEF StartRun, End, Go, Active, TypeOK
  <2>5. \A q \in Runs : rpc'[q] # "cleanup"
    <3>1. rpc'[r] # "cleanup" BY <1>3 DEF StartRun, End, Go, TypeOK
    <3> QED BY <1>1, <2>1, <3>1 DEF OnlyRun, Active
  <2>6. CallsSame BY <1>3, CallsUnchanged DEF StartRun
  <2>7. \A c \in CallIds : Checked(c)' BY <1>0, <1>1, <2>6 DEF Checked, CallsSame, Delivered
  <2> QED BY <2>2, <2>3, <2>4, <2>5, <2>7 DEF DeliveryInv, OneRun, StillThere
<1>4. CASE Complete(r)
  <2>1. PICK c \in CallIds : Answered(r, c) /\ calls[c].answer = "ok" BY <1>4 DEF Complete
  <2>2. Heard(c) /\ calls[c].run = r BY <2>1, RunIsPair DEF Answered, Heard
  <2>3. rpc[r] = "verifying" BY <1>4 DEF Complete
  <2>4. calls[c].kind = "verify"
    <3>1. Await[calls[c].kind] = "verifying" BY <2>2, <2>3 DEF CallInv, CallFits
    <3>2. calls[c].kind \in {"status", "chunk", "verify"} BY <2>2, HeardRun DEF Call
    <3> QED BY <3>1, <3>2 DEF Await
  <2>5. calls[c].sum = job[r[1]].sum BY <2>2 DEF CallInv, CallFits
  <2>6. Holds(job[r[1]].sum)
    <3>1. job[r[1]].sum # None BY <1>4 DEF Complete
    <3> QED BY <1>0, <2>1, <2>2, <2>4, <2>5, <3>1 DEF Checked, Answered, Holds
  <2>7. \A q \in Runs : Active(q)' => Active(q) BY <1>1, <2>3 DEF OnlyRun, Active
  <2>8. there' = there BY <1>4 DEF Complete
  <2>9. CallsSame BY <1>4, RunCalls DEF Sends, Complete, AskStatus, SendChunk, SendVerify
  <2>10. \A d \in CallIds : Checked(d)' BY <1>0, <1>1, <2>9 DEF Checked, CallsSame, Delivered
  <2>11. ASSUME NEW q \in Runs, rpc'[q] = "cleanup" PROVE Holds(job[q[1]].sum)'
    <3>1. q = r \/ rpc[q] = "cleanup" BY <1>1, <2>11 DEF OnlyRun
    <3>2. Holds(job[q[1]].sum) BY <1>0, <2>6, <3>1
    <3> QED BY <1>1, <1>2, <3>2 DEF SameSums, Holds, Delivered
  <2> QED BY <1>0, <2>7, <2>8, <2>10, <2>11 DEF DeliveryInv, OneRun, StillThere
<1>5. CASE Sends(r)
  <2>1. rpc[r] \in {"ask", "read"} /\ rpc'[r] \in Waiting /\ there' = there
        BY <1>5 DEF Sends, AskStatus, SendChunk, SendVerify, Go, TypeOK, Waiting
  <2>2. \A q \in Runs : Active(q)' => Active(q) BY <1>1, <2>1 DEF OnlyRun, Active
  <2>3. \A q \in Runs : rpc'[q] = "cleanup" => rpc[q] = "cleanup"
        BY <1>1, <2>1 DEF OnlyRun, Waiting
  <2>4. PICK c \in CallIds :
              /\ calls'[c].state = "sent"
              /\ \A d \in CallIds \ {c} : calls'[d] = calls[d] /\ (Heard(d)' => Heard(d))
        BY <1>5, SendNew DEF Sends, AskStatus, SendChunk, SendVerify
  <2>5. \A d \in CallIds : Checked(d)' BY <1>0, <1>1, <2>4 DEF Checked, Delivered
  <2>6. \A q \in Runs : rpc'[q] = "cleanup" => Holds(job[q[1]].sum)'
        BY <1>0, <1>1, <1>2, <2>3 DEF SameSums, Holds, Delivered
  <2> QED BY <1>0, <2>1, <2>2, <2>5, <2>6 DEF DeliveryInv, OneRun, StillThere
<1>6. CASE Cleanup(r)
  <2>1. rpc'[r] = "idle" /\ Active(r)
        BY <1>6, EndEffect DEF Cleanup, Active
  <2>2. \A q \in Runs : ~Active(q)' BY <1>0, <1>1, <2>1 DEF OneRun, OnlyRun, Active
  <2>3. CallsSame BY <1>6, CallsUnchanged DEF Cleanup
  <2>4. \A d \in CallIds : Checked(d)' BY <1>0, <1>1, <2>3 DEF Checked, CallsSame, Delivered
  <2>5. \A q \in Runs : rpc'[q] # "cleanup" BY <2>2 DEF Active
  <2> QED BY <2>2, <2>4, <2>5 DEF DeliveryInv, OneRun, StillThere
<1>7. CASE ~StartRun(r) /\ ~Complete(r) /\ ~Sends(r) /\ ~Cleanup(r)
  <2>1. CallsSame BY <1>7, RunCalls
  <2>2. there' = there /\ rpc'[r] # "cleanup" /\ (Active(r)' => Active(r)) BY <1>7, OtherSteps
  <2>3. \A q \in Runs : Active(q)' => Active(q) BY <1>1, <2>2 DEF OnlyRun, Active
  <2>4. \A q \in Runs : rpc'[q] = "cleanup" =>
                            rpc[q] = "cleanup" /\ job'[q[1]].sum = job[q[1]].sum
        BY <1>1, <1>2, <2>2 DEF OnlyRun, SameSums
  <2> QED BY <1>0, <1>1, <2>1, <2>2, <2>3, <2>4, DeliveryKept
<1> QED BY <1>3, <1>4, <1>5, <1>6, <1>7

\* A call that is answered without a check, and no file changed.
LEMMA AnsweredChecked ==
    ASSUME TypeOK, DeliveryInv, calm, calm', NEW c \in CallIds, calls[c] # None,
           NEW answer, NEW size, Answer(c, answer, size),
           calls[c].kind # "verify" \/ answer # "ok" \/ Delivered(calls[c].sum),
           UNCHANGED <<there, job, rpc, tmp, final>>
    PROVE  DeliveryInv'
<1>1. calls[c] \in Call BY DEF TypeOK
<1>2. /\ \A d \in CallIds \ {c} : calls'[d] = calls[d]
      /\ Late(c) => calls'[c] = None
      /\ ~Late(c) => calls'[c] = [calls[c] EXCEPT !.state = "answered", !.answer = answer,
                                                  !.size = size]
      BY AnswerEffect
<1>3. Checked(c)' BY <1>1, <1>2 DEF Checked, Heard, Call, Delivered
<1>4. \A d \in CallIds : Checked(d)' BY <1>2, <1>3 DEF DeliveryInv, Checked, Heard, Delivered
<1> QED BY <1>4 DEF DeliveryInv, OneRun, StillThere, Active, Holds, Delivered

LEMMA HandleDelivery ==
    ASSUME TypeOK, TypeOK', CallInv, DeliveryInv, NEW c \in CallIds, Handle(c) \/ Lose(c)
    PROVE  DeliveryInv'
<1> USE DEF source, sender, receiver
<1> SUFFICES ASSUME calm' PROVE DeliveryInv'
    BY DEF DeliveryInv
<1>0. UNCHANGED <<there, job, rpc>> /\ CallsGoOn BY HandleFrame
<1>1. /\ calm /\ OneRun /\ StillThere
      /\ \A q \in Runs : rpc[q] = "cleanup" => Holds(job[q[1]].sum)
      /\ \A d \in CallIds : Checked(d)
      BY HandleFrame DEF DeliveryInv
<1>2. OneRun' /\ StillThere' BY <1>0, <1>1 DEF OneRun, StillThere, Active
<1>3. ASSUME Heard(c) PROVE /\ \A q \in Runs : rpc'[q] # "cleanup"
                            /\ \A d \in CallIds : Heard(d)' => d = c
  <2>1. /\ calls[c].kind \in {"status", "chunk", "verify"} /\ calls[c].run \in Runs
        /\ rpc[calls[c].run] = Await[calls[c].kind]
        BY <1>1, <1>3, HeardRun, OnlyHeard DEF Call
  <2>2. \A q \in Runs : Active(q) => q = calls[c].run BY <1>1, <1>3, OnlyHeard
  <2>3. \A q \in Runs : rpc[q] # "cleanup" BY <2>1, <2>2 DEF Await, Active
  <2>4. \A d \in CallIds : Heard(d)' => d = c
        BY <1>0, <1>1, <1>3, OnlyHeard DEF CallsGoOn, GoesOn
  <2> QED BY <1>0, <2>3, <2>4
<1>4. CASE AnswerStatus(c)
      BY <1>1, <1>4, AnsweredChecked DEF AnswerStatus, Arrived
<1>5. CASE \E answer \in Answers \ {"ok"} : Refuse(c, answer)
      BY <1>1, <1>5, AnsweredChecked DEF Refuse
<1>6. CASE Lose(c)
  <2>1. CallsSame
    <3>1. calls'[c] = None /\ \A d \in CallIds \ {c} : calls'[d] = calls[d]
          BY <1>6, FreeEffect DEF Lose
    <3> QED BY <3>1 DEF CallsSame, Heard
  <2> QED BY <1>0, <1>1, <1>6, <2>1, DeliveryKept DEF Lose, Active
<1>7. CASE ReceiveChunk(c) \/ \E n \in 0..ChunkSize : ReceivePart(c, n)
  <2>1. Heard(c) /\ calls[c].kind = "chunk"
        BY <1>7 DEF ReceiveChunk, ReceivePart, Arrived, Late, Heard
  <2>2. \A d \in CallIds : Heard(d)' => calls'[d].kind = "chunk"
        BY <1>0, <1>3, <2>1 DEF CallsGoOn, GoesOn
  <2> QED BY <1>2, <1>3, <2>1, <2>2 DEF DeliveryInv, Checked
<1>8. CASE VerifyRename(c)
  <2>1. calls[c] # None /\ calls[c] \in Call BY <1>8 DEF VerifyRename, Arrived, TypeOK
  <2>2. CASE tmp = NoFile BY <1>1, <1>8, <2>1, <2>2, AnsweredChecked DEF VerifyRename
  <2>3. CASE tmp # NoFile
    <3>1. Heard(c) BY <1>8, <2>3 DEF VerifyRename, Arrived, Late, Heard
    <3>2. tmp' = NoFile BY <1>8, <2>3 DEF VerifyRename
    <3>3. CASE calls[c].sum = None
      <4>1. Heard(c)' => calls'[c].sum = None BY <1>0, <3>3 DEF CallsGoOn, GoesOn
      <4> QED BY <1>2, <1>3, <3>1, <3>2, <4>1 DEF DeliveryInv, Checked
    <3>4. CASE calls[c].sum # None
      <4>1. calls'[c].state = "renamed"
            BY <1>8, <2>1, <2>3, <3>4 DEF VerifyRename, TypeOK, Call
      <4> QED BY <1>2, <1>3, <3>1, <3>2, <4>1 DEF DeliveryInv, Checked
    <3> QED BY <3>3, <3>4
  <2> QED BY <2>2, <2>3
<1>9. CASE VerifyHash(c)
  <2>1. calls[c] # None /\ calls[c] \in Call /\ calls[c].kind = "verify" /\ calls[c].state = "renamed"
        BY <1>9 DEF VerifyHash, Arrived, TypeOK
  <2>2. CASE final = Whole(calls[c].sum)
        BY <1>1, <1>9, <2>1, <2>2, AnsweredChecked DEF VerifyHash, Delivered
  <2>3. CASE final # Whole(calls[c].sum)
    <3>1. /\ \A d \in CallIds \ {c} : calls'[d] = calls[d]
          /\ calls'[c] = [calls[c] EXCEPT !.state = "mismatch"]
          BY <1>9, <2>1, <2>3, StateEffect DEF VerifyHash
    <3>2. tmp' = tmp /\ final' = final BY <1>9 DEF VerifyHash
    <3>3. Heard(c)' => tmp = NoFile BY <1>0, <1>1, <2>1 DEF Checked, CallsGoOn, GoesOn
    <3>4. calls'[c].state = "mismatch" BY <2>1, <3>1 DEF Call
    <3>5. \A d \in CallIds : Checked(d)'
          BY <1>1, <3>1, <3>2, <3>3, <3>4 DEF Checked, Heard, Delivered
    <3> QED BY <1>0, <1>1, <1>2, <3>2, <3>5 DEF DeliveryInv, Holds, Delivered
  <2> QED BY <2>2, <2>3
<1>10. CASE VerifyUnlink(c)
  <2>1. calls[c] # None /\ calls[c] \in Call BY <1>10 DEF VerifyUnlink, Arrived, TypeOK
  <2>2. Heard(c) BY <1>10 DEF VerifyUnlink, Arrived, Late, Heard
  <2>3. calls'[c] = [calls[c] EXCEPT !.state = "answered", !.answer = "permanent", !.size = 0]
        BY <1>10, <2>1, AnswerEffect DEF VerifyUnlink
  <2>4. calls'[c].state = "answered" /\ calls'[c].answer = "permanent" BY <2>1, <2>3 DEF Call
  <2> QED BY <1>2, <1>3, <2>2, <2>4 DEF DeliveryInv, Checked
<1> QED BY <1>4, <1>5, <1>6, <1>7, <1>8, <1>9, <1>10 DEF Handle

LEMMA DeliveryStep ==
    ASSUME TypeOK, TypeOK', CallInv, DeliveryInv, [Next]_vars
    PROVE  DeliveryInv'
<1> USE DEF source, sender, receiver
<1>0. \A r \in Runs : r[1] \in Jobs BY RunIsPair
<1>1. ASSUME UNCHANGED <<there, final, rpc, calls, calm>>, tmp' = tmp \/ tmp' = NoFile, SameSums
      PROVE  DeliveryInv'
      BY <1>0, <1>1, CallsUnchanged, DeliveryKept DEF SameSums, Active
<1>2. ASSUME NEW j \in Jobs, JobEdit(j) PROVE DeliveryInv'
      BY <1>1, <1>2, JobEditFrame
<1>3. ASSUME NEW j \in Jobs, CreateTransferJob(j) PROVE DeliveryInv'
  <2>1. \A r \in Runs : r[1] = j => rpc[r] = "idle" BY <1>3 DEF CreateTransferJob
  <2>2. \A i \in Jobs \ {j} : job'[i] = job[i] BY <1>3 DEF CreateTransferJob, TypeOK
  <2>3. \A r \in Runs : rpc'[r] = rpc[r] \/ rpc'[r] = "start"
        BY <1>3 DEF CreateTransferJob, Go, TypeOK
  <2>4. \A r \in Runs : Active(r)' => Active(r) BY <2>3 DEF Active
  <2>5. \A r \in Runs : rpc'[r] = "cleanup" => rpc[r] = "cleanup" /\ job'[r[1]].sum = job[r[1]].sum
        BY <1>0, <2>1, <2>2, <2>3
  <2> QED BY <1>3, <2>4, <2>5, CallsUnchanged, DeliveryKept DEF CreateTransferJob
<1>4. CASE Poll BY <1>1, <1>4 DEF Poll, SameSums
<1>5. CASE Launch
  <2>1. SameSums BY <1>5, BeginEffect DEF Launch
  <2>2. \A r \in Runs : rpc'[r] = rpc[r] \/ rpc'[r] = "start" BY <1>5 DEF Launch
  <2>3. \A r \in Runs : Active(r)' => Active(r) BY <2>2 DEF Active
  <2>4. \A r \in Runs : rpc'[r] = "cleanup" => rpc[r] = "cleanup" /\ job'[r[1]].sum = job[r[1]].sum
        BY <1>0, <2>1, <2>2 DEF SameSums
  <2> QED BY <1>5, <2>3, <2>4, CallsUnchanged, DeliveryKept DEF Launch
<1>6. CASE LaunchFails BY <1>1, <1>6, BeginEffect DEF LaunchFails
<1>7. CASE Crash
  <2>1. \A c \in CallIds : ~Heard(c)'
    <3> SUFFICES ASSUME NEW c \in CallIds, calls'[c] # None PROVE calls'[c].run = None
        BY DEF Heard
    <3>1. calls[c] # None /\ calls'[c] = [calls[c] EXCEPT !.run = None] BY <1>7 DEF Crash
    <3> QED BY <3>1 DEF TypeOK, Call
  <2>2. \A r \in Runs : rpc'[r] = "idle" BY <1>7 DEF Crash
  <2> QED BY <2>1, <2>2 DEF DeliveryInv, OneRun, StillThere, Active, Checked
<1>8. CASE Save BY <1>1, <1>8 DEF Save, SameSums
<1>9. CASE CleanTmp BY <1>1, <1>9 DEF CleanTmp, SameSums
<1>10. CASE UNCHANGED vars BY <1>1, <1>10 DEF vars, SameSums
<1> QED BY <1>2, <1>3, <1>4, <1>5, <1>6, <1>7, <1>8, <1>9, <1>10, RunStepDelivery, HandleDelivery
        DEF Next, Schedule, JobEdit

-----------------------------------------------------------------------------
(* The partial file.                                                       *)

LEMMA PrefixInvInit == Init => PrefixInv
BY DEF Init, PrefixInv, Begun, InTransfer, ReadFits, ChunkFits, SizeFits, Heard

Quiet(c) ==
    Heard(c)' => \/ calls'[c] = calls[c]
                 \/ calls'[c].kind = "verify"
                 \/ calls'[c].state = "answered" /\ calls'[c].answer # "ok"

LEMMA PrefixKept ==
    ASSUME TypeOK, TypeOK', PrefixInv, calm' => calm, CallsGoOn,
           \A c \in CallIds : Quiet(c),
           UNCHANGED <<tmp, final>> \/ ~Begun',
           \A r \in Runs : rpc'[r] = "read" => rpc[r] = "read" /\ run'[r] = run[r],
           \A c \in CallIds : Heard(c)' => run'[calls[c].run] = run[calls[c].run]
    PROVE  PrefixInv'
<1> SUFFICES ASSUME calm' PROVE PrefixInv'
    BY DEF PrefixInv
<1>0. /\ Begun => \A k \in DOMAIN tmp : tmp[k][1] = k
      /\ \A r \in Runs : ReadFits(r)
      /\ \A c \in CallIds : ChunkFits(c) /\ SizeFits(c)
      BY DEF PrefixInv
<1>1. Begun' => Begun /\ tmp' = tmp BY DEF Begun, InTransfer
<1>2. Begun' => \A k \in DOMAIN tmp' : tmp'[k][1] = k BY <1>0, <1>1
<1>3. \A n : Upto(n) => (Begun' => Len(tmp') = n) BY <1>1 DEF Upto
<1>4. ASSUME NEW r \in Runs PROVE ReadFits(r)'
  <2> SUFFICES ASSUME rpc'[r] = "read"
               PROVE  /\ run'[r].idx > 0 => run'[r].pos > 0
                      /\ run'[r].idx = 0 \/ (Begun' => Len(tmp') = run'[r].pos)
      BY DEF ReadFits, Upto
  <2> QED BY <1>0, <1>3 DEF ReadFits
<1>5. ASSUME NEW c \in CallIds PROVE ChunkFits(c)'
  <2> SUFFICES ASSUME Heard(c)', calls'[c].kind = "chunk" PROVE ChunkFits(c)'
      BY DEF ChunkFits
  <2>1. /\ Heard(c) /\ calls'[c].run = calls[c].run /\ calls[c].kind = "chunk"
        /\ calls'[c].idx = calls[c].idx /\ calls'[c].data = calls[c].data
        /\ run'[calls[c].run] = run[calls[c].run]
        BY DEF CallsGoOn, GoesOn
  <2>2. \/ calls'[c].state = calls[c].state /\ calls'[c].answer = calls[c].answer
        \/ calls'[c].state = "answered" /\ calls'[c].answer # "ok"
        BY DEF Quiet
  <2> DEFINE r    == calls[c].run
             data == calls[c].data
             from == run[r].pos - Len(data)
  <2>3. /\ calls[c].idx = run[r].idx
        /\ Len(data) > 0 /\ from >= 0
        /\ \A k \in 1..Len(data) : data[k][1] = from + k
        /\ run[r].idx > 0 => from > 0
        /\ calls[c].state = "sent" => run[r].idx = 0 \/ Upto(from)
        /\ calls[c].state = "answered" /\ calls[c].answer = "ok" => Upto(run[r].pos)
        BY <1>0, <2>1 DEF ChunkFits
  <2>4. calls'[c].state = "sent" => run[r].idx = 0 \/ (Begun' => Len(tmp') = from)
        BY <1>3, <2>2, <2>3
  <2>5. calls'[c].state = "answered" /\ calls'[c].answer = "ok" => (Begun' => Len(tmp') = run[r].pos)
        BY <1>3, <2>2, <2>3
  <2> QED BY <2>1, <2>3, <2>4, <2>5 DEF ChunkFits, Upto
<1>6. ASSUME NEW c \in CallIds PROVE SizeFits(c)'
  <2> SUFFICES ASSUME Heard(c)', calls'[c].kind = "status", calls'[c].state = "answered",
                      calls'[c].answer = "ok"
               PROVE  Begun' => Len(tmp') = calls'[c].size
      BY DEF SizeFits, Upto
  <2>1. Heard(c) /\ calls'[c] = calls[c] BY DEF CallsGoOn, GoesOn, Quiet
  <2> QED BY <1>0, <1>3, <2>1 DEF SizeFits
<1> QED BY <1>2, <1>4, <1>5, <1>6 DEF PrefixInv

LEMMA RunStepPrefix ==
    ASSUME TypeOK, TypeOK', CallInv, DeliveryInv, PrefixInv, NEW r \in Runs, RunStep(r)
    PROVE  PrefixInv'
<1> USE DEF source, sender, receiver
<1> SUFFICES ASSUME calm' PROVE PrefixInv'
    BY DEF PrefixInv
<1>0. /\ calm /\ OneRun
      /\ Begun => \A k \in DOMAIN tmp : tmp[k][1] = k
      /\ \A q \in Runs : ReadFits(q)
      /\ \A c \in CallIds : ChunkFits(c) /\ SizeFits(c)
      BY RunStepFrame DEF DeliveryInv, PrefixInv
<1>1. rpc[r] # "idle" /\ OnlyRun(r) /\ SameSums /\ tmp' = tmp /\ final' = final BY RunStepFrame
<1>2. (Begun' <=> Begun) /\ \A n : Upto(n) => (Begun' => Len(tmp') = n)
      BY <1>1 DEF Begun, InTransfer, Upto
<1>3. Begun' => \A k \in DOMAIN tmp' : tmp'[k][1] = k BY <1>0, <1>1, <1>2
\* The run that reads next is the only one, and has no call.
<1>4. ASSUME Active(r), HasNoCall(r)', CallsSame, rpc'[r] = "read",
             run'[r].idx > 0 => run'[r].pos > 0, run'[r].idx = 0 \/ Upto(run'[r].pos)
      PROVE  PrefixInv'
  <2>1. \A c \in CallIds : ~Heard(c)'
    <3> SUFFICES ASSUME NEW c \in CallIds, Heard(c)' PROVE FALSE
        OBVIOUS
    <3>1. Heard(c) /\ calls'[c] = calls[c] BY <1>4 DEF CallsSame
    <3>2. calls[c].run = r BY <1>0, <1>4, <3>1, OnlyHeard
    <3> QED BY <1>4, <3>1, <3>2 DEF HasNoCall
  <2>2. \A q \in Runs \ {r} : rpc'[q] # "read" BY <1>0, <1>1, <1>4 DEF OneRun, OnlyRun, Active
  <2>3. ReadFits(r)' BY <1>2, <1>4 DEF ReadFits, Upto
  <2>4. \A q \in Runs : ReadFits(q)' BY <2>2, <2>3 DEF ReadFits
  <2> QED BY <1>3, <2>1, <2>4 DEF PrefixInv, ChunkFits, SizeFits
\* The run does not read next, and has no chunk under way.
<1>5. ASSUME HasNoCall(r)', CallsSame, rpc'[r] # "read" PROVE PrefixInv'
  <2>1. \A q \in Runs : rpc'[q] = "read" => rpc[q] = "read" /\ run'[q] = run[q]
        BY <1>1, <1>5 DEF OnlyRun
  <2>2. ASSUME NEW c \in CallIds, Heard(c)' PROVE run'[calls[c].run] = run[calls[c].run]
    <3>1. Heard(c) /\ calls'[c] = calls[c] BY <1>5, <2>2 DEF CallsSame
    <3>2. calls[c].run \in Runs \ {r} BY <1>5, <2>2, <3>1, HeardRun DEF HasNoCall
    <3> QED BY <1>1, <3>2 DEF OnlyRun
  <2>3. \A c \in CallIds : Quiet(c) BY <1>5 DEF Quiet, CallsSame
  <2>4. CallsGoOn BY <1>5, SameGoesOn
  <2> QED BY <1>0, <1>1, <2>1, <2>2, <2>3, <2>4, PrefixKept
<1>6. CASE GetStatus(r)
  <2>1. PICK c \in CallIds :
            /\ Answered(r, c)
            /\ Resume(r, IF calls[c].answer = "ok" THEN calls[c].size ELSE 0)
        BY <1>6 DEF GetStatus
  <2> DEFINE size == IF calls[c].answer = "ok" THEN calls[c].size ELSE 0
  <2>2. size \in Nat BY <2>1 DEF Answered, TypeOK, Call
  <2>3. Heard(c) /\ calls[c].run = r BY <2>1, RunIsPair DEF Answered, Heard
  <2>4. rpc[r] = "asked" BY <1>6 DEF GetStatus
  <2>5. calls[c].kind = "status"
    <3>1. Await[calls[c].kind] = "asked" BY <2>3, <2>4 DEF CallInv, CallFits
    <3>2. calls[c].kind \in {"status", "chunk", "verify"} BY <2>3, HeardRun DEF Call
    <3> QED BY <3>1, <3>2 DEF Await
  <2>6. calls[c].answer = "ok" => Upto(size) BY <1>0, <2>1, <2>3, <2>5 DEF SizeFits, Answered
  <2>7. CallsSame /\ HasNoCall(r)'
        BY <1>6, RunCalls DEF GetStatus, Sends, AskStatus, SendChunk, SendVerify
  <2>8. \/ rpc'[r] \in {"idle", "ask"}
        \/ rpc'[r] = "read" /\ run'[r].pos = size /\ run'[r].idx = size \div ChunkSize
        BY <2>1, <2>2, ResumeEffect
  <2>9. size \div ChunkSize > 0 => size > 0 BY <2>2, Chunks
  <2>10. calls[c].answer # "ok" => size \div ChunkSize = 0 BY <2>2, Chunks
  <2>11. Active(r) BY <2>4 DEF Active
  <2> HIDE DEF size
  <2>12. CASE rpc'[r] \in {"idle", "ask"} BY <1>5, <2>7, <2>12
  <2>13. CASE rpc'[r] = "read" /\ run'[r].pos = size /\ run'[r].idx = size \div ChunkSize
    <3>1. run'[r].idx = 0 \/ Upto(run'[r].pos) BY <2>6, <2>10, <2>13
    <3>2. run'[r].idx > 0 => run'[r].pos > 0 BY <2>9, <2>13
    <3> QED BY <1>4, <2>7, <2>11, <2>13, <3>1, <3>2
  <2> QED BY <2>8, <2>12, <2>13
<1>7. CASE StatusTimeout(r)
  <2>1. CallsSame /\ HasNoCall(r)'
        BY <1>7, RunCalls DEF StatusTimeout, Sends, AskStatus, SendChunk, SendVerify
  <2>2. \/ rpc'[r] \in {"idle", "ask"}
        \/ rpc'[r] = "read" /\ run'[r].pos = 0 /\ run'[r].idx = 0 \div ChunkSize
        BY <1>7, ResumeEffect DEF StatusTimeout
  <2>3. 0 \div ChunkSize = 0 BY Chunks
  <2>4. Active(r) BY <1>7 DEF StatusTimeout, Active
  <2>5. CASE rpc'[r] \in {"idle", "ask"} BY <1>5, <2>1, <2>5
  <2>6. CASE rpc'[r] = "read" /\ run'[r].idx = 0 BY <1>4, <2>1, <2>4, <2>6
  <2> QED BY <2>2, <2>3, <2>5, <2>6
<1>8. CASE ChunkSent(r)
  <2>1. PICK c \in CallIds :
            /\ Answered(r, c) /\ calls[c].answer = "ok"
            /\ run' = [run EXCEPT ![r].idx = @ + 1]
        BY <1>8 DEF ChunkSent
  <2>2. Heard(c) /\ calls[c].run = r BY <2>1, RunIsPair DEF Answered, Heard
  <2>3. rpc[r] = "sent" BY <1>8 DEF ChunkSent
  <2>4. calls[c].kind = "chunk"
    <3>1. Await[calls[c].kind] = "sent" BY <2>2, <2>3 DEF CallInv, CallFits
    <3>2. calls[c].kind \in {"status", "chunk", "verify"} BY <2>2, HeardRun DEF Call
    <3> QED BY <3>1, <3>2 DEF Await
  <2>5. ChunkFits(c) BY <1>0
  <2>6. /\ Upto(run[r].pos) /\ Len(calls[c].data) > 0 /\ run[r].pos - Len(calls[c].data) >= 0
        BY <2>1, <2>2, <2>4, <2>5 DEF ChunkFits, Answered
  <2>7. Len(calls[c].data) \in Nat /\ run[r].pos \in Nat BY <2>2, HeardRun DEF Call, TypeOK, Run
  <2>8. run[r].pos > 0 BY <2>6, <2>7
  <2>9. run'[r].pos = run[r].pos BY <2>1 DEF TypeOK, Run
  <2>10. CallsSame /\ HasNoCall(r)'
         BY <1>8, <2>3, RunCalls DEF ChunkSent, Sends, AskStatus, SendChunk, SendVerify
  <2>11. rpc'[r] = "read" /\ Active(r) BY <1>8 DEF ChunkSent, Go, TypeOK, Active
  <2> QED BY <1>4, <2>6, <2>8, <2>9, <2>10, <2>11
<1>9. CASE SendChunk(r)
  <2>1. rpc[r] = "read" /\ run[r].pos < Size BY <1>9 DEF SendChunk
  <2>2. PICK c \in CallIds :
              /\ ~Heard(c)
              /\ calls'[c].run = r /\ calls'[c].kind = "chunk" /\ calls'[c].state = "sent"
              /\ calls'[c].idx = run[r].idx /\ calls'[c].data = Chunk(r)
              /\ \A d \in CallIds \ {c} : calls'[d] = calls[d] /\ (Heard(d)' => Heard(d))
        BY <1>9, SendNew DEF SendChunk
  <2>3. Active(r) /\ HasNoCall(r) BY <2>1, NotWaiting DEF Active, Waiting
  <2>4. ASSUME NEW d \in CallIds, Heard(d)' PROVE d = c
    <3> SUFFICES ASSUME d # c PROVE FALSE
        OBVIOUS
    <3>1. Heard(d) BY <2>2, <2>4
    <3>2. calls[d].run = r BY <1>0, <2>3, <3>1, OnlyHeard
    <3> QED BY <2>3, <3>1, <3>2 DEF HasNoCall
  <2>5. \A q \in Runs : rpc'[q] # "read"
    <3>1. rpc'[r] # "read" BY <1>9 DEF SendChunk, Go, TypeOK
    <3> QED BY <1>0, <1>1, <2>3, <3>1 DEF OneRun, OnlyRun, Active
  <2> DEFINE p == run[r].pos
             n == Len(Chunk(r))
  <2>6. /\ n = AtMost(p + ChunkSize) - p /\ n > 0
        /\ \A k \in 1..n : Chunk(r)[k][1] = p + k
        BY <2>1, ChunkIsData
  <2>7. run'[r].pos = AtMost(p + ChunkSize) /\ run'[r].idx = run[r].idx
        BY <1>9 DEF SendChunk, TypeOK, Run
  <2>8. p \in Nat /\ run[r].idx \in Nat BY DEF TypeOK, Run
  <2>9. AtMost(p + ChunkSize) \in Nat
    <3>1. p + ChunkSize \in Nat BY <2>8, TransferAssumption
    <3> QED BY <3>1, AtMostBounds, TransferAssumption
  <2>10. run'[r].pos - Len(calls'[c].data) = p
    <3>1. \A a \in Nat : a - (a - p) = p BY <2>8
    <3> QED BY <2>2, <2>6, <2>7, <2>9, <3>1
  <2>11. ReadFits(r) BY <1>0
  <2>12. /\ run[r].idx > 0 => p > 0
         /\ run[r].idx = 0 \/ Upto(p)
         BY <2>1, <2>11 DEF ReadFits
  <2>13. run[r].idx = 0 \/ (Begun' => Len(tmp') = p) BY <1>2, <2>12
  <2> HIDE DEF p
  <2>14. ChunkFits(c)' BY <2>2, <2>6, <2>7, <2>8, <2>10, <2>12, <2>13 DEF ChunkFits, Upto
  <2>15. \A d \in CallIds : ChunkFits(d)' /\ SizeFits(d)'
         BY <2>2, <2>4, <2>14 DEF ChunkFits, SizeFits
  <2> QED BY <1>3, <2>5, <2>15 DEF PrefixInv, ReadFits
<1>10. CASE AskStatus(r) \/ SendVerify(r)
  <2>1. rpc[r] \in {"ask", "read"} /\ rpc'[r] # "read" /\ run' = run
        BY <1>10 DEF AskStatus, SendVerify, Go, TypeOK
  <2>0. PICK kind \in {"status", "verify"} : Send(r, kind, 0, <<>>)
        BY <1>10 DEF AskStatus, SendVerify
  <2>2. PICK c \in CallIds :
              /\ calls'[c].kind \in {"status", "verify"} /\ calls'[c].state = "sent"
              /\ \A d \in CallIds \ {c} : calls'[d] = calls[d] /\ (Heard(d)' => Heard(d))
        BY <2>0, SendNew
  <2>3. \A q \in Runs : ReadFits(q)'
        BY <1>0, <1>1, <1>2, <2>1 DEF OnlyRun, ReadFits, Upto
  <2>4. \A d \in CallIds : ChunkFits(d)' /\ SizeFits(d)'
        BY <1>0, <1>1, <1>2, <2>1, <2>2 DEF ChunkFits, SizeFits, Upto
  <2> QED BY <1>3, <2>3, <2>4 DEF PrefixInv
<1>11. CASE StopDeleted(r) \/ StartRun(r) \/ Complete(r) \/ CompleteDeleted(r) \/ Cleanup(r)
            \/ CallFails(r) \/ CallTimeout(r)
  <2>1. CASE ~Sends(r)
    <3>1. CallsSame /\ HasNoCall(r)' BY <2>1, RunCalls
    <3>2. rpc'[r] # "read"
      <4>1. CASE StopDeleted(r) \/ CompleteDeleted(r) \/ Cleanup(r)
            BY <4>1, EndEffect DEF StopDeleted, CompleteDeleted, Cleanup
      <4>2. CASE StartRun(r) BY <4>2, EndEffect DEF StartRun, Go, TypeOK
      <4>3. CASE Complete(r) BY <4>3 DEF Complete, Go, TypeOK
      <4>4. CASE CallFails(r)
        <5>1. PICK c \in CallIds : Retry(r, calls[c].answer = "permanent") BY <4>4 DEF CallFails
        <5>2. (calls[c].answer = "permanent") \in BOOLEAN OBVIOUS
        <5> QED BY <5>1, <5>2, RetryEffect
      <4>5. CASE CallTimeout(r) BY <4>5, RetryEffect DEF CallTimeout
      <4> QED BY <1>11, <4>1, <4>2, <4>3, <4>4, <4>5
    <3> QED BY <1>5, <3>1, <3>2
  <2>2. CASE Sends(r) BY <1>9, <1>10, <2>2 DEF Sends
  <2> QED BY <2>1, <2>2
<1> QED BY <1>6, <1>7, <1>8, <1>9, <1>10, <1>11 DEF RunStep

\* What the first units of a chunk make of the partial file.
LEMMA WrittenPrefix ==
    ASSUME TypeOK, NEW i \in Nat, NEW data \in Seq(Unit), NEW from \in Nat,
           \A k \in 1..Len(data) : data[k][1] = from + k,
           i > 0 => from > 0,
           final = NoFile => (i = 0 \/ Upto(from)),
           Begun => \A k \in DOMAIN tmp : tmp[k][1] = k,
           tmp' = Written(i, data), final' = final, Begun'
    PROVE  /\ \A k \in DOMAIN tmp' : tmp'[k][1] = k
           /\ Len(data) > 0 => Len(tmp') = from + Len(data)
<1>1. final = NoFile /\ tmp' # <<>> /\ tmp'[1][1] = 1 BY DEF Begun, InTransfer
<1>2. CASE i > 0 /\ tmp # NoFile
  <2>1. tmp \in Seq(Unit) /\ tmp' = tmp \o data BY <1>2 DEF TypeOK, Written
  <2>2. CASE tmp = <<>>
    <3>1. tmp' = data BY <2>1, <2>2
    <3>2. Len(data) > 0 /\ data[1][1] = 1 BY <1>1, <3>1
    <3>3. data[1][1] = from + 1 BY <3>2
    <3> QED BY <1>2, <3>2, <3>3
  <2>3. CASE tmp # <<>>
    <3>1. Len(tmp) > 0 /\ Len(tmp) \in Nat BY <2>1, <2>3
    <3>2. tmp'[1] = tmp[1] BY <2>1, <3>1
    <3>3. Begun BY <1>1, <1>2, <2>3, <3>2 DEF Begun, InTransfer
    <3>4. Len(tmp) = from BY <1>1, <1>2, <3>3 DEF Upto
    <3>5. Len(tmp') = from + Len(data) BY <2>1, <3>4
    <3>6. ASSUME NEW k \in DOMAIN tmp' PROVE tmp'[k][1] = k
      <4>1. k \in 1..(from + Len(data)) BY <2>1, <3>4, <3>5
      <4>2. CASE k <= from
        <5>1. k \in DOMAIN tmp /\ tmp'[k] = tmp[k] BY <2>1, <3>4, <4>1, <4>2
        <5> QED BY <3>3, <5>1
      <4>3. CASE k > from
        <5>1. k - from \in 1..Len(data) BY <4>1, <4>3
        <5>2. tmp'[k] = data[k - from] BY <2>1, <3>4, <4>1, <4>3, <5>1
        <5>3. data[k - from][1] = from + (k - from) BY <5>1
        <5> QED BY <4>1, <5>2, <5>3
      <4> QED BY <4>1, <4>2, <4>3
    <3> QED BY <3>5, <3>6
  <2> QED BY <2>2, <2>3
<1>3. CASE ~(i > 0 /\ tmp # NoFile)
  <2>1. tmp' = data BY <1>3 DEF Written
  <2>2. Len(data) > 0 /\ data[1][1] = 1 BY <1>1, <2>1
  <2>3. data[1][1] = from + 1 BY <2>2
  <2>4. from = 0 BY <2>2, <2>3
  <2> QED BY <2>1, <2>4
<1> QED BY <1>2, <1>3

LEMMA HandlePrefix ==
    ASSUME TypeOK, TypeOK', CallInv, DeliveryInv, PrefixInv,
           NEW c \in CallIds, Handle(c) \/ Lose(c)
    PROVE  PrefixInv'
<1> USE DEF source, sender, receiver
<1> SUFFICES ASSUME calm' PROVE PrefixInv'
    BY DEF PrefixInv
<1>0. /\ UNCHANGED <<rpc, run>> /\ CallsGoOn
      /\ \A d \in CallIds \ {c} : calls'[d] = calls[d]
      BY HandleFrame
<1>1. /\ calm /\ OneRun
      /\ \A d \in CallIds : Checked(d)
      /\ Begun => \A k \in DOMAIN tmp : tmp[k][1] = k
      /\ \A q \in Runs : ReadFits(q)
      /\ \A d \in CallIds : ChunkFits(d) /\ SizeFits(d)
      BY HandleFrame DEF DeliveryInv, PrefixInv
<1>2. ASSUME Quiet(c), UNCHANGED <<tmp, final>> \/ ~Begun' PROVE PrefixInv'
  <2>1. \A d \in CallIds : Quiet(d) BY <1>0, <1>2 DEF Quiet
  <2> QED BY <1>0, <1>1, <1>2, <2>1, PrefixKept
<1>3. ASSUME Heard(c) PROVE \A d \in CallIds : Heard(d)' => d = c
      BY <1>0, <1>1, <1>3, OnlyHeard DEF CallsGoOn, GoesOn
<1>4. CASE VerifyRename(c) \/ VerifyHash(c) \/ VerifyUnlink(c)
  <2>1. calls[c].kind = "verify" BY <1>4 DEF VerifyRename, VerifyHash, VerifyUnlink, Arrived
  <2>2. Quiet(c) BY <1>0, <2>1 DEF Quiet, CallsGoOn, GoesOn
  <2>3. UNCHANGED <<tmp, final>> \/ ~Begun'
    <3>1. CASE VerifyRename(c) BY <3>1 DEF VerifyRename, Begun, InTransfer
    <3>2. CASE VerifyHash(c) BY <3>2 DEF VerifyHash
    <3>3. CASE VerifyUnlink(c)
      <4>1. Heard(c) /\ calls[c].state = "mismatch"
            BY <3>3 DEF VerifyUnlink, Arrived, Late, Heard
      <4>2. tmp = NoFile BY <1>1, <2>1, <4>1 DEF Checked
      <4> QED BY <3>3, <4>2 DEF VerifyUnlink, Begun, InTransfer
    <3> QED BY <1>4, <3>1, <3>2, <3>3
  <2> QED BY <1>2, <2>2, <2>3
<1>5. CASE \E answer \in Answers \ {"ok"} : Refuse(c, answer)
  <2>1. PICK answer \in Answers \ {"ok"} : Refuse(c, answer) BY <1>5
  <2>2. calls[c] # None /\ calls[c] \in Call /\ ~Late(c) BY <2>1 DEF Refuse, TypeOK
  <2>3. calls'[c] = [calls[c] EXCEPT !.state = "answered", !.answer = answer, !.size = 0]
        BY <2>1, <2>2, AnswerEffect DEF Refuse
  <2>4. Quiet(c) BY <2>1, <2>2, <2>3 DEF Quiet, Call
  <2> QED BY <1>2, <2>1, <2>4 DEF Refuse
<1>6. CASE Lose(c)
  <2>1. Quiet(c) BY <1>6, FreeEffect DEF Lose, Quiet, Heard
  <2> QED BY <1>2, <1>6, <2>1 DEF Lose
<1>7. CASE AnswerStatus(c)
  <2> DEFINE size == IF final # NoFile THEN Len(final) ELSE IF tmp # NoFile THEN Len(tmp) ELSE 0
  <2>1. calls[c] # None /\ calls[c] \in Call /\ calls[c].kind = "status"
        BY <1>7 DEF AnswerStatus, Arrived, TypeOK
  <2>2. UNCHANGED <<tmp, final>> BY <1>7 DEF AnswerStatus
  <2>3. CASE Late(c)
    <3>1. calls'[c] = None BY <1>7, <2>1, <2>3, AnswerEffect DEF AnswerStatus
    <3>2. Quiet(c) BY <3>1 DEF Quiet, Heard
    <3> QED BY <1>2, <2>2, <3>2
  <2>4. CASE ~Late(c)
    <3>0. Answer(c, "ok", size) BY <1>7 DEF AnswerStatus
    <3>1. calls'[c] = [calls[c] EXCEPT !.state = "answered", !.answer = "ok", !.size = size]
      <4> HIDE DEF size
      <4> QED BY <2>1, <2>4, <3>0, AnswerEffect
    <3>2. calls'[c].size = size /\ calls'[c].kind = "status" BY <2>1, <3>1 DEF Call
    <3>3. Begun' => Len(tmp') = size BY <2>2 DEF Begun, InTransfer
    <3>4. Heard(c) BY <2>1, <2>4 DEF Heard, Late
    <3>5. \A d \in CallIds : Heard(d)' => d = c BY <1>3, <3>4
    <3>6. \A d \in CallIds : ChunkFits(d)' /\ SizeFits(d)'
          BY <3>2, <3>3, <3>5 DEF ChunkFits, SizeFits, Upto
    <3>7. \A q \in Runs : ReadFits(q)'
          BY <1>0, <1>1, <2>2 DEF ReadFits, Upto, Begun, InTransfer
    <3>8. Begun' => \A k \in DOMAIN tmp' : tmp'[k][1] = k
          BY <1>1, <2>2 DEF Begun, InTransfer
    <3> QED BY <3>6, <3>7, <3>8 DEF PrefixInv
  <2> QED BY <2>3, <2>4
<1>8. CASE ReceiveChunk(c) \/ \E n \in 0..ChunkSize : ReceivePart(c, n)
  <2> DEFINE r    == calls[c].run
             data == calls[c].data
             i    == calls[c].idx
             from == run[r].pos - Len(data)
  <2>1. /\ calls[c] # None /\ calls[c] \in Call /\ calls[c].kind = "chunk"
        /\ calls[c].state = "sent" /\ Heard(c) /\ ~Late(c)
        BY <1>8 DEF ReceiveChunk, ReceivePart, Arrived, TypeOK, Late, Heard
  <2>2. r \in Runs /\ data \in Seq(Unit) /\ i \in Nat BY <2>1 DEF Call, Heard
  <2>3. ChunkFits(c) BY <1>1
  <2>4. /\ i = run[r].idx /\ Len(data) > 0 /\ from >= 0
        /\ \A k \in 1..Len(data) : data[k][1] = from + k
        /\ i > 0 => from > 0
        /\ i = 0 \/ Upto(from)
        BY <2>1, <2>3 DEF ChunkFits
  <2>5. run[r].pos \in Nat /\ Len(data) \in Nat BY <2>2 DEF TypeOK, Run
  <2>6. from \in Nat /\ run[r].pos = from + Len(data) BY <2>4, <2>5
  <2>7. final' = final BY <1>8 DEF ReceiveChunk, ReceivePart
  <2>8. \A d \in CallIds : Heard(d)' => d = c BY <1>3, <2>1
  <2>9. \A q \in Runs : rpc'[q] # "read"
    <3>1. rpc[r] = "sent" BY <2>1, <1>1, OnlyHeard DEF Await
    <3>2. \A q \in Runs : Active(q) => q = r BY <1>1, <2>1, OnlyHeard
    <3> QED BY <1>0, <3>1, <3>2 DEF Active
  <2>10. /\ calls'[c].run = r /\ calls'[c].idx = i /\ calls'[c].data = data
         /\ calls'[c].state = "answered" /\ calls'[c].kind = "chunk"
    <3>1. PICK answer \in Answers : Answer(c, answer, 0)
          BY <1>8 DEF ReceiveChunk, ReceivePart, Answers
    <3>2. calls'[c] = [calls[c] EXCEPT !.state = "answered", !.answer = answer, !.size = 0]
          BY <2>1, <3>1, AnswerEffect
    <3> QED BY <2>1, <3>2 DEF Call
  <2> HIDE DEF r, data, i, from
  <2>11. CASE ReceiveChunk(c)
    <3>1. tmp' = Written(i, data) BY <2>11 DEF ReceiveChunk, i, data
    <3>2. Begun' => /\ \A k \in DOMAIN tmp' : tmp'[k][1] = k
                    /\ Len(tmp') = from + Len(data)
          BY <1>1, <2>2, <2>4, <2>6, <2>7, <3>1, WrittenPrefix
    <3>3. ChunkFits(c)'
      <4>1. Begun' => Len(tmp') = run[r].pos BY <2>6, <3>2
      <4> QED BY <1>0, <2>4, <2>10, <4>1 DEF ChunkFits, Upto, from
    <3>4. \A d \in CallIds : ChunkFits(d)' /\ SizeFits(d)'
          BY <2>8, <2>10, <3>3 DEF ChunkFits, SizeFits
    <3> QED BY <2>9, <3>2, <3>4 DEF PrefixInv, ReadFits
  <2>12. ASSUME NEW n \in 0..ChunkSize, ReceivePart(c, n) PROVE PrefixInv'
    <3>1. tmp' = Written(i, SubSeq(data, 1, n)) /\ n < Len(data)
          BY <2>12 DEF ReceivePart, i, data
    <3>2. /\ SubSeq(data, 1, n) \in Seq(Unit) /\ Len(SubSeq(data, 1, n)) = n
          /\ \A k \in 1..n : SubSeq(data, 1, n)[k] = data[k] /\ k \in 1..Len(data)
          BY <2>2, <2>5, <3>1, TransferAssumption
    <3>3. \A k \in 1..Len(SubSeq(data, 1, n)) : SubSeq(data, 1, n)[k][1] = from + k
          BY <2>4, <3>2
    <3>4. Begun' => \A k \in DOMAIN tmp' : tmp'[k][1] = k
          BY <1>1, <2>2, <2>4, <2>6, <2>7, <3>1, <3>2, <3>3, WrittenPrefix
    <3>5. calls'[c].answer = "transient"
      <4>1. calls'[c] = [calls[c] EXCEPT !.state = "answered", !.answer = "transient", !.size = 0]
            BY <2>1, <2>12, AnswerEffect DEF ReceivePart
      <4> QED BY <2>1, <4>1 DEF Call
    <3>6. ChunkFits(c)' BY <1>0, <2>4, <2>10, <3>5 DEF ChunkFits, Upto, from
    <3>7. \A d \in CallIds : ChunkFits(d)' /\ SizeFits(d)'
          BY <2>8, <2>10, <3>6 DEF ChunkFits, SizeFits
    <3> QED BY <2>9, <3>4, <3>7 DEF PrefixInv, ReadFits
  <2> QED BY <1>8, <2>11, <2>12
<1> QED BY <1>4, <1>5, <1>6, <1>7, <1>8 DEF Handle

LEMMA PrefixStep ==
    ASSUME TypeOK, TypeOK', CallInv, DeliveryInv, PrefixInv, [Next]_vars
    PROVE  PrefixInv'
<1> USE DEF source, sender, receiver
<1>1. ASSUME CallsSame, calm' => calm, UNCHANGED <<tmp, final>> \/ tmp' = NoFile,
             \A r \in Runs : rpc[r] # "idle" => run'[r] = run[r],
             \A r \in Runs : rpc'[r] = "read" => rpc[r] = "read"
      PROVE  PrefixInv'
  <2>1. CallsGoOn BY <1>1, SameGoesOn
  <2>2. \A c \in CallIds : Quiet(c) BY <1>1 DEF CallsSame, Quiet
  <2>3. UNCHANGED <<tmp, final>> \/ ~Begun' BY <1>1 DEF Begun, InTransfer
  <2>4. \A r \in Runs : rpc'[r] = "read" => rpc[r] = "read" /\ run'[r] = run[r] BY <1>1
  <2>5. ASSUME NEW c \in CallIds, Heard(c)' PROVE run'[calls[c].run] = run[calls[c].run]
    <3>1. Heard(c) BY <1>1, <2>5 DEF CallsSame
    <3>2. calls[c].run \in Runs BY <3>1, HeardRun
    <3>3. rpc[calls[c].run] # "idle" BY <3>1, <3>2, NotWaiting DEF HasNoCall, Waiting
    <3> QED BY <1>1, <3>2, <3>3
  <2> QED BY <1>1, <2>1, <2>2, <2>3, <2>4, <2>5, PrefixKept
<1>2. ASSUME NEW j \in Jobs, JobEdit(j) PROVE PrefixInv'
      BY <1>1, <1>2, JobEditFrame, CallsUnchanged
<1>3. ASSUME NEW j \in Jobs, CreateTransferJob(j) PROVE PrefixInv'
  <2>1. \A r \in Runs : rpc'[r] = rpc[r] \/ rpc'[r] = "start"
        BY <1>3 DEF CreateTransferJob, Go, TypeOK
  <2>2. \A r \in Runs : rpc'[r] = "read" => rpc[r] = "read" BY <2>1
  <2> QED BY <1>1, <1>3, <2>2, CallsUnchanged DEF CreateTransferJob
<1>4. CASE Poll BY <1>1, <1>4, CallsUnchanged DEF Poll
<1>5. CASE Launch
  <2>1. \A r \in Runs : rpc'[r] = rpc[r] \/ rpc'[r] = "start" BY <1>5 DEF Launch
  <2>2. \A r \in Runs : rpc'[r] = "read" => rpc[r] = "read" BY <2>1
  <2> QED BY <1>1, <1>5, <2>2, CallsUnchanged DEF Launch
<1>6. CASE LaunchFails BY <1>1, <1>6, CallsUnchanged DEF LaunchFails
<1>7. CASE Crash
  <2>1. \A c \in CallIds : ~Heard(c)'
    <3> SUFFICES ASSUME NEW c \in CallIds, calls'[c] # None PROVE calls'[c].run = None
        BY DEF Heard
    <3>1. calls[c] # None /\ calls'[c] = [calls[c] EXCEPT !.run = None] BY <1>7 DEF Crash
    <3> QED BY <3>1 DEF TypeOK, Call
  <2>2. \A r \in Runs : rpc'[r] = "idle" BY <1>7 DEF Crash
  <2>3. tmp' = tmp /\ final' = final /\ calm' = calm BY <1>7 DEF Crash
  <2> QED BY <2>1, <2>2, <2>3
          DEF PrefixInv, Begun, InTransfer, ReadFits, ChunkFits, SizeFits
<1>8. CASE Save BY <1>1, <1>8, CallsUnchanged DEF Save
<1>9. CASE CleanTmp BY <1>1, <1>9, CallsUnchanged DEF CleanTmp
<1>10. CASE UNCHANGED vars BY <1>1, <1>10, CallsUnchanged DEF vars
<1> QED BY <1>2, <1>3, <1>4, <1>5, <1>6, <1>7, <1>8, <1>9, <1>10, RunStepPrefix, HandlePrefix
        DEF Next, Schedule, JobEdit

-----------------------------------------------------------------------------
IndInv == TypeOK /\ CallInv /\ DeliveryInv /\ PrefixInv

LEMMA Inductive == Spec => []IndInv
<1>1. Init => IndInv BY TypesInit, CallInvInit, DeliveryInvInit, PrefixInvInit DEF IndInv
<1>2. IndInv /\ [Next]_vars => IndInv'
      BY StepTypes, CallInvStep, DeliveryStep, PrefixStep DEF IndInv
<1> QED BY <1>1, <1>2, PTL DEF Spec

\* The types of the jobs, runs, calls and files.
THEOREM TransferTypes == Spec => []TypeOK
<1>1. IndInv => TypeOK BY DEF IndInv
<1> QED BY <1>1, Inductive, PTL

\* While the transfers are calm, a run that goes on to remove the source has been
\* told, by a call of its own that compared the checksum of its job, what the
\* receiver then holds.  A job that is confirmed without a checksum ends the calm.
THEOREM RemovesWhatIsDelivered == Spec => []ConfirmedIsDelivered
<1>1. IndInv => ConfirmedIsDelivered BY DEF IndInv, DeliveryInv, Holds, ConfirmedIsDelivered
<1> QED BY <1>1, Inductive, PTL

\* Whatever call failed half way, the receiver's partial file begins the file.
THEOREM PartialFileIsPrefix == Spec => []TmpIsPrefix
<1>1. IndInv => TmpIsPrefix BY DEF IndInv, PrefixInv, Begun, TmpIsPrefix
<1> QED BY <1>1, Inductive, PTL

-----------------------------------------------------------------------------
(* The refinement of Delivery.                                             *)

Done == {j \in Jobs : job[j].status = "completed" \/ Confirmed(j)}

NoneCompleted == \A j \in Jobs : job'[j].status = "completed" => job[j].status = "completed"

LEMMA DeliveredVersionType ==
    /\ DeliveredVersion \in Versions \cup {None}
    /\ \A v \in Versions : Delivered(v) => DeliveredVersion # None
<1>1. CASE \E v \in Versions : Delivered(v)
  <2>1. DeliveredVersion \in Versions BY <1>1 DEF DeliveredVersion
  <2> QED BY <2>1, ValueAssumption
<1>2. CASE ~\E v \in Versions : Delivered(v) BY <1>2 DEF DeliveredVersion
<1> QED BY <1>1, <1>2

LEMMA InitPromise == Init => Promise!Init
<1> SUFFICES ASSUME Init PROVE Promise!Init
    OBVIOUS
<1>1. ASSUME NEW v \in Versions PROVE ~Delivered(v)
  <2>1. Size \in Nat /\ Size >= 1 /\ v # 0 BY TransferAssumption DEF Versions
  <2>2. Whole(v) \in Seq({<<k, v>> : k \in 1..Size}) BY <2>1 DEF Whole
  <2>3. Whole(v)[1] = <<1, v>> /\ Whole(v) \in Seq(Unit)
    <3>1. \A k \in 1..Size : <<k, v>> \in Unit BY <2>1, TransferAssumption DEF Unit, Versions
    <3> QED BY <2>1, <3>1 DEF Whole
  <2>4. CASE final = NoFile BY <2>3, <2>4, ValueAssumption DEF Delivered
  <2>5. ASSUME NEW n \in Foreign, final = OtherFile(n), final = Whole(v) PROVE FALSE
    <3>1. n \in Nat BY TransferAssumption
    <3>2. Len(Whole(v)) = Size /\ Len(OtherFile(n)) = n BY <2>1, <3>1 DEF Whole, OtherFile
    <3>3. n = Size BY <2>5, <3>2
    <3>4. OtherFile(n)[1] = <<1, 0>> BY <2>1, <3>3 DEF OtherFile
    <3> QED BY <2>1, <2>3, <2>5, <3>4
  <2> QED BY <2>4, <2>5 DEF Init, Delivered
<1>2. DeliveredVersion = None BY <1>1 DEF DeliveredVersion
<1>3. Done = {} BY DEF Init, NewJob, Done, Confirmed
<1> QED BY <1>2, <1>3 DEF Promise!Init, Init, Done

LEMMA Forgets ==
    ASSUME UNCHANGED <<there, final, calm>>, NoneCompleted,
           \A r \in Runs : rpc'[r] = "cleanup" => rpc[r] = "cleanup"
    PROVE  Promise!Next
<1>1. DeliveredVersion' = DeliveredVersion BY DEF DeliveredVersion, Delivered
<1>2. \A j \in Jobs : Confirmed(j)' => Confirmed(j) BY DEF Confirmed
<1>3. Done' \subseteq Done BY <1>2 DEF Done, NoneCompleted
<1> QED BY <1>1, <1>3 DEF Promise!Next, Promise!Forget, Done

LEMMA Puts ==
    ASSUME UNCHANGED <<there, job, rpc, calm>>, there = TRUE
    PROVE  Promise!Next
<1>1. DeliveredVersion' \in Versions \cup {None}
  <2>1. CASE \E v \in Versions : Delivered(v)'
        BY <2>1 DEF DeliveredVersion
  <2>2. CASE ~\E v \in Versions : Delivered(v)'
        BY <2>2 DEF DeliveredVersion
  <2> QED BY <2>1, <2>2
<1>2. Done' = Done BY DEF Done, Confirmed
<1> QED BY <1>1, <1>2 DEF Promise!Next, Promise!Put, Done

LEMMA StatusCompletes ==
    ASSUME TypeOK, NEW j \in Jobs, NEW s, s # "completed", SetStatus(j, s)
    PROVE  NoneCompleted
BY DEF TypeOK, SetStatus, Job, NoneCompleted

LEMMA RetryCompletes ==
    ASSUME TypeOK, NEW r \in Runs, NEW permanent \in BOOLEAN, Retry(r, permanent)
    PROVE  NoneCompleted
<1>1. UNCHANGED job \/ SetStatus(r[1], "failed") BY DEF Retry
<1> QED BY <1>1, RunIsPair, StatusCompletes DEF NoneCompleted

LEMMA ResumeCompletes ==
    ASSUME TypeOK, NEW r \in Runs, NEW size \in Nat, Resume(r, size)
    PROVE  NoneCompleted
<1>1. CASE ~there BY <1>1, RetryCompletes DEF Resume
<1>2. CASE there
  <2>1. job' = job \/ job' = [job EXCEPT ![r[1]].sent = AtMost(size)] BY <1>2 DEF Resume
  <2>2. CASE job' = [job EXCEPT ![r[1]].sent = AtMost(size)]
        BY <2>2, RunIsPair DEF TypeOK, Job, NoneCompleted
  <2> QED BY <2>1, <2>2 DEF NoneCompleted
<1> QED BY <1>1, <1>2

LEMMA OnlyCompleteCompletes ==
    ASSUME TypeOK, NEW r \in Runs, RunStep(r), ~Complete(r)
    PROVE  NoneCompleted
<1>0. r[1] \in Jobs BY RunIsPair
<1>1. CASE UNCHANGED job BY <1>1 DEF NoneCompleted
<1>2. CASE StartRun(r) BY <1>0, <1>1, <1>2, StatusCompletes DEF StartRun
<1>3. CASE GetStatus(r)
  <2>1. PICK c \in CallIds :
            /\ Answered(r, c)
            /\ Resume(r, IF calls[c].answer = "ok" THEN calls[c].size ELSE 0)
        BY <1>3 DEF GetStatus
  <2>2. (IF calls[c].answer = "ok" THEN calls[c].size ELSE 0) \in Nat
        BY <2>1 DEF Answered, TypeOK, Call
  <2> QED BY <2>1, <2>2, ResumeCompletes
<1>4. CASE StatusTimeout(r) BY <1>4, ResumeCompletes DEF StatusTimeout
<1>5. CASE ChunkSent(r) BY <1>0, <1>5 DEF ChunkSent, NoneCompleted, TypeOK, Job
<1>6. CASE CallFails(r)
  <2>1. PICK c \in CallIds : Retry(r, calls[c].answer = "permanent") BY <1>6 DEF CallFails
  <2>2. (calls[c].answer = "permanent") \in BOOLEAN OBVIOUS
  <2> QED BY <2>1, <2>2, RetryCompletes
<1>7. CASE CallTimeout(r) BY <1>7, RetryCompletes DEF CallTimeout
<1>8. CASE StopDeleted(r) \/ AskStatus(r) \/ SendChunk(r) \/ SendVerify(r) \/ CompleteDeleted(r)
           \/ Cleanup(r)
      BY <1>1, <1>8 DEF StopDeleted, AskStatus, SendChunk, SendVerify, CompleteDeleted, Cleanup,
                        sender
<1> QED BY <1>2, <1>3, <1>4, <1>5, <1>6, <1>7, <1>8 DEF RunStep

LEMMA RunStepPromise ==
    ASSUME IndInv, IndInv', NEW r \in Runs, RunStep(r), calm, calm'
    PROVE  Promise!Next
<1> USE DEF source, sender, receiver
<1>0. TypeOK /\ CallInv /\ TypeOK' /\ DeliveryInv /\ DeliveryInv' BY DEF IndInv
<1>1. OnlyRun(r) /\ final' = final /\ calm' = calm /\ r[1] \in Jobs
      BY <1>0, RunStepFrame, RunIsPair DEF TypeOK
<1>2. CASE Complete(r)
  <2>1. rpc'[r] = "cleanup" /\ there' = there BY <1>0, <1>2 DEF Complete, Go, TypeOK
  <2>2. Holds(job[r[1]].sum)' BY <1>0, <2>1 DEF DeliveryInv
  <2>3. job'[r[1]].sum \in Versions BY <1>0, <1>1, <2>2 DEF TypeOK, Job, Sums, Holds
  <2>4. Delivered(job'[r[1]].sum) BY <1>1, <2>2 DEF Holds, Delivered
  <2>5. DeliveredVersion # None BY <2>3, <2>4, DeliveredVersionType
  <2>6. DeliveredVersion' = DeliveredVersion BY <1>1 DEF DeliveredVersion, Delivered
  <2>7. job' = [job EXCEPT ![r[1]].status = "completed", ![r[1]].full = TRUE]
        BY <1>2 DEF Complete
  <2>8. /\ job'[r[1]].status = "completed"
        /\ \A j \in Jobs \ {r[1]} : job'[j] = job[j]
        BY <1>0, <1>1, <2>7 DEF TypeOK, Job
  <2>9. \A j \in Jobs \ {r[1]} : Confirmed(j)' <=> Confirmed(j)
        BY <1>1 DEF OnlyRun, Confirmed
  <2>10. Done' = Done \cup {r[1]} BY <1>1, <2>8, <2>9 DEF Done
  <2> QED BY <1>1, <2>1, <2>5, <2>6, <2>10 DEF Promise!Next, Promise!Complete, Done
<1>3. CASE Cleanup(r)
  <2>1. rpc[r] = "cleanup" /\ rpc'[r] = "idle" BY <1>0, <1>3, EndEffect DEF Cleanup
  <2>2. \A q \in Runs : rpc[q] = "cleanup" => q = r
        BY <2>1, <1>0 DEF DeliveryInv, OneRun, Active
  <2>3. \A q \in Runs : rpc'[q] # "cleanup" BY <1>1, <2>1, <2>2 DEF OnlyRun
  <2>4. job' = job BY <1>3 DEF Cleanup
  <2>5. CASE r[1] \notin Moves
    <3>1. there' = there BY <1>0, <1>3, <2>5 DEF Cleanup, TypeOK
    <3> QED BY <1>1, <2>3, <2>4, <3>1, Forgets DEF NoneCompleted
  <2>6. CASE r[1] \in Moves
    <3>1. there' = FALSE BY <1>3, <2>6 DEF Cleanup
    <3>2. Holds(job[r[1]].sum) BY <1>0, <2>1 DEF DeliveryInv
    <3>3. DeliveredVersion # None
      <4>1. job[r[1]].sum \in Versions BY <1>0, <1>1, <3>2 DEF TypeOK, Job, Sums, Holds
      <4> QED BY <3>2, <4>1, DeliveredVersionType DEF Holds
    <3>4. DeliveredVersion' = DeliveredVersion BY <1>1 DEF DeliveredVersion, Delivered
    <3>5. r[1] \in Done BY <1>1, <2>1 DEF Done, Confirmed
    <3>6. \A j \in Jobs : ~Confirmed(j)' /\ (Confirmed(j) => j = r[1])
          BY <2>2, <2>3 DEF Confirmed
    <3>7. Done' = Done \/ Done' = Done \ {r[1]} BY <2>4, <3>5, <3>6 DEF Done
    <3> QED BY <1>1, <3>1, <3>3, <3>4, <3>5, <3>7 DEF Promise!Next, Promise!Remove, Done
  <2> QED BY <2>5, <2>6
<1>4. CASE ~Complete(r) /\ ~Cleanup(r)
  <2>1. NoneCompleted BY <1>0, <1>4, OnlyCompleteCompletes
  <2>2. there' = there /\ rpc'[r] # "cleanup"
    <3>1. CASE StartRun(r) BY <1>0, <3>1, EndEffect DEF StartRun, Go, TypeOK
    <3>2. CASE Sends(r) BY <1>0, <3>2 DEF Sends, AskStatus, SendChunk, SendVerify, Go, TypeOK
    <3> QED BY <1>0, <1>4, <3>1, <3>2, OtherSteps
  <2>3. \A q \in Runs : rpc'[q] = "cleanup" => rpc[q] = "cleanup" BY <1>1, <2>2 DEF OnlyRun
  <2> QED BY <1>1, <2>1, <2>2, <2>3, Forgets
<1> QED BY <1>2, <1>3, <1>4

LEMMA HandlePromise ==
    ASSUME IndInv, NEW c \in CallIds, Handle(c) \/ Lose(c), calm, calm'
    PROVE  Promise!Next
<1> USE DEF source, sender, receiver
<1>0. TypeOK /\ CallInv /\ DeliveryInv BY DEF IndInv
<1>1. UNCHANGED <<there, job, rpc>> /\ (calm' => calm) BY <1>0, HandleFrame
<1>2. ASSUME final' = final, calm' = calm PROVE Promise!Next
      BY <1>1, <1>2, Forgets DEF NoneCompleted
<1>3. ASSUME Heard(c), calm' = calm PROVE Promise!Next
  <2>1. calls[c].run \in Runs /\ Active(calls[c].run)
        BY <1>0, <1>3, HeardRun, OnlyHeard DEF DeliveryInv
  <2>2. there = TRUE BY <1>0, <2>1 DEF DeliveryInv, StillThere, TypeOK
  <2> QED BY <1>1, <1>3, <2>2, Puts
<1>4. CASE AnswerStatus(c) \/ VerifyHash(c) \/ Lose(c)
      BY <1>2, <1>4 DEF AnswerStatus, VerifyHash, Lose
<1>5. CASE ReceiveChunk(c) \/ VerifyUnlink(c)
  <2>1. Heard(c) BY <1>5 DEF ReceiveChunk, VerifyUnlink, Arrived, Late, Heard
  <2>2. calm' = calm BY <1>0, <1>5, <2>1 DEF ReceiveChunk, VerifyUnlink, Late, Heard, TypeOK
  <2> QED BY <1>3, <2>1, <2>2
<1>6. CASE \E n \in 0..ChunkSize : ReceivePart(c, n)
  <2>1. Heard(c) BY <1>6 DEF ReceivePart, Arrived, Late, Heard
  <2>2. calm' = calm BY <1>0, <1>6, <2>1 DEF ReceivePart, Late, Heard, TypeOK
  <2> QED BY <1>3, <2>1, <2>2
<1>7. CASE \E answer \in Answers \ {"ok"} : Refuse(c, answer)
      BY <1>2, <1>7 DEF Refuse
<1>8. CASE VerifyRename(c)
  <2>1. CASE tmp = NoFile BY <1>2, <1>8, <2>1 DEF VerifyRename
  <2>2. CASE tmp # NoFile
    <3>1. Heard(c) BY <1>8, <2>2 DEF VerifyRename, Arrived, Late, Heard
    <3>2. calm' = calm BY <1>0, <1>8, <2>2, <3>1 DEF VerifyRename, Late, Heard, TypeOK
    <3> QED BY <1>3, <3>1, <3>2
  <2> QED BY <2>1, <2>2
<1> QED BY <1>4, <1>5, <1>6, <1>7, <1>8 DEF Handle

LEMMA NextPromise ==
    ASSUME IndInv, IndInv', [Next]_vars
    PROVE  [Promise!Next]_(Promise!vars)
<1> USE DEF source, sender, receiver
<1>0. TypeOK /\ TypeOK' BY DEF IndInv
<1>1. CASE ~calm'
  <2>1. calm' = FALSE BY <1>0, <1>1 DEF TypeOK
  <2> QED BY <2>1 DEF Promise!Next, Promise!Disturb
<1>2. CASE calm' /\ ~calm
  <2>1. calm' => calm
        BY <1>0, <1>2, HandleFrame, RunStepFrame, JobEditFrame
        DEF Next, Schedule, JobEdit, Poll, Launch, LaunchFails, Save, Crash, CleanTmp,
            CreateTransferJob, vars, IndInv
  <2> QED BY <1>2, <2>1
<1>3. CASE calm /\ calm'
  <2>1. ASSUME UNCHANGED <<there, job, final, calm>>,
               \A r \in Runs : rpc'[r] = "cleanup" => rpc[r] = "cleanup"
        PROVE  Promise!Next
        BY <2>1, Forgets DEF NoneCompleted
  <2>2. ASSUME NEW j \in Jobs, JobEdit(j) PROVE Promise!Next
    <3>1. NoneCompleted
      <4>1. CASE RetryTransfer(j)
            BY <1>0, <4>1 DEF RetryTransfer, NewJob, TypeOK, NoneCompleted
      <4>2. CASE CancelTransfer(j) \/ DeleteTransfer(j) \/ DetectZombie(j)
            BY <1>0, <4>2, StatusCompletes DEF CancelTransfer, DeleteTransfer, DetectZombie
      <4> QED BY <2>2, <4>1, <4>2 DEF JobEdit
    <3>2. UNCHANGED <<there, final, calm, rpc>> BY <1>0, <2>2, JobEditFrame
    <3> QED BY <3>1, <3>2, Forgets
  <2>3. ASSUME NEW j \in Jobs, CreateTransferJob(j) PROVE Promise!Next
    <3>1. NoneCompleted BY <1>0, <2>3 DEF CreateTransferJob, NewJob, TypeOK, NoneCompleted
    <3>2. \A r \in Runs : rpc'[r] = rpc[r] \/ rpc'[r] = "start"
          BY <1>0, <2>3 DEF CreateTransferJob, Go, TypeOK
    <3>3. UNCHANGED <<there, final, calm>> BY <2>3 DEF CreateTransferJob
    <3> QED BY <3>1, <3>2, <3>3, Forgets
  <2>4. CASE Schedule
    <3>1. ASSUME NEW js, Begin(js) PROVE NoneCompleted
          BY <1>0, <3>1 DEF Begin, TypeOK, Job, NoneCompleted
    <3>2. CASE Poll BY <2>1, <3>2 DEF Poll
    <3>3. CASE Launch BY <3>1, <3>3, Forgets DEF Launch
    <3>4. CASE LaunchFails BY <3>1, <3>4, Forgets DEF LaunchFails
    <3> QED BY <2>4, <3>2, <3>3, <3>4 DEF Schedule
  <2>5. CASE Save \/ CleanTmp BY <2>1, <2>5 DEF Save, CleanTmp
  <2>6. CASE Crash BY <2>1, <2>6 DEF Crash
  <2>7. CASE UNCHANGED vars BY <2>1, <2>7 DEF vars
  <2> QED BY <1>3, <2>2, <2>3, <2>4, <2>5, <2>6, <2>7, RunStepPromise, HandlePromise
          DEF Next, JobEdit
<1> QED BY <1>1, <1>2, <1>3

\* While they are calm, the transfers of a file keep what Delivery promises: a
\* job is done only when the destination holds the file, and the source is
\* removed only then.  Calm they are no longer once a job without a checksum is
\* confirmed, two jobs run at once, or a call is handled too late.
THEOREM TransferKeepsPromise == Spec => Delivers
<1>1. IndInv /\ IndInv' /\ [Next]_vars => [Promise!Next]_(Promise!vars) BY NextPromise
<1>2. Spec => Promise!Init /\ [][Promise!Next]_(Promise!vars)
      BY <1>1, InitPromise, Inductive, PTL DEF Spec
<1> QED BY <1>2 DEF Delivers, Promise!Spec
===============================================================================
