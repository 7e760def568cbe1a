----------------------- MODULE RelocationManagerProofs -----------------------
(***************************************************************************)
(* Theorems about RelocationManager: for any files, locations, tasks and   *)
(* request threads, create_task lets one task at a time relocate a file,   *)
(* until the hourly cleanup of an old task forgets a file that has a new   *)
(* one (the run RelocationManager_double shows that it does).  Moves and   *)
(* commits may fail and the process may restart.                           *)
(***************************************************************************)
EXTENDS RelocationManager, TLAPS

IInv == TypeOK /\ TaskInv

\* The inductive invariant holds at first.
LEMMA Start == Init => IInv
<1> SUFFICES ASSUME Init PROVE IInv
  OBVIOUS
<1> USE RelocationAssumption DEF Init
<1>1. TypeOK
  BY DEF TypeOK, Places, Statuses
<1>2. TaskInv
  BY DEF TaskInv, Noted, Queued, Running, Asking, Unfinished, Known
<1>3. QED
  BY <1>1, <1>2 DEF IInv

\* The file and the target of the worker's task are what they should be.
LEMMA WorkerTask ==
  ASSUME IInv, wpc # "idle"
  PROVE  /\ work \in Work /\ work.task \in TaskIds /\ tasks[work.task] \in Task
         /\ TaskFile \in Files /\ TaskTarget \in Locs /\ work.task \in Unfinished
         /\ intact => byFile[TaskFile] = work.task
<1>1. work \in Work /\ work.task \in Known /\ tasks[work.task].status = "running"
  BY DEF IInv, TypeOK, TaskInv, Running
<1>2. work.task \in TaskIds /\ tasks[work.task] \in Task
  BY <1>1 DEF IInv, TypeOK, Known, Work
<1>3. TaskFile \in Files /\ TaskTarget \in Locs
  BY <1>2 DEF Task, TaskFile, TaskTarget
<1>4. work.task \in Unfinished
  BY <1>1 DEF Unfinished
<1>5. intact => byFile[TaskFile] = work.task
  BY <1>4 DEF IInv, TaskInv, Noted, TaskFile
<1>6. QED
  BY <1>1, <1>2, <1>3, <1>4, <1>5

\* What a handler has read is what it should be.
LEMMA HandlerAsked ==
  ASSUME IInv, NEW h \in Handlers, hpc[h] # "idle"
  PROVE  asked[h] \in Asked /\ asked[h].file \in Files /\ asked[h].to \in Locs
  BY DEF IInv, TypeOK, TaskInv, Asking, Asked

\* Setting a status keeps the type of the rows.
LEMMA StatusType ==
  ASSUME TypeOK, NEW f \in Files, NEW s \in Statuses, SetStatus(f, s)
  PROVE  row' \in [Files -> [loc: Places, status: Statuses]]
<1>1. [row[f] EXCEPT !.status = s] \in [loc: Places, status: Statuses]
  BY DEF TypeOK
<1>2. QED
  BY <1>1 DEF TypeOK, SetStatus

\* Only these actions touch tasks, queue or work; each keeps types.
LEMMA TypeStep == ASSUME IInv, [Next]_vars PROVE TypeOK'
<1> USE RelocationAssumption DEF TypeOK, memory, worker, handlers, Places, Statuses
<1>0. TypeOK
  BY DEF IInv
<1>1. ASSUME NEW h \in Handlers, NEW f \in Files, NEW to \in Locs, RelocateFile(h, f, to)
      PROVE  TypeOK'
  <2>1. row[f].status \in Statuses
    BY <1>0
  <2>2. [file |-> f, to |-> to, seen |-> row[f].status] \in Asked
    BY <2>1 DEF Asked
  <2>3. QED
    BY <1>0, <1>1, <2>2 DEF RelocateFile, Handler
<1>2. ASSUME NEW h \in Handlers, MarkMigrating(h) PROVE TypeOK'
  <2>1. asked[h] \in Asked /\ asked[h].file \in Files
    BY <1>2, HandlerAsked DEF MarkMigrating
  <2>2. row' \in [Files -> [loc: Places, status: Statuses]]
    BY <1>0, <1>2, <2>1, StatusType DEF MarkMigrating
  <2>3. row'[asked[h].file].status \in Statuses
    BY <2>1, <2>2
  <2>4. [asked[h] EXCEPT !.seen = row'[asked[h].file].status] \in Asked
    BY <2>1, <2>3 DEF Asked
  <2>5. asked' \in [Handlers -> Asked \cup {None}]
    BY <1>0, <1>2, <2>4 DEF MarkMigrating
  <2>6. QED
    BY <1>0, <1>2, <2>2, <2>5 DEF MarkMigrating, Handler
<1>3. ASSUME NEW h \in Handlers, NEW t \in TaskIds, CreateTask(h, t) PROVE TypeOK'
  <2>1. asked[h] \in Asked /\ asked[h].file \in Files /\ asked[h].to \in Locs
    BY <1>3, HandlerAsked DEF CreateTask
  <2>2. [file |-> asked[h].file, to |-> asked[h].to, status |-> "pending"] \in Task
    BY <2>1 DEF Task, TaskStatuses
  <2>3. Append(queue, t) \in Seq(TaskIds)
    BY <1>0
  <2>4. tasks' \in [TaskIds -> Task \cup {None}] /\ byFile' \in [Files -> TaskIds \cup {None}]
    BY <1>0, <1>3, <2>1, <2>2 DEF CreateTask
  <2>5. QED
    BY <1>0, <1>3, <2>3, <2>4 DEF CreateTask, Handler
<1>4. ASSUME NEW h \in Handlers, RefuseTask(h) PROVE TypeOK'
  BY <1>0, <1>4 DEF RefuseTask, Handler
<1>5. ASSUME NEW h \in Handlers, AnswerConflict(h) PROVE TypeOK'
  <2>1. asked[h].file \in Files
    BY <1>5, HandlerAsked DEF AnswerConflict
  <2>2. row' \in [Files -> [loc: Places, status: Statuses]]
    BY <1>0, <1>5, <2>1, StatusType DEF AnswerConflict
  <2>3. QED
    BY <1>0, <1>5, <2>2 DEF AnswerConflict, Handler
<1>6. CASE TakeTask
  <2>1. Head(queue) \in TaskIds /\ Tail(queue) \in Seq(TaskIds)
    BY <1>0, <1>6 DEF TakeTask
  <2>2. ASSUME Head(queue) \in Known
        PROVE  [tasks[Head(queue)] EXCEPT !.status = "running"] \in Task
    BY <1>0, <2>1, <2>2 DEF Known, Task, TaskStatuses
  <2>3. [task |-> Head(queue), from |-> None] \in Work
    BY <2>1 DEF Work
  <2>4. QED
    BY <1>0, <1>6, <2>1, <2>2, <2>3 DEF TakeTask
<1>7. CASE EnsureMigrating
  <2>1. work \in Work /\ TaskFile \in Files
    BY <1>7, WorkerTask DEF EnsureMigrating
  <2>2. [work EXCEPT !.from = row[TaskFile].loc] \in Work
    BY <1>0, <2>1 DEF Work
  <2>3. row' \in [Files -> [loc: Places, status: Statuses]]
    BY <1>0, <1>7, <2>1, StatusType DEF EnsureMigrating
  <2>4. QED
    BY <1>0, <1>7, <2>2, <2>3 DEF EnsureMigrating
<1>8. CASE Locate
  <2>1. work \in Work
    BY <1>8, WorkerTask DEF Locate
  <2>2. ASSUME NEW l \in Locs PROVE [work EXCEPT !.from = l] \in Work
    BY <2>1 DEF Work
  <2>3. QED
    BY <1>0, <1>8, <2>2 DEF Locate, Worker
<1>9. CASE Move
  <2>1. TaskFile \in Files /\ TaskTarget \in Locs
    BY <1>9, WorkerTask DEF Move
  <2>2. QED
    BY <1>0, <1>9, <2>1 DEF Move, Worker
<1>10. CASE MoveFails
  <2>1. TaskFile \in Files /\ TaskTarget \in Locs
    BY <1>10, WorkerTask DEF MoveFails
  <2>2. QED
    BY <1>0, <1>10, <2>1 DEF MoveFails, Worker
<1>11. CASE CommitMove
  <2>1. TaskFile \in Files /\ TaskTarget \in Locs
    BY <1>11, WorkerTask DEF CommitMove
  <2>2. QED
    BY <1>0, <1>11, <2>1 DEF CommitMove, Worker
<1>12. CASE CommitMoveFails
  BY <1>0, <1>12 DEF CommitMoveFails, Worker
<1>13. ASSUME wpc # "idle", NEW s \in TaskStatuses, Finish(s),
              UNCHANGED <<row, at, queue, handlers, thawing, crashes, intact>>
       PROVE  TypeOK'
  <2>1. work.task \in TaskIds /\ tasks[work.task] \in Task /\ TaskFile \in Files
    BY <1>13, WorkerTask
  <2>2. [tasks[work.task] EXCEPT !.status = s] \in Task
    BY <2>1 DEF Task
  <2>3. QED
    BY <1>0, <1>13, <2>1, <2>2 DEF Finish
<1>14. CASE ResetStatus
  <2>1. TaskFile \in Files
    BY <1>14, WorkerTask DEF ResetStatus
  <2>2. UNCHANGED <<at, memory, handlers, thawing, crashes, intact>> /\ wpc' = "fail" /\ UNCHANGED work
    BY <1>14, Zenon DEF ResetStatus, Worker
  <2>3. row' = row \/ row' = [row EXCEPT ![TaskFile].status = "active"]
    BY <1>14 DEF ResetStatus, SetStatus
  <2>4. intact' \in BOOLEAN
    BY <1>0, <2>2, Zenon DEF TypeOK
  <2>5. QED
    BY <1>0, <2>1, <2>2, <2>3, <2>4 DEF memory, handlers
<1>15. ASSUME NEW old \in SUBSET TaskIds, CleanupOldTasks(old) PROVE TypeOK'
  <2>1. intact' \in BOOLEAN
    BY <1>15, Zenon DEF CleanupOldTasks
  <2>2. QED
    BY <1>0, <1>15, <2>1 DEF CleanupOldTasks
<1>16. ASSUME NEW f \in Files, ThawMove(f) PROVE TypeOK'
  BY <1>0, <1>16 DEF ThawMove
<1>17. ASSUME NEW f \in Files, ThawDone(f) PROVE TypeOK'
  BY <1>0, <1>17 DEF ThawDone
<1>18. ASSUME NEW f \in Files, ScanSyncs(f) PROVE TypeOK'
  BY <1>0, <1>18 DEF ScanSyncs, SetStatus
<1>19. ASSUME NEW f \in Files, NEW l \in Locs, ScanFreezes(f, l) PROVE TypeOK'
  BY <1>0, <1>19 DEF ScanFreezes
<1>20. CASE Crash
  BY <1>0, <1>20 DEF Crash
<1>21. CASE UNCHANGED vars
  BY <1>0, <1>21 DEF vars
<1>22. QED
  <2>1. CASE CompleteTask
    BY <2>1, <1>13 DEF CompleteTask, TaskStatuses
  <2>2. CASE FailTask
    BY <2>2, <1>13 DEF FailTask, TaskStatuses
  <2>3. QED
    BY <1>1, <1>2, <1>3, <1>4, <1>5, <1>6, <1>7, <1>8, <1>9, <1>10, <1>11, <1>12, <1>14, <1>15,
       <1>16, <1>17, <1>18, <1>19, <1>20, <1>21, <2>1, <2>2
       DEF Next, WorkerStep, Serve

\* Tasks, notes and queue change only when a task is made, taken, ended or
\* cleaned up; here are the steps that change none of them nor the worker.
LEMMA QuietStep ==
  ASSUME TaskInv, UNCHANGED <<memory, worker, intact>>, Asking'
  PROVE  TaskInv'
  BY DEF TaskInv, Noted, Queued, Running, Unfinished, Known, memory, worker

\* The worker's steps between taking a task and ending it.
LEMMA WorkerGoesOn ==
  ASSUME IInv, wpc # "idle", wpc' # "idle", work' \in Work, work'.task = work.task,
         UNCHANGED <<memory, handlers, intact>>
  PROVE  TaskInv'
<1>1. work # None /\ work' # None /\ Running'
  BY NoneAssumption, WorkerTask DEF IInv, TaskInv, Running, Known, memory
<1>2. Noted' /\ Queued' /\ Asking'
  BY DEF IInv, TaskInv, Noted, Queued, Asking, Unfinished, Known, memory, handlers
<1>3. QED
  BY <1>1, <1>2 DEF TaskInv

\* Ending the worker's task keeps the notes of the other tasks.
LEMMA FinishStep ==
  ASSUME IInv, wpc # "idle", NEW s \in {"completed", "failed"}, Finish(s),
         UNCHANGED <<queue, handlers, intact>>
  PROVE  TaskInv'
<1> DEFINE w == work.task
<1>1. w \in TaskIds /\ tasks[w] \in Task /\ TaskFile \in Files /\ (intact => byFile[TaskFile] = w)
      /\ tasks[w].status = "running" /\ w \in Known
  BY WorkerTask DEF IInv, TaskInv, Running
<1>2. tasks' = [tasks EXCEPT ![w] = [tasks[w] EXCEPT !.status = s]]
  BY DEF Finish
<1>3. tasks \in [TaskIds -> Task \cup {None}] /\ byFile \in [Files -> TaskIds \cup {None}]
  BY DEF IInv, TypeOK
<1>4. [tasks[w] EXCEPT !.status = s].status = s /\ [tasks[w] EXCEPT !.status = s] \in Task
  BY <1>1 DEF Task, TaskStatuses
<1>5. Known' = Known
  BY <1>1, <1>2, <1>3, <1>4, NoneAssumption DEF Known
<1>6. Unfinished' = Unfinished \ {w}
  BY <1>1, <1>2, <1>3, <1>4, <1>5 DEF Unfinished, Known
<1>7. Noted'
  <2> SUFFICES ASSUME intact, NEW t \in Unfinished, t # w PROVE byFile'[tasks'[t].file] = t
    BY <1>6 DEF Noted
  <2>1. byFile[tasks[t].file] = t
    BY DEF IInv, TaskInv, Noted
  <2>2. tasks'[t] = tasks[t] /\ tasks[t].file # TaskFile
    BY <1>1, <1>2, <1>3, <2>1 DEF Unfinished, Known
  <2>3. QED
    BY <1>3, <2>1, <2>2, tasks[t].file \in Files DEF Finish, Unfinished, Known, Task
<1>8. Queued'
  BY <1>1, <1>2, <1>3, <1>5 DEF IInv, TaskInv, Queued, Known
<1>9. Running' /\ Asking'
  BY DEF Finish, IInv, TaskInv, Running, Asking, handlers
<1>10. QED
  BY <1>7, <1>8, <1>9 DEF TaskInv

\* create_task refuses a file that has a task, so the new one is its only task.
LEMMA CreateStep ==
  ASSUME IInv, NEW h \in Handlers, NEW t \in TaskIds, CreateTask(h, t)
  PROVE  TaskInv'
<1> DEFINE f == asked[h].file
           new == [file |-> f, to |-> asked[h].to, status |-> "pending"]
<1>1. f \in Files /\ asked[h].to \in Locs /\ t \notin Known /\ ~InProgress(f)
  BY HandlerAsked DEF CreateTask
<1>2. new \in Task /\ new # None
  BY <1>1, NoneAssumption DEF Task, TaskStatuses
<1>3. /\ tasks \in [TaskIds -> Task \cup {None}] /\ byFile \in [Files -> TaskIds \cup {None}]
      /\ queue \in Seq(TaskIds)
  BY DEF IInv, TypeOK
<1>4. tasks' = [tasks EXCEPT ![t] = new] /\ byFile' = [byFile EXCEPT ![f] = t]
      /\ queue' = Append(queue, t)
  BY DEF CreateTask
<1>5. Known' = Known \cup {t}
  BY <1>2, <1>3, <1>4 DEF Known
<1>6. Unfinished' = Unfinished \cup {t}
  BY <1>1, <1>2, <1>3, <1>4, <1>5 DEF Unfinished, Known
<1>7. Noted'
  <2>0. intact' = intact
    BY Zenon DEF CreateTask
  <2> SUFFICES ASSUME intact, NEW s \in Unfinished PROVE byFile'[tasks'[s].file] = s
    BY <1>1, <1>2, <1>3, <1>4, <1>6, <2>0 DEF Noted
  <2>1. byFile[tasks[s].file] = s
    BY DEF IInv, TaskInv, Noted
  <2>2. s \in TaskIds /\ s # t /\ s # None
    BY <1>1, RelocationAssumption DEF Unfinished, Known
  <2>3. tasks'[s] = tasks[s]
    BY <1>3, <1>4, <2>2
  <2>4. tasks[s].file # f
    BY <1>1, <2>1, <2>2 DEF InProgress
  <2>5. QED
    BY <1>3, <1>4, <2>1, <2>3, <2>4
<1>8. Queued'
  <2>1. DOMAIN queue' = DOMAIN queue \cup {Len(queue) + 1} /\ queue'[Len(queue) + 1] = t
        /\ \A i \in DOMAIN queue : i # Len(queue) + 1 /\ queue'[i] = queue[i]
    BY <1>3, <1>4
  <2>2. \A i \in DOMAIN queue : queue[i] \in Known /\ queue[i] # t
                                /\ tasks[queue[i]].status = "pending"
    BY <1>1 DEF IInv, TaskInv, Queued
  <2>3. \A i \in DOMAIN queue : tasks'[queue[i]] = tasks[queue[i]]
    BY <1>3, <1>4, <2>2 DEF Known
  <2>4. tasks'[t].status = "pending"
    BY <1>3, <1>4
  <2>5. \A i \in DOMAIN queue' : queue'[i] \in Known' /\ tasks'[queue'[i]].status = "pending"
    BY <1>5, <2>1, <2>2, <2>3, <2>4
  <2>6. \A i, j \in DOMAIN queue' : queue'[i] = queue'[j] => i = j
    BY <2>1, <2>2 DEF IInv, TaskInv, Queued
  <2>7. QED
    BY <2>5, <2>6 DEF Queued
<1>9. Running'
  <2>1. UNCHANGED <<wpc, work>>
    BY DEF CreateTask, worker
  <2>2. work # None => work.task \in Known /\ work.task # t /\ tasks[work.task].status = "running"
    BY <1>1 DEF IInv, TaskInv, Running
  <2>3. QED
    BY <1>3, <1>4, <1>5, <2>1, <2>2 DEF Running, IInv, TaskInv, Known
<1>10. Asking'
  BY DEF CreateTask, Handler, IInv, TypeOK, TaskInv, Asking
<1>11. QED
  BY <1>7, <1>8, <1>9, <1>10 DEF TaskInv

\* The worker takes the task at the queue's head, which is pending.
LEMMA TakeStep == ASSUME IInv, TakeTask PROVE TaskInv'
<1> DEFINE t == Head(queue)
<1>1. /\ tasks \in [TaskIds -> Task \cup {None}] /\ queue \in Seq(TaskIds) /\ queue # <<>>
      /\ wpc = "idle" /\ work = None
  BY DEF IInv, TypeOK, TakeTask, TaskInv, Running
<1>2. t = queue[1] /\ 1 \in DOMAIN queue /\ t \in TaskIds
  BY <1>1
<1>3. t \in Known /\ tasks[t].status = "pending" /\ tasks[t] \in Task
  BY <1>1, <1>2, NoneAssumption DEF IInv, TaskInv, Queued, Known
<1>4. tasks' = [tasks EXCEPT ![t] = [tasks[t] EXCEPT !.status = "running"]]
      /\ queue' = Tail(queue) /\ work' = [task |-> t, from |-> None] /\ wpc' = "mark"
      /\ UNCHANGED <<byFile, handlers>>
  BY <1>3 DEF TakeTask
<1>5. [tasks[t] EXCEPT !.status = "running"] \in Task
      /\ [tasks[t] EXCEPT !.status = "running"].status = "running"
      /\ [tasks[t] EXCEPT !.status = "running"].file = tasks[t].file
  BY <1>3 DEF Task, TaskStatuses
<1>6. Known' = Known
  BY <1>1, <1>2, <1>3, <1>4, <1>5, NoneAssumption DEF Known
<1>7. Unfinished' = Unfinished
  BY <1>1, <1>2, <1>3, <1>4, <1>5, <1>6 DEF Unfinished, Known
<1>8. Noted'
  <2>1. intact' = intact
    BY Zenon DEF TakeTask
  <2>2. QED
    BY <1>1, <1>2, <1>4, <1>5, <1>7, <2>1 DEF IInv, TaskInv, Noted, Unfinished, Known
<1>9. Queued'
  <2>1. \A i \in DOMAIN queue' : i + 1 \in DOMAIN queue /\ queue'[i] = queue[i + 1] /\ i \in Nat \ {0}
    BY <1>1, <1>4
  <2>2. \A i \in DOMAIN queue' : queue'[i] \in Known /\ queue'[i] # t
                                 /\ tasks[queue'[i]].status = "pending"
    BY <1>2, <2>1 DEF IInv, TaskInv, Queued
  <2>3. \A i \in DOMAIN queue' : tasks'[queue'[i]] = tasks[queue'[i]]
    BY <1>1, <1>4, <2>2 DEF Known
  <2>4. \A i, j \in DOMAIN queue' : queue'[i] = queue'[j] => i = j
    BY <2>1 DEF IInv, TaskInv, Queued
  <2>5. QED
    BY <1>6, <2>2, <2>3, <2>4 DEF Queued
<1>10. Running'
  <2>1. work' \in Work
    BY <1>2, <1>4 DEF Work
  <2>2. QED
    BY <1>1, <1>2, <1>3, <1>4, <1>5, <1>6, <2>1, NoneAssumption DEF Running
<1>11. Asking'
  BY <1>4 DEF handlers, IInv, TaskInv, Asking
<1>12. QED
  BY <1>8, <1>9, <1>10, <1>11 DEF TaskInv

\* The cleanup touches no unfinished task; while the manager stays intact it
\* forgets no note of one.
LEMMA CleanupStep ==
  ASSUME IInv, NEW old \in SUBSET TaskIds, CleanupOldTasks(old)
  PROVE  TaskInv'
<1>1. /\ TypeOK /\ TaskInv /\ old \subseteq Finished
      /\ UNCHANGED <<queue, wpc, work, hpc, asked>>
  BY DEF CleanupOldTasks, IInv, worker, handlers
<1>2. \A t \in TaskIds : t \notin old => tasks'[t] = tasks[t]
  BY DEF CleanupOldTasks
<1>3. \A t \in TaskIds : t \in old => tasks'[t] = None
  BY DEF CleanupOldTasks
<1>4. \A t \in Unfinished : t \notin old /\ tasks'[t] = tasks[t]
  BY <1>1, <1>2 DEF Finished, Unfinished, Known
<1>5. \A t \in TaskIds : t \in Unfinished' => t \in Unfinished /\ tasks'[t] = tasks[t]
  BY <1>2, <1>3 DEF Unfinished, Known
<1>6. Noted'
  <2> SUFFICES ASSUME intact', NEW t \in Unfinished'
               PROVE  byFile'[tasks'[t].file] = t
    BY DEF Noted
  <2>1. t \in Unfinished /\ tasks'[t] = tasks[t] /\ t \in TaskIds
    BY <1>5 DEF Unfinished, Known
  <2>2. tasks[t].file \in Files /\ t # None
    BY <1>1, <2>1, RelocationAssumption DEF TypeOK, Task, Unfinished, Known
  <2>3. intact
    BY Zenon DEF CleanupOldTasks
  <2>4. byFile[tasks[t].file] = t
    BY <1>1, <2>1, <2>3 DEF TaskInv, Noted
  <2>5. InProgress(tasks[t].file)
    BY <2>1, <2>2, <2>4 DEF InProgress
  <2>6. byFile'[tasks[t].file] # None
    BY <2>2, <2>5, Zenon DEF CleanupOldTasks
  <2>7. QED
    BY <2>1, <2>2, <2>4, <2>6 DEF CleanupOldTasks
<1>7. Queued'
  <2>1. \A i \in DOMAIN queue : queue[i] \in Known /\ tasks[queue[i]].status = "pending"
    BY <1>1 DEF TaskInv, Queued
  <2>2. \A i \in DOMAIN queue : queue[i] \in Unfinished
    BY <2>1 DEF Unfinished
  <2>3. \A i \in DOMAIN queue : queue[i] \in Known'
    BY <1>1, <1>4, <2>1, <2>2 DEF Known
  <2>4. QED
    BY <1>1, <1>4, <2>1, <2>2, <2>3 DEF TaskInv, Queued
<1>8. Running'
  <2>1. CASE work = None
    BY <1>1, <2>1 DEF TaskInv, Running
  <2>2. CASE work # None
    <3>1. work.task \in Known /\ tasks[work.task].status = "running"
      BY <1>1, <2>2 DEF TaskInv, Running
    <3>2. work.task \in Unfinished
      BY <3>1 DEF Unfinished
    <3>3. tasks'[work.task] = tasks[work.task]
      BY <1>4, <3>2
    <3>4. QED
      BY <1>1, <3>1, <3>3 DEF TaskInv, Running, Known
  <2>3. QED
    BY <2>1, <2>2
<1>9. Asking'
  BY <1>1 DEF TaskInv, Asking
<1>10. QED
  BY <1>6, <1>7, <1>8, <1>9 DEF TaskInv

\* The invariant is inductive.
LEMMA TaskStep == ASSUME IInv, [Next]_vars PROVE TaskInv'
<1> USE DEF memory, worker, handlers
<1>0. TaskInv /\ TypeOK
  BY DEF IInv
<1>a. ASSUME UNCHANGED <<memory, worker, handlers, intact>> PROVE TaskInv'
  BY <1>a, <1>0, QuietStep DEF TaskInv, Asking
<1>1. ASSUME NEW h \in Handlers, NEW f \in Files, NEW to \in Locs, RelocateFile(h, f, to)
      PROVE  TaskInv'
  <2>1. [file |-> f, to |-> to, seen |-> row[f].status] # None
    BY <1>0, NoneAssumption DEF Asked, TypeOK
  <2>2. Asking'
    BY <1>0, <1>1, <2>1 DEF RelocateFile, Handler, TypeOK, TaskInv, Asking
  <2>3. QED
    BY <1>0, <1>1, <2>2, QuietStep DEF RelocateFile
<1>2. ASSUME NEW h \in Handlers, MarkMigrating(h) PROVE TaskInv'
  <2>1. TypeOK'
    BY <1>2, TypeStep DEF Next, Serve
  <2>2. asked[h] \in Asked /\ asked[h].file \in Files
    BY <1>2, HandlerAsked DEF MarkMigrating
  <2>3. row'[asked[h].file].status \in Statuses
    BY <2>1, <2>2 DEF TypeOK
  <2>4. [asked[h] EXCEPT !.seen = row'[asked[h].file].status] \in Asked
    BY <2>2, <2>3 DEF Asked
  <2>5. Asking'
    BY <1>0, <1>2, <2>4, NoneAssumption DEF MarkMigrating, Handler, TypeOK, TaskInv, Asking
  <2>6. QED
    BY <1>0, <1>2, <2>5, QuietStep DEF MarkMigrating
<1>3. ASSUME NEW h \in Handlers, RefuseTask(h) PROVE TaskInv'
  <2>1. Asking'
    BY <1>0, <1>3 DEF RefuseTask, Handler, TypeOK, TaskInv, Asking
  <2>2. QED
    BY <1>0, <1>3, <2>1, QuietStep DEF RefuseTask
<1>4. ASSUME NEW h \in Handlers, AnswerConflict(h) PROVE TaskInv'
  <2>1. Asking'
    BY <1>0, <1>4 DEF AnswerConflict, Handler, TypeOK, TaskInv, Asking
  <2>2. QED
    BY <1>0, <1>4, <2>1, QuietStep DEF AnswerConflict
<1>5. CASE EnsureMigrating
  <2>1. work \in Work /\ TaskFile \in Files
    BY <1>5, WorkerTask DEF EnsureMigrating
  <2>2. row[TaskFile].loc \in Places
    BY <1>0, <2>1 DEF TypeOK
  <2>3. [work EXCEPT !.from = row[TaskFile].loc] \in Work
        /\ [work EXCEPT !.from = row[TaskFile].loc].task = work.task
    BY <2>1, <2>2 DEF Work
  <2>4. work' \in Work /\ work'.task = work.task
    BY <1>5, <2>1, <2>3 DEF EnsureMigrating
  <2>5. QED
    BY <1>5, <2>4, WorkerGoesOn DEF EnsureMigrating
<1>6. CASE Locate
  <2>1. work \in Work
    BY <1>6, WorkerTask DEF Locate
  <2>2. ASSUME NEW l \in Locs
        PROVE  [work EXCEPT !.from = l] \in Work /\ [work EXCEPT !.from = l].task = work.task
    BY <2>1 DEF Work, Places
  <2>3. \/ UNCHANGED work
        \/ \E l \in Locs : work' = [work EXCEPT !.from = l]
    <3> DEFINE place == IF work.from = None THEN row[TaskFile].loc ELSE work.from
    <3>1. IF place \in Locs \cap at[TaskFile]
          THEN wpc' = "move" /\ work' = [work EXCEPT !.from = place]
          ELSE Worker("reset")
      BY <1>6 DEF Locate
    <3> HIDE DEF place
    <3>2. QED
      BY <3>1 DEF Worker
  <2>4. work' \in Work /\ work'.task = work.task
    <3>1. CASE UNCHANGED work
      BY <2>1, <3>1
    <3>2. ASSUME NEW l \in Locs, work' = [work EXCEPT !.from = l]
          PROVE  work' \in Work /\ work'.task = work.task
      BY <2>2, <3>2, Zenon
    <3>3. QED
      BY <2>3, <3>1, <3>2
  <2>5. QED
    BY <1>6, <2>4, WorkerGoesOn DEF Locate, Worker
<1>7. CASE Move \/ MoveFails \/ CommitMove \/ CommitMoveFails \/ ResetStatus
  <2>1. wpc # "idle" /\ wpc' # "idle" /\ UNCHANGED <<work, memory, handlers, intact>>
    BY <1>7 DEF Move, MoveFails, CommitMove, CommitMoveFails, ResetStatus, Worker
  <2>2. work \in Work
    BY <2>1, WorkerTask
  <2>3. QED
    BY <2>1, <2>2, WorkerGoesOn
<1>8. CASE CompleteTask \/ FailTask
  BY <1>8, FinishStep DEF CompleteTask, FailTask
<1>9. ASSUME NEW f \in Files, ThawMove(f) \/ ThawDone(f) \/ ScanSyncs(f)
                               \/ \E l \in Locs : ScanFreezes(f, l)
      PROVE  TaskInv'
  BY <1>9, <1>a DEF ThawMove, ThawDone, ScanSyncs, ScanFreezes
<1>10. CASE Crash
  BY <1>10 DEF Crash, TaskInv, Noted, Queued, Running, Asking, Unfinished, Known
<1>11. CASE UNCHANGED vars
  BY <1>11, <1>a DEF vars
<1>12. QED
  BY <1>1, <1>2, <1>3, <1>4, <1>5, <1>6, <1>7, <1>8, <1>9, <1>10, <1>11, CreateStep, TakeStep,
     CleanupStep
     DEF Next, WorkerStep, Serve

\* The rows, tasks and queue are well typed and agree, and while the manager is
\* intact so do the notes, whatever fails and whenever the process restarts
\* (relocation_manager.py:81-163, 330-358).
THEOREM TaskInvariant == Spec => [](TypeOK /\ TaskInv)
<1>1. IInv /\ [Next]_vars => IInv'
  BY TypeStep, TaskStep DEF IInv
<1>2. QED
  BY Start, <1>1, PTL DEF Spec, IInv

\* create_task never accepts a second task for a file with one pending or
\* running, while the manager is intact (relocation_manager.py:330-336).
THEOREM OneTask == Spec => []IntactOneTaskPerFile
<1>1. TypeOK /\ TaskInv => IntactOneTaskPerFile
  BY DEF TaskInv, Noted, IntactOneTaskPerFile, OneTaskPerFile
<1>2. QED
  BY TaskInvariant, <1>1, PTL
=============================================================================
