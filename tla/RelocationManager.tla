-------------------------- MODULE RelocationManager --------------------------
(***************************************************************************)
(* Background relocation of cold files between storage locations: the      *)
(* request handlers of POST /files/relocate (app/routers/api/files.py),    *)
(* the task table, queue and worker of                                     *)
(* app/services/relocation_manager.py, its hourly cleanup, a thaw of the   *)
(* same file meanwhile (file_thawer.py), and restarts.                     *)
(*                                                                         *)
(* Each file has a relative path of its own.  A move is one step here:     *)
(* FileMover has its system calls.                                         *)
(***************************************************************************)
EXTENDS Naturals, Sequences, FiniteSets

CONSTANTS
    Files,      \* rows of file_inventory, by id
    Locs,       \* the storage locations of their path
    First,      \* where the files are at first
    TaskIds,    \* uuids: a bound on the tasks remembered at one time
    Handlers,   \* request threads
    None,
    Scans,      \* do scans of the path go on meanwhile?
    IOErrors,   \* may a move fail?
    CommitFails,\* may the commit after a move fail?
    MaxCrashes

ASSUME RelocationAssumption ==
    /\ First \in Locs /\ "hot" \notin Locs
    /\ None \notin Files \cup Locs \cup TaskIds
    /\ MaxCrashes \in Nat
    /\ {Scans, IOErrors, CommitFails} \subseteq BOOLEAN

VARIABLES
    row,        \* file_inventory: the place the row names and its status
    at,         \* the places that hold the file
    tasks,      \* _tasks
    byFile,     \* _tasks_by_inventory
    queue,      \* _task_queue
    wpc, work,  \* the worker's next step, and its task, from and to
    hpc, asked, \* a handler's next step, and what it has read
    thawing,    \* the place a thaw has moved the file from, or None
    crashes,
    intact      \* ghost: the cleanup has forgotten no file with an unfinished task

memory   == <<tasks, byFile, queue>>
worker   == <<wpc, work>>
handlers == <<hpc, asked>>
vars == <<row, at, tasks, byFile, queue, wpc, work, hpc, asked, thawing, crashes, intact>>

Places   == {"hot"} \cup Locs
Statuses == {"active", "migrating"}
TaskStatuses == {"pending", "running", "completed", "failed"}
Task == [file: Files, to: Locs, status: TaskStatuses]
Asked == [file: Files, to: Locs, seen: Statuses]
Work  == [task: TaskIds, from: Places \cup {None}]

ASSUME NoneAssumption == None \notin Task \cup Asked \cup Work

TypeOK ==
    /\ row \in [Files -> [loc: Places, status: Statuses]]
    /\ at \in [Files -> SUBSET Places]
    /\ tasks \in [TaskIds -> Task \cup {None}]
    /\ byFile \in [Files -> TaskIds \cup {None}]
    /\ queue \in Seq(TaskIds)
    /\ wpc \in {"idle", "mark", "locate", "move", "commit", "done", "reset", "fail"}
    /\ work \in Work \cup {None}
    /\ hpc \in [Handlers -> {"idle", "mark", "create", "conflict"}]
    /\ asked \in [Handlers -> Asked \cup {None}]
    /\ thawing \in [Files -> Locs \cup {None}]
    /\ crashes \in 0..MaxCrashes /\ intact \in BOOLEAN

Init ==
    /\ row = [f \in Files |-> [loc |-> First, status |-> "active"]]
    /\ at = [f \in Files |-> {First}]
    /\ tasks = [t \in TaskIds |-> None]
    /\ byFile = [f \in Files |-> None]
    /\ queue = <<>>
    /\ wpc = "idle" /\ work = None
    /\ hpc = [h \in Handlers |-> "idle"] /\ asked = [h \in Handlers |-> None]
    /\ thawing = [f \in Files |-> None]
    /\ crashes = 0 /\ intact = TRUE

Known       == {t \in TaskIds : tasks[t] # None}
Unfinished  == {t \in Known : tasks[t].status \in {"pending", "running"}}
Finished    == Known \ Unfinished
SetStatus(f, s) == row' = [row EXCEPT ![f].status = s]

-----------------------------------------------------------------------------
(* POST /files/relocate/{inventory_id}.                                    *)

Handler(h, l) == hpc' = [hpc EXCEPT ![h] = l]

\* The row must be cold, its file there, and the target another location.  (The
\* first conjunct bounds the requests by the ids that are left.)
RelocateFile(h, f, to) ==
    /\ Cardinality(TaskIds \ Known) > Cardinality({i \in Handlers : hpc[i] # "idle"})
    /\ hpc[h] = "idle"
    /\ row[f].loc \in Locs \cap at[f] /\ row[f].loc # to
    /\ asked' = [asked EXCEPT ![h] = [file |-> f, to |-> to, seen |-> row[f].status]]
    /\ Handler(h, "mark")
    /\ UNCHANGED <<row, at, memory, worker, thawing, crashes, intact>>

\* The session writes a status only if it is not the one it has read.  After
\* the commit it reads the row again, for create_task's arguments.
MarkMigrating(h) ==
    LET f == asked[h].file
    IN  /\ hpc[h] = "mark"
        /\ IF asked[h].seen = "active" THEN SetStatus(f, "migrating") ELSE UNCHANGED row
        /\ asked' = [asked EXCEPT ![h].seen = row'[f].status]
        /\ Handler(h, "create")
        /\ UNCHANGED <<at, memory, worker, thawing, crashes, intact>>

\* create_task, under the lock.
InProgress(f) == byFile[f] # None /\ byFile[f] \in Unfinished

\* A bug: nobody asks whether the file has a task.
CreateTaskUnchecked(h, t) ==
    LET f == asked[h].file
    IN  /\ hpc[h] = "create" /\ t \notin Known
        /\ tasks' = [tasks EXCEPT ![t] = [file |-> f, to |-> asked[h].to, status |-> "pending"]]
        /\ byFile' = [byFile EXCEPT ![f] = t]
        /\ queue' = Append(queue, t)
        /\ Handler(h, "idle") /\ asked' = [asked EXCEPT ![h] = None]
        /\ UNCHANGED <<row, at, worker, thawing, crashes, intact>>

CreateTask(h, t) ==
    LET f == asked[h].file
    IN  /\ hpc[h] = "create" /\ ~InProgress(f)
        /\ t \notin Known
        /\ tasks' = [tasks EXCEPT ![t] = [file |-> f, to |-> asked[h].to, status |-> "pending"]]
        /\ byFile' = [byFile EXCEPT ![f] = t]
        /\ queue' = Append(queue, t)
        /\ Handler(h, "idle") /\ asked' = [asked EXCEPT ![h] = None]
        /\ UNCHANGED <<row, at, worker, thawing, crashes, intact>>

RefuseTask(h) ==
    /\ hpc[h] = "create" /\ InProgress(asked[h].file)
    /\ Handler(h, "conflict")
    /\ UNCHANGED <<row, at, memory, worker, asked, thawing, crashes, intact>>

\* The answer is 409, and the status goes back to ACTIVE.
AnswerConflict(h) ==
    /\ hpc[h] = "conflict"
    /\ IF asked[h].seen = "migrating" THEN SetStatus(asked[h].file, "active") ELSE UNCHANGED row
    /\ Handler(h, "idle") /\ asked' = [asked EXCEPT ![h] = None]
    /\ UNCHANGED <<at, memory, worker, thawing, crashes, intact>>

-----------------------------------------------------------------------------
(* The worker thread.                                                      *)

TaskFile   == tasks[work.task].file
TaskTarget == tasks[work.task].to
Worker(l)  == wpc' = l /\ UNCHANGED work

TakeTask ==
    /\ wpc = "idle" /\ queue # <<>>
    /\ queue' = Tail(queue)
    /\ IF Head(queue) \in Known
       THEN /\ tasks' = [tasks EXCEPT ![Head(queue)].status = "running"]
            /\ work' = [task |-> Head(queue), from |-> None]
            /\ wpc' = "mark"
       ELSE UNCHANGED <<tasks, worker>>
    /\ UNCHANGED <<row, at, byFile, handlers, thawing, crashes, intact>>

\* A commit expires what the session has read; without one the path read here
\* is the one that counts.
EnsureMigrating ==
    /\ wpc = "mark"
    /\ IF row[TaskFile].status = "migrating"
       THEN work' = [work EXCEPT !.from = row[TaskFile].loc] /\ UNCHANGED row
       ELSE UNCHANGED work /\ SetStatus(TaskFile, "migrating")
    /\ wpc' = "locate"
    /\ UNCHANGED <<at, memory, handlers, thawing, crashes, intact>>

\* The row's path must be in a location of the path, and the file be there.
Locate ==
    LET place == IF work.from = None THEN row[TaskFile].loc ELSE work.from
    IN  /\ wpc = "locate"
        /\ IF place \in Locs \cap at[TaskFile]
           THEN wpc' = "move" /\ work' = [work EXCEPT !.from = place]
           ELSE Worker("reset")
        /\ UNCHANGED <<row, at, memory, handlers, thawing, crashes, intact>>

Move ==
    /\ wpc = "move" /\ work.from \in at[TaskFile]
    /\ at' = [at EXCEPT ![TaskFile] = (@ \ {work.from}) \cup {TaskTarget}]
    /\ Worker("commit")
    /\ UNCHANGED <<row, memory, handlers, thawing, crashes, intact>>

\* The source has gone, or an error: a copy was made and the source could not
\* be unlinked, or nothing was done.
MoveFails ==
    /\ wpc = "move"
    /\ \/ work.from \notin at[TaskFile] /\ UNCHANGED at
       \/ IOErrors /\ UNCHANGED at
       \/ /\ IOErrors /\ work.from \in at[TaskFile]
          /\ at' = [at EXCEPT ![TaskFile] = @ \cup {TaskTarget}]
    /\ Worker("reset")
    /\ UNCHANGED <<row, memory, handlers, thawing, crashes, intact>>

\* A bug: the status is not reset after the move.
CommitMoveKeepsStatus ==
    /\ wpc = "commit"
    /\ row' = [row EXCEPT ![TaskFile].loc = TaskTarget]
    /\ Worker("done")
    /\ UNCHANGED <<at, memory, handlers, thawing, crashes, intact>>

CommitMove ==
    /\ wpc = "commit"
    /\ row' = [row EXCEPT ![TaskFile] = [loc |-> TaskTarget, status |-> "active"]]
    /\ Worker("done")
    /\ UNCHANGED <<at, memory, handlers, thawing, crashes, intact>>

CommitMoveFails ==
    /\ wpc = "commit" /\ CommitFails
    /\ Worker("reset")
    /\ UNCHANGED <<row, at, memory, handlers, thawing, crashes, intact>>

\* _tasks_by_inventory forgets the file, whichever task it names.
Finish(status) ==
    /\ tasks' = [tasks EXCEPT ![work.task].status = status]
    /\ byFile' = [byFile EXCEPT ![TaskFile] = None]
    /\ wpc' = "idle" /\ work' = None

CompleteTask ==
    /\ wpc = "done" /\ Finish("completed")
    /\ UNCHANGED <<row, at, queue, handlers, thawing, crashes, intact>>

\* The reset too fails when the session is unusable after a failed commit.
ResetStatus ==
    /\ wpc = "reset"
    /\ \/ SetStatus(TaskFile, "active")
       \/ CommitFails /\ UNCHANGED row
    /\ Worker("fail")
    /\ UNCHANGED <<at, memory, handlers, thawing, crashes, intact>>

\* A bug: the failure is not noted in the task.
FailTaskSilently ==
    /\ wpc = "fail"
    /\ byFile' = [byFile EXCEPT ![TaskFile] = None] /\ UNCHANGED tasks
    /\ wpc' = "idle" /\ work' = None
    /\ UNCHANGED <<row, at, queue, handlers, thawing, crashes, intact>>

FailTask ==
    /\ wpc = "fail" /\ Finish("failed")
    /\ UNCHANGED <<row, at, queue, handlers, thawing, crashes, intact>>

-----------------------------------------------------------------------------
(* The cleanup thread, a thaw, a restart.                                  *)

\* _cleanup_old_tasks: the tasks that ended more than an hour ago.  It too
\* forgets their files, whichever task is noted for them.
CleanupOldTasks(old) ==
    /\ old # {} /\ old \subseteq Finished
    /\ tasks' = [t \in TaskIds |-> IF t \in old THEN None ELSE tasks[t]]
    /\ byFile' = [f \in Files |-> IF \E t \in old : tasks[t].file = f THEN None ELSE byFile[f]]
    /\ intact' = (intact /\ \A f \in Files : InProgress(f) => byFile'[f] # None)
    /\ UNCHANGED <<row, at, queue, worker, handlers, thawing, crashes>>

\* thaw_file moves the file of any cold row, whatever its status.
ThawMove(f) ==
    /\ thawing[f] = None
    /\ row[f].loc \in Locs \cap at[f]
    /\ at' = [at EXCEPT ![f] = (@ \ {row[f].loc}) \cup {"hot"}]
    /\ thawing' = [thawing EXCEPT ![f] = row[f].loc]
    /\ UNCHANGED <<row, memory, worker, handlers, crashes, intact>>

ThawDone(f) ==
    /\ thawing[f] # None
    /\ row' = [row EXCEPT ![f] = [loc |-> "hot", status |-> "active"]]
    /\ thawing' = [thawing EXCEPT ![f] = None]
    /\ UNCHANGED <<at, memory, worker, handlers, crashes, intact>>

\* A scan of the path freezes a hot file, to any location, and sets the rows of
\* the files it finds in the first location to ACTIVE.  FileLifecycle has the
\* steps of the scan.
ScanFreezes(f, l) ==
    /\ Scans
    /\ row[f].loc = "hot" /\ "hot" \in at[f]
    /\ at' = [at EXCEPT ![f] = (@ \ {"hot"}) \cup {l}]
    /\ row' = [row EXCEPT ![f] = [loc |-> l, status |-> "active"]]
    /\ UNCHANGED <<memory, worker, handlers, thawing, crashes, intact>>

ScanSyncs(f) ==
    /\ Scans
    /\ row[f].loc = First /\ First \in at[f] /\ row[f].status = "migrating"
    /\ SetStatus(f, "active")
    /\ UNCHANGED <<at, memory, worker, handlers, thawing, crashes, intact>>

\* Tasks and queue are kept in memory only.
Crash ==
    /\ crashes < MaxCrashes /\ crashes' = crashes + 1 /\ intact' = TRUE
    /\ tasks' = [t \in TaskIds |-> None] /\ byFile' = [f \in Files |-> None] /\ queue' = <<>>
    /\ wpc' = "idle" /\ work' = None
    /\ hpc' = [h \in Handlers |-> "idle"] /\ asked' = [h \in Handlers |-> None]
    /\ thawing' = [f \in Files |-> None]
    /\ UNCHANGED <<row, at>>

WorkerStep ==
    \/ TakeTask \/ EnsureMigrating \/ Locate \/ Move \/ MoveFails
    \/ CommitMove \/ CommitMoveFails \/ CompleteTask \/ ResetStatus \/ FailTask

Serve(h) ==
    \/ MarkMigrating(h) \/ (\E t \in TaskIds : CreateTask(h, t))
    \/ RefuseTask(h) \/ AnswerConflict(h)

Next ==
    \/ WorkerStep
    \/ \E h \in Handlers : Serve(h) \/ \E f \in Files, to \in Locs : RelocateFile(h, f, to)
    \/ \E old \in SUBSET TaskIds : CleanupOldTasks(old)
    \/ \E f \in Files : ThawMove(f) \/ ThawDone(f) \/ ScanSyncs(f) \/ \E l \in Locs : ScanFreezes(f, l)
    \/ Crash

Spec == Init /\ [][Next]_vars

\* The worker thread and a request that is being served go on.
FairSpec == /\ Spec /\ WF_vars(WorkerStep)
            /\ \A h \in Handlers : WF_vars(Serve(h))
            /\ \A f \in Files : WF_vars(ThawDone(f))
-----------------------------------------------------------------------------
(* Properties.                                                             *)

\* A file has at most one task that is pending or running
\* (relocation_manager.py:330-336).
OneTaskPerFile ==
    \A s, t \in Unfinished : tasks[s].file = tasks[t].file => s = t

\* So it is until the cleanup of an old task forgets a file that has a new one.
IntactOneTaskPerFile == intact => OneTaskPerFile

\* What IntactOneTaskPerFile rests on.  A task that is pending or running is the one
\* noted for its file; the queue names each pending task once and no other; the
\* worker's task is running (relocation_manager.py:87-90, 156-163, 338-358).
Noted   == intact => \A t \in Unfinished : byFile[tasks[t].file] = t
Queued  == /\ \A i \in DOMAIN queue : queue[i] \in Known /\ tasks[queue[i]].status = "pending"
           /\ \A i, j \in DOMAIN queue : queue[i] = queue[j] => i = j
Running == /\ (wpc = "idle") <=> (work = None)
           /\ work # None => work.task \in Known /\ tasks[work.task].status = "running"
Asking  == \A h \in Handlers : hpc[h] # "idle" => asked[h] # None
TaskInv == Noted /\ Queued /\ Running /\ Asking

\* An accepted task ends: it is completed or failed.
EveryTaskEnds == \A t \in TaskIds : t \in Unfinished ~> t \notin Unfinished

\* No file stays MIGRATING for which a task was accepted, unless the process stops
\* or the commit that takes the status back fails.
NotTakenBack == wpc = "fail" /\ row[TaskFile].status = "migrating"
MigratingEnds ==
    \A f \in Files : row[f].status = "migrating" /\ (\E t \in Unfinished : tasks[t].file = f)
                      ~> row[f].status = "active" \/ NotTakenBack \/ crashes > 0
=============================================================================
