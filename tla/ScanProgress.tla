----------------------------- MODULE ScanProgress -----------------------------
(***************************************************************************)
(* Who may scan a path: app/services/scan_progress.py (the manager that    *)
(* tracks scans and refuses a second one) with its callers, process_path   *)
(* of app/services/file_workflow_service.py, scan_path_job_func of         *)
(* app/services/scheduler.py and POST /paths/{id}/scan of                  *)
(* app/routers/api/paths.py.                                               *)
(*                                                                         *)
(* A job is a thread that runs process_path: the scheduler's interval job  *)
(* of the path or a request thread.  Every method of the manager holds one *)
(* non-reentrant lock, so each is one step here, except                    *)
(* start_file_operation, which calls start_scan while it holds the lock.   *)
(***************************************************************************)
EXTENDS Naturals, FiniteSets

CONSTANTS
    Jobs,         \* threads that run process_path
    Paths,        \* monitored paths
    None,         \* no scan, no lock holder
    MaxScans,     \* bound on the scans tracked since the process started
    MaxFiles,     \* bound on the files one scan thaws and freezes
    Loads,        \* how many to freeze and to thaw a walk may find
    Workers,      \* threads of the freeze pool (min(3, files) in the code)
    Ageing,       \* may a finished scan become older than _cleanup_interval?
    CommitFails   \* may db.commit() raise?

ASSUME ScanAssumption ==
    /\ None \notin Nat /\ None \notin Jobs
    /\ MaxScans \in Nat /\ MaxFiles \in Nat /\ Workers \in Nat
    /\ Loads \subseteq [freezes: 0..MaxFiles, thaws: 0..MaxFiles]
    /\ \A w \in Loads : w.freezes + w.thaws \in 0..MaxFiles
    /\ Ageing \in BOOLEAN /\ CommitFails \in BOOLEAN

VARIABLES
    byPath,   \* _scans: the scan a path's entry points to
    byId,     \* the keys of _scans_by_id
    scan,     \* the ScanProgress objects, by scan id
    made,     \* number of scan ids given out
    held,     \* the job whose worker holds the lock and waits for it
    pc,       \* where each job is in process_path
    at,       \* the path each job is about
    sid,      \* the scan id start_scan gave it
    todo,     \* files its freeze pool has not started
    busy,     \* files its freeze pool is moving
    intact    \* ghost: no running scan has lost its entry, its thread, or its
              \* status to somebody else

manager == <<byPath, byId, scan, made, held>>
vars == <<byPath, byId, scan, made, held, pc, at, sid, todo, busy, intact>>

ScanIds  == 1..MaxScans
Finished == {"completed", "failed"}
Progress == [path: Paths, status: {"running"} \cup Finished, old: BOOLEAN,
             total: 0..MaxFiles, processed: Nat]
Labels   == {"idle", "start", "pending", "enter", "working", "finishing",
             "commit", "again"}

TypeOK ==
    /\ byPath \in [Paths -> ScanIds \cup {None}]
    /\ byId \subseteq ScanIds
    /\ scan \in [ScanIds -> Progress]
    /\ made \in 0..MaxScans
    /\ held \in Jobs \cup {None}
    /\ pc \in [Jobs -> Labels]
    /\ at \in [Jobs -> Paths]
    /\ sid \in [Jobs -> ScanIds \cup {None}]
    /\ todo \in [Jobs -> 0..MaxFiles]
    /\ busy \in [Jobs -> 0..Workers]
    /\ intact \in BOOLEAN

Init ==
    /\ byPath = [p \in Paths |-> None]
    /\ byId = {}
    /\ \E p \in Paths :
          /\ scan = [s \in ScanIds |-> [path |-> p, status |-> "completed", old |-> FALSE,
                                        total |-> 0, processed |-> 0]]
          /\ at = [j \in Jobs |-> p]
    /\ made = 0 /\ held = None
    /\ pc = [j \in Jobs |-> "idle"]
    /\ sid = [j \in Jobs |-> None]
    /\ todo = [j \in Jobs |-> 0]
    /\ busy = [j \in Jobs |-> 0]
    /\ intact = TRUE

LockFree == held = None
Goto(j, l) == pc' = [pc EXCEPT ![j] = l] /\ UNCHANGED sid
Return(j)  == pc' = [pc EXCEPT ![j] = "idle"] /\ sid' = [sid EXCEPT ![j] = None]

\* is_scan_running
Running(p) == byPath[p] # None /\ scan[byPath[p]].status = "running"

\* finish_scan: whatever scan the path's entry points to is finished.
FinishScan(p, status) ==
    scan' = IF byPath[p] = None THEN scan
            ELSE [scan EXCEPT ![byPath[p]] = [@ EXCEPT !.status = status, !.old = FALSE]]

-----------------------------------------------------------------------------
\* The request handler's check that no scan is running (409 otherwise).
Trigger(j, p) ==
    /\ pc[j] = "idle" /\ LockFree
    /\ ~Running(p)
    /\ at' = [at EXCEPT ![j] = p]
    /\ Goto(j, "start")
    /\ UNCHANGED <<manager, todo, busy, intact>>

\* The interval job calls process_path without asking first.
Fire(j, p) ==
    /\ pc[j] = "idle"
    /\ at' = [at EXCEPT ![j] = p]
    /\ Goto(j, "start")
    /\ UNCHANGED <<manager, todo, busy, intact>>

\* Variant with a bug: start_scan does not look for a running scan.
StartUnchecked(j) ==
    LET s == made + 1 IN
    /\ pc[j] = "start" /\ LockFree /\ made < MaxScans
    /\ made' = s
    /\ scan' = [scan EXCEPT ![s] = [path |-> at[j], status |-> "running", old |-> FALSE,
                                    total |-> 0, processed |-> 0]]
    /\ byPath' = [byPath EXCEPT ![at[j]] = s]
    /\ byId' = byId \cup {s}
    /\ sid' = [sid EXCEPT ![j] = s]
    /\ pc' = [pc EXCEPT ![j] = "pending"]
    /\ UNCHANGED <<held, at, todo, busy, intact>>

\* start_scan when no scan of the path is running: a new entry in both maps.
Start(j) ==
    LET s == made + 1 IN
    /\ pc[j] = "start" /\ LockFree
    /\ ~Running(at[j])
    /\ made < MaxScans
    /\ made' = s
    /\ scan' = [scan EXCEPT ![s] = [path |-> at[j], status |-> "running", old |-> FALSE,
                                    total |-> 0, processed |-> 0]]
    /\ byPath' = [byPath EXCEPT ![at[j]] = s]
    /\ byId' = byId \cup {s}
    /\ sid' = [sid EXCEPT ![j] = s]
    /\ pc' = [pc EXCEPT ![j] = "pending"]
    /\ UNCHANGED <<held, at, todo, busy, intact>>

\* start_scan answers "already running": process_path returns scan_skipped.
Skip(j) ==
    /\ pc[j] = "start" /\ LockFree
    /\ Running(at[j])
    /\ Return(j)
    /\ UNCHANGED <<manager, at, todo, busy, intact>>

\* The scan status PENDING is committed before the try block.
CommitPending(j) ==
    /\ pc[j] = "pending"
    /\ Goto(j, "enter")
    /\ UNCHANGED <<manager, at, todo, busy, intact>>

\* That commit raises: the exception leaves process_path.
CommitPendingFails(j) ==
    /\ pc[j] = "pending" /\ CommitFails
    /\ Return(j)
    /\ intact' = FALSE
    /\ UNCHANGED <<manager, at, todo, busy>>

\* Variant with a bug: the early return leaves the scan "running".
ScanFailedUnfinished(j) ==
    pc[j] = "enter" /\ Return(j) /\ UNCHANGED <<manager, at, todo, busy, intact>>

\* The path is in an error state, or the scan raised: finish_scan("failed").
ScanFailed(j) ==
    /\ pc[j] = "enter" /\ LockFree
    /\ FinishScan(at[j], "failed")
    /\ Goto(j, "commit")
    /\ UNCHANGED <<byPath, byId, made, held, at, todo, busy, intact>>

\* Cleanup and walk are done: update_total_files counts the files to freeze and the
\* files to thaw.  The thaws come first; nobody ever counts them as processed.
Scanned(j, w) ==
    /\ pc[j] = "enter" /\ LockFree
    /\ scan' = IF byPath[at[j]] = None THEN scan
               ELSE [scan EXCEPT ![byPath[at[j]]] = [@ EXCEPT !.total = w.freezes + w.thaws]]
    /\ todo' = [todo EXCEPT ![j] = w.freezes]
    /\ Goto(j, "working")
    /\ UNCHANGED <<byPath, byId, made, held, at, busy, intact>>

\* Variant with a bug: start_file_operation asks is_scan_running under the lock.
StartOperationLocked(j) ==
    /\ pc[j] = "working" /\ LockFree
    /\ todo[j] > 0 /\ busy[j] < Workers
    /\ held' = j
    /\ UNCHANGED <<byPath, byId, scan, made, pc, at, sid, todo, busy, intact>>

\* A pool thread takes a file: start_file_operation, which only appends to the
\* entry's operations.
StartOperation(j) ==
    /\ pc[j] = "working" /\ LockFree
    /\ todo[j] > 0 /\ busy[j] < Workers
    /\ byPath[at[j]] # None
    /\ todo' = [todo EXCEPT ![j] = @ - 1]
    /\ busy' = [busy EXCEPT ![j] = @ + 1]
    /\ UNCHANGED <<manager, pc, at, sid, intact>>

\* The path has no entry: start_file_operation calls start_scan under the
\* lock it already holds, and waits for itself.
StartOperationUntracked(j) ==
    /\ pc[j] = "working" /\ LockFree
    /\ todo[j] > 0 /\ busy[j] < Workers
    /\ byPath[at[j]] = None
    /\ held' = j
    /\ todo' = [todo EXCEPT ![j] = @ - 1]
    /\ busy' = [busy EXCEPT ![j] = @ + 1]
    /\ UNCHANGED <<byPath, byId, scan, made, pc, at, sid, intact>>

OneMore(r) == [r EXCEPT !.processed = @ + 1]

\* Variant with a bug: a file is counted twice.
CompleteOperationCounted(j) ==
    /\ pc[j] = "working" /\ LockFree /\ busy[j] > 0
    /\ busy' = [busy EXCEPT ![j] = @ - 1]
    /\ scan' = IF byPath[at[j]] = None THEN scan
               ELSE [scan EXCEPT ![byPath[at[j]]] = OneMore(OneMore(@))]
    /\ UNCHANGED <<byPath, byId, made, held, pc, at, sid, todo, intact>>

\* complete_file_operation
CompleteOperation(j) ==
    /\ pc[j] = "working" /\ LockFree
    /\ busy[j] > 0
    /\ busy' = [busy EXCEPT ![j] = @ - 1]
    /\ scan' = IF byPath[at[j]] = None THEN scan
               ELSE [scan EXCEPT ![byPath[at[j]]] = OneMore(@)]
    /\ UNCHANGED <<byPath, byId, made, held, pc, at, sid, todo, intact>>

\* The pools are drained and the links reconciled: finish_scan("completed").
Finish(j) ==
    /\ pc[j] = "working" /\ LockFree
    /\ todo[j] = 0 /\ busy[j] = 0
    /\ FinishScan(at[j], "completed")
    /\ Goto(j, "commit")
    /\ UNCHANGED <<byPath, byId, made, held, at, todo, busy, intact>>

\* Variant with a bug: the scan is finished again after the commit.
CommitOutcomeFinishes(j) ==
    /\ pc[j] = "commit" /\ LockFree
    /\ FinishScan(at[j], "completed")
    /\ Return(j)
    /\ UNCHANGED <<byPath, byId, made, held, at, todo, busy, intact>>

\* The scan's outcome is committed and process_path returns.
CommitOutcome(j) ==
    /\ pc[j] = "commit"
    /\ Return(j)
    /\ UNCHANGED <<manager, at, todo, busy, intact>>

\* That commit raises: the outer handler calls finish_scan("failed") again.
CommitOutcomeFails(j) ==
    /\ pc[j] = "commit" /\ CommitFails
    /\ Goto(j, "again")
    /\ UNCHANGED <<manager, at, todo, busy, intact>>

FinishAgain(j) ==
    /\ pc[j] = "again" /\ LockFree
    /\ FinishScan(at[j], "failed")
    /\ Return(j)
    /\ intact' = (intact /\ ~Running(at[j]))
    /\ UNCHANGED <<byPath, byId, made, held, at, todo, busy>>

\* A finished scan gets older than _cleanup_interval.
Age(s) ==
    /\ Ageing
    /\ s \in byId /\ scan[s].status \in Finished /\ ~scan[s].old
    /\ scan' = [scan EXCEPT ![s].old = TRUE]
    /\ UNCHANGED <<byPath, byId, made, held, pc, at, sid, todo, busy, intact>>

\* Variants with a bug: the path's entry is kept; all scans of the path go.
CleanupOldScansKeepsEntry ==
    LET gone == {s \in byId : scan[s].status \in Finished /\ scan[s].old} IN
    /\ LockFree /\ gone # {}
    /\ byId' = byId \ gone
    /\ UNCHANGED <<byPath, scan, made, held, pc, at, sid, todo, busy, intact>>

CleanupOldScansByPath ==
    LET stale == {scan[s].path : s \in {r \in byId : scan[r].status \in Finished /\ scan[r].old}} IN
    /\ LockFree /\ stale # {}
    /\ byId' = {s \in byId : scan[s].path \notin stale}
    /\ byPath' = [p \in Paths |-> IF p \in stale THEN None ELSE byPath[p]]
    /\ UNCHANGED <<scan, made, held, pc, at, sid, todo, busy, intact>>

\* _cleanup_old_scans drops every old scan, and the entry of its path.
CleanupOldScans ==
    LET gone == {s \in byId : scan[s].status \in Finished /\ scan[s].old} IN
    /\ LockFree /\ gone # {}
    /\ byId' = byId \ gone
    /\ byPath' = [p \in Paths |-> IF \E s \in gone : scan[s].path = p
                                  THEN None ELSE byPath[p]]
    /\ intact' = (intact /\ \A p \in Paths : Running(p) => byPath'[p] # None)
    /\ UNCHANGED <<scan, made, held, pc, at, sid, todo, busy>>

Step(j) ==
    \/ Start(j) \/ Skip(j) \/ CommitPending(j) \/ CommitPendingFails(j)
    \/ ScanFailed(j) \/ \E w \in Loads : Scanned(j, w)
    \/ StartOperation(j) \/ StartOperationUntracked(j) \/ CompleteOperation(j)
    \/ Finish(j) \/ CommitOutcome(j) \/ CommitOutcomeFails(j) \/ FinishAgain(j)

Next ==
    \/ \E j \in Jobs, p \in Paths : Trigger(j, p) \/ Fire(j, p)
    \/ \E j \in Jobs : Step(j)
    \/ \E s \in ScanIds : Age(s)
    \/ CleanupOldScans

Spec == Init /\ [][Next]_vars

\* A thread that runs a scan goes on: nothing in process_path waits for ever
\* except the manager's lock.
FairSpec == Spec /\ \A j \in Jobs : WF_vars(Step(j))

-----------------------------------------------------------------------------
(* Properties.                                                             *)

\* From start_scan's answer to finish_scan the job is scanning its path.
Scanning(j) == pc[j] \in {"pending", "enter", "working"}

\* No two threads scan the same path (paths.py:550-561 relies on start_scan
\* for this, process_path:66-78 skips on it).
OneScanPerPath ==
    \A j, k \in Jobs : j # k /\ Scanning(j) /\ Scanning(k) => at[j] # at[k]

\* So it is unless the clean-up of an old scan has dropped the entry of a running
\* one, a failed commit has left a scan without its thread, or a second
\* finish_scan has hit a scan that is not the caller's.
IntactOneScanPerPath == intact => OneScanPerPath

\* While a job scans, the path's entry is its own scan and says "running", so
\* that finish_scan(path) finishes the caller's scan and no other's.
EntryIsOwnScan ==
    intact => \A j \in Jobs : Scanning(j) =>
        byPath[at[j]] = sid[j] /\ scan[sid[j]].status = "running"

\* The UI never shows more files processed than the scan has to process.
ProcessedWithinTotal ==
    intact => \A s \in byId : scan[s].processed <= scan[s].total

\* A path's entry is never an older scan than the last one started for it, and
\* the scan it points to can also be found by its id.
EntryIsNewest ==
    \A p \in Paths : byPath[p] # None =>
        /\ byPath[p] \in byId
        /\ \A s \in byId : scan[s].path = p => s <= byPath[p]

\* The clean-up forgets no scan that is still running.
RunningScanIsKept ==
    [][\A s \in byId : scan[s].status = "running" => s \in byId']_vars

\* process_path reports scan_skipped only while another thread is scanning.
SkipsOnlyForAScan ==
    [][intact => \A j \in Jobs : Skip(j) => \E k \in Jobs \ {j} : Scanning(k) /\ at[k] = at[j]]_vars

\* Every scan that starts comes to an end.
ScanEnds == \A j \in Jobs : Scanning(j) ~> pc[j] = "idle" \/ ~intact

-----------------------------------------------------------------------------
(* The strengthening under which the guard is inductive, while the manager   *)
(* is intact.                                                                *)

OwnScan(j) ==
    /\ sid[j] \in ScanIds
    /\ byPath[at[j]] = sid[j]
    /\ scan[sid[j]].status = "running"

EntriesMatch ==
    \A p \in Paths : byPath[p] # None => byPath[p] <= made /\ scan[byPath[p]].path = p

Counted(j) ==
    /\ pc[j] \in {"pending", "enter"} => scan[sid[j]].processed = 0
    /\ pc[j] = "working" => scan[sid[j]].processed + todo[j] + busy[j] <= scan[sid[j]].total

Guarded ==
    /\ EntriesMatch
    /\ \A j \in Jobs : pc[j] # "working" => busy[j] = 0
    /\ \A j \in Jobs : Scanning(j) => OwnScan(j) /\ Counted(j)
    /\ OneScanPerPath
    /\ \A s \in ScanIds : scan[s].processed <= scan[s].total

GuardInv == TypeOK /\ (intact => Guarded)
=============================================================================
