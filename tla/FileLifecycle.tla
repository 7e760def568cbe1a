---------------------------- MODULE FileLifecycle ----------------------------
(***************************************************************************)
(* The life of one file of a monitored path between hot and cold storage,  *)
(* as the disk shows it and as the database tracks it: the phases of a     *)
(* scan (app/services/file_workflow_service.py with file_cleanup.py and    *)
(* file_reconciliation.py), the freeze, thaw and pin requests of           *)
(* app/routers/api/files.py (file_freezer.py, file_thawer.py), the user's  *)
(* own edits and crashes of the process.                                   *)
(*                                                                         *)
(* The file has one relative path; it may be present at the hot path and,  *)
(* under the same relative path, in each storage location.  A move is one  *)
(* step here: FileMover has its system calls.  One scan of the path runs   *)
(* at a time: ScanProgress has the guard.  with_for_update locks nothing   *)
(* in SQLite, so a request's steps interleave with a scan's.               *)
(***************************************************************************)
EXTENDS Naturals, FiniteSets

CONSTANTS
    Ops,        \* the operation_type a path may have, of OperationTypes
    Locs,       \* its storage locations
    First,      \* the one that cold_storage_path names
    Data,       \* contents the user saves
    NoFile, Torn, None,
    RowIds,     \* ids of inventory rows (a bound on the rows at one time)
    MaxRecs,    \* bound on the FileRecords of one location
    MaxLate,    \* bound on the rows that a scan spares
    Requests,   \* for each operation_type, the RequestKinds that are made
    Recreates,  \* may the user make a new file at a hot path that is free?
    IOErrors,   \* may a move fail part way?
    MaxCrashes  \* bound on restarts of the process

OperationTypes == {"move", "copy", "symlink"}
RequestKinds   == {"freeze", "thaw", "pin"}

ASSUME LifecycleAssumption ==
    /\ Ops \subseteq OperationTypes
    /\ First \in Locs /\ "hot" \notin Locs /\ None \notin Locs \cup RowIds
    /\ NoFile \notin Data /\ Torn \notin Data /\ NoFile # Torn
    /\ MaxRecs \in Nat \ {0} /\ MaxLate \in Nat /\ MaxCrashes \in Nat
    /\ Requests \in [Ops -> SUBSET RequestKinds]
    /\ Recreates \in BOOLEAN /\ IOErrors \in BOOLEAN

VARIABLES
    op,       \* the operation_type of the path
    disk,     \* the content at the hot path and in each location
    link,     \* the location the hot path's symlink leads to, or None
    rows,     \* file_inventory
    recs,     \* file_records: how many name each location
    pins,     \* pinned_files
    spc,      \* the scan's next step
    scan,     \* what the scan has read and decided
    rpc, req, \* the same for the request being served
    kept,     \* ghost: the contents the user has not given up
    calm,     \* ghost: nobody but the scan has acted since it began
    clash,    \* ghost: the user has saved or deleted in a thaw's way
    crashes

db      == <<rows, recs, pins>>
files   == <<disk, link>>
scanner == <<spc, scan>>
server  == <<rpc, req>>
vars == <<op, disk, link, rows, recs, pins, spc, scan, rpc, req, kept, calm, clash, crashes>>

Paths    == {"hot"} \cup Locs
Contents == Data \cup {NoFile, Torn}
Statuses == {"active", "migrating"}
\* last_seen, against the scan that runs or ran last: since it began, within the
\* minute before it began, or earlier.
Ages == {"since", "lately", "before"}
Row  == [path: Paths, tier: {"hot", "cold"}, status: Statuses, seen: Ages]

ASSUME RowAssumption == None \notin Row

ScanLabels == {"idle", "records", "linkrows", "walkhot", "walkcold", "synchot", "synccold",
               "drop", "thaw", "thawmove", "thawdone", "freeze", "freezemove", "freezedone",
               "reconcile"}
Scan == [pins: SUBSET Paths, hot: BOOLEAN, cold: BOOLEAN, thaw: BOOLEAN, freeze: BOOLEAN,
         row: RowIds \cup {None}, old: Statuses, to: Locs]
RequestLabels == {"idle", "freezemove", "freezedone", "thawmove", "thawrename", "thawunlink", "thawdone"}
Request == [row: RowIds \cup {None}, old: Statuses, to: Locs, pin: BOOLEAN]

TypeOK ==
    /\ op \in Ops
    /\ disk \in [Paths -> Contents]
    /\ link \in Locs \cup {None}
    /\ rows \in [RowIds -> Row \cup {None}]
    /\ recs \in [Locs -> 0..MaxRecs]
    /\ pins \subseteq Paths
    /\ spc \in ScanLabels /\ scan \in Scan
    /\ rpc \in RequestLabels /\ req \in Request
    /\ kept \subseteq Data
    /\ calm \in BOOLEAN /\ clash \in BOOLEAN
    /\ crashes \in 0..MaxCrashes

Idle == [pins |-> {}, hot |-> FALSE, cold |-> FALSE, thaw |-> FALSE, freeze |-> FALSE,
         row |-> None, old |-> "active", to |-> First]
NoRequest == [row |-> None, old |-> "active", to |-> First, pin |-> FALSE]

\* A new file in the monitored tree that no scan has seen.
Init ==
    /\ op \in Ops
    /\ \E d \in Data : /\ disk = [p \in Paths |-> IF p = "hot" THEN d ELSE NoFile]
                       /\ kept = {d}
    /\ link = None
    /\ rows = [r \in RowIds |-> None]
    /\ recs = [l \in Locs |-> 0]
    /\ pins = {} /\ spc = "idle" /\ scan = Idle /\ rpc = "idle" /\ req = NoRequest
    /\ calm = FALSE /\ clash = FALSE /\ crashes = 0

\* Path.exists() of the hot path follows its symlink.
Target    == IF link = None THEN "hot" ELSE link
HotExists == disk[Target] # NoFile
Holds(l)  == disk[l] # NoFile

Live      == {r \in RowIds : rows[r] # None}
RowsAt(p) == {r \in Live : rows[r].path = p}
FreeIds   == {r \in RowIds : rows[r] = None /\ r # scan.row /\ r # req.row}

\* Every update of a row sets last_seen (onupdate=func.now()).
RowOf(p, tier, status) == [path |-> p, tier |-> tier, status |-> status, seen |-> "since"]
SetRow(r, row)         == rows' = [rows EXCEPT ![r] = row]
SetStatus(r, s)        == IF r \in Live
                          THEN SetRow(r, RowOf(rows[r].path, rows[r].tier, s))
                          ELSE UNCHANGED rows

-----------------------------------------------------------------------------
(* FileMover, in one step.                                                 *)

\* A success of move_with_rollback.
Moves(to) ==
    /\ HotExists
    /\ \/ Target = to /\ op # "copy" /\ UNCHANGED disk
       \/ /\ Target # to
          /\ disk' = [disk EXCEPT ![to] = disk[Target],
                                  ![Target] = IF op = "copy" THEN @ ELSE NoFile]
    /\ link' = CASE op = "move" -> None [] op = "symlink" -> to [] op = "copy" -> link

\* A failure: nothing to move, the file copied onto itself, or an error: half
\* a copy stays at the destination, or a link cannot be made nor the file
\* put back.
MoveFails(to) ==
    \/ ~HotExists /\ UNCHANGED files
    \/ op = "copy" /\ Target = to /\ UNCHANGED files
    \/ IOErrors /\ UNCHANGED files
    \/ /\ IOErrors /\ HotExists /\ Target # to
       /\ disk' = [disk EXCEPT ![to] = Torn] /\ UNCHANGED link
    \/ /\ IOErrors /\ HotExists /\ op = "symlink" /\ Target # to
       /\ disk' = [disk EXCEPT ![to] = disk[Target], ![Target] = NoFile]
       /\ link' = None

\* A cold file renamed to the hot path replaces what is there.
MovesBack(l) ==
    /\ disk' = [disk EXCEPT !["hot"] = disk[l], ![l] = NoFile]
    /\ link' = None

\* The symlink is unlinked first, if its target exists.
DropsLink == link' = IF HotExists THEN None ELSE link

\* Counting stops at MaxRecs.
OneMore(n) == IF n < MaxRecs THEN n + 1 ELSE n
\* A bug: the record is taken off without looking whether there is one.
OneLessUnchecked(n) == n - 1

OneLess(n) == IF n > 0 THEN n - 1 ELSE 0

-----------------------------------------------------------------------------
(* The scan.                                                               *)

Go(l) == spc' = l /\ UNCHANGED scan

\* Any row updated since the last scan began may have been within the last minute
\* (the order of the updates is not kept).
ScanBegin ==
    /\ spc = "idle"
    /\ \E late \in SUBSET {r \in Live : rows[r].seen # "before"} :
          /\ Cardinality(late) <= MaxLate
          /\ rows' = [r \in RowIds |->
                       IF r \in Live
                       THEN [rows[r] EXCEPT !.seen = IF r \in late THEN "lately" ELSE "before"]
                       ELSE None]
    /\ spc' = "records" /\ scan' = Idle
    /\ calm' = (rpc = "idle")
    /\ UNCHANGED <<files, recs, pins, server, kept, clash, crashes, op>>

\* cleanup_missing_files and cleanup_duplicates.
Missing(l) ==
    CASE op = "move"    -> ~Holds(l)
      [] op = "copy"    -> ~Holds(l) /\ ~HotExists
      [] op = "symlink" -> ~Holds(l) /\ ~(HotExists /\ link # None)

CleanupRecords ==
    /\ spc = "records"
    /\ recs' = [l \in Locs |-> IF recs[l] = 0 \/ Missing(l) THEN 0 ELSE 1]
    /\ Go("linkrows")
    /\ UNCHANGED <<files, rows, pins, server, kept, calm, clash, crashes, op>>

\* cleanup_symlink_inventory_entries: no row names a symlink.
CleanupLinkRows ==
    /\ spc = "linkrows"
    /\ rows' = [r \in RowIds |-> IF r \in RowsAt("hot") /\ link # None /\ HotExists
                                 THEN None ELSE rows[r]]
    /\ Go("walkhot")
    /\ UNCHANGED <<files, recs, pins, server, kept, calm, clash, crashes, op>>

\* _scan_path loads the pins and walks the hot tree; the criteria say whether
\* the file is active.  A link into the first location is a frozen file.
WalkHot(active) ==
    /\ spc = "walkhot"
    /\ LET frozen == link = First
           chosen == HotExists /\ "hot" \notin pins
       IN  scan' = [scan EXCEPT !.pins = pins,
                                !.hot = (link = None /\ HotExists),
                                !.thaw = (chosen /\ active /\ frozen),
                                !.freeze = (chosen /\ ~active /\ ~frozen)]
    /\ spc' = "walkcold"
    /\ UNCHANGED <<files, db, server, kept, calm, clash, crashes, op>>

\* A bug: a pin that names the cold path is not looked up.
WalkColdHotPinOnly(active) ==
    /\ spc = "walkcold"
    /\ scan' = [scan EXCEPT
          !.cold = Holds(First),
          !.thaw = @ \/ (Holds(First) /\ ~HotExists /\ active /\ "hot" \notin scan.pins)]
    /\ spc' = "synchot"
    /\ UNCHANGED <<files, db, server, kept, calm, clash, crashes, op>>

\* The walk of the first location: what has no hot file may be thawed.
WalkCold(active) ==
    /\ spc = "walkcold"
    /\ scan' = [scan EXCEPT
          !.cold = Holds(First),
          !.thaw = @ \/ (Holds(First) /\ ~HotExists /\ active
                         /\ {"hot", First} \cap scan.pins = {})]
    /\ spc' = "synchot"
    /\ UNCHANGED <<files, db, server, kept, calm, clash, crashes, op>>

\* A bug: a row that is there already is not touched.
SyncSkipsKnown(p, tier, found) ==
    IF ~found \/ RowsAt(p) # {} THEN UNCHANGED rows
    ELSE \E r \in FreeIds : SetRow(r, RowOf(p, tier, "active"))

\* A bug: the row of a file that was found keeps its status.
SyncKeepsStatus(p, tier, found) ==
    IF ~found THEN UNCHANGED rows
    ELSE IF RowsAt(p) # {} THEN \E r \in RowsAt(p) : SetRow(r, RowOf(p, tier, rows[r].status))
    ELSE \E r \in FreeIds : SetRow(r, RowOf(p, tier, "active"))

\* _update_db_entries_batch for one tier, from what the walk found.
Sync(p, tier, found) ==
    IF ~found THEN UNCHANGED rows
    ELSE IF RowsAt(p) # {} THEN \E r \in RowsAt(p) : SetRow(r, RowOf(p, tier, "active"))
    ELSE \E r \in FreeIds : SetRow(r, RowOf(p, tier, "active"))

SyncHot ==
    /\ spc = "synchot"
    /\ Sync("hot", "hot", scan.hot)
    /\ Go("synccold")
    /\ UNCHANGED <<files, recs, pins, server, kept, calm, clash, crashes, op>>

\* A bug: only the hot tier is brought up to date.
SyncColdSkipped ==
    /\ spc = "synccold" /\ Go("drop")
    /\ UNCHANGED <<files, db, server, kept, calm, clash, crashes, op>>

SyncCold ==
    /\ spc = "synccold"
    /\ Sync(First, "cold", scan.cold)
    /\ Go("drop")
    /\ UNCHANGED <<files, recs, pins, server, kept, calm, clash, crashes, op>>

\* A bug: only rows of the hot tier are deleted.
DropUnseenHot ==
    /\ spc = "drop"
    /\ rows' = [r \in RowIds |->
                  IF r \in Live /\ rows[r].tier = "hot" /\ rows[r].status = "active"
                     /\ rows[r].seen = "before"
                  THEN None ELSE rows[r]]
    /\ Go("thaw")
    /\ UNCHANGED <<files, recs, pins, server, kept, calm, clash, crashes, op>>

\* Active rows that the scan has not seen are deleted; for the clock's sake those
\* updated up to a minute before it began are spared.
DropUnseen ==
    /\ spc = "drop"
    /\ rows' = [r \in RowIds |->
                  IF r \in Live /\ rows[r].status = "active" /\ rows[r].seen = "before"
                  THEN None ELSE rows[r]]
    /\ Go("thaw")
    /\ UNCHANGED <<files, recs, pins, server, kept, calm, clash, crashes, op>>

\* _thaw_single_file: the row is looked up by the hot path; without one the
\* thaw goes on untracked.
ThawMark ==
    /\ spc = "thaw" /\ scan.thaw
    /\ \/ /\ RowsAt("hot") = {}
          /\ scan' = [scan EXCEPT !.row = None] /\ UNCHANGED rows
       \/ \E r \in RowsAt("hot") :
             /\ scan' = [scan EXCEPT !.row = r, !.old = rows[r].status]
             /\ SetStatus(r, "migrating")
    /\ spc' = "thawmove"
    /\ UNCHANGED <<files, recs, pins, server, kept, calm, clash, crashes, op>>

NoThaw ==
    /\ spc = "thaw" /\ ~scan.thaw /\ Go("freeze")
    /\ UNCHANGED <<files, db, server, kept, calm, clash, crashes, op>>

ThawMove ==
    /\ spc = "thawmove" /\ Holds(First)
    /\ MovesBack(First)
    /\ Go("thawdone")
    /\ UNCHANGED <<db, server, kept, calm, clash, crashes, op>>

ThawMoveFails ==
    /\ spc = "thawmove" /\ (~Holds(First) \/ IOErrors)
    /\ DropsLink
    /\ SetStatus(scan.row, scan.old)
    /\ Go("freeze")
    /\ calm' = FALSE
    /\ UNCHANGED <<disk, recs, pins, server, kept, clash, crashes, op>>

\* Only a tracked thaw deletes the file's record and updates its row.
ThawDone ==
    /\ spc = "thawdone"
    /\ IF scan.row \in Live
       THEN /\ SetRow(scan.row, RowOf(rows[scan.row].path, "hot", "active"))
            /\ recs' = [recs EXCEPT ![First] = OneLess(@)]
       ELSE UNCHANGED <<rows, recs>>
    /\ scan' = [scan EXCEPT !.row = None] /\ spc' = "freeze"
    /\ UNCHANGED <<files, pins, server, kept, calm, clash, crashes, op>>

\* _process_single_file: the file must still be there, and have a row.
FreezeMark(to) ==
    /\ spc = "freeze" /\ scan.freeze /\ HotExists
    /\ \E r \in RowsAt("hot") :
          /\ scan' = [scan EXCEPT !.row = r, !.old = rows[r].status, !.to = to]
          /\ SetStatus(r, "migrating")
    /\ spc' = "freezemove"
    /\ UNCHANGED <<files, recs, pins, server, kept, calm, clash, crashes, op>>

NoFreeze ==
    /\ spc = "freeze" /\ (~scan.freeze \/ ~HotExists \/ RowsAt("hot") = {})
    /\ Go("reconcile")
    /\ UNCHANGED <<files, db, server, kept, calm, clash, crashes, op>>

FreezeMove ==
    /\ spc = "freezemove"
    /\ Moves(scan.to)
    /\ Go("freezedone")
    /\ UNCHANGED <<db, server, kept, calm, clash, crashes, op>>

FreezeMoveFails ==
    /\ spc = "freezemove"
    /\ MoveFails(scan.to)
    /\ SetStatus(scan.row, scan.old)
    /\ Go("reconcile")
    /\ calm' = FALSE
    /\ UNCHANGED <<recs, pins, server, kept, clash, crashes, op>>

\* _record_file_in_db takes over a record of the file if there is one.
Recorded(to) ==
    \/ /\ \A l \in Locs : recs[l] = 0
       /\ recs' = [recs EXCEPT ![to] = 1]
    \/ \E l \in Locs : recs[l] > 0 /\
          recs' = IF l = to THEN recs ELSE [recs EXCEPT ![l] = @ - 1, ![to] = OneMore(@)]

FreezeDone ==
    /\ spc = "freezedone"
    /\ Recorded(scan.to)
    /\ IF scan.row \in Live
       THEN SetRow(scan.row, IF op = "copy"
                             THEN RowOf(rows[scan.row].path, rows[scan.row].tier, "active")
                             ELSE RowOf(scan.to, "cold", "active"))
       ELSE UNCHANGED rows
    /\ scan' = [scan EXCEPT !.row = None] /\ spc' = "reconcile"
    /\ UNCHANGED <<files, pins, server, kept, calm, clash, crashes, op>>

\* reconcile_missing_symlinks.  A row whose path is not under the first
\* location raises, and ends it before the rows that come after.
Reconcile ==
    LET cold     == {r \in Live : rows[r].tier = "cold" /\ rows[r].status = "active"}
        restores == /\ op = "symlink" /\ cold \cap RowsAt(First) # {}
                    /\ link = None /\ ~HotExists /\ Holds(First)
        raises   == cold \ RowsAt(First) # {}
    IN  /\ spc = "reconcile"
        /\ \/ restores /\ link' = First
           \/ (~restores \/ raises) /\ UNCHANGED link
        /\ spc' = "idle" /\ scan' = Idle
        /\ UNCHANGED <<disk, db, server, kept, calm, clash, crashes, op>>

-----------------------------------------------------------------------------
(* Requests.                                                               *)

Serve(l) == rpc' = l /\ UNCHANGED req
\* The ids bound the requests: those left must do for the rows that scans add.
Room     == Cardinality(FreeIds) >= 2
Return   == rpc' = "idle" /\ req' = NoRequest

\* POST /files/freeze/{id}: the destination must be free.
RequestFreeze(r, to, pin) ==
    /\ "freeze" \in Requests[op] /\ rpc = "idle" /\ Room /\ (pin => "pin" \in Requests[op])
    /\ r \in RowsAt("hot") /\ rows[r].tier = "hot"
    /\ HotExists \/ link # None
    /\ ~Holds(to)
    /\ req' = [row |-> r, old |-> rows[r].status, to |-> to, pin |-> pin]
    /\ rpc' = "freezemove"
    /\ SetStatus(r, "migrating")
    /\ calm' = FALSE
    /\ UNCHANGED <<files, recs, pins, scanner, kept, clash, crashes, op>>

RequestFreezeMove ==
    /\ rpc = "freezemove"
    /\ \/ Moves(req.to) /\ Serve("freezedone") /\ UNCHANGED rows
       \/ MoveFails(req.to) /\ Return /\ SetStatus(req.row, req.old)
    /\ calm' = FALSE
    /\ UNCHANGED <<recs, pins, scanner, kept, clash, crashes, op>>

\* One commit: the record, the row and the pin of the cold path.  The row of a
\* symlinked file keeps the hot path.
RequestFreezeDone ==
    /\ rpc = "freezedone"
    /\ IF req.row \in Live
       THEN /\ recs' = [recs EXCEPT ![req.to] = OneMore(@)]
            /\ SetRow(req.row, RowOf(IF op = "symlink" THEN rows[req.row].path ELSE req.to,
                                     "cold", "active"))
            /\ pins' = IF req.pin THEN pins \cup {req.to} ELSE pins
       ELSE UNCHANGED db
    /\ Return
    /\ calm' = FALSE
    /\ UNCHANGED <<files, scanner, kept, clash, crashes, op>>

\* POST /files/thaw/{id}: needs a record of the row's path.  No status is set.
RequestThaw(r, pin) ==
    /\ "thaw" \in Requests[op] /\ rpc = "idle" /\ Room /\ (pin => "pin" \in Requests[op])
    /\ r \in Live /\ rows[r].tier = "cold" /\ rows[r].path \in Locs
    /\ recs[rows[r].path] > 0 /\ Holds(rows[r].path)
    /\ req' = [row |-> r, old |-> rows[r].status, to |-> rows[r].path, pin |-> pin]
    /\ rpc' = "thawmove"
    /\ calm' = FALSE
    /\ UNCHANGED <<files, db, scanner, kept, clash, crashes, op>>

\* A bug: nobody looks whether a copy's original is there.
RequestThawLookBlind ==
    /\ rpc = "thawmove"
    /\ Serve("thawrename")
    /\ calm' = FALSE
    /\ UNCHANGED <<files, db, scanner, kept, clash, crashes, op>>

\* Only for a copy it is looked whether the hot path is free.
RequestThawLook ==
    /\ rpc = "thawmove"
    /\ Serve(IF op = "copy" /\ HotExists THEN "thawunlink" ELSE "thawrename")
    /\ calm' = FALSE
    /\ UNCHANGED <<files, db, scanner, kept, clash, crashes, op>>

RequestThawMove ==
    /\ rpc = "thawrename"
    /\ \/ Holds(req.to) /\ MovesBack(req.to) /\ Serve("thawdone")
       \/ /\ ~Holds(req.to) \/ IOErrors
          /\ UNCHANGED disk /\ (IF op = "symlink" THEN DropsLink ELSE UNCHANGED link)
          /\ Return
    /\ calm' = FALSE
    /\ UNCHANGED <<db, scanner, kept, clash, crashes, op>>

\* A copy whose original was there is only deleted; then the original, if there is
\* one, must have the copy's checksum.
RequestThawUnlink ==
    /\ rpc = "thawunlink"
    /\ \/ /\ Holds(req.to)
          /\ disk' = [disk EXCEPT ![req.to] = NoFile]
          /\ IF disk[Target] \in {disk[req.to], NoFile} THEN Serve("thawdone") ELSE Return
       \/ (~Holds(req.to) \/ IOErrors) /\ UNCHANGED disk /\ Return
    /\ calm' = FALSE
    /\ UNCHANGED <<link, db, scanner, kept, clash, crashes, op>>

RequestThawDone ==
    /\ rpc = "thawdone"
    /\ recs' = [recs EXCEPT ![req.to] = OneLess(@)]
    /\ pins' = IF req.pin THEN pins \cup {"hot"} ELSE pins
    /\ IF req.row \in Live THEN SetRow(req.row, RowOf("hot", "hot", "active")) ELSE UNCHANGED rows
    /\ Return
    /\ calm' = FALSE
    /\ UNCHANGED <<files, scanner, kept, clash, crashes, op>>

\* POST and DELETE /files/{id}/pin pin the path of the row.
TogglePin(r) ==
    /\ "pin" \in Requests[op] /\ r \in Live
    /\ pins' = IF rows[r].path \in pins THEN pins \ {rows[r].path} ELSE pins \cup {rows[r].path}
    /\ UNCHANGED <<files, rows, recs, scanner, server, kept, calm, clash, crashes, op>>

-----------------------------------------------------------------------------
(* The user and the process.                                               *)

\* A copy is to be thawed to a hot path that was free when it was looked at.
ThawAhead ==
    \/ spc \in {"synchot", "synccold", "drop", "thaw", "thawmove"} /\ scan.thaw
    \/ rpc = "thawrename"

\* An application saves through the hot path.  It is in the way of a thaw when the
\* path is free and a file of that name is in cold storage, or when a copy is
\* about to be thawed.
Save(d) ==
    /\ \A p \in Paths : disk[p] # d
    /\ Recreates \/ HotExists
    /\ disk' = [disk EXCEPT ![Target] = d]
    /\ kept' = (kept \ {disk[Target]}) \cup {d}
    /\ clash' = (\/ clash
                 \/ ~HotExists /\ \E l \in Locs : Holds(l)
                 \/ op = "copy" /\ ThawAhead)
    /\ calm' = FALSE
    /\ UNCHANGED <<link, db, scanner, server, crashes, op>>

\* The user deletes the entry at the hot path; what a location holds too is not
\* given up.  It is in the way of a thaw that takes the original for granted.
Remove ==
    /\ link # None \/ HotExists
    /\ link' = None
    /\ disk' = [disk EXCEPT !["hot"] = NoFile]
    /\ kept' = IF link = None /\ \A l \in Locs : disk[l] # disk["hot"]
               THEN kept \ {disk["hot"]} ELSE kept
    /\ clash' = (clash \/ rpc = "thawunlink")
    /\ calm' = FALSE
    /\ UNCHANGED <<db, scanner, server, crashes, op>>

Crash ==
    /\ crashes < MaxCrashes /\ crashes' = crashes + 1
    /\ spc' = "idle" /\ scan' = Idle /\ rpc' = "idle" /\ req' = NoRequest
    /\ calm' = FALSE
    /\ UNCHANGED <<files, db, kept, clash, op>>

ScanStep ==
    \/ ScanBegin \/ CleanupRecords \/ CleanupLinkRows
    \/ \E active \in BOOLEAN : WalkHot(active) \/ WalkCold(active)
    \/ SyncHot \/ SyncCold \/ DropUnseen
    \/ ThawMark \/ NoThaw \/ ThawMove \/ ThawMoveFails \/ ThawDone
    \/ (\E to \in Locs : FreezeMark(to)) \/ NoFreeze
    \/ FreezeMove \/ FreezeMoveFails \/ FreezeDone \/ Reconcile

RequestStep ==
    \/ \E r \in RowIds, to \in Locs, pin \in BOOLEAN : RequestFreeze(r, to, pin)
    \/ \E r \in RowIds, pin \in BOOLEAN : RequestThaw(r, pin)
    \/ RequestFreezeMove \/ RequestFreezeDone
    \/ RequestThawLook \/ RequestThawMove \/ RequestThawUnlink \/ RequestThawDone
    \/ \E r \in RowIds : TogglePin(r)

User == (\E d \in Data : Save(d)) \/ Remove

Next == ScanStep \/ RequestStep \/ User \/ Crash

Spec == Init /\ [][Next]_vars

\* The scheduler's interval job starts a scan again and again, and a scan that
\* runs goes on; a request that is served goes on.
FairSpec == Spec /\ WF_vars(ScanStep)
                 /\ WF_vars(RequestFreezeMove \/ RequestFreezeDone \/ RequestThawLook \/ RequestThawMove
                            \/ RequestThawUnlink \/ RequestThawDone)
-----------------------------------------------------------------------------
(* Properties.                                                             *)

\* Scans, freeze, thaw and pin requests, edits, deletions and restarts may cross in any
\* order: content the user has not overwritten or deleted is somewhere, unless the user
\* has got in the way of a thaw (clash).  The moves of file_workflow_service.py:549 and
\* 667-694 and of file_thawer.py:95-130 rename over what they find, and what
\* file_thawer.py:117 has looked at may have changed.  Not for moves that fail half way.
KeepsContent == clash \/ \A d \in kept : \E p \in Paths : disk[p] = d

Present(p)  == IF p = "hot" THEN link = None /\ HotExists ELSE Holds(p)
ActiveAt(p) == {r \in RowsAt(p) : rows[r].status = "active"}

\* When a scan nobody disturbed has updated the inventory
\* (_update_file_inventory), each file it walks has exactly one active row and
\* no active row is left of a file that is gone, whatever crashes and races
\* came before: not counting rows updated in the last minute before it began, which
\* are spared (file_workflow_service.py:894-903).
InventorySynced ==
    spc = "thaw" /\ calm =>
        \A p \in {"hot", First} :
            Cardinality({r \in ActiveAt(p) : rows[r].seen # "lately"}) = IF Present(p) THEN 1 ELSE 0

\* An undisturbed scan drops the last row of a path, and the tags and history
\* that hang on it, only when the file is no longer found
\* (file_workflow_service.py:889-908).
DropsOnlyMissing ==
    [][DropUnseen /\ calm =>
          \A p \in Paths : RowsAt(p) # {} /\ Present(p) => \E r \in RowsAt(p) : rows'[r] # None]_vars

\* A scan does not move a file that was pinned before it started and still is
\* (files.py:1371-1377), whether the pin names the hot or the cold path.  Not
\* for symlinks: the walk of the hot tree takes a link into the first location
\* for a frozen file and does not ask whether the cold path is pinned.
PinnedStays ==
    [][op # "symlink" /\ (ThawMove \/ FreezeMove) =>
          \A p \in scan.pins \cap pins : disk[p] # NoFile => disk'[p] # NoFile]_vars

\* After an undisturbed scan every file in cold storage can be reached at its hot
\* path (file_reconciliation.py:20-31), unless a row of the hot path that a request
\* made cold within the minute before the scan is in its way (line 107 raises on it).
LinksRestored ==
    [][/\ Reconcile /\ calm /\ op = "symlink" /\ \E l \in Locs : Holds(l)
       /\ \A r \in Live : rows[r].seen = "lately" => rows[r].tier = "hot" \/ rows[r].path = First
       => link' # None \/ disk["hot"] # NoFile]_vars

\* A file is not left MIGRATING for good, neither by a crash nor by a request that read the
\* status while a scan was at work and put it back (file_freezer.py:114, 191): it has an
\* active row again, or is not where a scan looks for it.
MigratingHeals ==
    \A p \in {"hot", First} :
        (\E r \in RowsAt(p) : rows[r].status = "migrating") ~> ActiveAt(p) # {} \/ ~Present(p)
=============================================================================
