-------------------------- MODULE ScanProgressProofs --------------------------
(***************************************************************************)
(* Theorems about ScanProgress: for any number of threads, paths, files    *)
(* and pool workers, start_scan lets one thread at a time scan a path,     *)
(* until the clean-up drops the entry of a running scan, a failed commit   *)
(* leaves a scan without its thread, or a second finish_scan hits a        *)
(* running scan.  The run ScanProgress_overlap shows that this happens.    *)
(* What start_scan skips, it skips for a scan that is under way; and the   *)
(* entry of a path is always its newest scan.                              *)
(***************************************************************************)
EXTENDS ScanProgress, TLAPS

\* Every initial state is well typed.
LEMMA TypeInit == Init => TypeOK
  BY ScanAssumption DEF Init, TypeOK, ScanIds, Labels, Finished, Progress

\* Updating fields of the object a path's entry points to keeps its type.
LEMMA FinishType ==
  ASSUME TypeOK, NEW p \in Paths, NEW status \in Finished, FinishScan(p, status)
  PROVE  scan' \in [ScanIds -> Progress]
<1>1. CASE byPath[p] = None
  BY <1>1 DEF TypeOK, FinishScan
<1>2. CASE byPath[p] # None
  <2>1. byPath[p] \in ScanIds
    BY <1>2 DEF TypeOK
  <2>2. [scan[byPath[p]] EXCEPT !.status = status, !.old = FALSE] \in Progress
    BY <2>1 DEF TypeOK, Progress
  <2>3. QED
    BY <1>2, <2>1, <2>2 DEF TypeOK, FinishScan
<1>3. QED
  BY <1>1, <1>2

\* Counting one more file keeps a progress object well typed.
LEMMA OneMoreType == ASSUME NEW r \in Progress PROVE OneMore(r) \in Progress
<1>1. r.processed + 1 \in Nat
  BY DEF Progress
<1>2. QED
  BY <1>1 DEF Progress, OneMore

\* Type correctness, for every value of the constants.
LEMMA TypeStep == TypeOK /\ [Next]_vars => TypeOK'
<1> SUFFICES ASSUME TypeOK, [Next]_vars PROVE TypeOK'
  OBVIOUS
<1> USE ScanAssumption DEF TypeOK, ScanIds, Labels, Finished, Goto, Return, manager,
        LockFree, Running, Progress
<1>1. ASSUME NEW j \in Jobs, NEW p \in Paths, Trigger(j, p) PROVE TypeOK'
  BY <1>1 DEF Trigger
<1>2. ASSUME NEW j \in Jobs, NEW p \in Paths, Fire(j, p) PROVE TypeOK'
  BY <1>2 DEF Fire
<1>3. ASSUME NEW j \in Jobs, Start(j) PROVE TypeOK'
  BY <1>3 DEF Start
<1>4. ASSUME NEW j \in Jobs, Skip(j) PROVE TypeOK'
  BY <1>4 DEF Skip
<1>5. ASSUME NEW j \in Jobs, CommitPending(j) PROVE TypeOK'
  BY <1>5 DEF CommitPending
<1>6. ASSUME NEW j \in Jobs, CommitPendingFails(j) PROVE TypeOK'
  <2>1. intact' \in BOOLEAN
    BY <1>6, Zenon DEF CommitPendingFails
  <2>2. QED
    BY <1>6, <2>1 DEF CommitPendingFails
<1>7. ASSUME NEW j \in Jobs, ScanFailed(j) PROVE TypeOK'
  <2>1. at[j] \in Paths /\ FinishScan(at[j], "failed")
    BY <1>7 DEF ScanFailed
  <2>2. scan' \in [ScanIds -> Progress]
    BY <2>1, FinishType
  <2>3. QED
    BY <1>7, <2>2 DEF ScanFailed
<1>8. ASSUME NEW j \in Jobs, NEW w \in Loads, Scanned(j, w) PROVE TypeOK'
  <2>1. w.freezes \in 0..MaxFiles /\ w.freezes + w.thaws \in 0..MaxFiles
    OBVIOUS
  <2>2. scan' \in [ScanIds -> Progress]
    <3>1. CASE byPath[at[j]] = None
      BY <1>8, <3>1 DEF Scanned
    <3>2. CASE byPath[at[j]] # None
      <4>1. byPath[at[j]] \in ScanIds /\ scan[byPath[at[j]]] \in Progress
        BY <3>2
      <4>2. [scan[byPath[at[j]]] EXCEPT !.total = w.freezes + w.thaws] \in Progress
        BY <2>1, <4>1
      <4>3. QED
        BY <1>8, <3>2, <4>1, <4>2 DEF Scanned
    <3>3. QED
      BY <3>1, <3>2
  <2>3. QED
    BY <1>8, <2>1, <2>2 DEF Scanned
<1>9. ASSUME NEW j \in Jobs, StartOperation(j) PROVE TypeOK'
  <2>1. todo[j] - 1 \in 0..MaxFiles /\ busy[j] + 1 \in 0..Workers
    BY <1>9 DEF StartOperation
  <2>2. QED
    BY <1>9, <2>1 DEF StartOperation
<1>10. ASSUME NEW j \in Jobs, StartOperationUntracked(j) PROVE TypeOK'
  <2>1. todo[j] - 1 \in 0..MaxFiles /\ busy[j] + 1 \in 0..Workers
    BY <1>10 DEF StartOperationUntracked
  <2>2. QED
    BY <1>10, <2>1 DEF StartOperationUntracked
<1>11. ASSUME NEW j \in Jobs, CompleteOperation(j) PROVE TypeOK'
  <2>1. busy[j] - 1 \in 0..Workers
    BY <1>11 DEF CompleteOperation
  <2>2. scan' \in [ScanIds -> Progress]
    <3>1. CASE byPath[at[j]] = None
      BY <1>11, <3>1 DEF CompleteOperation
    <3>2. CASE byPath[at[j]] # None
      <4>1. byPath[at[j]] \in ScanIds
        BY <3>2
      <4>2. OneMore(scan[byPath[at[j]]]) \in Progress
        BY <4>1, OneMoreType
      <4>3. QED
        BY <1>11, <3>2, <4>1, <4>2 DEF CompleteOperation
    <3>3. QED
      BY <3>1, <3>2
  <2>3. QED
    BY <1>11, <2>1, <2>2 DEF CompleteOperation
<1>12. ASSUME NEW j \in Jobs, Finish(j) PROVE TypeOK'
  <2>1. at[j] \in Paths /\ FinishScan(at[j], "completed")
    BY <1>12 DEF Finish
  <2>2. scan' \in [ScanIds -> Progress]
    BY <2>1, FinishType
  <2>3. QED
    BY <1>12, <2>2 DEF Finish
<1>13. ASSUME NEW j \in Jobs, CommitOutcome(j) PROVE TypeOK'
  BY <1>13 DEF CommitOutcome
<1>14. ASSUME NEW j \in Jobs, CommitOutcomeFails(j) PROVE TypeOK'
  BY <1>14 DEF CommitOutcomeFails
<1>15. ASSUME NEW j \in Jobs, FinishAgain(j) PROVE TypeOK'
  <2>1. at[j] \in Paths /\ FinishScan(at[j], "failed")
    BY <1>15 DEF FinishAgain
  <2>2. scan' \in [ScanIds -> Progress]
    BY <2>1, FinishType
  <2>3. intact' \in BOOLEAN
    BY <1>15, Zenon DEF FinishAgain
  <2>4. QED
    BY <1>15, <2>2, <2>3 DEF FinishAgain
<1>16. ASSUME NEW s \in ScanIds, Age(s) PROVE TypeOK'
  BY <1>16 DEF Age
<1>17. CASE CleanupOldScans
  <2>1. intact' \in BOOLEAN
    BY <1>17, Zenon DEF CleanupOldScans
  <2>2. QED
    BY <1>17, <2>1 DEF CleanupOldScans
<1>18. CASE UNCHANGED vars
  BY <1>18 DEF vars
<1>19. QED
  BY <1>1, <1>2, <1>3, <1>4, <1>5, <1>6, <1>7, <1>8, <1>9, <1>10, <1>11, <1>12, <1>13,
     <1>14, <1>15, <1>16, <1>17, <1>18
  DEF Next, Step
\* finish_scan leaves path and counts of every scan alone.
LEMMA FinishKeeps ==
  ASSUME TypeOK, NEW p \in Paths, NEW status \in Finished, FinishScan(p, status), NEW s \in ScanIds
  PROVE  /\ scan'[s].path = scan[s].path
         /\ scan'[s].processed = scan[s].processed
         /\ scan'[s].total = scan[s].total
<1>1. CASE byPath[p] = None
  BY <1>1 DEF FinishScan
<1>2. CASE byPath[p] # None
  <2>1. byPath[p] \in ScanIds /\ scan[byPath[p]] \in Progress
    BY <1>2 DEF TypeOK
  <2>2. QED
    BY <1>2, <2>1 DEF TypeOK, FinishScan, Progress
<1>3. QED
  BY <1>1, <1>2

-----------------------------------------------------------------------------
\* Two scanning threads have different scans.
LEMMA ScansApart ==
  ASSUME TypeOK, Guarded, NEW j \in Jobs, NEW k \in Jobs, j # k, Scanning(j), Scanning(k)
  PROVE  at[j] # at[k] /\ sid[j] # sid[k]
<1>1. at[j] # at[k]
  BY DEF Guarded, OneScanPerPath
<1>2. scan[sid[j]].path = at[j] /\ scan[sid[k]].path = at[k]
  BY ScanAssumption DEF Guarded, OwnScan, EntriesMatch, TypeOK, ScanIds
<1>3. QED
  BY <1>1, <1>2

\* A step that moves no entry, touches no running scan but the stepping
\* thread's, and keeps that thread's own facts, keeps the invariant.
LEMMA LocalStep ==
  ASSUME TypeOK, Guarded, TypeOK', NEW j \in Jobs,
         UNCHANGED <<byPath, made, at>>,
         \A k \in Jobs \ {j} : UNCHANGED <<pc[k], sid[k], todo[k], busy[k]>>,
         \A s \in ScanIds : scan'[s].path = scan[s].path
                            /\ scan'[s].processed <= scan'[s].total,
         \A k \in Jobs \ {j} : Scanning(k) => scan'[sid[k]] = scan[sid[k]],
         pc'[j] # "working" => busy'[j] = 0,
         Scanning(j)' => Scanning(j) /\ OwnScan(j)' /\ Counted(j)'
  PROVE  Guarded'
<1>1. \A k \in Jobs : Scanning(k)' => Scanning(k)
  BY DEF Scanning
<1>2. OneScanPerPath'
  BY <1>1 DEF Guarded, OneScanPerPath
<1>3. EntriesMatch'
  BY DEF Guarded, EntriesMatch, TypeOK
<1>4. ASSUME NEW k \in Jobs, Scanning(k)' PROVE OwnScan(k)' /\ Counted(k)'
  <2>1. CASE k = j
    BY <2>1, <1>4
  <2>2. CASE k # j
    <3>1. Scanning(k) /\ OwnScan(k) /\ Counted(k)
      BY <1>1, <1>4 DEF Guarded
    <3>2. scan'[sid'[k]] = scan[sid[k]] /\ sid'[k] = sid[k] /\ pc'[k] = pc[k]
      BY <2>2, <3>1
    <3>3. QED
      BY <2>2, <3>1, <3>2 DEF OwnScan, Counted
  <2>3. QED
    BY <2>1, <2>2
<1>5. QED
  BY <1>2, <1>3, <1>4 DEF Guarded

\* Guarded is kept by every step that leaves the manager intact.
LEMMA GuardStep ==
  ASSUME TypeOK, Guarded, TypeOK', intact', [Next]_vars
  PROVE  Guarded'
<1> USE DEF Goto, Return, manager, LockFree
<1>1. ASSUME NEW j \in Jobs, NEW p \in Paths, Trigger(j, p) \/ Fire(j, p) PROVE Guarded'
  <2>1. pc[j] = "idle" /\ pc' = [pc EXCEPT ![j] = "start"] /\ at' = [at EXCEPT ![j] = p]
        /\ UNCHANGED <<byPath, byId, scan, made, sid, todo, busy>>
    BY <1>1 DEF Trigger, Fire
  <2>2. \A k \in Jobs : Scanning(k)' => k # j /\ Scanning(k) /\ at'[k] = at[k]
    BY <2>1 DEF Scanning, TypeOK
  <2>3. OneScanPerPath'
    BY <2>2 DEF Guarded, OneScanPerPath
  <2>4. \A k \in Jobs : Scanning(k)' => OwnScan(k)' /\ Counted(k)'
    BY <2>1, <2>2 DEF Guarded, OwnScan, Counted, TypeOK
  <2>5. QED
    BY <2>1, <2>3, <2>4 DEF Guarded, EntriesMatch, TypeOK
<1>2. ASSUME NEW j \in Jobs, Start(j) PROVE Guarded'
  <2> DEFINE s == made + 1
             new == [path |-> at[j], status |-> "running", old |-> FALSE,
                     total |-> 0, processed |-> 0]
  <2>1. /\ pc[j] = "start" /\ pc' = [pc EXCEPT ![j] = "pending"] /\ made' = s
        /\ scan' = [scan EXCEPT ![s] = new] /\ byPath' = [byPath EXCEPT ![at[j]] = s]
        /\ sid' = [sid EXCEPT ![j] = s] /\ UNCHANGED <<at, todo, busy>>
    BY <1>2 DEF Start
  <2>2. s \in ScanIds /\ s \in Nat /\ s # None /\ made \in Nat
    BY <1>2, ScanAssumption DEF Start, TypeOK, ScanIds
  <2>3. \A k \in Jobs : Scanning(k) => at[k] # at[j]
    BY <1>2, ScanAssumption DEF Start, Running, Guarded, OwnScan, ScanIds
  <2>4. \A k \in Jobs : Scanning(k)' => k = j \/ (k # j /\ Scanning(k) /\ pc'[k] = pc[k])
    BY <2>1 DEF Scanning, TypeOK
  <2>5. OneScanPerPath'
    BY <2>1, <2>3, <2>4 DEF Guarded, OneScanPerPath
  <2>6. \A p \in Paths : byPath[p] # None => byPath[p] \in Nat /\ byPath[p] # s
    BY <2>2, ScanAssumption DEF Guarded, EntriesMatch, TypeOK, ScanIds
  <2>7. EntriesMatch'
    <3> SUFFICES ASSUME NEW p \in Paths, byPath'[p] # None
                 PROVE byPath'[p] <= made' /\ scan'[byPath'[p]].path = p
      BY DEF EntriesMatch
    <3>1. CASE p = at[j]
      BY <3>1, <2>1, <2>2 DEF TypeOK
    <3>2. CASE p # at[j]
      <4>1. byPath'[p] = byPath[p] /\ byPath[p] \in ScanIds
        BY <3>2, <2>1 DEF TypeOK
      <4>2. scan'[byPath[p]] = scan[byPath[p]]
        BY <4>1, <2>1, <2>6 DEF TypeOK
      <4>3. byPath[p] <= made /\ scan[byPath[p]].path = p
        BY <4>1 DEF Guarded, EntriesMatch
      <4>4. QED
        BY <4>1, <4>2, <4>3, <2>1, <2>2 DEF ScanIds
    <3>3. QED
      BY <3>1, <3>2
  <2>8. ASSUME NEW k \in Jobs, Scanning(k)' PROVE OwnScan(k)' /\ Counted(k)'
    <3>1. CASE k = j
      BY <3>1, <2>1, <2>2 DEF OwnScan, Counted, TypeOK
    <3>2. CASE k # j
      <4>1. Scanning(k) /\ OwnScan(k) /\ Counted(k) /\ at[k] # at[j]
        BY <3>2, <2>3, <2>4, <2>8 DEF Guarded
      <4>2. sid'[k] = sid[k] /\ byPath'[at[k]] = byPath[at[k]] /\ pc'[k] = pc[k]
        BY <3>2, <4>1, <2>1 DEF TypeOK
      <4>3. scan'[sid[k]] = scan[sid[k]]
        BY <4>1, <2>1, <2>6, ScanAssumption DEF OwnScan, TypeOK, ScanIds
      <4>4. QED
        BY <4>1, <4>2, <4>3, <2>1 DEF OwnScan, Counted
    <3>3. QED
      BY <3>1, <3>2
  <2>9. \A r \in ScanIds : scan'[r].processed <= scan'[r].total
    BY <2>1, <2>2 DEF Guarded, TypeOK
  <2>10. \A k \in Jobs : (pc'[k] # "working" => busy'[k] = 0)
    BY <2>1 DEF Guarded, TypeOK
  <2>11. QED
    BY <2>5, <2>7, <2>8, <2>9, <2>10 DEF Guarded
<1>3. ASSUME NEW j \in Jobs, Skip(j) PROVE Guarded'
  <2>1. /\ UNCHANGED <<byPath, made, at, scan>>
        /\ \A k \in Jobs \ {j} : UNCHANGED <<pc[k], sid[k], todo[k], busy[k]>>
    BY <1>3 DEF Skip, TypeOK
  <2>2. (pc'[j] # "working" => busy'[j] = 0) /\ (Scanning(j)' => Scanning(j) /\ OwnScan(j)' /\ Counted(j)')
    BY <1>3 DEF Skip, Scanning, Guarded, OwnScan, Counted, TypeOK
  <2>3. QED
    BY <2>1, <2>2, LocalStep DEF Guarded, EntriesMatch, TypeOK
<1>4. ASSUME NEW j \in Jobs, CommitPending(j) PROVE Guarded'
  <2>1. /\ UNCHANGED <<byPath, made, at, scan>>
        /\ \A k \in Jobs \ {j} : UNCHANGED <<pc[k], sid[k], todo[k], busy[k]>>
    BY <1>4 DEF CommitPending, TypeOK
  <2>2. (pc'[j] # "working" => busy'[j] = 0) /\ (Scanning(j)' => Scanning(j) /\ OwnScan(j)' /\ Counted(j)')
    BY <1>4 DEF CommitPending, Scanning, Guarded, OwnScan, Counted, TypeOK
  <2>3. QED
    BY <2>1, <2>2, LocalStep DEF Guarded, EntriesMatch, TypeOK
<1>5. ASSUME NEW j \in Jobs, CommitPendingFails(j) PROVE Guarded'
  <2>1. /\ UNCHANGED <<byPath, made, at, scan>>
        /\ \A k \in Jobs \ {j} : UNCHANGED <<pc[k], sid[k], todo[k], busy[k]>>
    BY <1>5 DEF CommitPendingFails, TypeOK
  <2>2. (pc'[j] # "working" => busy'[j] = 0) /\ (Scanning(j)' => Scanning(j) /\ OwnScan(j)' /\ Counted(j)')
    BY <1>5 DEF CommitPendingFails, Scanning, Guarded, OwnScan, Counted, TypeOK
  <2>3. QED
    BY <2>1, <2>2, LocalStep DEF Guarded, EntriesMatch, TypeOK
<1>6. ASSUME NEW j \in Jobs, ScanFailed(j) PROVE Guarded'
  <2>1. /\ UNCHANGED <<byPath, made, at>>
        /\ \A k \in Jobs \ {j} : UNCHANGED <<pc[k], sid[k], todo[k], busy[k]>>
    BY <1>6 DEF ScanFailed, TypeOK
  <2>2. Scanning(j) /\ OwnScan(j) /\ Counted(j) /\ byPath[at[j]] # None
    BY <1>6, ScanAssumption DEF ScanFailed, Scanning, Guarded, OwnScan, ScanIds
  <2>3. PICK r \in Progress :
            /\ scan' = [scan EXCEPT ![sid[j]] = r]
            /\ r.path = scan[sid[j]].path
            /\ r.processed <= r.total
            /\ Scanning(j)' => /\ r.status = "running"
                              /\ pc'[j] = "working"
                              /\ r.processed + todo'[j] + busy'[j] <= r.total
    <3> DEFINE r == [scan[sid[j]] EXCEPT !.status = "failed", !.old = FALSE]
    <3>1. r \in Progress
      BY <2>2 DEF OwnScan, TypeOK, Progress, Finished
    <3>2. scan' = [scan EXCEPT ![sid[j]] = r]
      BY <1>6, <2>2 DEF ScanFailed, FinishScan, OwnScan
    <3>3. r.path = scan[sid[j]].path /\ r.processed <= r.total
      BY <2>2 DEF OwnScan, TypeOK, Progress, Guarded
    <3>4. ~Scanning(j)'
      BY <1>6 DEF ScanFailed, Scanning, TypeOK
    <3>5. QED
      BY <3>1, <3>2, <3>3, <3>4
  <2>4. (pc'[j] # "working" => busy'[j] = 0)
    BY <1>6 DEF ScanFailed, TypeOK, Guarded
  <2>5. \A k \in Jobs \ {j} : Scanning(k) => scan'[sid[k]] = scan[sid[k]]
    BY <2>2, <2>3, ScansApart DEF Guarded, OwnScan, TypeOK
  <2>6. \A s \in ScanIds : scan'[s].path = scan[s].path
                           /\ scan'[s].processed <= scan'[s].total
    BY <2>2, <2>3 DEF Guarded, OwnScan, TypeOK
  <2>7. Scanning(j)' => OwnScan(j)' /\ Counted(j)'
    BY <1>6, <2>1, <2>2, <2>3 DEF ScanFailed, Scanning, OwnScan, Counted, TypeOK
  <2>8. QED
    BY <2>1, <2>2, <2>4, <2>5, <2>6, <2>7, LocalStep
<1>7. ASSUME NEW j \in Jobs, NEW w \in Loads, Scanned(j, w) PROVE Guarded'
  <2>1. /\ UNCHANGED <<byPath, made, at>>
        /\ \A k \in Jobs \ {j} : UNCHANGED <<pc[k], sid[k], todo[k], busy[k]>>
    BY <1>7 DEF Scanned, TypeOK
  <2>2. Scanning(j) /\ OwnScan(j) /\ Counted(j) /\ byPath[at[j]] # None
    BY <1>7, ScanAssumption DEF Scanned, Scanning, Guarded, OwnScan, ScanIds
  <2>3. PICK r \in Progress :
            /\ scan' = [scan EXCEPT ![sid[j]] = r]
            /\ r.path = scan[sid[j]].path
            /\ r.processed <= r.total
            /\ Scanning(j)' => /\ r.status = "running"
                              /\ pc'[j] = "working"
                              /\ r.processed + todo'[j] + busy'[j] <= r.total
    <3>5. w.freezes \in Nat /\ w.thaws \in Nat /\ w.freezes + w.thaws \in 0..MaxFiles
      BY ScanAssumption
    <3> DEFINE r == [scan[sid[j]] EXCEPT !.total = w.freezes + w.thaws]
    <3>1. r \in Progress
      BY <2>2, <3>5 DEF OwnScan, TypeOK, Progress
    <3>2. scan' = [scan EXCEPT ![sid[j]] = r]
      BY <1>7, <2>2 DEF Scanned, OwnScan
    <3>3. r.path = scan[sid[j]].path /\ r.total = w.freezes + w.thaws /\ r.processed = 0
          /\ r.status = "running"
      BY <1>7, <2>2 DEF Scanned, OwnScan, Counted, TypeOK, Progress, Guarded
    <3>4. pc'[j] = "working" /\ todo'[j] = w.freezes /\ busy'[j] = 0
      BY <1>7 DEF Scanned, TypeOK, Guarded
    <3> HIDE DEF r
    <3>6. r.processed <= r.total /\ r.processed + todo'[j] + busy'[j] <= r.total
      BY <3>3, <3>4, <3>5
    <3>7. QED
      BY <3>1, <3>2, <3>3, <3>4, <3>6
  <2>4. (pc'[j] # "working" => busy'[j] = 0)
    BY <1>7 DEF Scanned, TypeOK, Guarded
  <2>5. \A k \in Jobs \ {j} : Scanning(k) => scan'[sid[k]] = scan[sid[k]]
    BY <2>2, <2>3, ScansApart DEF Guarded, OwnScan, TypeOK
  <2>6. \A s \in ScanIds : scan'[s].path = scan[s].path
                           /\ scan'[s].processed <= scan'[s].total
    BY <2>2, <2>3 DEF Guarded, OwnScan, TypeOK
  <2>7. Scanning(j)' => OwnScan(j)' /\ Counted(j)'
    BY <1>7, <2>1, <2>2, <2>3 DEF Scanned, Scanning, OwnScan, Counted, TypeOK
  <2>8. QED
    BY <2>1, <2>2, <2>4, <2>5, <2>6, <2>7, LocalStep
<1>8. ASSUME NEW j \in Jobs, CompleteOperation(j) PROVE Guarded'
  <2>1. /\ UNCHANGED <<byPath, made, at>>
        /\ \A k \in Jobs \ {j} : UNCHANGED <<pc[k], sid[k], todo[k], busy[k]>>
    BY <1>8 DEF CompleteOperation, TypeOK
  <2>2. Scanning(j) /\ OwnScan(j) /\ Counted(j) /\ byPath[at[j]] # None
    BY <1>8, ScanAssumption DEF CompleteOperation, Scanning, Guarded, OwnScan, ScanIds
  <2>3. PICK r \in Progress :
            /\ scan' = [scan EXCEPT ![sid[j]] = r]
            /\ r.path = scan[sid[j]].path
            /\ r.processed <= r.total
            /\ Scanning(j)' => /\ r.status = "running"
                              /\ pc'[j] = "working"
                              /\ r.processed + todo'[j] + busy'[j] <= r.total
    <3> DEFINE r == OneMore(scan[sid[j]])
    <3>1. r \in Progress
      BY <2>2, OneMoreType DEF OwnScan, TypeOK
    <3>2. scan' = [scan EXCEPT ![sid[j]] = r]
      BY <1>8, <2>2 DEF CompleteOperation, OwnScan
    <3>3. r.path = scan[sid[j]].path /\ r.status = "running"
      BY <2>2 DEF OwnScan, TypeOK, Progress, Guarded, OneMore
    <3>a. r.total = scan[sid[j]].total /\ r.processed = scan[sid[j]].processed + 1
      BY <2>2 DEF OwnScan, TypeOK, Progress, OneMore
    <3>4. pc[j] = "working" /\ pc'[j] = "working"
      BY <1>8 DEF CompleteOperation, TypeOK
    <3>b. todo'[j] = todo[j] /\ busy'[j] = busy[j] - 1 /\ busy[j] > 0
      BY <1>8 DEF CompleteOperation, TypeOK
    <3>5. /\ scan[sid[j]].processed + todo[j] + busy[j] <= scan[sid[j]].total
          /\ scan[sid[j]].processed \in Nat /\ scan[sid[j]].total \in Nat
          /\ todo[j] \in Nat /\ busy[j] \in Nat
      BY <2>2, <3>4 DEF Counted, OwnScan, TypeOK, Progress
    <3> HIDE DEF r
    <3>6. r.processed <= r.total /\ r.processed + todo'[j] + busy'[j] <= r.total
      BY <3>a, <3>b, <3>5
    <3>7. QED
      BY <3>1, <3>2, <3>3, <3>4, <3>6
  <2>4. (pc'[j] # "working" => busy'[j] = 0)
    BY <1>8 DEF CompleteOperation, TypeOK
  <2>5. \A k \in Jobs \ {j} : Scanning(k) => scan'[sid[k]] = scan[sid[k]]
    BY <2>2, <2>3, ScansApart DEF Guarded, OwnScan, TypeOK
  <2>6. \A s \in ScanIds : scan'[s].path = scan[s].path
                           /\ scan'[s].processed <= scan'[s].total
    BY <2>2, <2>3 DEF Guarded, OwnScan, TypeOK
  <2>7. Scanning(j)' => OwnScan(j)' /\ Counted(j)'
    BY <1>8, <2>1, <2>2, <2>3 DEF CompleteOperation, Scanning, OwnScan, Counted, TypeOK
  <2>8. QED
    BY <2>1, <2>2, <2>4, <2>5, <2>6, <2>7, LocalStep
<1>9. ASSUME NEW j \in Jobs, Finish(j) PROVE Guarded'
  <2>1. /\ UNCHANGED <<byPath, made, at>>
        /\ \A k \in Jobs \ {j} : UNCHANGED <<pc[k], sid[k], todo[k], busy[k]>>
    BY <1>9 DEF Finish, TypeOK
  <2>2. Scanning(j) /\ OwnScan(j) /\ Counted(j) /\ byPath[at[j]] # None
    BY <1>9, ScanAssumption DEF Finish, Scanning, Guarded, OwnScan, ScanIds
  <2>3. PICK r \in Progress :
            /\ scan' = [scan EXCEPT ![sid[j]] = r]
            /\ r.path = scan[sid[j]].path
            /\ r.processed <= r.total
            /\ Scanning(j)' => /\ r.status = "running"
                              /\ pc'[j] = "working"
                              /\ r.processed + todo'[j] + busy'[j] <= r.total
    <3> DEFINE r == [scan[sid[j]] EXCEPT !.status = "completed", !.old = FALSE]
    <3>1. r \in Progress
      BY <2>2 DEF OwnScan, TypeOK, Progress, Finished
    <3>2. scan' = [scan EXCEPT ![sid[j]] = r]
      BY <1>9, <2>2 DEF Finish, FinishScan, OwnScan
    <3>3. r.path = scan[sid[j]].path /\ r.processed <= r.total
      BY <2>2 DEF OwnScan, TypeOK, Progress, Guarded
    <3>4. ~Scanning(j)'
      BY <1>9 DEF Finish, Scanning, TypeOK
    <3>5. QED
      BY <3>1, <3>2, <3>3, <3>4
  <2>4. (pc'[j] # "working" => busy'[j] = 0)
    BY <1>9 DEF Finish, TypeOK
  <2>5. \A k \in Jobs \ {j} : Scanning(k) => scan'[sid[k]] = scan[sid[k]]
    BY <2>2, <2>3, ScansApart DEF Guarded, OwnScan, TypeOK
  <2>6. \A s \in ScanIds : scan'[s].path = scan[s].path
                           /\ scan'[s].processed <= scan'[s].total
    BY <2>2, <2>3 DEF Guarded, OwnScan, TypeOK
  <2>7. Scanning(j)' => OwnScan(j)' /\ Counted(j)'
    BY <1>9, <2>1, <2>2, <2>3 DEF Finish, Scanning, OwnScan, Counted, TypeOK
  <2>8. QED
    BY <2>1, <2>2, <2>4, <2>5, <2>6, <2>7, LocalStep
<1>10. ASSUME NEW j \in Jobs, CommitOutcome(j) PROVE Guarded'
  <2>1. /\ UNCHANGED <<byPath, made, at, scan>>
        /\ \A k \in Jobs \ {j} : UNCHANGED <<pc[k], sid[k], todo[k], busy[k]>>
    BY <1>10 DEF CommitOutcome, TypeOK
  <2>2. (pc'[j] # "working" => busy'[j] = 0)
        /\ (Scanning(j)' => Scanning(j) /\ OwnScan(j)' /\ Counted(j)')
    BY <1>10 DEF CommitOutcome, Scanning, Guarded, OwnScan, Counted, TypeOK
  <2>3. QED
    BY <2>1, <2>2, LocalStep DEF Guarded, EntriesMatch, TypeOK
<1>11. ASSUME NEW j \in Jobs, StartOperation(j) PROVE Guarded'
  <2>1. /\ UNCHANGED <<byPath, made, at, scan, sid, pc>> /\ pc[j] = "working"
        /\ \A k \in Jobs \ {j} : UNCHANGED <<pc[k], sid[k], todo[k], busy[k]>>
        /\ todo'[j] = todo[j] - 1 /\ busy'[j] = busy[j] + 1
    BY <1>11 DEF StartOperation, TypeOK
  <2>2. Scanning(j) /\ OwnScan(j) /\ Counted(j)
    BY <2>1 DEF Scanning, Guarded
  <2>3. /\ scan[sid[j]].processed + todo[j] + busy[j] <= scan[sid[j]].total
        /\ scan[sid[j]].processed \in Nat /\ todo[j] \in Nat /\ busy[j] \in Nat
    BY <2>1, <2>2 DEF Counted, OwnScan, TypeOK, Progress
  <2>4. OwnScan(j)' /\ Counted(j)'
    BY <2>1, <2>2, <2>3 DEF OwnScan, Counted
  <2>5. QED
    BY <2>1, <2>2, <2>4, LocalStep DEF Guarded, EntriesMatch, TypeOK
<1>12. ASSUME NEW j \in Jobs, StartOperationUntracked(j) PROVE FALSE
  BY <1>12, ScanAssumption
  DEF StartOperationUntracked, Guarded, OwnScan, Scanning, ScanIds
<1>13. ASSUME NEW j \in Jobs, CommitOutcomeFails(j) PROVE Guarded'
  <2>1. /\ UNCHANGED <<byPath, made, at, scan>>
        /\ \A k \in Jobs \ {j} : UNCHANGED <<pc[k], sid[k], todo[k], busy[k]>>
    BY <1>13 DEF CommitOutcomeFails, TypeOK
  <2>2. (pc'[j] # "working" => busy'[j] = 0) /\ ~Scanning(j)'
    BY <1>13 DEF CommitOutcomeFails, Scanning, Guarded, TypeOK
  <2>3. QED
    BY <2>1, <2>2, LocalStep DEF Guarded, EntriesMatch, TypeOK
<1>14. ASSUME NEW j \in Jobs, FinishAgain(j) PROVE Guarded'
  <2>1. /\ UNCHANGED <<byPath, made, at>>
        /\ \A k \in Jobs \ {j} : UNCHANGED <<pc[k], sid[k], todo[k], busy[k]>>
    BY <1>14 DEF FinishAgain, TypeOK
  <2>2. (pc'[j] # "working" => busy'[j] = 0) /\ ~Scanning(j)'
    BY <1>14 DEF FinishAgain, Scanning, Guarded, TypeOK
  <2>3. ~Running(at[j])
    BY <1>14 DEF FinishAgain
  <2>4. \A k \in Jobs \ {j} : Scanning(k) => scan'[sid[k]] = scan[sid[k]]
    <3> SUFFICES ASSUME NEW k \in Jobs \ {j}, Scanning(k)
                 PROVE  scan'[sid[k]] = scan[sid[k]]
      OBVIOUS
    <3>1. OwnScan(k)
      BY DEF Guarded
    <3>2. CASE byPath[at[j]] = None
      BY <1>14, <3>2 DEF FinishAgain, FinishScan
    <3>3. CASE byPath[at[j]] # None
      <4>1. byPath[at[j]] # sid[k]
        BY <2>3, <3>1, <3>3 DEF Running, OwnScan
      <4>2. QED
        BY <1>14, <3>1, <3>3, <4>1 DEF FinishAgain, FinishScan, OwnScan, TypeOK
    <3>4. QED
      BY <3>2, <3>3
  <2>5. \A s \in ScanIds : /\ scan'[s].path = scan[s].path
                           /\ scan'[s].processed = scan[s].processed
                           /\ scan'[s].total = scan[s].total
    <3>1. at[j] \in Paths /\ "failed" \in Finished /\ FinishScan(at[j], "failed")
      BY <1>14 DEF FinishAgain, TypeOK, Finished
    <3>2. QED
      BY <3>1, FinishKeeps
  <2>6. QED
    BY <2>1, <2>2, <2>4, <2>5, LocalStep DEF Guarded
<1>15. ASSUME NEW s \in ScanIds, Age(s) PROVE Guarded'
  <2>1. UNCHANGED <<byPath, made, at, pc, sid, todo, busy>>
    BY <1>15 DEF Age
  <2>2. \A r \in ScanIds : /\ scan'[r].path = scan[r].path
                           /\ scan'[r].status = scan[r].status
                           /\ scan'[r].processed = scan[r].processed
                           /\ scan'[r].total = scan[r].total
    BY <1>15 DEF Age, TypeOK, Progress
  <2>3. QED
    BY <2>1, <2>2 DEF Guarded, EntriesMatch, Scanning, OwnScan, Counted, OneScanPerPath, TypeOK
<1>16. CASE CleanupOldScans
  <2>1. UNCHANGED <<scan, made, at, pc, sid, todo, busy>>
    BY <1>16 DEF CleanupOldScans
  <2>2. \A p \in Paths : byPath'[p] \in {byPath[p], None} /\ (Running(p) => byPath'[p] # None)
    BY <1>16 DEF CleanupOldScans
  <2>3. \A j \in Jobs : Scanning(j) => OwnScan(j)'
    BY <2>1, <2>2, ScanAssumption DEF Guarded, OwnScan, Running, ScanIds, TypeOK
  <2>4. EntriesMatch'
    BY <2>1, <2>2 DEF Guarded, EntriesMatch
  <2>5. QED
    BY <2>1, <2>3, <2>4 DEF Guarded, Scanning, Counted, OneScanPerPath
<1>17. CASE UNCHANGED vars
  BY <1>17 DEF vars, Guarded, EntriesMatch, Scanning, OwnScan, Counted, OneScanPerPath
<1>18. QED
  BY <1>1, <1>2, <1>3, <1>4, <1>5, <1>6, <1>7, <1>8, <1>9, <1>10, <1>11, <1>12, <1>13, <1>14,
     <1>15, <1>16, <1>17
  DEF Next, Step

\* The steps that end the manager's integrity never restore it.
LEMMA IntactBefore == ASSUME TypeOK, [Next]_vars, intact' PROVE intact
  BY Zenon DEF Next, Step, vars, Trigger, Fire, Start, Skip, CommitPending, CommitPendingFails,
     ScanFailed, Scanned, StartOperation, StartOperationUntracked, CompleteOperation, Finish,
     CommitOutcome, CommitOutcomeFails, FinishAgain, Age, CleanupOldScans

\* The invariant, for every value of the constants.
THEOREM GuardInvariant == Spec => []GuardInv
<1>1. Init => GuardInv
  <2> SUFFICES ASSUME Init PROVE GuardInv
    OBVIOUS
  <2>1. TypeOK
    BY TypeInit
  <2>2. \A j \in Jobs : pc[j] = "idle" /\ busy[j] = 0
    BY DEF Init
  <2>3. \A s \in ScanIds : scan[s].processed <= scan[s].total
    BY DEF Init
  <2>4. QED
    BY <2>1, <2>2, <2>3 DEF GuardInv, Guarded, Init, EntriesMatch, Scanning, OneScanPerPath
<1>2. GuardInv /\ [Next]_vars => GuardInv'
  BY TypeStep, GuardStep, IntactBefore DEF GuardInv
<1>3. QED
  BY <1>1, <1>2, PTL DEF Spec

\* The guard while the manager is intact: one scan per path (paths.py:550-561).
THEOREM ScanGuard == Spec => []IntactOneScanPerPath
<1>1. GuardInv => IntactOneScanPerPath
  BY DEF GuardInv, Guarded, IntactOneScanPerPath
<1>2. QED
  BY <1>1, GuardInvariant, PTL

\* The entry of a path that is scanned is the scanning thread's own, so that
\* finish_scan(path) finishes the caller's scan.
THEOREM EntryGuard == Spec => []EntryIsOwnScan
<1>1. GuardInv => EntryIsOwnScan
  BY DEF GuardInv, Guarded, EntryIsOwnScan, OwnScan
<1>2. QED
  BY <1>1, GuardInvariant, PTL

\* The progress that is shown never exceeds the total.
THEOREM ProgressGuard == Spec => []ProcessedWithinTotal
<1>1. GuardInv => ProcessedWithinTotal
  BY DEF GuardInv, Guarded, ProcessedWithinTotal, TypeOK
<1>2. QED
  BY <1>1, GuardInvariant, PTL

\* The clean-up forgets no running scan, intact or not.
THEOREM RunningKept == Spec => RunningScanIsKept
<1>1. ASSUME [Next]_vars
      PROVE  \A s \in byId : scan[s].status = "running" => s \in byId'
  <2>1. CASE CleanupOldScans
    BY <2>1 DEF CleanupOldScans, Finished
  <2>2. CASE \E j \in Jobs : Start(j)
    BY <2>2 DEF Start
  <2>3. CASE byId' = byId
    BY <2>3
  <2>4. CleanupOldScans \/ (\E j \in Jobs : Start(j)) \/ byId' = byId
    BY <1>1, Zenon DEF Next, Step, vars, manager, Trigger, Fire, Skip, CommitPending,
       CommitPendingFails, ScanFailed, Scanned, StartOperation, StartOperationUntracked,
       CompleteOperation, Finish, CommitOutcome, CommitOutcomeFails, FinishAgain, Age
  <2>5. QED
    BY <2>1, <2>2, <2>3, <2>4
<1>2. QED
  BY <1>1, PTL DEF Spec, RunningScanIsKept

-----------------------------------------------------------------------------
(* A path's entry and the path's scans, whether the manager is intact or not. *)

\* Every tracked scan has an id that was given out; a path's entry is a tracked
\* scan of that path, and the newest one.
EntryInv ==
    /\ TypeOK
    /\ \A s \in byId : s <= made
    /\ \A p \in Paths : byPath[p] # None => scan[byPath[p]].path = p
    /\ EntryIsNewest

\* Only start_scan and the clean-up change the two maps and the ids.
LEMMA MapsKept ==
  ASSUME [Next]_vars
  PROVE  (\E j \in Jobs : Start(j)) \/ CleanupOldScans \/ UNCHANGED <<byPath, byId, made>>
BY Zenon DEF Next, Step, vars, manager, Trigger, Fire, Skip, CommitPending,
   CommitPendingFails, ScanFailed, Scanned, StartOperation, StartOperationUntracked,
   CompleteOperation, Finish, CommitOutcome, CommitOutcomeFails, FinishAgain, Age

\* No step changes the path of a scan that exists, nor its status but by
\* finish_scan, which finishes the scan that the path's entry points to.
LEMMA ScanKept ==
  ASSUME TypeOK, [Next]_vars, NEW s \in ScanIds, ~\E j \in Jobs : Start(j)
  PROVE  /\ scan'[s].path = scan[s].path
         /\ \/ scan'[s].status = scan[s].status
            \/ scan'[s].status \in Finished
<1>1. CASE scan' = scan
  BY <1>1
<1>2. ASSUME NEW p \in Paths, NEW status \in Finished, FinishScan(p, status)
      PROVE  scan'[s].path = scan[s].path /\ scan'[s].status \in {scan[s].status, status}
  <2>1. CASE byPath[p] = None
    BY <1>2, <2>1 DEF FinishScan
  <2>2. CASE byPath[p] # None
    <3>1. byPath[p] \in ScanIds /\ scan[byPath[p]] \in Progress
      BY <2>2 DEF TypeOK
    <3>2. QED
      BY <1>2, <2>2, <3>1 DEF TypeOK, FinishScan, Progress
  <2>3. QED
    BY <2>1, <2>2
<1>3. ASSUME NEW j \in Jobs, ScanFailed(j) \/ Finish(j) \/ FinishAgain(j)
      PROVE  \E p \in Paths, status \in Finished : FinishScan(p, status)
  BY <1>3 DEF ScanFailed, Finish, FinishAgain, TypeOK, Finished
<1>4. ASSUME NEW j \in Jobs, NEW w \in Loads, Scanned(j, w)
      PROVE  scan'[s].path = scan[s].path /\ scan'[s].status = scan[s].status
  BY <1>4 DEF Scanned, TypeOK, Progress
<1>5. ASSUME NEW j \in Jobs, CompleteOperation(j)
      PROVE  scan'[s].path = scan[s].path /\ scan'[s].status = scan[s].status
  BY <1>5 DEF CompleteOperation, OneMore, TypeOK, Progress
<1>6. ASSUME NEW r \in ScanIds, Age(r)
      PROVE  scan'[s].path = scan[s].path /\ scan'[s].status = scan[s].status
  BY <1>6 DEF Age, TypeOK, Progress
<1>7. \/ scan' = scan
      \/ \E j \in Jobs : \/ ScanFailed(j) \/ Finish(j) \/ FinishAgain(j) \/ CompleteOperation(j)
                         \/ \E w \in Loads : Scanned(j, w)
      \/ \E r \in ScanIds : Age(r)
  BY Zenon DEF Next, Step, vars, manager, Trigger, Fire, Skip, CommitPending,
     CommitPendingFails, StartOperation, StartOperationUntracked,
     CommitOutcome, CommitOutcomeFails, CleanupOldScans
<1>8. QED
  BY <1>1, <1>2, <1>3, <1>4, <1>5, <1>6, <1>7

\* start_scan enters the highest id so far; the clean-up of a path's scan takes
\* the path's entry away.
LEMMA EntryStep == EntryInv /\ [Next]_vars => EntryInv'
<1> SUFFICES ASSUME EntryInv, [Next]_vars PROVE EntryInv'
  OBVIOUS
<1>1. TypeOK /\ TypeOK'
  BY TypeStep DEF EntryInv
<1>2. ASSUME NEW j \in Jobs, Start(j) PROVE EntryInv'
  <2>1. /\ made' = made + 1 /\ byId' = byId \cup {made'} /\ made' \in ScanIds /\ made \in Nat
        /\ byPath' = [byPath EXCEPT ![at[j]] = made'] /\ at[j] \in Paths
        /\ \A s \in ScanIds : s # made' => scan'[s] = scan[s]
        /\ scan'[made'].path = at[j]
    BY <1>1, <1>2 DEF Start, TypeOK, ScanIds
  <2>2. \A s \in byId : s \in ScanIds /\ s \in Nat /\ s <= made /\ s # made'
    BY <1>1, <2>1 DEF EntryInv, TypeOK, ScanIds
  <2>3. \A s \in byId' : s <= made'
    BY <2>1, <2>2
  <2>4. ASSUME NEW p \in Paths, byPath'[p] # None
        PROVE  /\ scan'[byPath'[p]].path = p /\ byPath'[p] \in byId'
               /\ \A s \in byId' : scan'[s].path = p => s <= byPath'[p]
    <3>1. CASE p = at[j]
      BY <1>1, <2>1, <2>3, <3>1 DEF TypeOK
    <3>2. CASE p # at[j]
      <4>1. byPath'[p] = byPath[p] /\ byPath[p] \in byId
        BY <1>1, <2>1, <2>4, <3>2 DEF EntryInv, EntryIsNewest, TypeOK
      <4>2. scan[byPath[p]].path = p /\ \A s \in byId : scan[s].path = p => s <= byPath[p]
        BY <2>4, <4>1 DEF EntryInv, EntryIsNewest
      <4>3. QED
        BY <2>1, <2>2, <3>2, <4>1, <4>2
    <3>3. QED
      BY <3>1, <3>2
  <2>5. QED
    BY <1>1, <2>3, <2>4 DEF EntryInv, EntryIsNewest
<1>3. CASE CleanupOldScans
  <2>1. /\ byId' \subseteq byId /\ scan' = scan /\ made' = made
        /\ \A p \in Paths : byPath'[p] # None =>
              /\ byPath'[p] = byPath[p]
              /\ \A s \in byId \ byId' : scan[s].path # p
    BY <1>3 DEF CleanupOldScans
  <2>2. QED
    BY <1>1, <2>1 DEF EntryInv, EntryIsNewest
<1>4. CASE UNCHANGED <<byPath, byId, made>> /\ ~\E j \in Jobs : Start(j)
  <2>1. \A s \in ScanIds : scan'[s].path = scan[s].path
    BY <1>1, <1>4, ScanKept
  <2>2. byId \subseteq ScanIds /\ \A p \in Paths : byPath[p] # None => byPath[p] \in ScanIds
    BY <1>1 DEF TypeOK
  <2>3. QED
    BY <1>1, <1>4, <2>1, <2>2 DEF EntryInv, EntryIsNewest
<1>5. QED
  BY <1>2, <1>3, <1>4, MapsKept

\* A path's entry is never an older scan than the last one started for it, and
\* its scan can be found by its id, whatever fails, ages or is cleaned up.
THEOREM NewestEntry == Spec => []EntryIsNewest
<1>1. Init => EntryInv
  BY TypeInit DEF Init, EntryInv, EntryIsNewest
<1>2. EntryInv => EntryIsNewest
  BY DEF EntryInv
<1>3. QED
  BY <1>1, <1>2, EntryStep, PTL DEF Spec

-----------------------------------------------------------------------------
(* Why a scan is skipped.                                                  *)

\* A path whose entry says "running" is being scanned.
RunningIsScanned ==
    \A p \in Paths : Running(p) => \E k \in Jobs : Scanning(k) /\ at[k] = p

\* After finish_scan(p) the path p is not running, and no other path has begun to.
LEMMA FinishedNotRunning ==
  ASSUME TypeOK, Guarded, NEW p \in Paths, NEW status \in Finished, FinishScan(p, status),
         byPath' = byPath, NEW q \in Paths, Running(q)'
  PROVE  q # p /\ Running(q)
<1>1. byPath[q] # None /\ byPath[q] \in ScanIds /\ scan'[byPath[q]].status = "running"
  BY DEF Running, TypeOK
<1>2. CASE byPath[p] = None
  BY <1>1, <1>2 DEF FinishScan, Running
<1>3. CASE byPath[p] # None
  <2>1. byPath[p] \in ScanIds /\ scan[byPath[p]] \in Progress
    BY <1>3 DEF TypeOK
  <2>2. scan'[byPath[p]].status = status /\ status # "running"
    BY <1>3, <2>1 DEF FinishScan, TypeOK, Progress, Finished
  <2>3. byPath[q] # byPath[p]
    BY <1>1, <2>2
  <2>4. scan'[byPath[q]] = scan[byPath[q]]
    BY <1>1, <1>3, <2>1, <2>3 DEF FinishScan, TypeOK
  <2>5. QED
    BY <1>1, <2>3, <2>4 DEF Running
<1>4. QED
  BY <1>2, <1>3

\* While the manager is intact, no step leaves an entry running without its thread.
LEMMA RunningStep ==
  ASSUME TypeOK, Guarded, RunningIsScanned, intact', [Next]_vars
  PROVE  RunningIsScanned'
<1> USE DEF Goto, Return, manager
\* A step that starts no path and takes no thread out of its scan.
<1>1. ASSUME \A p \in Paths : Running(p)' => Running(p),
             \A k \in Jobs : Scanning(k) => Scanning(k)' /\ at'[k] = at[k]
      PROVE  RunningIsScanned'
  BY <1>1 DEF RunningIsScanned
<1>2. ASSUME NEW j \in Jobs, NEW p \in Paths, Trigger(j, p) \/ Fire(j, p) PROVE RunningIsScanned'
  BY <1>1, <1>2 DEF Trigger, Fire, Running, Scanning, TypeOK
<1>3. ASSUME NEW j \in Jobs, Start(j) PROVE RunningIsScanned'
  <2>1. /\ pc[j] = "start" /\ pc' = [pc EXCEPT ![j] = "pending"] /\ UNCHANGED at
        /\ byPath' = [byPath EXCEPT ![at[j]] = made + 1] /\ made + 1 \in ScanIds
        /\ \A s \in ScanIds : s # made + 1 => scan'[s] = scan[s]
    BY <1>3, ScanAssumption DEF Start, TypeOK, ScanIds
  <2>2. \A p \in Paths : byPath[p] # None => byPath[p] \in ScanIds /\ byPath[p] # made + 1
    BY ScanAssumption DEF Guarded, EntriesMatch, TypeOK, ScanIds
  <2>3. Scanning(j)' /\ \A k \in Jobs : Scanning(k) => Scanning(k)'
    BY <2>1 DEF Scanning, TypeOK
  <2>4. \A p \in Paths : Running(p)' => Running(p) \/ p = at[j]
    BY <2>1, <2>2 DEF Running, TypeOK
  <2>5. QED
    BY <2>1, <2>3, <2>4 DEF RunningIsScanned
<1>4. ASSUME NEW j \in Jobs, Skip(j) \/ CommitPending(j) \/ CommitOutcome(j) \/ CommitOutcomeFails(j)
      PROVE  RunningIsScanned'
  BY <1>1, <1>4 DEF Skip, CommitPending, CommitOutcome, CommitOutcomeFails, Running, Scanning, TypeOK
<1>5. ASSUME NEW j \in Jobs, CommitPendingFails(j) PROVE FALSE
  BY <1>5 DEF CommitPendingFails
<1>6. ASSUME NEW j \in Jobs, ScanFailed(j) \/ Finish(j) \/ FinishAgain(j) PROVE RunningIsScanned'
  <2>1. \A q \in Paths : Running(q)' => q # at[j] /\ Running(q)
    BY <1>6, FinishedNotRunning DEF ScanFailed, Finish, FinishAgain, TypeOK, Finished
  <2>2. \A k \in Jobs : k # j /\ Scanning(k) => Scanning(k)' /\ at'[k] = at[k]
    BY <1>6 DEF ScanFailed, Finish, FinishAgain, Scanning, TypeOK
  <2>3. QED
    BY <2>1, <2>2 DEF RunningIsScanned
<1>7. ASSUME NEW j \in Jobs, NEW w \in Loads, Scanned(j, w) PROVE RunningIsScanned'
  BY <1>1, <1>7 DEF Scanned, Running, Scanning, TypeOK, Progress
<1>8. ASSUME NEW j \in Jobs, StartOperation(j) \/ StartOperationUntracked(j) PROVE RunningIsScanned'
  BY <1>1, <1>8 DEF StartOperation, StartOperationUntracked, Running, Scanning
<1>9. ASSUME NEW j \in Jobs, CompleteOperation(j) PROVE RunningIsScanned'
  BY <1>1, <1>9 DEF CompleteOperation, OneMore, Running, Scanning, TypeOK, Progress
<1>10. ASSUME NEW s \in ScanIds, Age(s) PROVE RunningIsScanned'
  BY <1>1, <1>10 DEF Age, Running, Scanning, TypeOK, Progress
<1>11. CASE CleanupOldScans
  BY <1>1, <1>11 DEF CleanupOldScans, Running, Scanning
<1>12. CASE UNCHANGED vars
  BY <1>1, <1>12 DEF vars, Running, Scanning
<1>13. QED
  BY <1>2, <1>3, <1>4, <1>5, <1>6, <1>7, <1>8, <1>9, <1>10, <1>11, <1>12 DEF Next, Step

SkipInv == GuardInv /\ (intact => RunningIsScanned)

\* process_path reports scan_skipped only while another thread scans the path,
\* as long as the manager is intact (file_workflow_service.py:66-78).
THEOREM SkipGuard == Spec => SkipsOnlyForAScan
<1>1. Init => RunningIsScanned
  BY DEF Init, RunningIsScanned, Running
<1>2. SkipInv /\ GuardInv' /\ [Next]_vars => SkipInv'
  BY RunningStep, IntactBefore DEF SkipInv, GuardInv
<1>3. ASSUME SkipInv, intact, NEW j \in Jobs, Skip(j)
      PROVE  \E k \in Jobs \ {j} : Scanning(k) /\ at[k] = at[j]
  <2>1. pc[j] = "start" /\ Running(at[j]) /\ at[j] \in Paths
    BY <1>3 DEF Skip, SkipInv, GuardInv, TypeOK
  <2>2. PICK k \in Jobs : Scanning(k) /\ at[k] = at[j]
    BY <1>3, <2>1 DEF SkipInv, RunningIsScanned
  <2>3. QED
    BY <2>1, <2>2 DEF Scanning
<1>4. SkipInv => (intact => \A j \in Jobs : Skip(j) =>
                              \E k \in Jobs \ {j} : Scanning(k) /\ at[k] = at[j])
  BY <1>3
<1>5. GuardInv /\ RunningIsScanned => SkipInv
  BY DEF SkipInv
<1>6. QED
  BY <1>1, <1>2, <1>4, <1>5, GuardInvariant, PTL DEF Spec, SkipsOnlyForAScan
=============================================================================
