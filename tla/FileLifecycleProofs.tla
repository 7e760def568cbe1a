------------------------- MODULE FileLifecycleProofs -------------------------
(***************************************************************************)
(* Theorems about FileLifecycle, for any locations, contents and rows and  *)
(* any number of crashes.  A theorem that needs more of a path than the    *)
(* model's constants say has it as an assumption of its own: one storage   *)
(* location, or moves that do not fail half way.                           *)
(*                                                                         *)
(* Each theorem has an inductive invariant on top of TypeOK:               *)
(*   WalkInv  what an undisturbed scan has found and written, phase by     *)
(*            phase (InventorySynced, DropsOnlyMissing)                    *)
(*   LinkInv  which tier its rows have, and that a cold file is reachable  *)
(*            or has a cold row (LinksRestored)                            *)
(*   PinInv   what was pinned when the scan read the pins (PinnedStays)    *)
(*   MoveInv, CopyInv  where the one content is (KeepsContent)             *)
(***************************************************************************)
EXTENDS FileLifecycle, FiniteSetTheorems, TLAPS

Alone == rpc = "idle"

\* A set with one element if b, and with none otherwise.
Sole(S, b) == IF b THEN \E r \in S : S = {r} ELSE S = {}

SeenAt(p) == {r \in ActiveAt(p) : rows[r].seen = "since"}
DueAt(p)  == {r \in ActiveAt(p) : rows[r].seen # "lately"}

BeforeSync == {"records", "linkrows", "walkhot", "walkcold", "synchot"}
AfterSync  == {"thaw", "thawmove", "thawdone", "freeze", "freezemove", "freezedone", "reconcile"}

\* While a scan is undisturbed: no row is seen before the walk is written down, ...
UnseenYet  == spc \in BeforeSync => \A r \in Live : rows[r].seen # "since"
\* ... the walk has found what is there, ...
WalkedHot  == spc \in {"walkcold", "synchot", "synccold", "drop"} => scan.hot = Present("hot")
WalkedCold == spc \in {"synchot", "synccold", "drop"} => scan.cold = Present(First)
\* ... each tier written has one seen row if its file is there, and none otherwise, ...
SyncedHot  == spc = "synccold" => /\ Sole(SeenAt("hot"), Present("hot"))
                                  /\ \A r \in Live : rows[r].seen = "since" => rows[r].path = "hot"
SyncedBoth == spc = "drop" => /\ Sole(SeenAt("hot"), Present("hot"))
                              /\ Sole(SeenAt(First), Present(First))
\* ... and only those stay active, and those spared for the minute before.
Dropped    == spc = "thaw" => /\ Sole(DueAt("hot"), Present("hot"))
                              /\ Sole(DueAt(First), Present(First))
WalkInv ==
    calm => Alone /\ UnseenYet /\ WalkedHot /\ WalkedCold /\ SyncedHot /\ SyncedBoth /\ Dropped

Reachable == link # None \/ disk["hot"] # NoFile
ColdRowAt(r) == r \in ActiveAt(First) /\ rows[r].tier = "cold"

\* The rows an undisturbed scan leaves active have the tier of their path, and a cold file
\* can be reached or has a cold row, from which its link is restored.
Tiers ==
    /\ spc \in {"synccold", "drop"} => \A r \in SeenAt("hot") : rows[r].tier = "hot"
    /\ spc = "drop" => \A r \in SeenAt(First) : rows[r].tier = "cold"
    /\ spc \in AfterSync => \A r \in ActiveAt("hot") : rows[r].tier = "hot" \/ rows[r].seen = "lately"
Linked ==
    /\ spc \in AfterSync /\ Holds(First) => Reachable \/ \E r \in RowIds : ColdRowAt(r)
    /\ spc \in {"thawdone", "freezedone"} => Reachable
LinkInv == calm /\ op = "symlink" => Tiers /\ Linked

\* What the scan has decided to move was not pinned when it read the pins.
PinInv ==
    /\ op # "symlink" => link = None
    /\ spc = "thawmove" => scan.thaw
    /\ spc = "freezemove" => scan.freeze
    /\ scan.freeze => "hot" \notin scan.pins
    /\ op # "symlink" /\ scan.thaw => "hot" \notin scan.pins /\ First \notin scan.pins

\* Unless the user got in the way, a file that is moved or linked is at one place; ...
OnePlace == \A p, q \in Paths : disk[p] # NoFile /\ disk[q] # NoFile => p = q
MoveInv ==
    op # "copy" =>
        /\ rpc # "thawunlink"
        /\ ~clash => /\ OnePlace
                     /\ link # None => disk["hot"] = NoFile
                     /\ KeepsContent
\* ... the original of a copy has the content, or the copy if there is no original; a thaw
\* that lies ahead finds no original or one that is the same, and one that takes the original
\* for granted finds it.
Overwrites == disk["hot"] # NoFile /\ disk[First] \notin {NoFile, disk["hot"]}
CopySafe ==
    /\ \A d \in kept : disk["hot"] = d \/ (disk["hot"] = NoFile /\ disk[First] = d)
    /\ ThawAhead => ~Overwrites
    /\ rpc = "thawunlink" => disk["hot"] # NoFile
CopyInv ==
    op = "copy" =>
        /\ link = None
        /\ spc = "walkcold" => ~scan.thaw
        /\ ~clash => CopySafe

-----------------------------------------------------------------------------
(* Types.                                                                  *)

RowsType == rows \in [RowIds -> Row \cup {None}]

\* What the model puts into the table is a row.
LEMMA RowOfType ==
  ASSUME NEW p \in Paths, NEW t \in {"hot", "cold"}, NEW s \in Statuses
  PROVE  RowOf(p, t, s) \in Row /\ RowOf(p, t, s) # None
<1>1. RowOf(p, t, s) \in Row
  BY DEF RowOf, Row, Ages
<1>2. QED
  BY <1>1, RowAssumption

\* A live row has the fields of a row.
LEMMA LiveRow ==
  ASSUME RowsType, NEW r \in Live
  PROVE  /\ r \in RowIds /\ rows[r] \in Row /\ rows[r] # None
         /\ rows[r].path \in Paths /\ rows[r].tier \in {"hot", "cold"}
         /\ rows[r].status \in Statuses /\ rows[r].seen \in Ages
<1>1. r \in RowIds /\ rows[r] \in Row /\ rows[r] # None
  BY DEF Live, RowsType
<1>2. QED
  BY <1>1 DEF Row

\* Writing a row or a status, and what a walk found, leaves a table.
LEMMA WritesType ==
  ASSUME RowsType
  PROVE  /\ \A r \in RowIds, p \in Paths, t \in {"hot", "cold"}, s \in Statuses :
              SetRow(r, RowOf(p, t, s)) => RowsType'
         /\ \A r : \A s \in Statuses : SetStatus(r, s) => RowsType'
         /\ \A p \in Paths, t \in {"hot", "cold"} : \A found : Sync(p, t, found) => RowsType'
<1>1. ASSUME NEW r \in RowIds, NEW p \in Paths, NEW t \in {"hot", "cold"}, NEW s \in Statuses,
             SetRow(r, RowOf(p, t, s))
      PROVE  RowsType'
  <2>1. RowOf(p, t, s) \in Row
    BY RowOfType
  <2>2. QED
    BY <2>1, <1>1 DEF SetRow, RowsType
<1>2. ASSUME NEW r, NEW s \in Statuses, SetStatus(r, s)
      PROVE  RowsType'
  <2>1. CASE r \in Live
    <3>1. r \in RowIds /\ rows[r].path \in Paths /\ rows[r].tier \in {"hot", "cold"}
      BY <2>1, LiveRow
    <3>2. QED
      BY <1>1, <1>2, <2>1, <3>1 DEF SetStatus
  <2>2. CASE r \notin Live
    BY <1>2, <2>2 DEF SetStatus, RowsType
  <2>3. QED
    BY <2>1, <2>2
<1>3. ASSUME NEW p \in Paths, NEW t \in {"hot", "cold"}, NEW found, Sync(p, t, found)
      PROVE  RowsType'
  <2>1. "active" \in Statuses /\ RowsAt(p) \subseteq RowIds /\ FreeIds \subseteq RowIds
    BY DEF Statuses, RowsAt, Live, FreeIds
  <2>2. CASE UNCHANGED rows
    BY <2>2 DEF RowsType
  <2>3. ASSUME NEW r \in RowIds, SetRow(r, RowOf(p, t, "active"))
        PROVE  RowsType'
    BY <1>1, <2>1, <2>3
  <2>4. QED
    BY <1>3, <2>1, <2>2, <2>3 DEF Sync
<1>4. QED
  BY <1>1, <1>2, <1>3

FilesType == disk \in [Paths -> Contents] /\ link \in Locs \cup {None}

\* What the hot path leads to.
LEMMA TargetType ==
  ASSUME FilesType
  PROVE  /\ Target \in Paths /\ "hot" \in Paths /\ Locs \subseteq Paths /\ NoFile \in Contents
         /\ Torn \in Contents /\ Data \subseteq Contents /\ First \in Locs /\ First # "hot"
         /\ (HotExists <=> disk[Target] # NoFile)
         /\ (Target = "hot" <=> link = None) /\ (link # None => Target = link /\ link \in Locs)
BY LifecycleAssumption DEF FilesType, Target, Paths, Contents, HotExists

\* A move, whole or in half, leaves a disk.
LEMMA MovesType ==
  ASSUME FilesType, NEW to \in Locs
  PROVE  /\ op \in Ops /\ Moves(to) => FilesType'
         /\ MoveFails(to) => FilesType'
         /\ MovesBack(to) => FilesType'
         /\ DropsLink => link' \in Locs \cup {None}
<1> USE TargetType
<1>1. op \in Ops /\ Moves(to) => FilesType'
  BY LifecycleAssumption DEF Moves, FilesType, OperationTypes
<1>2. MoveFails(to) => FilesType'
  BY DEF MoveFails, FilesType, files
<1>3. MovesBack(to) => FilesType'
  BY DEF MovesBack, FilesType
<1>4. DropsLink => link' \in Locs \cup {None}
  BY DEF DropsLink, FilesType
<1>5. QED
  BY <1>1, <1>2, <1>3, <1>4

\* A count of records stays in its bounds.
LEMMA CountType ==
  ASSUME NEW n \in 0..MaxRecs
  PROVE  OneMore(n) \in 0..MaxRecs /\ OneLess(n) \in 0..MaxRecs
BY LifecycleAssumption DEF OneMore, OneLess

\* A conjunct of TypeOK each: the tables that a step may write, and the rest.
RecsType == recs \in [Locs -> 0..MaxRecs]
RestType ==
    /\ op \in Ops /\ pins \subseteq Paths
    /\ spc \in ScanLabels /\ scan \in Scan
    /\ rpc \in RequestLabels /\ req \in Request
    /\ kept \subseteq Data /\ calm \in BOOLEAN /\ clash \in BOOLEAN /\ crashes \in 0..MaxCrashes

LEMMA TypeParts == TypeOK <=> FilesType /\ RowsType /\ RecsType /\ RestType
BY DEF TypeOK, FilesType, RowsType, RecsType, RestType

\* The same of the next state.
LEMMA TypePartsNext == TypeOK' <=> FilesType' /\ RowsType' /\ RecsType' /\ RestType'
BY DEF TypeOK, FilesType, RowsType, RecsType, RestType

\* What a scan knows before it has read anything.
LEMMA IdleType == Idle \in Scan /\ NoRequest \in Request
BY LifecycleAssumption DEF Idle, NoRequest, Scan, Request, Statuses

LEMMA TypeInitial == Init => TypeOK
<1> SUFFICES ASSUME Init PROVE TypeOK
  OBVIOUS
<1>1. FilesType
  BY LifecycleAssumption DEF Init, FilesType, Paths, Contents
<1>2. RowsType /\ RecsType
  BY LifecycleAssumption DEF Init, RowsType, RecsType
<1>3. RestType
  <2>1. crashes \in 0..MaxCrashes
    BY LifecycleAssumption DEF Init
  <2>2. QED
    BY <2>1, IdleType DEF Init, RestType, ScanLabels, RequestLabels
<1>4. QED
  BY <1>1, <1>2, <1>3, TypeParts

\* A scan's fields keep their types when it goes on or writes one of them.
LEMMA ScanFields ==
  ASSUME scan \in Scan
  PROVE  /\ scan.row \in RowIds \cup {None} /\ scan.old \in Statuses /\ scan.to \in Locs
         /\ scan.pins \subseteq Paths /\ scan.hot \in BOOLEAN /\ scan.cold \in BOOLEAN
         /\ scan.thaw \in BOOLEAN /\ scan.freeze \in BOOLEAN
         /\ \A r \in RowIds \cup {None}, s \in Statuses, l \in Locs :
              /\ [scan EXCEPT !.row = r] \in Scan
              /\ [scan EXCEPT !.row = r, !.old = s] \in Scan
              /\ [scan EXCEPT !.row = r, !.old = s, !.to = l] \in Scan
BY DEF Scan

LEMMA ScanTypes ==
  ASSUME TypeOK, ScanStep
  PROVE  TypeOK'
<1>1. FilesType /\ RowsType /\ RecsType /\ RestType
  BY TypeParts
<1>2. scan \in Scan /\ rows \in [RowIds -> Row \cup {None}]
  BY <1>1 DEF RestType, RowsType
<1>3. "active" \in Statuses /\ "migrating" \in Statuses
  BY DEF Statuses
<1> DEFINE Frame == UNCHANGED <<op, rpc, req, kept, clash, crashes>>
<1>4. ASSUME Frame, UNCHANGED pins, spc' \in ScanLabels, scan' \in Scan, calm' \in BOOLEAN
      PROVE  RestType'
  BY <1>1, <1>4 DEF RestType
<1>5. ASSUME UNCHANGED files
      PROVE  FilesType'
  BY <1>1, <1>5 DEF files, FilesType
<1>6. ASSUME UNCHANGED recs
      PROVE  RecsType'
  BY <1>1, <1>6 DEF RecsType
<1>7. ASSUME UNCHANGED rows
      PROVE  RowsType'
  BY <1>1, <1>7 DEF RowsType
<1>8. calm \in BOOLEAN
  BY <1>1 DEF RestType
<1> HIDE DEF Frame
<1> DEFINE Done == FilesType' /\ RowsType' /\ RecsType' /\ RestType'
<1>a1. CASE ScanBegin
  <2>1. FilesType' /\ RecsType'
    BY <1>5, <1>6, <1>a1 DEF ScanBegin
  <2>2. RowsType'
    <3>1. \A r \in Live, s \in Ages : [rows[r] EXCEPT !.seen = s] \in Row
      BY <1>1, <1>2 DEF Live, Row
    <3>2. "lately" \in Ages /\ "before" \in Ages
      BY DEF Ages
    <3>3. PICK late \in SUBSET {r \in Live : rows[r].seen # "before"} :
            rows' = [r \in RowIds |-> IF r \in Live
                                      THEN [rows[r] EXCEPT !.seen = IF r \in late THEN "lately" ELSE "before"]
                                      ELSE None]
      BY <1>a1 DEF ScanBegin
    <3>4. QED
      BY <3>1, <3>2, <3>3 DEF RowsType
  <2>3. RestType'
    <3>1. calm' \in BOOLEAN
      BY <1>a1 DEF ScanBegin
    <3>2. QED
      BY <3>1, <1>4, <1>a1, IdleType DEF ScanBegin, Frame, server, ScanLabels
  <2>4. QED
    BY <2>1, <2>2, <2>3, TypePartsNext
<1>a2. CASE CleanupRecords
  <2>1. RecsType'
    <3>1. 0 \in 0..MaxRecs /\ 1 \in 0..MaxRecs
      BY LifecycleAssumption
    <3>2. QED
      BY <3>1, <1>a2, LifecycleAssumption DEF CleanupRecords, RecsType
  <2>2. QED
    BY <2>1, <1>2, <1>4, <1>5, <1>7, <1>8, <1>a2, TypePartsNext DEF CleanupRecords, Go, Frame, server, ScanLabels
<1>a3. CASE CleanupLinkRows \/ DropUnseen
  <2>1. RowsType'
    BY <1>2, <1>a3 DEF CleanupLinkRows, DropUnseen, RowsType
  <2>2. QED
    BY <2>1, <1>2, <1>4, <1>5, <1>6, <1>8, <1>a3, TypePartsNext
    DEF CleanupLinkRows, DropUnseen, Go, Frame, server, ScanLabels
<1>a4. CASE \E active \in BOOLEAN : WalkHot(active) \/ WalkCold(active)
  <2>1. scan' \in Scan
    <3>1. pins \subseteq Paths
      BY <1>1 DEF RestType
    <3>2. ASSUME NEW active \in BOOLEAN, WalkHot(active)
          PROVE  scan' \in Scan
      <4>1. PICK h \in BOOLEAN, t \in BOOLEAN, f \in BOOLEAN :
              scan' = [scan EXCEPT !.pins = pins, !.hot = h, !.thaw = t, !.freeze = f]
        BY <3>2 DEF WalkHot
      <4>2. QED
        BY <4>1, <3>1, <1>2 DEF Scan
    <3>3. ASSUME NEW active \in BOOLEAN, WalkCold(active)
          PROVE  scan' \in Scan
      <4>1. PICK c \in BOOLEAN, t \in BOOLEAN : scan' = [scan EXCEPT !.cold = c, !.thaw = t]
        BY <3>3 DEF WalkCold, Holds
      <4>2. QED
        BY <4>1, <1>2 DEF Scan
    <3>4. QED
      BY <1>a4, <3>2, <3>3
  <2>2. QED
    BY <2>1, <1>4, <1>5, <1>6, <1>7, <1>8, <1>a4, TypePartsNext
    DEF WalkHot, WalkCold, db, Frame, server, ScanLabels
<1>a5. CASE SyncHot \/ SyncCold
  <2>1. RowsType'
    BY <1>1, <1>a5, WritesType, LifecycleAssumption DEF SyncHot, SyncCold, Paths
  <2>2. QED
    BY <2>1, <1>2, <1>4, <1>5, <1>6, <1>8, <1>a5, TypePartsNext
    DEF SyncHot, SyncCold, Go, Frame, server, ScanLabels
<1>a6. CASE ThawMark \/ (\E to \in Locs : FreezeMark(to))
  <2>1. RowsType' /\ scan' \in Scan
    <3>1. \A r \in RowsAt("hot") : r \in Live /\ r \in RowIds
      BY DEF RowsAt, Live
    <3>2. CASE ThawMark
      <4>1. CASE UNCHANGED rows /\ scan' = [scan EXCEPT !.row = None]
        BY <1>2, <1>7, <4>1, ScanFields
      <4>2. ASSUME NEW r \in RowsAt("hot"), scan' = [scan EXCEPT !.row = r, !.old = rows[r].status],
                   SetStatus(r, "migrating")
            PROVE  RowsType' /\ scan' \in Scan
        <5>1. RowsType'
          BY <1>1, <1>3, <4>2, WritesType
        <5>2. rows[r].status \in Statuses
          BY <1>1, <3>1, LiveRow
        <5>3. QED
          BY <1>2, <3>1, <4>2, <5>1, <5>2, ScanFields
      <4>3. QED
        BY <3>2, <4>1, <4>2 DEF ThawMark
    <3>3. CASE \E to \in Locs : FreezeMark(to)
      <4>1. PICK to \in Locs, r \in RowsAt("hot") :
              /\ scan' = [scan EXCEPT !.row = r, !.old = rows[r].status, !.to = to]
              /\ SetStatus(r, "migrating")
        BY <3>3 DEF FreezeMark
      <4>2. RowsType'
        BY <1>1, <1>3, <4>1, WritesType
      <4>3. rows[r].status \in Statuses
        BY <1>1, <3>1, LiveRow
      <4>4. QED
        BY <1>2, <3>1, <4>1, <4>2, <4>3, ScanFields
    <3>4. QED
      BY <1>a6, <3>2, <3>3
  <2>2. QED
    BY <2>1, <1>4, <1>5, <1>6, <1>8, <1>a6, TypePartsNext
    DEF ThawMark, FreezeMark, Frame, server, ScanLabels
<1>a7. CASE NoThaw \/ NoFreeze
  BY <1>2, <1>4, <1>5, <1>6, <1>7, <1>8, <1>a7, TypePartsNext
  DEF NoThaw, NoFreeze, Go, Frame, server, db, ScanLabels
<1>a8. CASE ThawMove \/ FreezeMove
  <2>1. FilesType'
    BY <1>1, <1>2, <1>a8, MovesType, ScanFields, LifecycleAssumption DEF ThawMove, FreezeMove, RestType
  <2>2. QED
    BY <2>1, <1>2, <1>4, <1>6, <1>7, <1>8, <1>a8, TypePartsNext
    DEF ThawMove, FreezeMove, Go, Frame, server, db, ScanLabels
<1>a9. CASE ThawMoveFails \/ FreezeMoveFails
  <2>1. FilesType'
    <3>1. CASE ThawMoveFails
      BY <1>1, <3>1, MovesType, LifecycleAssumption DEF ThawMoveFails, FilesType
    <3>2. CASE FreezeMoveFails
      BY <1>1, <1>2, <3>2, MovesType, ScanFields DEF FreezeMoveFails
    <3>3. QED
      BY <1>a9, <3>1, <3>2
  <2>2. RowsType'
    BY <1>1, <1>2, <1>a9, WritesType, ScanFields DEF ThawMoveFails, FreezeMoveFails
  <2>3. QED
    BY <2>1, <2>2, <1>2, <1>4, <1>6, <1>a9, TypePartsNext
    DEF ThawMoveFails, FreezeMoveFails, Go, Frame, server, ScanLabels
<1>a10. CASE ThawDone \/ FreezeDone
  <2>1. RowsType'
    <3>1. scan.row \in Live => /\ scan.row \in RowIds /\ rows[scan.row].path \in Paths
                              /\ rows[scan.row].tier \in {"hot", "cold"}
      BY <1>1, LiveRow
    <3>2. CASE ThawDone
      BY <1>1, <1>3, <1>7, <3>1, <3>2, WritesType DEF ThawDone
    <3>3. CASE FreezeDone
      <4>1. scan.to \in Paths
        BY <1>2, ScanFields DEF Paths
      <4>2. QED
        BY <1>1, <1>3, <1>7, <3>1, <3>3, <4>1, WritesType DEF FreezeDone
    <3>4. QED
      BY <1>a10, <3>2, <3>3
  <2>2. RecsType'
    <3>1. \A l \in Locs : OneLess(recs[l]) \in 0..MaxRecs /\ OneMore(recs[l]) \in 0..MaxRecs
      BY <1>1, CountType DEF RecsType
    <3>2. CASE ThawDone
      BY <1>1, <1>6, <3>1, <3>2 DEF ThawDone, RecsType
    <3>3. CASE FreezeDone
      <4>1. Recorded(scan.to)
        BY <3>3 DEF FreezeDone
      <4>2. CASE recs' = [recs EXCEPT ![scan.to] = 1]
        <5>1. 1 \in 0..MaxRecs
          BY LifecycleAssumption
        <5>2. QED
          BY <1>1, <4>2, <5>1 DEF RecsType
      <4>3. ASSUME NEW l \in Locs, recs[l] > 0, l # scan.to,
                   recs' = [recs EXCEPT ![l] = @ - 1, ![scan.to] = OneMore(@)]
            PROVE  RecsType'
        <5>1. recs[l] - 1 \in 0..MaxRecs
          BY <1>1, <4>3, LifecycleAssumption DEF RecsType
        <5>2. QED
          BY <1>1, <3>1, <4>3, <5>1 DEF RecsType
      <4>4. QED
        <5>1. ASSUME NEW l \in Locs, l = scan.to, recs' = recs
              PROVE  RecsType'
          BY <1>6, <5>1
        <5>2. QED
          BY <4>1, <4>2, <4>3, <5>1 DEF Recorded
    <3>4. QED
      BY <1>a10, <3>2, <3>3
  <2>3. scan' \in Scan
    BY <1>2, <1>a10, ScanFields DEF ThawDone, FreezeDone
  <2>4. QED
    BY <2>1, <2>2, <2>3, <1>4, <1>5, <1>8, <1>a10, TypePartsNext
    DEF ThawDone, FreezeDone, Frame, server, ScanLabels
<1>a11. CASE Reconcile
  <2>1. FilesType'
    BY <1>1, <1>a11, LifecycleAssumption DEF Reconcile, FilesType
  <2>2. QED
    BY <2>1, <1>4, <1>6, <1>7, <1>8, <1>a11, TypePartsNext, IdleType
    DEF Reconcile, Frame, server, db, ScanLabels
<1>20. QED
  BY <1>a1, <1>a2, <1>a3, <1>a4, <1>a5, <1>a6, <1>a7, <1>a8, <1>a9, <1>a10, <1>a11, ScanStep
  DEF ScanStep

\* What a request has read keeps its type.
LEMMA RequestFields ==
  ASSUME req \in Request
  PROVE  req.row \in RowIds \cup {None} /\ req.old \in Statuses /\ req.to \in Locs /\ req.pin \in BOOLEAN
BY DEF Request

LEMMA RequestTypes ==
  ASSUME TypeOK, RequestStep
  PROVE  TypeOK'
<1>1. FilesType /\ RowsType /\ RecsType /\ RestType
  BY TypeParts
<1>2. req \in Request /\ req.row \in RowIds \cup {None} /\ req.old \in Statuses /\ req.to \in Locs
  BY <1>1, RequestFields DEF RestType
<1>3. "active" \in Statuses /\ "migrating" \in Statuses /\ req.to \in Paths /\ "hot" \in Paths
  BY <1>2 DEF Statuses, Paths
<1> DEFINE Frame == UNCHANGED <<op, spc, scan, kept, clash, crashes>>
<1>4. ASSUME Frame, pins' \subseteq Paths, rpc' \in RequestLabels, req' \in Request, calm' \in BOOLEAN
      PROVE  RestType'
  BY <1>1, <1>4 DEF RestType
<1>5. ASSUME UNCHANGED files
      PROVE  FilesType'
  BY <1>1, <1>5 DEF files, FilesType
<1>6. ASSUME UNCHANGED recs
      PROVE  RecsType'
  BY <1>1, <1>6 DEF RecsType
<1>7. ASSUME UNCHANGED rows
      PROVE  RowsType'
  BY <1>1, <1>7 DEF RowsType
<1>8. pins \subseteq Paths
  BY <1>1 DEF RestType
<1> HIDE DEF Frame
<1>a1. CASE \E r \in RowIds, to \in Locs, pin \in BOOLEAN : RequestFreeze(r, to, pin)
  <2>1. PICK r \in RowIds, to \in Locs, pin \in BOOLEAN : RequestFreeze(r, to, pin)
    BY <1>a1
  <2>2. r \in Live /\ rows[r].status \in Statuses
    BY <1>1, <2>1, LiveRow DEF RequestFreeze, RowsAt
  <2>3. req' \in Request
    BY <2>1, <2>2 DEF RequestFreeze, Request
  <2>4. RowsType'
    BY <1>1, <1>3, <2>1, WritesType DEF RequestFreeze
  <2>5. QED
    BY <2>1, <2>3, <2>4, <1>4, <1>5, <1>6, <1>8, TypePartsNext DEF RequestFreeze, Frame, scanner, RequestLabels
<1>a2. CASE \E r \in RowIds, pin \in BOOLEAN : RequestThaw(r, pin)
  <2>1. PICK r \in RowIds, pin \in BOOLEAN : RequestThaw(r, pin)
    BY <1>a2
  <2>2. r \in Live /\ rows[r].status \in Statuses
    BY <1>1, <2>1, LiveRow DEF RequestThaw
  <2>3. req' \in Request
    BY <2>1, <2>2 DEF RequestThaw, Request
  <2>4. QED
    BY <2>1, <2>3, <1>4, <1>5, <1>6, <1>7, <1>8, TypePartsNext DEF RequestThaw, Frame, scanner, db, RequestLabels
<1>a3. CASE RequestFreezeMove
  <2>1. FilesType'
    BY <1>1, <1>2, <1>a3, MovesType DEF RequestFreezeMove, RestType
  <2>2. RowsType'
    BY <1>1, <1>2, <1>7, <1>a3, WritesType DEF RequestFreezeMove
  <2>3. rpc' \in RequestLabels /\ req' \in Request
    BY <1>2, <1>a3, IdleType DEF RequestFreezeMove, Serve, Return, RequestLabels
  <2>4. QED
    BY <2>1, <2>2, <2>3, <1>4, <1>6, <1>8, <1>a3, TypePartsNext DEF RequestFreezeMove, Frame, scanner
<1>a4. CASE RequestFreezeDone \/ RequestThawDone
  <2>1. RowsType'
    <3>1. req.row \in Live => req.row \in RowIds /\ rows[req.row].path \in Paths
      BY <1>1, LiveRow
    <3>2. CASE RequestFreezeDone
      BY <1>1, <1>3, <1>7, <3>1, <3>2, WritesType DEF RequestFreezeDone, db
    <3>3. CASE RequestThawDone
      BY <1>1, <1>3, <1>7, <3>1, <3>3, WritesType DEF RequestThawDone
    <3>4. QED
      BY <1>a4, <3>2, <3>3
  <2>2. RecsType'
    <3>1. \A l \in Locs : OneLess(recs[l]) \in 0..MaxRecs /\ OneMore(recs[l]) \in 0..MaxRecs
      BY <1>1, CountType DEF RecsType
    <3>2. QED
      BY <1>1, <1>6, <1>a4, <3>1 DEF RequestFreezeDone, RequestThawDone, RecsType, db
  <2>3. pins' \subseteq Paths
    BY <1>3, <1>8, <1>a4 DEF RequestFreezeDone, RequestThawDone, db
  <2>4. rpc' \in RequestLabels /\ req' \in Request
    BY <1>a4, IdleType DEF RequestFreezeDone, RequestThawDone, Return, RequestLabels
  <2>5. QED
    BY <2>1, <2>2, <2>3, <2>4, <1>4, <1>5, <1>a4, TypePartsNext
    DEF RequestFreezeDone, RequestThawDone, Frame, scanner
<1>a5. CASE RequestThawMove \/ RequestThawUnlink
  <2>1. FilesType'
    <3>1. MovesBack(req.to) => FilesType'
      BY <1>1, <1>2, MovesType
    <3>2. DropsLink => link' \in Locs \cup {None}
      BY <1>1, <1>2, MovesType
    <3>3. disk' = [disk EXCEPT ![req.to] = NoFile] /\ UNCHANGED link => FilesType'
      BY <1>1, TargetType DEF FilesType
    <3>4. UNCHANGED disk /\ link' \in Locs \cup {None} => FilesType'
      BY <1>1 DEF FilesType
    <3>5. QED
      BY <1>1, <1>a5, <3>1, <3>2, <3>3, <3>4 DEF RequestThawMove, RequestThawUnlink, FilesType
  <2>2. rpc' \in RequestLabels /\ req' \in Request
    BY <1>2, <1>a5, IdleType DEF RequestThawMove, RequestThawUnlink, Serve, Return, RequestLabels
  <2>3. QED
    BY <2>1, <2>2, <1>4, <1>6, <1>7, <1>8, <1>a5, TypePartsNext
    DEF RequestThawMove, RequestThawUnlink, Frame, scanner, db
<1>a7. CASE RequestThawLook
  <2>1. rpc' \in RequestLabels /\ req' \in Request
    BY <1>2, <1>a7 DEF RequestThawLook, Serve, RequestLabels
  <2>2. QED
    BY <2>1, <1>4, <1>5, <1>6, <1>7, <1>8, <1>a7, TypePartsNext DEF RequestThawLook, Frame, scanner, db
<1>a6. CASE \E r \in RowIds : TogglePin(r)
  <2>1. PICK r \in RowIds : TogglePin(r)
    BY <1>a6
  <2>2. rows[r].path \in Paths
    BY <1>1, <2>1, LiveRow DEF TogglePin
  <2>3. pins' \subseteq Paths
    BY <1>8, <2>1, <2>2 DEF TogglePin
  <2>4. rpc' \in RequestLabels /\ req' \in Request /\ calm' \in BOOLEAN
    BY <1>1, <2>1 DEF TogglePin, server, RestType
  <2>5. QED
    BY <2>1, <2>3, <2>4, <1>4, <1>5, <1>6, <1>7, TypePartsNext DEF TogglePin, Frame, scanner
<1>20. QED
  BY <1>a1, <1>a2, <1>a3, <1>a4, <1>a5, <1>a6, <1>a7, RequestStep DEF RequestStep

LEMMA OtherTypes ==
  ASSUME TypeOK, User \/ Crash
  PROVE  TypeOK'
<1>1. FilesType /\ RowsType /\ RecsType /\ RestType
  BY TypeParts
<1>2. ASSUME UNCHANGED db
      PROVE  RowsType' /\ RecsType' /\ pins' \subseteq Paths
  BY <1>1, <1>2 DEF db, RowsType, RecsType, RestType
<1>a1. CASE \E d \in Data : Save(d)
  <2>1. PICK d \in Data : Save(d)
    BY <1>a1
  <2>2. FilesType'
    BY <1>1, <2>1, TargetType DEF Save, FilesType
  <2>3. RestType'
    BY <1>1, <1>2, <2>1 DEF Save, RestType, scanner, server
  <2>4. QED
    BY <2>1, <2>2, <2>3, <1>2, TypePartsNext DEF Save
<1>a2. CASE Remove
  <2>1. FilesType'
    BY <1>1, <1>a2, TargetType DEF Remove, FilesType
  <2>2. RestType'
    BY <1>1, <1>2, <1>a2 DEF Remove, RestType, scanner, server
  <2>3. QED
    BY <2>1, <2>2, <1>2, <1>a2, TypePartsNext DEF Remove
<1>a3. CASE Crash
  <2>1. FilesType'
    BY <1>1, <1>a3 DEF Crash, FilesType, files
  <2>2. crashes' \in 0..MaxCrashes
    BY <1>1, <1>a3, LifecycleAssumption DEF Crash, RestType
  <2>3. RestType'
    BY <1>1, <1>2, <1>a3, <2>2, IdleType DEF Crash, RestType, ScanLabels, RequestLabels
  <2>4. QED
    BY <2>1, <2>3, <1>2, <1>a3, TypePartsNext DEF Crash
<1>20. QED
  BY <1>a1, <1>a2, <1>a3, User \/ Crash DEF User

LEMMA TypeNext == TypeOK /\ [Next]_vars => TypeOK'
<1>1. TypeOK /\ UNCHANGED vars => TypeOK'
  BY DEF vars, TypeOK
<1>2. QED
  BY <1>1, ScanTypes, RequestTypes, OtherTypes DEF Next

\* Every variable keeps its type, for any paths, locations, requests and errors.
THEOREM LifecycleTypes == Spec => []TypeOK
<1>1. QED
  BY TypeInitial, TypeNext, PTL DEF Spec

-----------------------------------------------------------------------------
(* The inventory after an undisturbed scan.                                *)

\* A tier whose rows are all unseen has one seen active row after its update if
\* the walk found the file, and none otherwise; other paths' rows stay.
LEMMA SyncSole ==
  ASSUME RowsType, NEW p \in Paths, NEW t \in {"hot", "cold"}, NEW found \in BOOLEAN,
         \A r \in RowsAt(p) : rows[r].seen # "since", Sync(p, t, found)
  PROVE  /\ Sole(SeenAt(p)', found)
         /\ \A r \in SeenAt(p)' : rows'[r].tier = t
         /\ \A r \in Live' : rows'[r].seen = "since" => rows'[r].path = p \/ (r \in Live /\ rows[r].seen = "since" /\ rows'[r] = rows[r])
         /\ \A q \in Paths \ {p} : SeenAt(q)' = SeenAt(q)
<1>1. SeenAt(p) = {}
  BY DEF SeenAt, ActiveAt
<1>2. CASE UNCHANGED rows /\ ~found
  <2>1. SeenAt(p)' = {} /\ \A q \in Paths : SeenAt(q)' = SeenAt(q)
    BY <1>1, <1>2 DEF SeenAt, ActiveAt, RowsAt, Live
  <2>2. Live' = Live
    BY <1>2 DEF Live
  <2>3. QED
    BY <1>2, <2>1, <2>2 DEF Sole
<1>3. ASSUME NEW r \in RowIds, SetRow(r, RowOf(p, t, "active")), found,
             r \in RowsAt(p) \/ (rows[r] = None /\ RowsAt(p) = {})
      PROVE  /\ Sole(SeenAt(p)', found)
             /\ \A s \in SeenAt(p)' : rows'[s].tier = t
             /\ \A s \in Live' : rows'[s].seen = "since" => rows'[s].path = p \/ (s \in Live /\ rows[s].seen = "since" /\ rows'[s] = rows[s])
             /\ \A q \in Paths \ {p} : SeenAt(q)' = SeenAt(q)
  <2>1. RowOf(p, t, "active") \in Row /\ RowOf(p, t, "active") # None
    BY RowOfType DEF Statuses
  <2>2. /\ rows'[r] = RowOf(p, t, "active")
        /\ \A s \in RowIds : s # r => rows'[s] = rows[s]
    BY <1>3 DEF SetRow, RowsType
  <2>3. /\ rows'[r] # None /\ rows'[r].path = p /\ rows'[r].tier = t
        /\ rows'[r].status = "active" /\ rows'[r].seen = "since"
    BY <2>1, <2>2 DEF RowOf
  <2>4. r \in Live' /\ \A s \in RowIds : s # r => (s \in Live' <=> s \in Live)
    BY <2>2, <2>3 DEF Live
  <2>5. r \in SeenAt(p)'
    BY <2>3, <2>4 DEF SeenAt, ActiveAt, RowsAt
  <2>6. \A s \in RowIds : s # r => s \notin SeenAt(p)'
    BY <1>1, <2>2, <2>4 DEF SeenAt, ActiveAt, RowsAt, Live
  <2>7. SeenAt(p)' = {r}
    <3>1. SeenAt(p)' \subseteq RowIds
      BY DEF SeenAt, ActiveAt, RowsAt, Live
    <3>2. QED
      BY <2>5, <2>6, <3>1
  <2>8. ASSUME NEW q \in Paths \ {p}
        PROVE  SeenAt(q)' = SeenAt(q)
    <3>1. r \notin SeenAt(q) /\ r \notin SeenAt(q)'
      BY <1>3, <2>3, <2>8 DEF SeenAt, ActiveAt, RowsAt, Live
    <3>2. \A s \in RowIds : s # r => (s \in SeenAt(q)' <=> s \in SeenAt(q))
      BY <2>2, <2>4 DEF SeenAt, ActiveAt, RowsAt
    <3>3. SeenAt(q) \subseteq RowIds /\ SeenAt(q)' \subseteq RowIds
      BY DEF SeenAt, ActiveAt, RowsAt, Live
    <3>4. QED
      BY <3>1, <3>2, <3>3
  <2>9. \A s \in Live' : rows'[s].seen = "since" => rows'[s].path = p \/ (s \in Live /\ rows[s].seen = "since" /\ rows'[s] = rows[s])
    <3>1. \A s \in Live' : s \in RowIds
      BY DEF Live
    <3>2. ASSUME NEW s \in Live', s # r, rows'[s].seen = "since"
          PROVE  s \in Live /\ rows[s].seen = "since" /\ rows'[s] = rows[s]
      BY <2>2, <2>4, <3>1, <3>2
    <3>3. ASSUME NEW s \in Live', rows'[s].seen = "since"
          PROVE  rows'[s].path = p \/ (s \in Live /\ rows[s].seen = "since" /\ rows'[s] = rows[s])
      <4>1. CASE s = r
        <5>1. rows'[s].path = p
          BY <2>3, <4>1
        <5>2. QED
          BY <5>1, Zenon
      <4>2. CASE s # r
        BY <3>2, <3>3, <4>2
      <4>3. QED
        BY <4>1, <4>2
    <3>4. QED
      BY <3>3, Zenon
  <2>10. QED
    BY <1>3, <2>3, <2>7, <2>8, <2>9 DEF Sole
<1>4. RowsAt(p) \subseteq RowIds /\ FreeIds \subseteq RowIds /\ \A r \in FreeIds : rows[r] = None
  BY DEF RowsAt, Live, FreeIds
<1>5. CASE ~found
  BY <1>2, <1>5 DEF Sync
<1>6. CASE found /\ RowsAt(p) # {}
  <2>1. PICK r \in RowsAt(p) : SetRow(r, RowOf(p, t, "active"))
    BY <1>6 DEF Sync
  <2>2. QED
    BY <1>3, <1>4, <1>6, <2>1
<1>7. CASE found /\ RowsAt(p) = {}
  <2>1. PICK r \in FreeIds : SetRow(r, RowOf(p, t, "active"))
    BY <1>7 DEF Sync
  <2>2. QED
    BY <1>3, <1>4, <1>7, <2>1
<1>8. QED
  BY <1>5, <1>6, <1>7

\* What is present depends on the disk and the link alone.
LEMMA PresentFrame ==
  ASSUME UNCHANGED files
  PROVE  /\ Present("hot")' = Present("hot") /\ Present(First)' = Present(First)
         /\ HotExists' = HotExists /\ Target' = Target /\ \A l \in Locs : Holds(l)' = Holds(l)
BY DEF files, Present, HotExists, Target, Holds

\* Only an undisturbed scan's step, or a pin, keeps a scan undisturbed.
LEMMA CalmSteps ==
  ASSUME [Next]_vars, calm'
  PROVE  \/ ScanBegin
         \/ /\ calm
            /\ \/ CleanupRecords \/ CleanupLinkRows
               \/ \E active \in BOOLEAN : WalkHot(active) \/ WalkCold(active)
               \/ SyncHot \/ SyncCold \/ DropUnseen
               \/ ThawMark \/ NoThaw \/ ThawMove \/ ThawDone
               \/ (\E to \in Locs : FreezeMark(to)) \/ NoFreeze \/ FreezeMove \/ FreezeDone \/ Reconcile
               \/ (\E r \in RowIds : TogglePin(r)) \/ UNCHANGED vars
<1>1. CASE ScanStep
  <2>1. ~ThawMoveFails /\ ~FreezeMoveFails
    BY DEF ThawMoveFails, FreezeMoveFails
  <2>2. calm \/ ScanBegin
    BY <1>1, <2>1 DEF ScanStep, CleanupRecords, CleanupLinkRows, WalkHot, WalkCold, SyncHot, SyncCold,
       DropUnseen, ThawMark, NoThaw, ThawMove, ThawDone, FreezeMark, NoFreeze, FreezeMove, FreezeDone, Reconcile
  <2>3. QED
    BY <1>1, <2>1, <2>2 DEF ScanStep
<1>2. CASE RequestStep
  BY <1>2 DEF RequestStep, RequestFreeze, RequestThaw, RequestFreezeMove, RequestFreezeDone,
     RequestThawLook, RequestThawMove, RequestThawUnlink, RequestThawDone, TogglePin
<1>3. CASE User \/ Crash
  BY <1>3 DEF User, Save, Remove, Crash
<1>4. CASE UNCHANGED vars
  BY <1>4 DEF vars
<1>5. QED
  BY <1>1, <1>2, <1>3, <1>4 DEF Next

LEMMA WalkNext ==
  ASSUME TypeOK, WalkInv, [Next]_vars, calm'
  PROVE  (Alone /\ UnseenYet /\ WalkedHot /\ WalkedCold /\ SyncedHot /\ SyncedBoth /\ Dropped)'
<1> DEFINE Parts == Alone /\ UnseenYet /\ WalkedHot /\ WalkedCold /\ SyncedHot /\ SyncedBoth /\ Dropped
<1>1. RowsType /\ scan \in Scan
  BY DEF TypeOK, RowsType
<1> USE PresentFrame
<1>2. ASSUME spc' \notin BeforeSync, spc' \notin {"synccold", "drop", "thaw"}, spc' # "idle" \/ calm, Alone'
      PROVE  Parts'
  BY <1>2 DEF UnseenYet, WalkedHot, WalkedCold, SyncedHot, SyncedBoth, Dropped, BeforeSync
<1>a1. CASE ScanBegin
  <2>1. \A r \in Live' : rows'[r].seen # "since"
    <3>1. \A r \in Live' : /\ r \in RowIds /\ r \in Live
                           /\ \/ rows'[r] = [rows[r] EXCEPT !.seen = "lately"]
                              \/ rows'[r] = [rows[r] EXCEPT !.seen = "before"]
      BY <1>a1 DEF ScanBegin, Live
    <3>2. \A r \in Live : rows[r] \in Row
      BY <1>1, LiveRow
    <3>3. QED
      BY <3>1, <3>2 DEF Row
  <2>2. Alone' /\ spc' = "records"
    BY <1>a1 DEF ScanBegin, server, Alone
  <2>3. QED
    BY <2>1, <2>2 DEF UnseenYet, WalkedHot, WalkedCold, SyncedHot, SyncedBoth, Dropped
<1>3. CASE calm /\ ~ScanBegin
  <2>0. Parts
    BY <1>3 DEF WalkInv
  <2>1. Alone'
    BY <1>3, <2>0, CalmSteps DEF Alone, CleanupRecords, CleanupLinkRows, WalkHot, WalkCold, SyncHot, SyncCold,
       DropUnseen, ThawMark, NoThaw, ThawMove, ThawDone, FreezeMark, NoFreeze, FreezeMove, FreezeDone,
       Reconcile, TogglePin, server, vars
  <2>2. ASSUME UNCHANGED rows
        PROVE  /\ Live' = Live
               /\ \A p \in Paths : SeenAt(p)' = SeenAt(p) /\ DueAt(p)' = DueAt(p)
    BY <2>2 DEF Live, SeenAt, DueAt, ActiveAt, RowsAt
  <2>3. "hot" \in Paths /\ First \in Paths /\ First # "hot"
    BY LifecycleAssumption DEF Paths
  <2>a2. CASE CleanupRecords
    <3>1. spc' = "linkrows" /\ UnseenYet'
      BY <2>0, <2>2, <2>a2 DEF CleanupRecords, Go, UnseenYet, BeforeSync
    <3>2. QED
      BY <2>1, <3>1 DEF WalkedHot, WalkedCold, SyncedHot, SyncedBoth, Dropped
  <2>a3. CASE CleanupLinkRows
    <3>1. \A r \in Live' : r \in Live /\ rows'[r] = rows[r]
      BY <1>1, <2>a3 DEF CleanupLinkRows, Live, RowsType
    <3>2. spc' = "walkhot" /\ UnseenYet'
      BY <2>0, <2>a3, <3>1 DEF CleanupLinkRows, Go, UnseenYet, BeforeSync
    <3>3. QED
      BY <2>1, <3>2 DEF WalkedHot, WalkedCold, SyncedHot, SyncedBoth, Dropped
  <2>a4. CASE \E active \in BOOLEAN : WalkHot(active)
    <3>1. spc' = "walkcold" /\ UNCHANGED files /\ UNCHANGED rows
      BY <2>a4 DEF WalkHot, db
    <3>2. UnseenYet'
      BY <2>0, <2>2, <2>a4, <3>1 DEF WalkHot, UnseenYet, BeforeSync
    <3>3. scan'.hot = Present("hot")
      BY <1>1, <2>a4 DEF WalkHot, Present, Scan
    <3>4. WalkedHot'
      BY <3>1, <3>3 DEF WalkedHot
    <3>5. QED
      BY <2>1, <3>1, <3>2, <3>4 DEF WalkedCold, SyncedHot, SyncedBoth, Dropped
  <2>a5. CASE \E active \in BOOLEAN : WalkCold(active)
    <3>1. spc' = "synchot" /\ UNCHANGED files /\ UNCHANGED rows /\ spc = "walkcold"
      BY <2>a5 DEF WalkCold, db
    <3>2. UnseenYet'
      BY <2>0, <2>2, <3>1 DEF UnseenYet, BeforeSync
    <3>3. scan'.cold = Present(First) /\ scan'.hot = scan.hot
      BY <1>1, <2>3, <2>a5 DEF WalkCold, Present, Scan
    <3>4. WalkedHot' /\ WalkedCold'
      BY <2>0, <3>1, <3>3 DEF WalkedHot, WalkedCold
    <3>5. QED
      BY <2>1, <3>1, <3>2, <3>4 DEF SyncedHot, SyncedBoth, Dropped
  <2>a6. CASE SyncHot
    <3>1. spc' = "synccold" /\ UNCHANGED files /\ UNCHANGED scan /\ spc = "synchot"
      BY <2>a6 DEF SyncHot, Go
    <3>2. WalkedHot' /\ WalkedCold'
      BY <2>0, <3>1 DEF WalkedHot, WalkedCold
    <3>3. \A r \in Live : rows[r].seen # "since"
      BY <2>0, <3>1 DEF UnseenYet, BeforeSync
    <3>4. scan.hot = Present("hot") /\ scan.hot \in BOOLEAN /\ Present("hot")' = Present("hot")
      BY <1>1, <2>0, <3>1 DEF WalkedHot, Scan
    <3>5. /\ Sole(SeenAt("hot")', scan.hot)
          /\ \A r \in Live' : rows'[r].seen = "since" => rows'[r].path = "hot"
      BY <1>1, <2>3, <2>a6, <3>3, <3>4, SyncSole DEF SyncHot, RowsAt
    <3>6. SyncedHot'
      BY <3>4, <3>5 DEF SyncedHot, Sole
    <3>7. QED
      BY <2>1, <3>1, <3>2, <3>6 DEF UnseenYet, BeforeSync, SyncedBoth, Dropped
  <2>a7. CASE SyncCold
    <3>1. spc' = "drop" /\ UNCHANGED files /\ UNCHANGED scan /\ spc = "synccold"
      BY <2>a7 DEF SyncCold, Go
    <3>2. WalkedHot' /\ WalkedCold'
      BY <2>0, <3>1 DEF WalkedHot, WalkedCold
    <3>3. Sole(SeenAt("hot"), Present("hot")) /\ \A r \in RowsAt(First) : rows[r].seen # "since"
      BY <2>0, <2>3, <3>1 DEF SyncedHot, RowsAt
    <3>4. scan.cold = Present(First) /\ scan.cold \in BOOLEAN
      BY <1>1, <2>0, <3>1 DEF WalkedCold, Scan
    <3>5. Sole(SeenAt(First)', scan.cold) /\ SeenAt("hot")' = SeenAt("hot")
      BY <1>1, <2>3, <2>a7, <3>3, <3>4, SyncSole DEF SyncCold
    <3>6. SyncedBoth'
      BY <3>1, <3>3, <3>4, <3>5 DEF SyncedBoth, Sole
    <3>7. QED
      BY <2>1, <3>1, <3>2, <3>6 DEF UnseenYet, BeforeSync, SyncedHot, Dropped
  <2>a8. CASE DropUnseen
    <3>1. spc' = "thaw" /\ UNCHANGED files /\ spc = "drop"
      BY <2>a8 DEF DropUnseen, Go
    <3>2. ASSUME NEW p \in Paths
          PROVE  DueAt(p)' = SeenAt(p)
      <4>1. \A r \in RowIds : rows'[r] = IF r \in Live /\ rows[r].status = "active" /\ rows[r].seen = "before"
                                         THEN None ELSE rows[r]
        BY <2>a8 DEF DropUnseen
      <4>2. \A r \in Live : rows[r].seen \in {"since", "lately", "before"}
        BY <1>1, LiveRow DEF Ages
      <4>3. \A r \in RowIds : r \in DueAt(p)' <=> r \in SeenAt(p)
        BY <4>1, <4>2 DEF SeenAt, DueAt, ActiveAt, RowsAt, Live
      <4>4. DueAt(p)' \subseteq RowIds /\ SeenAt(p) \subseteq RowIds
        BY DEF SeenAt, DueAt, ActiveAt, RowsAt, Live
      <4>5. QED
        BY <4>3, <4>4
    <3>3. Dropped'
      BY <2>0, <2>3, <3>1, <3>2 DEF SyncedBoth, Dropped, Sole
    <3>4. QED
      BY <2>1, <3>1, <3>3 DEF UnseenYet, BeforeSync, WalkedHot, WalkedCold, SyncedHot, SyncedBoth
  <2>a9. CASE \/ ThawMark \/ NoThaw \/ ThawMove \/ ThawDone \/ (\E to \in Locs : FreezeMark(to))
              \/ NoFreeze \/ FreezeMove \/ FreezeDone \/ Reconcile
    <3>1. spc' \in {"thawmove", "freeze", "thawdone", "freezemove", "reconcile", "freezedone", "idle"}
      BY <2>a9 DEF ThawMark, NoThaw, ThawMove, ThawDone, FreezeMark, NoFreeze, FreezeMove, FreezeDone,
         Reconcile, Go
    <3>2. QED
      BY <1>2, <1>3, <2>1, <3>1 DEF BeforeSync
  <2>a10. CASE (\E r \in RowIds : TogglePin(r)) \/ UNCHANGED vars
    <3>1. UNCHANGED <<spc, scan, rows, files>>
      BY <2>a10 DEF TogglePin, scanner, vars, files
    <3>2. UnseenYet' /\ WalkedHot' /\ WalkedCold'
      BY <2>0, <2>2, <3>1 DEF UnseenYet, WalkedHot, WalkedCold
    <3>3. SyncedHot' /\ SyncedBoth' /\ Dropped'
      BY <2>0, <2>2, <2>3, <3>1 DEF SyncedHot, SyncedBoth, Dropped, Sole
    <3>4. QED
      BY <2>1, <3>2, <3>3
  <2>20. QED
    BY <1>3, CalmSteps, <2>a2, <2>a3, <2>a4, <2>a5, <2>a6, <2>a7, <2>a8, <2>a9, <2>a10
<1>4. QED
  BY <1>a1, <1>3, CalmSteps

LEMMA WalkInvariant == Spec => [](TypeOK /\ WalkInv)
<1>1. Init => WalkInv
  BY DEF Init, WalkInv
<1>2. TypeOK /\ WalkInv /\ [Next]_vars => WalkInv'
  BY WalkNext DEF WalkInv
<1>3. QED
  BY <1>1, <1>2, TypeInitial, TypeNext, PTL DEF Spec

\* After an undisturbed update of the inventory each file the scan walks has exactly one
\* active row and a missing one none, whatever crashes, races and errors came before: apart
\* from rows updated in the last minute before the scan, which it spares.
THEOREM InventoryIsSynced == Spec => []InventorySynced
<1>1. ASSUME NEW S, NEW b \in BOOLEAN, Sole(S, b)
      PROVE  Cardinality(S) = IF b THEN 1 ELSE 0
  BY <1>1, FS_Singleton, FS_EmptySet DEF Sole
<1>2. TypeOK /\ WalkInv => InventorySynced
  <2>1. Present("hot") \in BOOLEAN /\ Present(First) \in BOOLEAN
    BY DEF Present, Holds
  <2>2. QED
    BY <1>1, <2>1 DEF WalkInv, Dropped, DueAt, InventorySynced
<1>3. QED
  BY <1>2, WalkInvariant, PTL

\* Such a scan keeps a row of each file that is there (a path with one storage location:
\* the rows of the others are dropped, see the run FileLifecycle_rows).
THEOREM OnlyMissingDropped ==
  ASSUME Locs = {First}
  PROVE  Spec => DropsOnlyMissing
<1>1. TypeOK /\ WalkInv /\ [Next]_vars =>
        [DropUnseen /\ calm =>
            \A p \in Paths : RowsAt(p) # {} /\ Present(p) => \E r \in RowsAt(p) : rows'[r] # None]_vars
  <2>1. SUFFICES ASSUME TypeOK, WalkInv, DropUnseen, calm, NEW p \in Paths, Present(p)
                 PROVE  \E r \in RowsAt(p) : rows'[r] # None
    OBVIOUS
  <2>2. \E r \in SeenAt(p) : SeenAt(p) = {r}
    BY <2>1 DEF WalkInv, SyncedBoth, Sole, DropUnseen, Paths
  <2>3. PICK r \in SeenAt(p) : TRUE
    BY <2>2
  <2>4. rows'[r] # None
    BY <2>1, <2>3 DEF DropUnseen, SeenAt, ActiveAt, RowsAt, Live
  <2>5. QED
    BY <2>3, <2>4 DEF SeenAt, ActiveAt
<1>2. QED
  BY <1>1, WalkInvariant, PTL DEF Spec, DropsOnlyMissing

-----------------------------------------------------------------------------
(* Pins.                                                                   *)

\* A path keeps its operation type.
LEMMA OpStays ==
  ASSUME [Next]_vars
  PROVE  op' = op
BY DEF vars, Next, ScanStep, RequestStep, User, ScanBegin, CleanupRecords, CleanupLinkRows, WalkHot, WalkCold,
   SyncHot, SyncCold, DropUnseen, ThawMark, NoThaw, ThawMove, ThawMoveFails, ThawDone, FreezeMark,
   NoFreeze, FreezeMove, FreezeMoveFails, FreezeDone, Reconcile, RequestFreeze, RequestThaw,
   RequestFreezeMove, RequestFreezeDone, RequestThawLook, RequestThawMove, RequestThawUnlink, RequestThawDone, TogglePin, Save, Remove, Crash

\* Only a path of symlinks gets a link.
LEMMA NoLinks ==
  ASSUME TypeOK, [Next]_vars, op # "symlink" => link = None
  PROVE  op' = op /\ (op # "symlink" => link' = None)
<1>1. op' = op
  BY OpStays
<1>2. ASSUME op # "symlink" PROVE link' = None
  <2>1. link = None /\ op \in {"move", "copy"}
    BY <1>2, LifecycleAssumption DEF TypeOK, OperationTypes
  <2>2. UNCHANGED files \/ UNCHANGED link => link' = None
    BY <2>1 DEF files
  <2>3. /\ \A to : Moves(to) \/ MoveFails(to) \/ MovesBack(to) => link' = None
        /\ DropsLink => link' = None
    BY <2>1, <2>2 DEF Moves, MoveFails, MovesBack, DropsLink
  <2>4. CASE ScanStep
    BY <1>2, <2>2, <2>3, <2>4 DEF ScanStep, ScanBegin, CleanupRecords, CleanupLinkRows, WalkHot, WalkCold,
       SyncHot, SyncCold, DropUnseen, ThawMark, NoThaw, ThawMove, ThawMoveFails, ThawDone, FreezeMark,
       NoFreeze, FreezeMove, FreezeMoveFails, FreezeDone, Reconcile
  <2>5. CASE RequestStep
    BY <2>2, <2>3, <2>5 DEF RequestStep, RequestFreeze, RequestThaw, RequestFreezeMove,
       RequestFreezeDone, RequestThawLook, RequestThawMove, RequestThawUnlink, RequestThawDone, TogglePin
  <2>6. CASE User \/ Crash \/ UNCHANGED vars
    BY <2>1, <2>2, <2>6 DEF User, Save, Remove, Crash, vars
  <2>7. QED
    BY <2>4, <2>5, <2>6 DEF Next
<1>3. QED
  BY <1>1, <1>2

\* Requests and users leave what the scan has read and decided alone.
LEMMA ScanFrame ==
  ASSUME RequestStep \/ User \/ UNCHANGED vars
  PROVE  UNCHANGED <<spc, scan>>
BY DEF RequestStep, User, RequestFreeze, RequestThaw, RequestFreezeMove, RequestFreezeDone, RequestThawLook,
   RequestThawMove, RequestThawUnlink, RequestThawDone, TogglePin, Save, Remove, scanner, vars

LEMMA PinNext ==
  ASSUME TypeOK, PinInv, [Next]_vars
  PROVE  PinInv'
<1>1. /\ op' = op /\ (op # "symlink" => link = None) /\ (op # "symlink" => link' = None)
      /\ scan \in Scan /\ First \in Locs /\ None \notin Locs
  BY NoLinks, LifecycleAssumption DEF PinInv, TypeOK
<1> DEFINE Marked == /\ spc = "thawmove" => scan.thaw
                     /\ spc = "freezemove" => scan.freeze
           Decided == /\ scan.freeze => "hot" \notin scan.pins
                      /\ op # "symlink" /\ scan.thaw => "hot" \notin scan.pins /\ First \notin scan.pins
<1>2. Marked /\ Decided
  BY DEF PinInv
<1>3. ASSUME Marked', Decided' PROVE PinInv'
  BY <1>1, <1>3 DEF PinInv
<1>4. ASSUME spc' \notin {"thawmove", "freezemove"} PROVE Marked'
  BY <1>4
<1>5. ASSUME scan'.pins = scan.pins, scan'.thaw = scan.thaw, scan'.freeze = scan.freeze PROVE Decided'
  BY <1>1, <1>2, <1>5
<1>a1. CASE spc' = "idle" /\ scan' = Idle
  BY <1>1, <1>3, <1>4, <1>a1 DEF Idle
<1>a2. CASE ScanBegin
  BY <1>1, <1>3, <1>4, <1>a2 DEF ScanBegin, Idle
<1>a3. CASE \E active \in BOOLEAN : WalkHot(active)
  <2>1. PICK active \in BOOLEAN : WalkHot(active)
    BY <1>a3
  <2>2. /\ scan'.pins = pins /\ (scan'.freeze => "hot" \notin pins)
        /\ (scan'.thaw => "hot" \notin pins /\ link = First)
    BY <1>1, <2>1 DEF WalkHot, Scan
  <2>3. QED
    BY <1>1, <1>3, <1>4, <2>1, <2>2 DEF WalkHot
<1>a4. CASE \E active \in BOOLEAN : WalkCold(active)
  <2>1. PICK active \in BOOLEAN : WalkCold(active)
    BY <1>a4
  <2>2. /\ scan'.pins = scan.pins /\ scan'.freeze = scan.freeze
        /\ (scan'.thaw => scan.thaw \/ {"hot", First} \cap scan.pins = {})
    BY <1>1, <2>1 DEF WalkCold, Scan
  <2>3. Decided'
    BY <1>1, <1>2, <2>2
  <2>4. QED
    BY <1>3, <1>4, <2>1, <2>3 DEF WalkCold
<1>a5. CASE ThawMark
  <2>1. scan'.pins = scan.pins /\ scan'.thaw = scan.thaw /\ scan'.freeze = scan.freeze
    BY <1>1, <1>a5 DEF ThawMark, Scan
  <2>2. Marked'
    BY <1>a5, <2>1 DEF ThawMark
  <2>3. QED
    BY <1>3, <1>5, <2>1, <2>2
<1>a6. CASE \E to \in Locs : FreezeMark(to)
  <2>1. scan'.pins = scan.pins /\ scan'.thaw = scan.thaw /\ scan'.freeze = scan.freeze
    BY <1>1, <1>a6 DEF FreezeMark, Scan
  <2>2. Marked'
    BY <1>a6, <2>1 DEF FreezeMark
  <2>3. QED
    BY <1>3, <1>5, <2>1, <2>2
<1>a7. CASE ThawDone \/ FreezeDone
  <2>1. scan'.pins = scan.pins /\ scan'.thaw = scan.thaw /\ scan'.freeze = scan.freeze
    BY <1>1, <1>a7 DEF ThawDone, FreezeDone, Scan
  <2>2. QED
    BY <1>3, <1>4, <1>5, <1>a7, <2>1 DEF ThawDone, FreezeDone
<1>a8. CASE \/ CleanupRecords \/ CleanupLinkRows \/ SyncHot \/ SyncCold \/ DropUnseen \/ NoThaw \/ ThawMove
            \/ ThawMoveFails \/ NoFreeze \/ FreezeMove \/ FreezeMoveFails
  <2>1. scan' = scan /\ spc' \notin {"thawmove", "freezemove"}
    BY <1>a8 DEF CleanupRecords, CleanupLinkRows, SyncHot, SyncCold, DropUnseen, NoThaw, ThawMove,
       ThawMoveFails, NoFreeze, FreezeMove, FreezeMoveFails, Go
  <2>2. QED
    BY <1>3, <1>4, <1>5, <2>1
<1>a9. CASE RequestStep \/ User \/ UNCHANGED vars
  BY <1>2, <1>3, <1>5, <1>a9, ScanFrame
<1>20. QED
  BY <1>a1, <1>a2, <1>a3, <1>a4, <1>a5, <1>a6, <1>a7, <1>a8, <1>a9 DEF Next, ScanStep, Reconcile, Crash

\* A scan does not move away a file that was pinned when it read the pins and still is,
\* whatever requests and users do meanwhile (not for symlinks).
THEOREM PinnedFilesStay == Spec => PinnedStays
<1>1. Init => PinInv
  BY DEF Init, PinInv, Idle
<1>2. TypeOK /\ PinInv /\ [Next]_vars => PinInv'
  BY PinNext
<1>3. TypeOK /\ PinInv /\ [Next]_vars =>
        [op # "symlink" /\ (ThawMove \/ FreezeMove) =>
            \A p \in scan.pins \cap pins : disk[p] # NoFile => disk'[p] # NoFile]_vars
  <2>1. SUFFICES ASSUME TypeOK, PinInv, op # "symlink", ThawMove \/ FreezeMove,
                        NEW p \in scan.pins, p \in Paths, disk[p] # NoFile
                 PROVE  disk'[p] # NoFile
    BY DEF TypeOK
  <2>2. FilesType /\ First \in Paths /\ "hot" \in Paths /\ First # "hot" /\ Target = "hot"
    BY <2>1, TypeParts, TargetType, LifecycleAssumption DEF PinInv, Paths
  <2>3. CASE ThawMove
    <3>1. p # First
      BY <2>1, <2>3 DEF ThawMove, PinInv
    <3>2. QED
      BY <2>1, <2>2, <2>3, <3>1 DEF ThawMove, MovesBack, Holds, FilesType
  <2>4. CASE FreezeMove
    <3>1. p # "hot"
      BY <2>1, <2>4 DEF FreezeMove, PinInv
    <3>2. QED
      BY <2>1, <2>2, <2>4, <3>1 DEF FreezeMove, Moves, HotExists, FilesType
  <2>5. QED
    BY <2>1, <2>3, <2>4
<1>4. QED
  BY <1>1, <1>2, <1>3, TypeInitial, TypeNext, PTL DEF Spec, PinnedStays

-----------------------------------------------------------------------------
(* Links.                                                                  *)

LEMMA TiersNext ==
  ASSUME TypeOK, WalkInv, LinkInv, [Next]_vars, calm', op' = "symlink"
  PROVE  Tiers'
<1>1. RowsType /\ scan \in Scan /\ op = "symlink"
  BY OpStays DEF TypeOK, RowsType
<1>2. "hot" \in Paths /\ First \in Paths /\ First # "hot"
  BY LifecycleAssumption DEF Paths
<1>3. ASSUME UNCHANGED rows
      PROVE  ActiveAt("hot")' = ActiveAt("hot") /\ \A p \in Paths : SeenAt(p)' = SeenAt(p)
  BY <1>3 DEF SeenAt, ActiveAt, RowsAt, Live
<1>4. ASSUME spc' \notin {"synccold", "drop"}, spc' \notin AfterSync PROVE Tiers'
  BY <1>4 DEF Tiers
<1>a1. CASE ScanBegin
  BY <1>4, <1>a1 DEF ScanBegin, AfterSync
<1>5. CASE calm /\ ~ScanBegin
  <2>0. /\ WalkInv /\ Tiers /\ UnseenYet /\ SyncedHot /\ WalkedHot /\ WalkedCold
    BY <1>1, <1>5 DEF WalkInv, LinkInv
  <2>1. CASE \/ CleanupRecords \/ CleanupLinkRows \/ Reconcile
             \/ \E active \in BOOLEAN : WalkHot(active) \/ WalkCold(active)
    BY <1>4, <2>1 DEF CleanupRecords, CleanupLinkRows, WalkHot, WalkCold, Reconcile, Go, AfterSync
  <2>2. CASE SyncHot
    <3>1. spc = "synchot" /\ spc' = "synccold"
      BY <2>2 DEF SyncHot, Go
    <3>2. \A r \in RowsAt("hot") : rows[r].seen # "since"
      BY <2>0, <3>1 DEF UnseenYet, BeforeSync, RowsAt
    <3>3. \A r \in SeenAt("hot")' : rows'[r].tier = "hot"
      BY <1>1, <1>2, <2>2, <3>2, SyncSole DEF SyncHot, Scan
    <3>4. QED
      BY <3>1, <3>3 DEF Tiers, AfterSync
  <2>3. CASE SyncCold
    <3>1. spc = "synccold" /\ spc' = "drop"
      BY <2>3 DEF SyncCold, Go
    <3>2. \A r \in RowsAt(First) : rows[r].seen # "since"
      BY <1>2, <2>0, <3>1 DEF SyncedHot, RowsAt
    <3>3. /\ \A r \in SeenAt(First)' : rows'[r].tier = "cold"
          /\ \A r \in Live' : rows'[r].seen = "since" => rows'[r].path = First \/ (r \in Live /\ rows[r].seen = "since" /\ rows'[r] = rows[r])
          /\ SeenAt("hot")' = SeenAt("hot")
      BY <1>1, <1>2, <2>3, <3>2, SyncSole DEF SyncCold, Scan
    <3>4. \A r \in SeenAt("hot")' : rows'[r] = rows[r]
      BY <1>2, <3>3 DEF SeenAt, ActiveAt, RowsAt
    <3>5. QED
      BY <2>0, <3>1, <3>3, <3>4 DEF Tiers, AfterSync
  <2>4. CASE DropUnseen
    <3>1. spc = "drop" /\ spc' = "thaw"
      BY <2>4 DEF DropUnseen, Go
    <3>2. \A r \in ActiveAt("hot")' :
             rows'[r] = rows[r] /\ (r \in SeenAt("hot") \/ rows[r].seen = "lately")
      <4>1. \A r \in Live : rows[r].seen \in {"since", "lately", "before"}
        BY <1>1, LiveRow DEF Ages
      <4>2. QED
        BY <2>4, <4>1 DEF DropUnseen, SeenAt, ActiveAt, RowsAt, Live
    <3>3. QED
      BY <2>0, <3>1, <3>2 DEF Tiers
  <2>5. ASSUME NEW r \in RowsAt("hot"), SetStatus(r, "migrating"), spc \in AfterSync, spc' \in AfterSync
        PROVE  Tiers'
    <3>1. r \in Live /\ r \in RowIds
      BY DEF RowsAt, Live
    <3>2. rows' = [rows EXCEPT ![r] = RowOf(rows[r].path, rows[r].tier, "migrating")]
      BY <2>5, <3>1 DEF SetStatus, SetRow
    <3>3. rows'[r].status = "migrating" /\ \A s \in RowIds : s # r => rows'[s] = rows[s]
      BY <1>1, <3>1, <3>2 DEF RowOf, RowsType
    <3>4. \A s \in ActiveAt("hot")' : s \in ActiveAt("hot") /\ rows'[s] = rows[s]
      BY <3>3 DEF ActiveAt, RowsAt, Live
    <3>5. QED
      BY <2>0, <2>5, <3>4 DEF Tiers, AfterSync
  <2>6. ASSUME UNCHANGED rows, spc \in AfterSync, spc' \in AfterSync
        PROVE  Tiers'
    BY <1>3, <2>0, <2>6 DEF Tiers, AfterSync
  <2>7. CASE ThawMark \/ \E to \in Locs : FreezeMark(to)
    BY <2>5, <2>6, <2>7 DEF ThawMark, FreezeMark, AfterSync
  <2>8. CASE NoThaw \/ ThawMove \/ NoFreeze \/ FreezeMove
    BY <2>6, <2>8 DEF NoThaw, ThawMove, NoFreeze, FreezeMove, Go, db, AfterSync
  <2>9. CASE ThawDone \/ FreezeDone
    <3>1. spc \in AfterSync /\ spc' \in AfterSync
      BY <2>9 DEF ThawDone, FreezeDone, AfterSync
    <3>2. CASE UNCHANGED rows
      BY <2>6, <3>1, <3>2
    <3>3. CASE scan.row \in Live /\ \E p \in Paths, t \in {"hot", "cold"} :
                 /\ SetRow(scan.row, RowOf(p, t, "active"))
                 /\ t = "hot" \/ p # "hot"
      <4>1. PICK p \in Paths, t \in {"hot", "cold"} :
              SetRow(scan.row, RowOf(p, t, "active")) /\ (t = "hot" \/ p # "hot")
        BY <3>3
      <4>2. scan.row \in RowIds
        BY <3>3 DEF Live
      <4>3. /\ rows'[scan.row].path = p /\ rows'[scan.row].tier = t
            /\ \A s \in RowIds : s # scan.row => rows'[s] = rows[s]
        BY <1>1, <4>1, <4>2 DEF SetRow, RowOf, RowsType
      <4>4. ASSUME NEW s \in ActiveAt("hot")'
            PROVE  rows'[s].tier = "hot" \/ rows'[s].seen = "lately"
        <5>1. s \in RowIds /\ rows'[s].path = "hot"
          BY DEF ActiveAt, RowsAt, Live
        <5>2. CASE s = scan.row
          BY <4>1, <4>3, <5>1, <5>2
        <5>3. CASE s # scan.row
          <6>1. s \in ActiveAt("hot")
            BY <4>3, <5>1, <5>3 DEF ActiveAt, RowsAt, Live
          <6>2. QED
            BY <2>0, <3>1, <4>3, <5>1, <5>3, <6>1 DEF Tiers
        <5>4. QED
          BY <5>2, <5>3
      <4>5. QED
        BY <3>1, <4>4 DEF Tiers, AfterSync
    <3>4. scan.row \in Live => rows[scan.row].path \in Paths
      BY <1>1, LiveRow
    <3>5. CASE ThawDone
      BY <3>2, <3>3, <3>4, <3>5 DEF ThawDone
    <3>6. CASE FreezeDone
      <4>1. op # "copy" /\ scan.to \in Paths /\ scan.to # "hot"
        BY <1>1, LifecycleAssumption DEF Scan, Paths
      <4>2. QED
        BY <3>2, <3>3, <3>6, <4>1 DEF FreezeDone
    <3>7. QED
      BY <2>9, <3>5, <3>6
  <2>10. CASE (\E r \in RowIds : TogglePin(r)) \/ UNCHANGED vars
    <3>1. UNCHANGED <<rows, spc>>
      BY <2>10 DEF TogglePin, scanner, vars
    <3>2. \A r : rows'[r] = rows[r]
      BY <3>1
    <3>3. QED
      BY <1>2, <1>3, <2>0, <3>1, <3>2 DEF Tiers
  <2>20. QED
    BY <1>5, CalmSteps, <2>1, <2>2, <2>3, <2>4, <2>7, <2>8, <2>9, <2>10
<1>6. QED
  BY <1>a1, <1>5, CalmSteps

LEMMA LinkedNext ==
  ASSUME TypeOK, WalkInv, LinkInv, [Next]_vars, calm', op' = "symlink"
  PROVE  Linked'
<1>1. RowsType /\ FilesType /\ op = "symlink" /\ scan \in Scan
  BY OpStays, TypeParts DEF TypeOK
<1>2. "hot" \in Paths /\ First \in Paths /\ First # "hot" /\ None \notin Locs
  BY LifecycleAssumption DEF Paths
<1>3. ASSUME spc' \notin AfterSync PROVE Linked'
  BY <1>3 DEF Linked, AfterSync
<1>4. ASSUME Reachable' PROVE Linked'
  BY <1>4 DEF Linked
<1>5. UNCHANGED files => Holds(First)' = Holds(First) /\ Reachable' = Reachable
  BY DEF files, Holds, Reachable
<1>a1. CASE ScanBegin
  BY <1>3, <1>a1 DEF ScanBegin, AfterSync
<1>6. CASE calm /\ ~ScanBegin
  <2>0. Linked /\ Tiers /\ SyncedBoth
    BY <1>1, <1>6 DEF WalkInv, LinkInv
  <2>1. CASE \/ CleanupRecords \/ CleanupLinkRows \/ SyncHot \/ SyncCold \/ Reconcile
             \/ \E active \in BOOLEAN : WalkHot(active) \/ WalkCold(active)
    BY <1>3, <2>1 DEF CleanupRecords, CleanupLinkRows, WalkHot, WalkCold, SyncHot, SyncCold, Reconcile, Go,
       AfterSync
  <2>2. CASE DropUnseen
    <3>1. spc = "drop" /\ spc' = "thaw" /\ UNCHANGED files
      BY <2>2 DEF DropUnseen, Go
    <3>2. Present(First) => \E r \in SeenAt(First) : rows[r].tier = "cold"
      BY <2>0, <3>1 DEF SyncedBoth, Tiers, Sole
    <3>3. \A r \in SeenAt(First) : r \in RowIds /\ rows'[r] = rows[r] /\ r \in ActiveAt(First)'
      BY <2>2 DEF DropUnseen, SeenAt, ActiveAt, RowsAt, Live
    <3>4. Holds(First) => \E r \in RowIds : ColdRowAt(r)'
      BY <1>2, <3>2, <3>3 DEF ColdRowAt, Present
    <3>5. QED
      BY <1>5, <3>1, <3>4 DEF Linked
  <2>3. ASSUME UNCHANGED files, spc \in AfterSync, spc' \in AfterSync,
               spc' \notin {"thawdone", "freezedone"},
               \A r \in RowIds : ColdRowAt(r) => ColdRowAt(r)'
        PROVE  Linked'
    BY <1>5, <2>0, <2>3 DEF Linked
  <2>4. CASE ThawMark
    <3>1. \A r \in RowIds : ColdRowAt(r) => ColdRowAt(r)'
      <4>1. CASE UNCHANGED rows
        BY <4>1 DEF ColdRowAt, ActiveAt, RowsAt, Live
      <4>2. CASE \E r \in RowsAt("hot") : SetStatus(r, "migrating")
        <5>1. PICK r \in RowsAt("hot") : SetStatus(r, "migrating")
          BY <4>2
        <5>2. \A s \in RowIds : s # r => rows'[s] = rows[s]
          BY <1>1, <5>1 DEF SetStatus, SetRow, RowsType
        <5>3. r \notin ActiveAt(First)
          BY <1>2, <5>1 DEF ActiveAt, RowsAt
        <5>4. QED
          BY <5>2, <5>3 DEF ColdRowAt, ActiveAt, RowsAt, Live
      <4>3. QED
        BY <2>4, <4>1, <4>2 DEF ThawMark
    <3>2. QED
      BY <2>3, <2>4, <3>1 DEF ThawMark, AfterSync
  <2>5. CASE NoThaw \/ NoFreeze
    <3>1. \A r \in RowIds : ColdRowAt(r) => ColdRowAt(r)'
      BY <2>5 DEF NoThaw, NoFreeze, db, ColdRowAt, ActiveAt, RowsAt, Live
    <3>2. QED
      BY <2>3, <2>5, <3>1 DEF NoThaw, NoFreeze, Go, AfterSync
  <2>6. CASE ThawMove
    BY <1>1, <1>2, <1>4, <2>6 DEF ThawMove, MovesBack, Holds, Reachable, FilesType
  <2>7. CASE ThawDone \/ FreezeDone
    BY <1>4, <1>5, <2>0, <2>7 DEF ThawDone, FreezeDone, Linked
  <2>8. CASE \E to \in Locs : FreezeMark(to)
    <3>1. Reachable
      BY <2>8 DEF FreezeMark, HotExists, Target, Reachable
    <3>2. QED
      BY <1>4, <1>5, <2>8, <3>1 DEF FreezeMark
  <2>9. CASE FreezeMove
    BY <1>1, <1>2, <1>4, <2>9 DEF FreezeMove, Moves, Reachable, Scan
  <2>10. CASE (\E r \in RowIds : TogglePin(r)) \/ UNCHANGED vars
    <3>1. UNCHANGED <<rows, spc>> /\ UNCHANGED files
      BY <2>10 DEF TogglePin, scanner, vars, files
    <3>2. \A r \in RowIds : ColdRowAt(r)' = ColdRowAt(r)
      BY <3>1 DEF ColdRowAt, ActiveAt, RowsAt, Live
    <3>3. QED
      BY <1>5, <2>0, <3>1, <3>2 DEF Linked
  <2>20. QED
    BY <1>6, CalmSteps, <2>1, <2>2, <2>4, <2>5, <2>6, <2>7, <2>8, <2>9, <2>10
<1>7. QED
  BY <1>a1, <1>6, CalmSteps

\* After an undisturbed scan of a path of symlinks with one storage location, a file that
\* is in cold storage can be reached at its hot path, unless a cold row of the hot path that
\* is less than a minute old stands in the way.
THEOREM LinksAreRestored ==
  ASSUME Locs = {First}
  PROVE  Spec => LinksRestored
<1>1. Init => LinkInv
  BY DEF Init, LinkInv
<1>2. TypeOK /\ WalkInv /\ LinkInv /\ [Next]_vars => LinkInv'
  BY TiersNext, LinkedNext DEF LinkInv
<1>3. TypeOK /\ LinkInv /\ [Next]_vars =>
        [/\ Reconcile /\ calm /\ op = "symlink" /\ \E l \in Locs : Holds(l)
         /\ \A r \in Live : rows[r].seen = "lately" => rows[r].tier = "hot" \/ rows[r].path = First
         => link' # None \/ disk["hot"] # NoFile]_vars
  <2>1. SUFFICES ASSUME TypeOK, LinkInv, Reconcile, calm, op = "symlink", Holds(First),
                        \A r \in Live : rows[r].seen = "lately" => rows[r].tier = "hot" \/ rows[r].path = First,
                        link = None, disk["hot"] = NoFile
                 PROVE  link' # None
    BY LifecycleAssumption DEF Reconcile
  <2>2. PICK r \in RowIds : ColdRowAt(r)
    BY <2>1 DEF LinkInv, Linked, AfterSync, Reconcile, Reachable
  <2>3. \A s \in ActiveAt("hot") : rows[s].tier = "hot"
    <3>1. \A s \in ActiveAt("hot") : rows[s].tier = "hot" \/ rows[s].seen = "lately"
      BY <2>1 DEF LinkInv, Tiers, AfterSync, Reconcile
    <3>2. \A s \in ActiveAt("hot") : s \in Live /\ rows[s].path = "hot"
      BY DEF ActiveAt, RowsAt
    <3>3. QED
      BY <2>1, <3>1, <3>2, LifecycleAssumption
  <2>4. ~HotExists
    BY <2>1 DEF HotExists, Target
  <2> DEFINE cold == {s \in Live : rows[s].tier = "cold" /\ rows[s].status = "active"}
  <2>5. cold \subseteq RowsAt(First)
    <3>1. \A s \in Live : rows[s].path \in {"hot", First}
      BY <2>1, TypeParts, LiveRow DEF Paths
    <3>2. QED
      BY <2>3, <3>1 DEF ActiveAt, RowsAt
  <2>6. r \in cold
    BY <2>2 DEF ColdRowAt, ActiveAt, RowsAt
  <2>7. cold \cap RowsAt(First) # {} /\ cold \ RowsAt(First) = {}
    BY <2>5, <2>6
  <2>8. link' = First
    BY <2>1, <2>4, <2>7 DEF Reconcile
  <2>9. QED
    BY <2>8, LifecycleAssumption
<1>4. QED
  BY <1>1, <1>2, <1>3, WalkInvariant, PTL DEF Spec, LinksRestored

-----------------------------------------------------------------------------
(* Content.                                                                *)

\* What KeepsContent takes: moves that do not fail half way, and one location for copies.
WholeMoves ==
    /\ ~IOErrors
    /\ "copy" \in Ops => Locs = {First}

\* Without errors a failed move does nothing.
LEMMA WholeFails ==
  ASSUME WholeMoves, NEW to, MoveFails(to)
  PROVE  UNCHANGED files
BY DEF WholeMoves, MoveFails

\* The steps that leave files and the user's content alone.
LEMMA KeepFrame ==
  ASSUME WholeMoves, [Next]_vars
  PROVE  \/ UNCHANGED <<disk, link, kept, clash>>
         \/ UNCHANGED <<disk, kept, clash>> /\ DropsLink
         \/ Reconcile \/ ThawMove \/ FreezeMove \/ User
         \/ RequestFreezeMove /\ Moves(req.to) /\ UNCHANGED <<kept, clash>>
         \/ RequestThawMove \/ RequestThawUnlink
<1> USE DEF files, db
<1>1. CASE ScanStep
  <2>1. CASE FreezeMoveFails
    BY <2>1, WholeFails DEF FreezeMoveFails
  <2>2. QED
    BY <1>1, <2>1 DEF ScanStep, ScanBegin, CleanupRecords, CleanupLinkRows, WalkHot, WalkCold, SyncHot, SyncCold,
       DropUnseen, ThawMark, NoThaw, ThawMoveFails, ThawDone, FreezeMark, NoFreeze, FreezeDone
<1>2. CASE RequestStep
  <2>1. CASE RequestFreezeMove
    BY <2>1, WholeFails DEF RequestFreezeMove
  <2>2. QED
    BY <1>2, <2>1 DEF RequestStep, RequestFreeze, RequestThaw, RequestFreezeDone, RequestThawLook,
       RequestThawDone, TogglePin
<1>3. CASE User \/ Crash \/ UNCHANGED vars
  BY <1>3 DEF Crash, vars
<1>4. QED
  BY <1>1, <1>2, <1>3 DEF Next

\* Once in the way, always.
LEMMA ClashStays ==
  ASSUME TypeOK, [Next]_vars, ~clash'
  PROVE  ~clash
<1>1. clash \in BOOLEAN
  BY DEF TypeOK
<1>2. CASE ScanStep \/ Crash \/ UNCHANGED vars
  BY <1>2 DEF ScanStep, ScanBegin, CleanupRecords, CleanupLinkRows, WalkHot, WalkCold, SyncHot, SyncCold,
     DropUnseen, ThawMark, NoThaw, ThawMove, ThawMoveFails, ThawDone, FreezeMark, NoFreeze, FreezeMove,
     FreezeMoveFails, FreezeDone, Reconcile, Crash, vars
<1>3. CASE RequestStep
  BY <1>3 DEF RequestStep, RequestFreeze, RequestThaw, RequestFreezeMove, RequestFreezeDone,
     RequestThawLook, RequestThawMove, RequestThawUnlink, RequestThawDone, TogglePin
<1>4. CASE User
  BY <1>1, <1>4 DEF User, Save, Remove
<1>5. QED
  BY <1>2, <1>3, <1>4 DEF Next

LEMMA MoveNext ==
  ASSUME TypeOK, MoveInv, [Next]_vars, WholeMoves
  PROVE  MoveInv'
<1> DEFINE Good == OnePlace /\ (link # None => disk["hot"] = NoFile) /\ KeepsContent
<1>r. ASSUME op # "copy" PROVE rpc' # "thawunlink"
  <2>1. rpc # "thawunlink"
    BY <1>r DEF MoveInv
  <2>2. CASE ScanStep
    BY <2>1, <2>2 DEF ScanStep, ScanBegin, CleanupRecords, CleanupLinkRows, WalkHot, WalkCold, SyncHot, SyncCold,
       DropUnseen, ThawMark, NoThaw, ThawMove, ThawMoveFails, ThawDone, FreezeMark, NoFreeze, FreezeMove,
       FreezeMoveFails, FreezeDone, Reconcile, server
  <2>3. CASE RequestStep
    BY <1>r, <2>1, <2>3 DEF RequestStep, RequestFreeze, RequestThaw, RequestFreezeMove, RequestFreezeDone,
       RequestThawLook, RequestThawMove, RequestThawUnlink, RequestThawDone, TogglePin, server, Serve, Return
  <2>4. CASE User \/ Crash \/ UNCHANGED vars
    BY <2>1, <2>4 DEF User, Save, Remove, Crash, server, vars
  <2>5. QED
    BY <2>2, <2>3, <2>4 DEF Next
<1>1. SUFFICES ASSUME op # "copy", ~clash' PROVE Good'
  BY <1>r, OpStays DEF MoveInv
<1>2. /\ OnePlace /\ (link # None => disk["hot"] = NoFile)
      /\ \A d \in kept : \E p \in Paths : disk[p] = d
      /\ FilesType /\ kept \subseteq Data /\ NoFile \notin Data /\ First \in Locs /\ None \notin Locs
      /\ scan.to \in Locs /\ req.to \in Locs /\ op \in {"move", "symlink"} /\ rpc # "thawunlink"
  BY <1>1, ClashStays, TypeParts, LifecycleAssumption
  DEF MoveInv, KeepsContent, TypeOK, Scan, Request, OperationTypes
<1>3. /\ Target \in Paths /\ "hot" \in Paths /\ Locs \subseteq Paths /\ "hot" \notin Locs
      /\ Paths = {"hot"} \cup Locs
      /\ (HotExists <=> disk[Target] # NoFile)
      /\ (Target = "hot" <=> link = None)
  BY <1>2, TargetType, LifecycleAssumption DEF Paths
<1>4. ASSUME UNCHANGED <<disk, kept>>, link' = link \/ link' = None \/ disk["hot"] = NoFile
      PROVE  Good'
  BY <1>2, <1>4 DEF OnePlace, KeepsContent
\* The one content goes from p to q.
<1>5. ASSUME NEW p \in Paths, NEW q \in Paths, p # q, disk[p] # NoFile, UNCHANGED kept,
             disk' = [disk EXCEPT ![q] = disk[p], ![p] = NoFile], link' = None \/ q # "hot"
      PROVE  Good'
  <2>1. disk'[q] = disk[p] /\ \A r \in Paths : r # q => disk'[r] = NoFile
    BY <1>2, <1>5 DEF OnePlace, FilesType
  <2>2. OnePlace' /\ (link' # None => disk'["hot"] = NoFile)
    BY <1>3, <1>5, <2>1 DEF OnePlace
  <2>3. \A d \in kept : disk[p] = d
    BY <1>2, <1>5 DEF OnePlace
  <2>4. KeepsContent'
    BY <1>5, <2>1, <2>3 DEF KeepsContent
  <2>5. QED
    BY <2>2, <2>4
<1>6. ASSUME NEW to \in Locs, Moves(to), UNCHANGED kept
      PROVE  Good'
  <2>1. CASE Target = to /\ UNCHANGED disk
    BY <1>2, <1>3, <1>4, <1>6, <2>1 DEF Moves
  <2>2. CASE Target # to /\ disk' = [disk EXCEPT ![to] = disk[Target], ![Target] = NoFile]
    BY <1>2, <1>3, <1>5, <1>6, <2>2 DEF Moves
  <2>3. QED
    BY <1>1, <1>6, <2>1, <2>2 DEF Moves
<1>7. ASSUME NEW l \in Locs, Holds(l), MovesBack(l), UNCHANGED kept
      PROVE  Good'
  BY <1>3, <1>5, <1>7 DEF Holds, MovesBack
<1>a1. CASE UNCHANGED <<disk, link, kept, clash>>
  BY <1>4, <1>a1
<1>a2. CASE UNCHANGED <<disk, kept, clash>> /\ DropsLink
  BY <1>4, <1>a2 DEF DropsLink
<1>a3. CASE Reconcile
  <2>1. link' = link \/ (link = None /\ ~HotExists)
    BY <1>a3 DEF Reconcile
  <2>2. QED
    BY <1>3, <1>4, <1>a3, <2>1 DEF Reconcile
<1>a4. CASE ThawMove
  BY <1>2, <1>7, <1>a4 DEF ThawMove
<1>a5. CASE FreezeMove
  BY <1>2, <1>6, <1>a5 DEF FreezeMove
<1>a6. CASE RequestFreezeMove /\ Moves(req.to) /\ UNCHANGED <<kept, clash>>
  BY <1>2, <1>6, <1>a6
<1>a7. CASE RequestThawMove
  <2>1. UNCHANGED kept
    BY <1>a7 DEF RequestThawMove
  <2>2. CASE Holds(req.to) /\ MovesBack(req.to)
    BY <1>2, <1>7, <2>1, <2>2
  <2>3. CASE UNCHANGED disk /\ (DropsLink \/ UNCHANGED link)
    BY <1>4, <2>1, <2>3 DEF DropsLink
  <2>4. QED
    BY <1>1, <1>a7, <2>2, <2>3 DEF RequestThawMove
<1>a8. CASE \E d \in Data : Save(d)
  <2>1. PICK d \in Data : Save(d)
    BY <1>a8
  \* With nothing at the hot path there is nothing in cold storage either.
  <2>2. \A p \in Paths : p # Target => disk[p] = NoFile
    <3>1. CASE HotExists
      BY <1>2, <1>3, <3>1 DEF OnePlace
    <3>2. CASE ~HotExists
      <4>1. \A l \in Locs : disk[l] = NoFile
        BY <1>1, <2>1, <3>2 DEF Save, Holds
      <4>2. disk["hot"] = NoFile
        BY <1>2, <1>3, <3>2
      <4>3. QED
        BY <1>3, <4>1, <4>2
    <3>3. QED
      BY <3>1, <3>2
  <2>3. disk'[Target] = d /\ (\A p \in Paths : p # Target => disk'[p] = NoFile) /\ link' = link
    BY <1>2, <1>3, <2>1, <2>2 DEF Save, FilesType
  <2>4. \A e \in kept : e = disk[Target]
    BY <1>2, <2>2
  <2>5. kept' = {d}
    BY <2>1, <2>4 DEF Save
  <2>6. QED
    BY <1>3, <2>3, <2>5 DEF OnePlace, KeepsContent
<1>a9. CASE Remove
  <2>1. CASE link # None
    <3>1. disk' = disk /\ kept' = kept /\ link' = None
      BY <1>2, <1>3, <1>a9, <2>1 DEF Remove, FilesType
    <3>2. QED
      BY <1>4, <3>1
  <2>2. CASE link = None
    <3>1. Target = "hot" /\ disk["hot"] # NoFile
      BY <1>3, <1>a9, <2>2 DEF Remove
    <3>2. \A p \in Paths : p # "hot" => disk[p] = NoFile
      BY <1>2, <1>3, <3>1 DEF OnePlace
    <3>3. \A p \in Paths : disk'[p] = NoFile
      BY <1>2, <1>3, <1>a9, <3>2 DEF Remove, FilesType
    <3>4. \A e \in kept : e = disk["hot"]
      BY <1>2, <3>2
    <3>5. kept' = {}
      <4>1. \A l \in Locs : disk[l] # disk["hot"]
        BY <1>3, <3>1, <3>2
      <4>2. QED
        BY <1>a9, <2>2, <3>4, <4>1 DEF Remove
    <3>6. QED
      BY <1>3, <1>a9, <3>3, <3>5 DEF OnePlace, KeepsContent, Remove
  <2>3. QED
    BY <2>1, <2>2
<1>a10. CASE RequestThawUnlink
  BY <1>2, <1>a10 DEF RequestThawUnlink
<1>20. QED
  BY KeepFrame, <1>a1, <1>a2, <1>a3, <1>a4, <1>a5, <1>a6, <1>a7, <1>a8, <1>a9, <1>a10 DEF User

\* What is decided about a thaw of a copy, and what a request takes for granted, while the
\* files stay: a thaw is decided only when there is no original.
LEMMA AheadNext ==
  ASSUME TypeOK, CopyInv, [Next]_vars, op = "copy", ~clash, ~User
  PROVE  /\ spc' = "walkcold" => ~scan'.thaw
         /\ ThawAhead' => ThawAhead \/ disk["hot"] = NoFile
         /\ rpc' = "thawunlink" => disk["hot"] # NoFile
<1>1. /\ link = None /\ scan \in Scan /\ First # None /\ Target = "hot"
      /\ (HotExists <=> disk["hot"] # NoFile)
      /\ (spc = "walkcold" => ~scan.thaw)
      /\ (rpc = "thawunlink" => disk["hot"] # NoFile)
  BY LifecycleAssumption DEF CopyInv, CopySafe, TypeOK, Target, HotExists
<1> DEFINE Labels == {"synchot", "synccold", "drop", "thaw", "thawmove"}
<1> USE DEF ThawAhead
<1>2. ASSUME UNCHANGED server, spc' \notin Labels \cup {"walkcold"} \/ (spc \in Labels /\ spc' # "walkcold" /\ scan'.thaw = scan.thaw)
      PROVE  /\ spc' = "walkcold" => ~scan'.thaw
             /\ ThawAhead' => ThawAhead \/ disk["hot"] = NoFile
             /\ rpc' = "thawunlink" => disk["hot"] # NoFile
  <2>1. rpc' = rpc
    BY <1>2 DEF server
  <2>2. spc' \in Labels /\ scan'.thaw => spc \in Labels /\ scan.thaw
    BY <1>2
  <2>3. spc' # "walkcold"
    BY <1>2
  <2>4. QED
    BY <1>1, <2>1, <2>2, <2>3
<1>a1. CASE ScanBegin \/ Reconcile \/ CleanupRecords \/ CleanupLinkRows
  BY <1>2, <1>a1 DEF ScanBegin, Reconcile, CleanupRecords, CleanupLinkRows, Go
<1>a2. CASE \E active \in BOOLEAN : WalkHot(active)
  <2>1. scan'.thaw = FALSE /\ spc' = "walkcold" /\ rpc' = rpc
    BY <1>1, <1>a2 DEF WalkHot, Scan, server
  <2>2. QED
    BY <1>1, <2>1
<1>a3. CASE \E active \in BOOLEAN : WalkCold(active)
  <2>1. spc' = "synchot" /\ rpc' = rpc /\ (scan'.thaw => ~HotExists)
    BY <1>1, <1>a3 DEF WalkCold, Scan, server
  <2>2. QED
    BY <1>1, <2>1
<1>a4. CASE SyncHot \/ SyncCold \/ DropUnseen
  <2>1. scan' = scan /\ spc \in Labels /\ spc' # "walkcold" /\ UNCHANGED server
    BY <1>a4 DEF SyncHot, SyncCold, DropUnseen, Go
  <2>2. QED
    BY <1>2, <2>1
<1>a5. CASE ThawMark
  <2>1. scan'.thaw = scan.thaw /\ spc \in Labels /\ spc' # "walkcold" /\ UNCHANGED server
    BY <1>1, <1>a5 DEF ThawMark, Scan
  <2>2. QED
    BY <1>2, <2>1
<1>a6. CASE \/ NoThaw \/ ThawMove \/ ThawMoveFails \/ ThawDone \/ (\E to \in Locs : FreezeMark(to)) \/ NoFreeze
            \/ FreezeMove \/ FreezeMoveFails \/ FreezeDone
  <2>1. spc' \notin Labels \cup {"walkcold"} /\ UNCHANGED server
    BY <1>a6 DEF NoThaw, ThawMove, ThawMoveFails, ThawDone, FreezeMark, NoFreeze, FreezeMove, FreezeMoveFails,
       FreezeDone, Go
  <2>2. QED
    BY <1>2, <2>1
<1>a7. CASE RequestStep
  <2>1. spc' = spc /\ scan' = scan
    BY <1>a7, ScanFrame
  <2>2. rpc' \in {"thawrename", "thawunlink"} => rpc' = rpc \/ RequestThawLook
    BY <1>a7 DEF RequestStep, RequestFreeze, RequestThaw, RequestFreezeMove, RequestFreezeDone,
       RequestThawLook, RequestThawMove, RequestThawUnlink, RequestThawDone, TogglePin, server, Serve, Return
  <2>3. RequestThawLook => IF HotExists THEN rpc' = "thawunlink" ELSE rpc' = "thawrename"
    BY DEF RequestThawLook, Serve
  <2>4. QED
    BY <1>1, <2>1, <2>2, <2>3
<1>a8. CASE Crash
  BY <1>a8 DEF Crash
<1>a9. CASE UNCHANGED vars
  BY <1>1, <1>a9 DEF vars
<1>20. QED
  BY <1>a1, <1>a2, <1>a3, <1>a4, <1>a5, <1>a6, <1>a7, <1>a8, <1>a9 DEF Next, ScanStep

LEMMA CopyNext ==
  ASSUME TypeOK, CopyInv, PinInv, [Next]_vars, WholeMoves
  PROVE  CopyInv'
<1>1. SUFFICES ASSUME op = "copy"
               PROVE  (spc' = "walkcold" => ~scan'.thaw) /\ (~clash' => CopySafe')
  BY OpStays, NoLinks DEF CopyInv, PinInv
<1>2. /\ link = None /\ (spc = "walkcold" => ~scan.thaw)
      /\ FilesType /\ kept \subseteq Data /\ NoFile \notin Data /\ First \in Locs /\ First # None
      /\ scan \in Scan /\ scan.to = First /\ req.to = First /\ Locs = {First}
  BY <1>1, TypeParts, LifecycleAssumption DEF CopyInv, TypeOK, Scan, Request, WholeMoves
<1>3. /\ Target = "hot" /\ "hot" \in Paths /\ First \in Paths /\ "hot" # First
      /\ (HotExists <=> disk["hot"] # NoFile)
  BY <1>2, TargetType, LifecycleAssumption
<1>w. spc' = "walkcold" => ~scan'.thaw
  <2>1. CASE \E active \in BOOLEAN : WalkHot(active)
    BY <1>2, <2>1 DEF WalkHot, Scan
  <2>2. CASE UNCHANGED <<spc, scan>>
    BY <1>2, <2>2
  <2>3. CASE RequestStep \/ User \/ UNCHANGED vars
    BY <2>2, <2>3, ScanFrame
  <2>4. CASE (ScanStep /\ ~(\E active \in BOOLEAN : WalkHot(active))) \/ Crash
    BY <2>4 DEF ScanStep, ScanBegin, CleanupRecords, CleanupLinkRows, WalkCold, SyncHot, SyncCold,
       DropUnseen, ThawMark, NoThaw, ThawMove, ThawMoveFails, ThawDone, FreezeMark, NoFreeze, FreezeMove,
       FreezeMoveFails, FreezeDone, Reconcile, Crash, Go
  <2>5. QED
    BY <2>1, <2>3, <2>4 DEF Next
<1>4. SUFFICES ASSUME ~clash' PROVE CopySafe'
  BY <1>w
<1>5. ~clash /\ CopySafe
  BY <1>1, <1>4, ClashStays DEF CopyInv
\* A step of the program: what it decides is covered by AheadNext.
<1>6. ASSUME ~User, kept' = kept,
             \A d \in kept : disk'["hot"] = d \/ (disk'["hot"] = NoFile /\ disk'[First] = d),
             (ThawAhead \/ disk["hot"] = NoFile) /\ ThawAhead' => ~Overwrites',
             disk["hot"] # NoFile => disk'["hot"] # NoFile
      PROVE  CopySafe'
  BY <1>1, <1>5, <1>6, AheadNext DEF CopySafe
<1>7. ASSUME ~User, kept' = kept, disk' = disk
      PROVE  CopySafe'
  BY <1>5, <1>6, <1>7 DEF CopySafe, Overwrites
\* The copy comes back: there is no original, or the same one.
<1>8. ASSUME ~User, kept' = kept, ThawAhead, Holds(First), MovesBack(First)
      PROVE  CopySafe'
  <2>1. disk'["hot"] = disk[First] /\ disk'[First] = NoFile
    BY <1>2, <1>3, <1>8 DEF MovesBack, FilesType
  <2>2. disk["hot"] = NoFile \/ disk["hot"] = disk[First]
    BY <1>5, <1>8 DEF CopySafe, Overwrites, Holds
  <2>3. \A d \in kept : disk'["hot"] = d
    <3>1. CASE disk["hot"] = NoFile
      BY <1>2, <1>5, <2>1, <3>1 DEF CopySafe
    <3>2. CASE disk["hot"] = disk[First]
      BY <1>5, <2>1, <3>2 DEF CopySafe
    <3>3. QED
      BY <2>2, <3>1, <3>2
  <2>4. QED
    BY <1>6, <1>8, <2>1, <2>2, <2>3 DEF Overwrites, Holds
<1>9. ASSUME ~User, kept' = kept, Moves(First)
      PROVE  CopySafe'
  <2>1. disk["hot"] # NoFile /\ disk'["hot"] = disk["hot"] /\ disk'[First] = disk["hot"]
    BY <1>1, <1>2, <1>3, <1>9 DEF Moves, FilesType
  <2>2. QED
    BY <1>5, <1>6, <1>9, <2>1 DEF CopySafe, Overwrites
<1>a1. CASE ~User /\ UNCHANGED <<disk, kept>>
  BY <1>7, <1>a1
<1>a3. CASE ~User /\ ThawMove
  <2>1. scan.thaw /\ spc = "thawmove"
    BY <1>a3 DEF ThawMove, PinInv
  <2>2. QED
    BY <1>8, <1>a3, <2>1 DEF ThawMove, ThawAhead
<1>a4. CASE ~User /\ FreezeMove
  BY <1>2, <1>9, <1>a4 DEF FreezeMove
<1>a5. CASE ~User /\ RequestFreezeMove /\ Moves(req.to) /\ UNCHANGED <<kept, clash>>
  BY <1>2, <1>9, <1>a5
<1>a6. CASE ~User /\ RequestThawMove
  <2>1. CASE Holds(req.to) /\ MovesBack(req.to)
    BY <1>2, <1>8, <1>a6, <2>1 DEF RequestThawMove, ThawAhead
  <2>2. CASE UNCHANGED disk
    BY <1>7, <1>a6, <2>2 DEF RequestThawMove
  <2>3. QED
    BY <1>a6, <2>1, <2>2 DEF RequestThawMove
<1>a7. CASE ~User /\ RequestThawUnlink
  <2>1. kept' = kept /\ disk["hot"] # NoFile
    BY <1>5, <1>a7 DEF RequestThawUnlink, CopySafe
  <2>2. CASE disk' = [disk EXCEPT ![req.to] = NoFile]
    <3>1. disk'["hot"] = disk["hot"] /\ disk'[First] = NoFile
      BY <1>2, <1>3, <2>2 DEF FilesType
    <3>2. \A d \in kept : disk'["hot"] = d
      BY <1>5, <2>1, <3>1 DEF CopySafe
    <3>3. QED
      BY <1>6, <1>a7, <2>1, <3>1, <3>2 DEF Overwrites
  <2>3. CASE UNCHANGED disk
    BY <1>7, <1>a7, <2>1, <2>3
  <2>4. QED
    BY <1>a7, <2>2, <2>3 DEF RequestThawUnlink
<1>a8. CASE \E d \in Data : Save(d)
  <2>1. PICK d \in Data : Save(d)
    BY <1>a8
  <2>2. ~ThawAhead /\ UNCHANGED <<spc, scan, rpc>> /\ (HotExists \/ ~Holds(First))
    BY <1>1, <1>2, <1>4, <2>1 DEF Save, scanner, server
  <2>3. disk'["hot"] = d /\ disk'[First] = disk[First] /\ d # NoFile
    BY <1>2, <1>3, <2>1 DEF Save, FilesType
  <2>4. \A e \in kept : e = disk["hot"]
    BY <1>2, <1>3, <1>5, <2>2 DEF CopySafe, Holds
  <2>5. kept' = {d}
    BY <1>3, <2>1, <2>4 DEF Save
  <2>6. ~ThawAhead'
    BY <2>2 DEF ThawAhead
  <2>7. QED
    BY <2>3, <2>5, <2>6 DEF CopySafe
<1>a9. CASE Remove
  <2>1. disk'["hot"] = NoFile /\ disk'[First] = disk[First] /\ disk["hot"] # NoFile
    BY <1>2, <1>3, <1>a9 DEF Remove, FilesType
  <2>2. rpc' # "thawunlink"
    BY <1>4, <1>a9 DEF Remove, server
  <2>3. \A e \in kept : e = disk["hot"]
    BY <1>5, <2>1 DEF CopySafe
  <2>4. kept' = {} \/ (kept' = kept /\ disk[First] = disk["hot"])
    BY <1>2, <1>a9, <2>3 DEF Remove
  <2>5. QED
    BY <2>1, <2>2, <2>3, <2>4 DEF CopySafe, Overwrites
<1>20. QED
  <2>1. CASE User
    BY <1>a8, <1>a9, <2>1 DEF User
  <2>2. CASE ~User
    BY <1>a1, <1>a3, <1>a4, <1>a5, <1>a6, <1>a7, <2>2, KeepFrame DEF Reconcile
  <2>3. QED
    BY <2>1, <2>2

\* Scans, freeze, thaw and pin requests, edits, new files, deletions and restarts may cross in
\* any order: content the user has not overwritten or deleted is somewhere, unless the user has
\* got in the way of a thaw.  For moves that do not fail half way, and copies with one location.
THEOREM ContentIsKept ==
  ASSUME WholeMoves
  PROVE  Spec => []KeepsContent
<1>1. Init => CopyInv /\ MoveInv /\ PinInv
  <2>1. SUFFICES ASSUME Init PROVE CopyInv /\ MoveInv /\ PinInv
    OBVIOUS
  <2>2. OnePlace /\ KeepsContent /\ \A d \in kept : disk["hot"] = d
    BY <2>1, LifecycleAssumption DEF Init, OnePlace, KeepsContent, Paths
  <2>3. ~ThawAhead
    BY <2>1 DEF Init, ThawAhead
  <2>4. CopySafe
    BY <2>1, <2>2, <2>3 DEF Init, CopySafe
  <2>5. QED
    BY <2>1, <2>2, <2>4 DEF Init, CopyInv, MoveInv, PinInv, Idle
<1>2. TypeOK /\ PinInv /\ CopyInv /\ MoveInv /\ [Next]_vars => (PinInv /\ CopyInv /\ MoveInv)'
  BY PinNext, CopyNext, MoveNext
<1>3. CopyInv /\ MoveInv => KeepsContent
  <2>1. ASSUME CopySafe PROVE \A d \in kept : \E p \in Paths : disk[p] = d
    BY <2>1, LifecycleAssumption DEF CopySafe, Paths
  <2>2. QED
    BY <2>1 DEF CopyInv, MoveInv, KeepsContent
<1>4. QED
  BY <1>1, <1>2, <1>3, TypeInitial, TypeNext, PTL DEF Spec
=============================================================================
