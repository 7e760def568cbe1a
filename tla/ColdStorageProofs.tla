--------------------------- MODULE ColdStorageProofs ---------------------------
(***************************************************************************)
(* Theorems about ColdStorage, for both operation types and any number of  *)
(* toggles, requests and crashes: a cold row tells the form of its file,   *)
(* a thaw puts back what can be read, and the file is whole at one place   *)
(* at least.  The ghosts astray, undone and calm name the exceptions.      *)
(*                                                                         *)
(* The inductive invariant comes in layers: where jobs and requests are    *)
(* (TypeInv), which form goes with which place (FitInv, FormInv), whose    *)
(* row is still there (StaleInv), and who has the content while a job, a   *)
(* freeze or a thaw is between two of its steps (KeepInv).                 *)
(***************************************************************************)
EXTENDS ColdStorage, TLAPS

\* A request that has read the row knows a place in the location, and a job at
\* work has somewhere to write to.
Serving == rpc \in {"encrypting", "freezing", "frozen", "thaw", "thawed", "forget", "row"}
TypeInv ==
    /\ ColdTypeOK
    /\ Serving => asked \in Asked /\ asked.at \in {"plain", "enc"}
    /\ \A k \in Kinds : AtWork(k) => Source(k) \notin NoTarget(k)

\* A row's path, its flag and its storage type go together.
RowFits(row) ==
    /\ row.at \in {"hot", "plain", "enc"}
    /\ row.encrypted <=> row.at = "enc"
    /\ row.cold => row.at # "hot"

\* ... and so do what a job is at and what a request has read.
WorkFits == \A k \in Kinds : AtWork(k) => Source(k) = IF k = "encrypt" THEN "plain" ELSE "enc"

AskedFits ==
    /\ Serving => (asked.encrypted <=> asked.at = "enc")
    /\ rpc \in {"encrypting", "thawed"} => asked.at = "enc"
    /\ rpc = "freezing" => asked.at = "plain"

FitInv == ~astray => (inv # None => RowFits(inv)) /\ WorkFits /\ AskedFits

\* Each place has its form.
FormInv ==
    ~astray /\ ~undone =>
        /\ file["hot"] \in {"none", "torn", "clear"}
        /\ file["plain"] \in {"none", "torn", "clear"}
        /\ file["enc"] \in {"none", "torn", "cipher"}
        /\ jpc["encrypt"] = "finish" => work["encrypt"].data \in {"torn", "clear"}
        /\ jpc["decrypt"] = "finish" => work["decrypt"].data \in {"torn", "cipher"}
        /\ rpc = "encrypting" => asked.data \in {"none", "torn", "clear"}

\* A row that is gone is nobody's row any more; one that has come since is hot.
StaleInv ==
    /\ op = None => inv = None
    /\ inv = None => Kinds \subseteq stale /\ (Serving => "request" \in stale)
    /\ inv # None /\ Serving /\ "request" \in stale => ~inv.cold

Quiet == calm /\ ~astray
WholeAt(p) == file[p] \in Whole
SomeWhole == \E p \in Places : WholeAt(p)
NoneAtWork == \A k \in Kinds : ~AtWork(k)

\* What is at the hot path and what a cold row names is not torn.
HotInv ==
    /\ file["hot"] # "torn"
    /\ op = "copy" => WholeAt("hot")
    /\ inv # None /\ inv.cold => file[inv.at] # "torn"

\* What a job at work has: its source until it removes it, its output from then on.
JobHas(k) ==
    AtWork(k) =>
        /\ jpc[k] = "finish" => work[k].data \in Whole /\ file[Target(k)] # "none"
        /\ jpc[k] \in {"finish", "unlink"} => WholeAt(Source(k))
        /\ jpc[k] \in {"unlink", "commit"} => WholeAt(Target(k))
        /\ Has(k) => inv.at = Source(k) /\ Due(inv, k) /\ (jpc[k] = "commit" => file[Source(k)] = "none")
        /\ ~Has(k) => jpc[k] = "commit" \/ op = None
        /\ \A j \in Kinds : AtWork(j) => j = k

\* A freeze has its row and, until it is done, the hot file; a job that is still at
\* work then has lost its row.
Freezing == rpc \in {"encrypting", "freezing", "frozen"}
FreezeInv ==
    Freezing =>
        /\ Has("request") /\ inv.at = "hot" /\ ~inv.cold /\ inv.status = "migrating"
        /\ rpc # "frozen" => WholeAt("hot") /\ asked.data \in Whole \cup {"none"}
        /\ rpc = "encrypting" /\ asked.data # "none" => file["enc"] # "none"
        /\ rpc = "frozen" => WholeAt(asked.at)
        /\ \A k \in Kinds : AtWork(k) => jpc[k] = "commit" /\ Target(k) # asked.at /\ ~Has(k)

\* A thaw finds its file whole unless a job is still writing it, and once it has
\* removed it no job has come near.
ThawInv ==
    /\ rpc = "thaw" /\ file[asked.at] = "torn" => \E k \in Kinds : AtWork(k) /\ Target(k) = asked.at
    /\ rpc = "thawed" => WholeAt("hot")
    /\ rpc \in {"thaw", "thawed"} /\ file[asked.at] # "none" /\ NoneAtWork /\ Has("request") =>
            inv.at = asked.at /\ inv.cold
    /\ rpc \in {"forget", "row"} =>
            NoneAtWork /\ (Has("request") => inv.at = asked.at /\ file[asked.at] = "none")

KeepInv == Quiet => SomeWhole /\ HotInv /\ (\A k \in Kinds : JobHas(k)) /\ FreezeInv /\ ThawInv

-----------------------------------------------------------------------------
\* Where a job writes: it is another place, with the suffix or without it.
LEMMA TargetOf ==
  ASSUME NEW k \in Kinds, Source(k) \in Places, Source(k) \notin NoTarget(k)
  PROVE  /\ Target(k) \in Places /\ Target(k) # Source(k)
         /\ k = "encrypt" /\ Source(k) = "plain" => Target(k) = "enc"
         /\ k = "decrypt" /\ Source(k) = "enc" => Target(k) = "plain"
<1>1. CASE k = "encrypt"
  BY <1>1 DEF Target, NoTarget, Places, Coded
<1>2. CASE k = "decrypt"
  <2> DEFINE P(p) == p \in DOMAIN Coded /\ Coded[p] = Source(k)
  <2>1. \E p \in DOMAIN Coded : Coded[p] = Source(k)
    BY <1>2 DEF NoTarget, Places, Coded
  <2>2. Target(k) \in DOMAIN Coded /\ Coded[Target(k)] = Source(k)
    BY <1>2, <2>1 DEF Target
  <2>3. QED
    BY <1>2, <2>2 DEF Coded, Places
<1>3. QED
  BY <1>1, <1>2 DEF Kinds

\* What the codes give is a content.
LEMMA CodesAreContents ==
  ASSUME NEW c \in Contents
  PROVE  /\ c # "none" => Encoded[c] \in Contents
         /\ \A d \in Contents, out \in Contents : Finished(out, d) \in Contents
BY DEF Contents, Encoded, Finished

LEMMA TypeInitial == ColdInit => TypeInv
<1> SUFFICES ASSUME ColdInit PROVE TypeInv
  OBVIOUS
<1> USE ColdAssumption DEF ColdInit
<1>1. /\ file \in [Places -> Contents] /\ inv \in Inventory /\ loc \in Location
      /\ work \in [Kinds -> [at: Places, data: Contents]]
  BY DEF Places, Contents, Inventory, Location, NoWork
<1>2. /\ jpc \in [Kinds -> {"idle", "write", "finish", "unlink", "commit", "status"}]
      /\ op \in Ops /\ toggle = None /\ asked = None
      /\ recs = {} /\ left = {} /\ stale = {} /\ queued = {}
  OBVIOUS
<1>3. toggles \in 0..MaxToggles /\ requests \in 0..MaxRequests /\ crashes \in 0..MaxCrashes
  BY DEF ColdAssumption
<1>4. rpc = "idle" /\ calm \in BOOLEAN /\ undone \in BOOLEAN /\ astray \in BOOLEAN
  OBVIOUS
<1>5. ColdTypeOK
  BY <1>1, <1>2, <1>3, <1>4 DEF ColdTypeOK
<1>6. QED
  BY <1>5 DEF TypeInv, Serving, AtWork, Kinds

\* The types of the two records that come and go.
LEMMA RowTypes ==
  ASSUME ColdTypeOK
  PROVE  /\ inv # None => inv \in Inventory
         /\ loc # None => loc \in Location
         /\ toggle # None => toggle \in Location
         /\ asked # None => asked \in Asked
BY DEF ColdTypeOK

\* What the ghost becomes.
LEMMA TakenType ==
  ASSUME NEW p, Taken(p) \/ calm' = FALSE \/ UNCHANGED calm, calm \in BOOLEAN
  PROVE  calm' \in BOOLEAN /\ (calm' => calm)
<1>1. CASE Taken(p)
  BY <1>1, Zenon DEF Taken
<1>2. CASE calm' = FALSE
  BY <1>2
<1>3. CASE calm' = calm
  BY <1>3
<1>4. QED
  BY <1>1, <1>2, <1>3

\* A row whose file a job has switched.
LEMMA SwitchedRow ==
  ASSUME NEW row \in Inventory, NEW k \in Kinds, Target(k) \in Places
  PROVE  /\ Switched(row, k) \in Inventory
         /\ Switched(row, k).at = Target(k) /\ Switched(row, k).cold = row.cold
         /\ Switched(row, k).status = row.status
         /\ Switched(row, k).encrypted <=> k = "encrypt"
<1>1. PICK b \in BOOLEAN : b = (k = "encrypt")
  OBVIOUS
<1>2. Switched(row, k) = [row EXCEPT !.at = Target(k), !.encrypted = b]
  BY <1>1, Zenon DEF Switched
<1>3. /\ Switched(row, k) \in Inventory
      /\ Switched(row, k).at = Target(k) /\ Switched(row, k).cold = row.cold
      /\ Switched(row, k).status = row.status /\ Switched(row, k).encrypted = b
  BY <1>2 DEF Inventory
<1>4. QED
  BY <1>1, <1>3

LEMMA JobTypes ==
  ASSUME TypeInv, NEW k \in Kinds, 
         \/ StartJob(k) \/ ReadAgain(k) \/ WriteTarget(k) \/ FinishTarget(k)
         \/ UnlinkSource(k) \/ CommitFile(k) \/ SetStatus(k)
  PROVE  TypeInv'
<1> USE DEF TypeInv, rows, request, counts
<1>1. Source(k) \in Places /\ work[k] \in [at: Places, data: Contents]
  BY DEF Source, ColdTypeOK
<1>2. CASE StartJob(k)
  BY <1>1, <1>2, RowTypes DEF StartJob, ColdTypeOK, JobStep, Fresh, Inventory, Serving, AtWork, Source, Holders
<1>3. CASE ReadAgain(k)
  BY <1>1, <1>3, RowTypes DEF ReadAgain, AfterFailure, ColdTypeOK, JobStep, Has, Inventory, Serving, AtWork, Source
<1>4. CASE WriteTarget(k)
  <2>1. calm' \in BOOLEAN /\ astray' \in BOOLEAN
    BY <1>4, TakenType DEF WriteTarget, ColdTypeOK
  <2>2. file' \in [Places -> Contents] /\ work' \in [Kinds -> [at: Places, data: Contents]]
    BY <1>1, <1>4 DEF WriteTarget, ColdTypeOK, Contents
  <2>3. QED
    BY <1>1, <1>4, <2>1, <2>2 DEF WriteTarget, AfterFailure, ColdTypeOK, JobStep, Serving, AtWork, Source
<1>5. CASE FinishTarget(k)
  BY <1>1, <1>5, CodesAreContents
     DEF FinishTarget, AfterFailure, ColdTypeOK, JobStep, Contents, Serving, AtWork, Source
<1>6. CASE UnlinkSource(k)
  BY <1>1, <1>6 DEF UnlinkSource, AfterFailure, ColdTypeOK, JobStep, Contents, Serving, AtWork, Source
<1>7. CASE CommitFile(k)
  <2>1. Target(k) \in Places
    BY <1>1, <1>7, TargetOf DEF CommitFile, AtWork
  <2>2. inv' \in Inventory \cup {None}
    BY <1>7, <2>1, RowTypes, SwitchedRow DEF CommitFile, Has
  <2>3. calm' \in BOOLEAN
    BY <1>7 DEF CommitFile, ColdTypeOK
  <2>4. file' \in [Places -> Contents]
    BY <1>7 DEF CommitFile, ColdTypeOK, Contents
  <2>5. QED
    BY <1>1, <1>7, <2>2, <2>3, <2>4 DEF CommitFile, AfterFailure, ColdTypeOK, JobStep, Serving, AtWork, Source
<1>8. CASE SetStatus(k)
  BY <1>1, <1>8, RowTypes
     DEF SetStatus, ColdTypeOK, JobStep, NoWork, Location, Serving, AtWork, Source, Places, Contents
<1>9. QED
  BY <1>2, <1>3, <1>4, <1>5, <1>6, <1>7, <1>8

LEMMA FreezeTypes ==
  ASSUME TypeInv, FreezeFile \/ FreezeEncrypted \/ FreezePlain \/ CommitFreeze
  PROVE  TypeInv'
<1> USE RowTypes, ColdAssumption DEF TypeInv, rows, jobs, request, counts
<1>1. CASE FreezeFile
  <2>1. inv' \in Inventory /\ asked' \in Asked /\ asked'.at \in {"plain", "enc"}
    BY <1>1 DEF FreezeFile, Inventory, Asked, Places, Location, Contents
  <2>2. requests' \in 0..MaxRequests /\ rpc' \in {"encrypting", "freezing"} /\ stale' \subseteq stale
    BY <1>1 DEF FreezeFile, Begin, Fresh, ColdTypeOK
  <2>3. QED
    BY <1>1, <2>1, <2>2 DEF FreezeFile, ColdTypeOK, Serving, AtWork, Source
<1>2. CASE FreezeEncrypted
  <2>1. asked \in Asked /\ asked.data \in Contents
    BY <1>2 DEF FreezeEncrypted, Serving, Asked
  <2>2. inv' \in Inventory \cup {None}
    BY <1>2 DEF FreezeEncrypted, ColdTypeOK, WithStatus, Inventory, Has
  <2>3. file' \in [Places -> Contents]
    BY <1>2, <2>1, CodesAreContents DEF FreezeEncrypted, ColdTypeOK, Place, Contents
  <2>4. asked' \in Asked \cup {None} /\ (rpc' \in {"encrypting", "frozen"} => asked' \in Asked /\ asked'.at = asked.at)
    <3>1. [asked EXCEPT !.data = file["hot"]] \in Asked /\ [asked EXCEPT !.data = file["hot"]].at = asked.at
      BY <2>1 DEF Asked, ColdTypeOK, Places
    <3>2. QED
      BY <1>2, <2>1, <3>1 DEF FreezeEncrypted, Done, Then
  <2>5. rpc' \in {"encrypting", "frozen", "idle"} /\ left' \subseteq {"plain", "enc"}
    BY <1>2 DEF FreezeEncrypted, Done, Then, ColdTypeOK
  <2>6. QED
    BY <1>2, <2>2, <2>3, <2>4, <2>5 DEF FreezeEncrypted, ColdTypeOK, Serving, AtWork, Source
<1>3. CASE FreezePlain
  <2>1. inv' \in Inventory \cup {None}
    BY <1>3 DEF FreezePlain, ColdTypeOK, WithStatus, Inventory, Has
  <2>2. QED
    BY <1>3, <2>1 DEF FreezePlain, ColdTypeOK, Serving, AtWork, Source, Place, Moved, Contents, Places, Then, Done
<1>4. CASE CommitFreeze
  <2>1. asked \in Asked /\ asked.at \in {"plain", "enc"}
    BY <1>4 DEF CommitFreeze, Serving
  <2>2. inv' \in Inventory \cup {None}
    <3>1. [at |-> asked.at, cold |-> TRUE, encrypted |-> asked.encrypted, status |-> "active"] \in Inventory
      BY <2>1 DEF Asked, Inventory
    <3>2. QED
      BY <1>4, <3>1 DEF CommitFreeze, ColdTypeOK
  <2>3. QED
    BY <1>4, <2>1, <2>2 DEF CommitFreeze, ColdTypeOK, Serving, AtWork, Source, Done
<1>5. QED
  BY <1>1, <1>2, <1>3, <1>4

LEMMA ThawTypes ==
  ASSUME TypeInv, ThawFile \/ ThawMove \/ RemoveThawed \/ ForgetRecord \/ SetRow
  PROVE  TypeInv'
<1> USE RowTypes, ColdAssumption DEF TypeInv, rows, jobs, request, counts
<1>1. CASE ThawFile
  <2>1. asked' \in Asked /\ asked'.at \in {"plain", "enc"}
    BY <1>1 DEF ThawFile, ColdTypeOK, Inventory, Asked, Contents
  <2>2. requests' \in 0..MaxRequests /\ rpc' = "thaw" /\ stale' \subseteq stale
    BY <1>1 DEF ThawFile, Begin, Fresh, ColdTypeOK
  <2>3. QED
    BY <1>1, <2>1, <2>2 DEF ThawFile, ColdTypeOK, Serving, AtWork, Source
<1>2. CASE ThawMove
  <2>1. calm' \in BOOLEAN
    BY <1>2, TakenType DEF ThawMove, ColdTypeOK
  <2>2. file' \in [Places -> Contents]
    <3>1. /\ Place(asked.at, "none") \in [Places -> Contents] /\ Moved(asked.at, "hot") \in [Places -> Contents]
          /\ \A c \in Contents : Place("hot", c) \in [Places -> Contents]
      BY <1>2 DEF ThawMove, Serving, ColdTypeOK, Place, Moved, Contents, Places
    <3>2. QED
      BY <1>2, <3>1 DEF ThawMove, ColdTypeOK
  <2>3. asked' \in {asked, None} /\ (rpc' \in {"forget", "thawed"} => asked' = asked)
        /\ rpc' \in {"forget", "thawed", "idle"} /\ left' \subseteq {"plain", "enc"}
    BY <1>2 DEF ThawMove, Then, Done, ColdTypeOK
  <2>4. QED
    BY <1>2, <2>1, <2>2, <2>3 DEF ThawMove, ColdTypeOK, Serving, AtWork, Source
<1>3. CASE RemoveThawed
  <2>1. calm' \in BOOLEAN
    BY <1>3, TakenType DEF RemoveThawed, ColdTypeOK
  <2>2. QED
    BY <1>3, <2>1 DEF RemoveThawed, ColdTypeOK, Serving, AtWork, Source, Place, Contents, Then, Done
<1>4. CASE ForgetRecord
  BY <1>4 DEF ForgetRecord, ColdTypeOK, Serving, AtWork, Source, Then, Done
<1>5. CASE SetRow
  <2>1. inv' \in Inventory \cup {None}
    <3>1. [at |-> "hot", cold |-> FALSE, encrypted |-> FALSE, status |-> "active"] \in Inventory
      BY DEF Inventory, Places
    <3>2. QED
      BY <1>5, <3>1 DEF SetRow, ColdTypeOK
  <2>2. QED
    BY <1>5, <2>1 DEF SetRow, ColdTypeOK, Serving, AtWork, Source, Done
<1>6. QED
  BY <1>1, <1>2, <1>3, <1>4, <1>5

LEMMA DeleteTypes ==
  ASSUME TypeInv, DeletePath \/ (\E r \in left : ReverseFile(r)) \/ DeleteRows \/ DeleteLocation
  PROVE  TypeInv'
<1> USE RowTypes, ColdAssumption DEF TypeInv, rows, jobs, request, counts
<1>1. CASE DeletePath
  BY <1>1 DEF DeletePath, Begin, Fresh, ColdTypeOK, Serving, AtWork, Source
<1>2. ASSUME NEW r \in left, ReverseFile(r) PROVE TypeInv'
  <2>1. calm' \in BOOLEAN
    BY <1>2, TakenType DEF ReverseFile, ColdTypeOK
  <2>2. r \in Places /\ file' \in [Places -> Contents] /\ left' \subseteq {"plain", "enc"}
    BY <1>2 DEF ReverseFile, ColdTypeOK, Place, Moved, Contents, Places
  <2>3. QED
    BY <1>2, <2>1, <2>2 DEF ReverseFile, ColdTypeOK, Serving, AtWork, Source
<1>3. CASE DeleteRows
  BY <1>3 DEF DeleteRows, RowGone, Done, ColdTypeOK, Serving, AtWork, Source
<1>4. CASE DeleteLocation
  <2>1. calm' \in BOOLEAN /\ recs' \subseteq {"plain", "enc"}
    BY <1>4 DEF DeleteLocation, ColdTypeOK
  <2>2. file' \in [Places -> Contents]
    BY <1>4 DEF DeleteLocation, ColdTypeOK, Contents
  <2>3. inv' \in {inv, None} /\ stale' \subseteq Holders
    BY <1>4 DEF DeleteLocation, RowGone, ColdTypeOK
  <2>4. QED
    BY <1>4, <2>1, <2>2, <2>3 DEF DeleteLocation, ColdTypeOK, Serving, AtWork, Source
<1>5. QED
  BY <1>1, <1>2, <1>3, <1>4

LEMMA ScanTypes ==
  ASSUME TypeInv, ScanFreezes \/ ScanForgets \/ ScanAdds
  PROVE  TypeInv'
<1> USE RowTypes, ColdAssumption DEF TypeInv, rows, jobs, request, counts
<1>1. CASE ScanFreezes
  <2>1. calm' \in BOOLEAN
    BY <1>1, TakenType DEF ScanFreezes, ColdTypeOK
  <2>2. file' \in [Places -> Contents] /\ inv' \in Inventory /\ recs' \subseteq {"plain", "enc"}
    <3>1. Moved("hot", "plain") \in [Places -> Contents] /\ Place("plain", file["hot"]) \in [Places -> Contents]
      BY DEF ColdTypeOK, Place, Moved, Contents, Places
    <3>2. inv \in Inventory => [inv EXCEPT !.at = "plain", !.cold = TRUE, !.status = "active"] \in Inventory
      BY DEF Inventory, Places
    <3>3. recs' \subseteq {"plain", "enc"}
      BY <1>1 DEF ScanFreezes, ColdTypeOK
    <3>4. QED
      BY <1>1, <3>1, <3>2, <3>3 DEF ScanFreezes
  <2>3. QED
    BY <1>1, <2>1, <2>2 DEF ScanFreezes, ColdTypeOK, Serving, AtWork, Source
<1>2. CASE ScanForgets
  BY <1>2 DEF ScanForgets, RowGone, ColdTypeOK, Serving, AtWork, Source
<1>3. CASE ScanAdds
  BY <1>3 DEF ScanAdds, ColdTypeOK, Serving, AtWork, Source, Inventory, Places
<1>4. QED
  BY <1>1, <1>2, <1>3

\* Every step keeps the types.
LEMMA TypeStep == ASSUME TypeInv, [ColdNext]_coldVars PROVE TypeInv'
<1> USE RowTypes, ColdAssumption DEF TypeInv, rows, jobs, request, counts
<1>1. CASE UpdateLocation
  BY <1>1 DEF UpdateLocation, ColdTypeOK, Serving, AtWork, Source, Location
<1>2. CASE ScheduleJob
  BY <1>2 DEF ScheduleJob, ColdTypeOK, Serving, AtWork, Source, Kinds
<1>3. CASE JobSteps
  BY <1>3, JobTypes DEF JobSteps
<1>4. CASE Crash
  BY <1>4 DEF Crash, Done, ColdTypeOK, Serving, AtWork, Source, NoWork, Places, Contents
<1>5. CASE UNCHANGED coldVars
  BY <1>5 DEF coldVars, ColdTypeOK, Serving, AtWork, Source
<1>6. QED
  BY <1>1, <1>2, <1>3, <1>4, <1>5, FreezeTypes, ThawTypes, DeleteTypes, ScanTypes DEF ColdNext

-----------------------------------------------------------------------------
\* The ghosts that never come back.
LEMMA GhostStep ==
  ASSUME TypeInv, ColdNext
  PROVE  (astray => astray') /\ (undone => undone') /\ (calm' => calm)
<1> DEFINE Still == UNCHANGED <<astray, undone, calm>>
           Ghosts == (astray => astray') /\ (undone => undone') /\ (calm' => calm)
<1> USE DEF rows, jobs, request, counts
<1>1. ASSUME NEW k \in Kinds, WriteTarget(k) PROVE Ghosts
  <2>1. (astray => astray') /\ UNCHANGED undone
    BY <1>1 DEF WriteTarget
  <2>2. calm' => calm
    BY <1>1, Zenon DEF WriteTarget, Taken
  <2>3. QED
    BY <2>1, <2>2
<1>2. ASSUME NEW k \in Kinds, StartJob(k) \/ ReadAgain(k) \/ FinishTarget(k) \/ UnlinkSource(k) \/ SetStatus(k)
      PROVE  Still
  BY <1>2 DEF StartJob, ReadAgain, FinishTarget, UnlinkSource, SetStatus
<1>3. ASSUME NEW k \in Kinds, CommitFile(k) PROVE Ghosts
  BY <1>3 DEF CommitFile
<1>4. CASE UpdateLocation \/ ScheduleJob \/ FreezeFile \/ FreezeEncrypted \/ FreezePlain \/ CommitFreeze
  <2>1. Still
    BY <1>4 DEF UpdateLocation, ScheduleJob, FreezeFile, FreezeEncrypted, FreezePlain, CommitFreeze
  <2>2. QED
    BY <2>1
<1>5. CASE ThawFile \/ ForgetRecord \/ SetRow \/ DeletePath \/ DeleteRows \/ ScanForgets \/ ScanAdds \/ Crash
  <2>1. Still
    BY <1>5 DEF ThawFile, ForgetRecord, SetRow, DeletePath, DeleteRows, ScanForgets, ScanAdds, Crash
  <2>2. QED
    BY <2>1
<1>6. CASE ThawMove \/ RemoveThawed
  <2>1. UNCHANGED <<astray, undone>>
    BY <1>6 DEF ThawMove, RemoveThawed
  <2>2. calm' => calm
    BY <1>6, Zenon DEF ThawMove, RemoveThawed, Taken
  <2>3. QED
    BY <2>1, <2>2
<1>7. CASE DeleteLocation
  BY <1>7 DEF DeleteLocation
<1>8. ASSUME NEW r \in left, ReverseFile(r) PROVE Ghosts
  <2>1. UNCHANGED astray /\ (undone => undone')
    BY <1>8 DEF ReverseFile
  <2>2. calm' => calm
    BY <1>8, Zenon DEF ReverseFile, Taken
  <2>3. QED
    BY <2>1, <2>2
<1>9. CASE ScanFreezes
  <2>1. UNCHANGED <<astray, undone>>
    BY <1>9 DEF ScanFreezes
  <2>2. calm' => calm
    BY <1>9, Zenon DEF ScanFreezes, Taken
  <2>3. QED
    BY <2>1, <2>2
<1>10. CASE JobSteps
  <2>1. PICK k \in Kinds : StartJob(k) \/ ReadAgain(k) \/ WriteTarget(k) \/ FinishTarget(k)
                           \/ UnlinkSource(k) \/ CommitFile(k) \/ SetStatus(k)
    BY <1>10 DEF JobSteps
  <2>2. QED
    BY <1>1, <1>2, <1>3, <2>1
<1>11. QED
  BY <1>4, <1>5, <1>6, <1>7, <1>8, <1>9, <1>10 DEF ColdNext

\* At which step a job is after its own step: the other job is where it was.
LEMMA FitJob ==
  ASSUME TypeInv, FitInv, ~astray', NEW k \in Kinds,
         \/ StartJob(k) \/ ReadAgain(k) \/ WriteTarget(k) \/ FinishTarget(k)
         \/ UnlinkSource(k) \/ CommitFile(k) \/ SetStatus(k)
  PROVE  FitInv'
<1> USE DEF TypeInv, rows, request, counts, Serving
<1>1. ~astray /\ (inv # None => inv \in Inventory /\ RowFits(inv)) /\ WorkFits /\ AskedFits
      /\ jpc \in [Kinds -> {"idle", "write", "finish", "unlink", "commit", "status"}]
      /\ work \in [Kinds -> [at: Places, data: Contents]]
  BY RowTypes, GhostStep DEF FitInv, ColdNext, JobSteps, ColdTypeOK
<1>2. CASE StartJob(k)
  BY <1>1, <1>2 DEF StartJob, JobStep, FitInv, RowFits, WorkFits, AskedFits, AtWork, Source
<1>3. CASE ReadAgain(k)
  BY <1>1, <1>3 DEF ReadAgain, AfterFailure, JobStep, FitInv, RowFits, WorkFits, AskedFits, AtWork, Source
<1>4. CASE WriteTarget(k)
  <2>1. CASE jpc'[k] # "finish"
    BY <1>1, <1>4, <2>1 DEF WriteTarget, AfterFailure, JobStep, FitInv, RowFits, WorkFits, AskedFits, AtWork, Source
  <2>2. CASE jpc'[k] = "finish"
    <3>1. Has(k) /\ Due(inv, k) /\ inv.at = Source(k) /\ jpc' = [jpc EXCEPT ![k] = "finish"]
          /\ \A j \in Kinds : work'[j].at = work[j].at
      BY <1>1, <1>4, <2>2 DEF WriteTarget, AfterFailure, JobStep, Source
    <3>2. Source(k) = IF k = "encrypt" THEN "plain" ELSE "enc"
      BY <1>1, <3>1 DEF Has, Due, RowFits, Inventory, Kinds
    <3>3. WorkFits'
      BY <1>1, <3>1, <3>2 DEF WorkFits, AtWork, Source
    <3>4. QED
      BY <1>1, <1>4, <3>3 DEF WriteTarget, FitInv, RowFits, AskedFits
  <2>3. QED
    BY <2>1, <2>2
<1>5. CASE FinishTarget(k)
  BY <1>1, <1>5 DEF FinishTarget, JobStep, FitInv, RowFits, WorkFits, AskedFits, AtWork, Source
<1>6. CASE UnlinkSource(k)
  BY <1>1, <1>6 DEF UnlinkSource, JobStep, FitInv, RowFits, WorkFits, AskedFits, AtWork, Source
<1>7. CASE CommitFile(k)
  <2>1. Target(k) = IF k = "encrypt" THEN "enc" ELSE "plain"
    BY <1>1, <1>7, TargetOf DEF CommitFile, AtWork, WorkFits, Kinds, Places, NoTarget
  <2>2. inv' # None => RowFits(inv')
    BY <1>1, <1>7, <2>1, SwitchedRow DEF CommitFile, RowFits, Has, Kinds, Places
  <2>3. QED
    BY <1>1, <1>7, <2>2 DEF CommitFile, JobStep, FitInv, RowFits, WorkFits, AskedFits, AtWork, Source
<1>8. CASE SetStatus(k)
  BY <1>1, <1>8 DEF SetStatus, JobStep, FitInv, RowFits, WorkFits, AskedFits, AtWork, Source
<1>9. QED
  BY <1>2, <1>3, <1>4, <1>5, <1>6, <1>7, <1>8

\* A row with its status alone changed still fits.
LEMMA StatusFits ==
  ASSUME TypeInv, NEW s \in {"active", "migrating"}, inv # None => RowFits(inv)
  PROVE  /\ WithStatus(s) # None => inv # None /\ RowFits(WithStatus(s))
         /\ inv # None => RowFits([inv EXCEPT !.status = s])
<1>1. inv # None => RowFits([inv EXCEPT !.status = s])
  BY RowTypes DEF TypeInv, RowFits, Inventory
<1>2. QED
  BY <1>1, RowTypes, ColdNone DEF TypeInv, WithStatus, Has

\* Every step keeps the paths, the flags and the storage types together.
LEMMA FitStep == ASSUME TypeInv, FitInv, [ColdNext]_coldVars PROVE FitInv'
<1> USE DEF TypeInv, rows, jobs, request, counts, Serving
<1>1. CASE UNCHANGED coldVars
  BY <1>1 DEF coldVars, FitInv, RowFits, WorkFits, AskedFits, AtWork, Source
<1>2. SUFFICES ASSUME ~astray', ColdNext PROVE FitInv'
  BY <1>1 DEF FitInv
<1>3. ~astray /\ (inv # None => inv \in Inventory /\ RowFits(inv)) /\ WorkFits /\ AskedFits
      /\ (loc # None => loc \in Location) /\ recs \subseteq {"plain", "enc"}
  BY <1>2, RowTypes, GhostStep DEF FitInv, ColdTypeOK
<1>4. UNCHANGED <<jpc, work>> => WorkFits'
  BY <1>3 DEF WorkFits, AtWork, Source
<1>5. rpc' \in {"idle", "undo"} \/ UNCHANGED <<rpc, asked>> => AskedFits'
  BY <1>3 DEF AskedFits
<1>6. UNCHANGED inv \/ inv' = None => (inv' # None => RowFits(inv'))
  BY <1>3
<1> USE <1>3, <1>4, <1>5, <1>6
<1>7. CASE UpdateLocation \/ ScheduleJob \/ DeletePath \/ DeleteLocation \/ ScanForgets
           \/ \E r \in left : ReverseFile(r)
  BY <1>7 DEF UpdateLocation, ScheduleJob, DeletePath, DeleteLocation, ScanForgets, RowGone, Begin,
              ReverseFile, FitInv
<1>8. CASE DeleteRows \/ Crash
  BY <1>8 DEF DeleteRows, RowGone, Done, Crash, FitInv, WorkFits, AtWork
<1>9. CASE JobSteps
  BY <1>2, <1>9, FitJob DEF JobSteps
<1>10. CASE FreezeFile
  <2>1. inv' # None => RowFits(inv')
    BY <1>10, StatusFits DEF FreezeFile
  <2>2. AskedFits'
    BY <1>10 DEF FreezeFile, Begin, AskedFits, Location
  <2>3. QED
    BY <1>10, <2>1, <2>2 DEF FreezeFile, FitInv
<1>11. CASE FreezeEncrypted
  <2>1. inv' # None => RowFits(inv')
    BY <1>11, StatusFits DEF FreezeEncrypted
  <2>2. AskedFits'
    BY <1>11 DEF FreezeEncrypted, AskedFits, Done, Then, Asked
  <2>3. QED
    BY <1>11, <2>1, <2>2 DEF FreezeEncrypted, FitInv
<1>12. CASE FreezePlain
  <2>1. inv' # None => RowFits(inv')
    BY <1>12, StatusFits DEF FreezePlain
  <2>2. AskedFits'
    BY <1>12 DEF FreezePlain, AskedFits, Done, Then
  <2>3. QED
    BY <1>12, <2>1, <2>2 DEF FreezePlain, FitInv
<1>13. CASE CommitFreeze
  <2>1. inv' # None => RowFits(inv')
    BY <1>13 DEF CommitFreeze, AskedFits, RowFits
  <2>2. QED
    BY <1>13, <2>1 DEF CommitFreeze, FitInv, Done
<1>14. CASE ThawFile
  <2>1. AskedFits'
    BY <1>14 DEF ThawFile, Begin, AskedFits, RowFits, Inventory
  <2>2. QED
    BY <1>14, <2>1 DEF ThawFile, FitInv
<1>15. CASE ThawMove
  <2>1. AskedFits'
    BY <1>15 DEF ThawMove, AskedFits, Done, Then
  <2>2. QED
    BY <1>15, <2>1 DEF ThawMove, FitInv
<1>16. CASE RemoveThawed \/ ForgetRecord
  <2>1. AskedFits'
    BY <1>16 DEF RemoveThawed, ForgetRecord, AskedFits, Done, Then
  <2>2. QED
    BY <1>16, <2>1 DEF RemoveThawed, ForgetRecord, FitInv
<1>17. CASE SetRow \/ ScanAdds
  <2>1. inv' # None => RowFits(inv')
    BY <1>17 DEF SetRow, ScanAdds, RowFits
  <2>2. QED
    BY <1>17, <2>1 DEF SetRow, ScanAdds, Done, FitInv
<1>18. CASE ScanFreezes
  <2>1. inv' # None => RowFits(inv')
    BY <1>18 DEF ScanFreezes, RowFits, Inventory
  <2>2. QED
    BY <1>18, <2>1 DEF ScanFreezes, FitInv
<1>19. QED
  BY <1>2, <1>7, <1>8, <1>9, <1>10, <1>11, <1>12, <1>13, <1>14, <1>15, <1>16, <1>17, <1>18 DEF ColdNext

-----------------------------------------------------------------------------
\* Encoding and decoding, once each.
LEMMA CodesAreForms ==
  /\ \A d \in {"torn", "clear"} : Encoded[d] \in {"torn", "cipher"}
  /\ \A d \in {"clear", "torn", "cipher", "double"} : (Encoded[d] \in Whole <=> d \in Whole) /\ Encoded[d] # "none"
  /\ \A d \in {"torn", "cipher"}, c \in Contents : Decodes(d, c) => c = "clear"
  /\ \A d \in Contents, c \in Contents : Decodes(d, c) => c \in Whole
BY DEF Encoded, Decodes, Contents, Whole

\* The work of a job gives each place its form.
LEMMA FormJob ==
  ASSUME TypeInv, FitInv, FormInv, ~astray, ~undone, ~astray', NEW k \in Kinds,
         \/ StartJob(k) \/ ReadAgain(k) \/ WriteTarget(k) \/ FinishTarget(k)
         \/ UnlinkSource(k) \/ CommitFile(k) \/ SetStatus(k)
  PROVE  FormInv'
<1> USE DEF TypeInv, rows, request, counts
<1>1. /\ file \in [Places -> Contents] /\ WorkFits
      /\ jpc \in [Kinds -> {"idle", "write", "finish", "unlink", "commit", "status"}]
      /\ work \in [Kinds -> [at: Places, data: Contents]]
  BY DEF FitInv, ColdTypeOK
<1> DEFINE Begun == /\ UNCHANGED <<rpc, asked>>
                    /\ \A j \in Kinds : jpc'[j] = "finish" => jpc[j] = "finish" /\ work'[j].data = work[j].data
<1>0. Begun /\ (\A p \in Places : file'[p] \in {file[p], "none"}) => FormInv'
  BY <1>1 DEF FormInv, Places, Kinds
<1>2. CASE StartJob(k) \/ ReadAgain(k) \/ SetStatus(k)
  <2>1. Begun /\ UNCHANGED file
    <3>1. CASE StartJob(k)
      BY <1>1, <3>1 DEF StartJob, JobStep
    <3>2. CASE ReadAgain(k)
      BY <1>1, <3>2 DEF ReadAgain, AfterFailure, JobStep
    <3>3. CASE SetStatus(k)
      BY <1>1, <3>3 DEF SetStatus, JobStep
    <3>4. QED
      BY <1>2, <3>1, <3>2, <3>3
  <2>2. QED
    BY <1>0, <2>1
<1>3. CASE WriteTarget(k) /\ jpc'[k] # "finish"
  <2>1. Begun /\ UNCHANGED file
    BY <1>1, <1>3 DEF WriteTarget, JobStep
  <2>2. QED
    BY <1>0, <2>1
<1>4. CASE WriteTarget(k) /\ jpc'[k] = "finish"
  <2>1. FitInv'
    BY <1>4, FitStep DEF ColdNext, JobSteps
  <2>2. jpc' = [jpc EXCEPT ![k] = "finish"] /\ work' = [work EXCEPT ![k].data = file[Source(k)]]
        /\ file[Source(k)] # "none" /\ file' = [file EXCEPT ![Target(k)] = "torn"]
        /\ Source(k) \notin NoTarget(k)
    BY <1>1, <1>4 DEF WriteTarget, AfterFailure, JobStep
  <2>3. Source(k) = IF k = "encrypt" THEN "plain" ELSE "enc"
    <3>1. work'[k].at = work[k].at /\ AtWork(k)'
      BY <1>1, <2>2 DEF AtWork
    <3>2. QED
      BY <2>1, <3>1 DEF FitInv, WorkFits, Source
  <2>4. /\ k = "encrypt" => work'["encrypt"].data \in {"torn", "clear"} /\ UNCHANGED <<jpc["decrypt"], work["decrypt"]>>
        /\ k = "decrypt" => work'["decrypt"].data \in {"torn", "cipher"} /\ UNCHANGED <<jpc["encrypt"], work["encrypt"]>>
    BY <1>1, <2>2, <2>3 DEF FormInv, Kinds
  <2>5. Target(k) = IF k = "encrypt" THEN "enc" ELSE "plain"
    BY <1>1, <2>2, <2>3, TargetOf DEF Places, Kinds
  <2>6. QED
    BY <1>1, <1>4, <2>2, <2>4, <2>5 DEF WriteTarget, FormInv, Kinds
<1>5. CASE FinishTarget(k) \/ UnlinkSource(k) \/ CommitFile(k)
  <2>1. AtWork(k) /\ Source(k) = IF k = "encrypt" THEN "plain" ELSE "enc"
    BY <1>1, <1>5 DEF FinishTarget, UnlinkSource, CommitFile, AtWork, WorkFits
  <2>2. Target(k) = IF k = "encrypt" THEN "enc" ELSE "plain"
    BY <2>1, TargetOf DEF Places, Kinds, NoTarget
  <2>3. CASE FinishTarget(k)
    <3>1. Begun
      BY <1>1, <2>3 DEF FinishTarget, JobStep
    <3>2. CASE \A p \in Places : file'[p] \in {file[p], "none"}
      BY <1>0, <3>1, <3>2
    <3>3. CASE \E p \in Places : file'[p] \notin {file[p], "none"}
      <4>1. PICK c \in Contents :
               /\ IF k = "encrypt" THEN c = Encoded[work[k].data] ELSE Decodes(work[k].data, c)
               /\ file' = [file EXCEPT ![Target(k)] = Finished(@, c)]
        BY <1>1, <2>3, <3>3 DEF FinishTarget, Places
      <4>2. IF k = "encrypt" THEN c \in {"torn", "cipher"} ELSE c = "clear"
        BY <2>1, <2>3, <4>1, CodesAreForms DEF FormInv, FinishTarget, Kinds
      <4>3. file'["hot"] = file["hot"]
            /\ IF k = "encrypt" THEN file'["enc"] \in {"none", c} /\ file'["plain"] = file["plain"]
                                ELSE file'["plain"] \in {"none", c} /\ file'["enc"] = file["enc"]
        BY <1>1, <2>2, <4>1 DEF Finished, Places
      <4>4. QED
        BY <3>1, <4>2, <4>3 DEF FormInv, Kinds
    <3>4. QED
      BY <3>2, <3>3
  <2>4. CASE UnlinkSource(k)
    <3>1. Begun /\ \A p \in Places : file'[p] \in {file[p], "none"}
      BY <1>1, <2>4 DEF UnlinkSource, AfterFailure, JobStep, Places
    <3>2. QED
      BY <1>0, <3>1
  <2>5. CASE CommitFile(k)
    <3>1. Begun /\ \A p \in Places : file'[p] \in {file[p], "none"}
      BY <1>1, <2>5 DEF CommitFile, AfterFailure, JobStep, Places
    <3>2. QED
      BY <1>0, <3>1
  <2>6. QED
    BY <1>5, <2>3, <2>4, <2>5
<1>6. QED
  BY <1>2, <1>3, <1>4, <1>5

\* Every step keeps the form of each place.
LEMMA FormStep == ASSUME TypeInv, FitInv, FormInv, [ColdNext]_coldVars PROVE FormInv'
<1> USE DEF TypeInv, rows, jobs, request, counts
<1>1. CASE UNCHANGED coldVars
  BY <1>1 DEF coldVars, FormInv
<1>2. SUFFICES ASSUME ~astray', ~undone', ColdNext PROVE FormInv'
  BY <1>1 DEF FormInv
<1>3. ~astray /\ ~undone /\ file \in [Places -> Contents] /\ AskedFits
  BY <1>2, GhostStep DEF FitInv, ColdTypeOK
<1>4. (\A p \in Places : file'[p] \in {file[p], "none"}) /\ UNCHANGED <<jpc, work>>
      /\ (rpc' # "encrypting" \/ UNCHANGED <<rpc, asked>>) => FormInv'
  BY <1>3 DEF FormInv, Places
<1> USE <1>3, <1>4
<1>5. CASE UpdateLocation \/ ScheduleJob \/ ForgetRecord \/ SetRow \/ DeletePath \/ ScanForgets \/ ScanAdds
           \/ DeleteRows \/ CommitFreeze
  <2>1. UNCHANGED <<file, jpc, work>> /\ (rpc' # "encrypting" \/ UNCHANGED <<rpc, asked>>)
    BY <1>5 DEF UpdateLocation, ScheduleJob, ForgetRecord, SetRow, DeletePath, ScanForgets, ScanAdds,
                DeleteRows, CommitFreeze, Done, Then, Begin
  <2>2. QED
    BY <2>1
<1>6. CASE JobSteps
  BY <1>2, <1>6, FormJob DEF JobSteps
<1>7. CASE FreezeFile
  <2>1. asked'.data = "none"
    BY <1>7 DEF FreezeFile
  <2>2. QED
    BY <1>7, <2>1 DEF FreezeFile, FormInv
<1>8. CASE FreezeEncrypted
  <2>1. asked \in Asked
    BY <1>8 DEF FreezeEncrypted, Serving
  <2>2. QED
    BY <1>8, <2>1, CodesAreForms
       DEF FreezeEncrypted, Place, Finished, FormInv, Done, Then, Places, Asked, Contents
<1>9. CASE FreezePlain
  BY <1>9 DEF FreezePlain, Place, Moved, FormInv, Done, Then, Places
<1>10. CASE ThawFile
  BY <1>10 DEF ThawFile, Begin, FormInv
<1>11. CASE ThawMove
  <2>1. asked \in Asked /\ asked.at \in {"plain", "enc"} /\ (asked.encrypted <=> asked.at = "enc")
    BY <1>11 DEF ThawMove, Serving, AskedFits
  <2>2. \A c \in Contents : asked.encrypted /\ Decodes(file[asked.at], c) => c = "clear"
    BY <2>1, CodesAreForms DEF FormInv, Decodes, Encoded, Contents
  <2>3. QED
    BY <1>11, <2>1, <2>2 DEF ThawMove, Place, Moved, FormInv, Done, Then, Places
<1>12. CASE RemoveThawed
  BY <1>12 DEF RemoveThawed, Place, Done, Then, Places
<1>13. ASSUME NEW r \in left, ReverseFile(r) PROVE FormInv'
  BY <1>2, <1>13 DEF ReverseFile
<1>14. CASE DeleteLocation
  BY <1>14 DEF DeleteLocation, Places
<1>15. CASE ScanFreezes
  BY <1>15 DEF ScanFreezes, Place, Moved, FormInv, Places
<1>16. CASE Crash
  BY <1>16 DEF Crash, FormInv, Done, NoWork, Kinds
<1>17. QED
  BY <1>2, <1>5, <1>6, <1>7, <1>8, <1>9, <1>10, <1>11, <1>12, <1>13, <1>14, <1>15, <1>16 DEF ColdNext

LEMMA FormInitial == ColdInit => FitInv /\ FormInv
BY DEF ColdInit, FitInv, FormInv, RowFits, WorkFits, AskedFits, AtWork, Serving, Kinds, Places, NoWork

\* A cold row tells the form of its file and a thaw puts back what can be read.
LEMMA FormTells == TypeInv /\ FitInv /\ FormInv => FlagTellsForm /\ ThawIsReadable
<1> SUFFICES ASSUME TypeInv, FitInv, FormInv PROVE FlagTellsForm /\ ThawIsReadable
  OBVIOUS
<1>1. FlagTellsForm
  BY RowTypes DEF TypeInv, FitInv, FormInv, FlagTellsForm, RowFits, Inventory, Whole
<1>2. ThawIsReadable
  BY DEF FormInv, ThawIsReadable
<1>3. QED
  BY <1>1, <1>2

\* Every variable stays in its type: a job always has somewhere to write to, and a
\* request that has read the row goes on to a place in the location.
THEOREM ColdTypes == ColdSpec => []ColdTypeOK
<1>1. TypeInv => ColdTypeOK
  BY DEF TypeInv
<1>2. QED
  BY <1>1, TypeInitial, TypeStep, PTL DEF ColdSpec

\* Whatever is interrupted, the flag of a cold row tells the form of its file.
THEOREM FlagTells == ColdSpec => []FlagTellsForm
<1>1. TypeInv /\ FitInv /\ FormInv /\ [ColdNext]_coldVars => (TypeInv /\ FitInv /\ FormInv)'
  BY TypeStep, FitStep, FormStep
<1>2. QED
  BY <1>1, TypeInitial, FormInitial, FormTells, PTL DEF ColdSpec

\* No thaw puts an encrypted file back as the file.
THEOREM ThawReadable == ColdSpec => []ThawIsReadable
<1>1. TypeInv /\ FitInv /\ FormInv /\ [ColdNext]_coldVars => (TypeInv /\ FitInv /\ FormInv)'
  BY TypeStep, FitStep, FormStep
<1>2. QED
  BY <1>1, TypeInitial, FormInitial, FormTells, PTL DEF ColdSpec

-----------------------------------------------------------------------------
\* Every step tells the rows that are gone from those that are there.
LEMMA StaleStep == ASSUME TypeInv, StaleInv, [ColdNext]_coldVars PROVE StaleInv'
<1> USE DEF rows, jobs, request, counts
<1>1. CASE UNCHANGED coldVars
  BY <1>1 DEF coldVars, StaleInv, Serving
<1>2. (inv # None => inv \in Inventory) /\ (loc # None => loc \in Location) /\ stale \subseteq Holders
  BY RowTypes DEF TypeInv, ColdTypeOK
<1>3. UNCHANGED <<inv, stale, op>> /\ (Serving' => Serving) => StaleInv'
  BY DEF StaleInv
<1>4. (inv = None <=> inv' = None) /\ (inv # None => inv'.cold = inv.cold) /\ UNCHANGED <<stale, op>>
      /\ (Serving' => Serving) => StaleInv'
  BY DEF StaleInv
<1> USE <1>2, <1>3, <1>4
<1>5. CASE UpdateLocation \/ ScheduleJob \/ ThawMove \/ RemoveThawed \/ ForgetRecord
           \/ \E r \in left : ReverseFile(r)
  <2>1. UNCHANGED <<inv, stale, op>> /\ (Serving' => Serving)
    BY <1>5 DEF UpdateLocation, ScheduleJob, ThawMove, RemoveThawed, ForgetRecord, ReverseFile, Then, Done, Serving
  <2>2. QED
    BY <2>1
<1>6. CASE FreezeEncrypted \/ FreezePlain
  <2>1. inv' \in {inv, WithStatus("active")} /\ UNCHANGED <<stale, op>> /\ (Serving' => Serving)
    BY <1>6 DEF FreezeEncrypted, FreezePlain, Then, Done, Serving
  <2>2. (inv = None <=> inv' = None) /\ (inv # None => inv'.cold = inv.cold)
    BY <2>1, ColdNone DEF WithStatus, Has, Inventory
  <2>3. QED
    BY <2>1, <2>2
<1>7. ASSUME NEW k \in Kinds, StartJob(k) PROVE StaleInv'
  BY <1>7 DEF StartJob, Fresh, StaleInv, Serving, Kinds
<1>8. ASSUME NEW k \in Kinds, CommitFile(k) PROVE StaleInv'
  <2>1. CASE UNCHANGED inv
    BY <1>8, <2>1 DEF CommitFile, StaleInv, Serving
  <2>2. CASE Has(k) /\ inv' = Switched(inv, k)
    <3>1. Source(k) \in Places /\ Target(k) \in Places
      BY <1>8, TargetOf DEF CommitFile, AtWork, TypeInv, ColdTypeOK, Source
    <3>2. inv' \in Inventory /\ inv'.cold = inv.cold
      BY <2>2, <3>1, SwitchedRow DEF Has
    <3>3. QED
      BY <1>8, <2>2, <3>2, ColdNone DEF CommitFile, Serving, Has
  <2>3. QED
    BY <1>8, <2>1, <2>2 DEF CommitFile
<1>9. ASSUME NEW k \in Kinds, ReadAgain(k) \/ WriteTarget(k) \/ FinishTarget(k) \/ UnlinkSource(k) \/ SetStatus(k)
      PROVE  StaleInv'
  <2>1. UNCHANGED <<inv, stale, op, rpc>>
    BY <1>9 DEF ReadAgain, WriteTarget, FinishTarget, UnlinkSource, SetStatus
  <2>2. QED
    BY <2>1 DEF Serving
<1>10. CASE FreezeFile
  <2>1. inv' \in Inventory /\ inv'.cold = inv.cold
    BY <1>10 DEF FreezeFile, Inventory
  <2>2. QED
    BY <1>10, <2>1, ColdNone DEF FreezeFile, Begin, Fresh, StaleInv, Kinds
<1>11. CASE ThawFile \/ DeletePath
  BY <1>11 DEF ThawFile, DeletePath, Begin, Fresh, StaleInv, Serving, Kinds
<1>12. CASE CommitFreeze \/ SetRow \/ DeleteRows \/ ScanFreezes \/ Crash
  <2>1. rpc' = "idle"
    BY <1>12 DEF CommitFreeze, SetRow, DeleteRows, ScanFreezes, Crash, Done
  <2>2. (UNCHANGED <<op, stale>> /\ (inv' = inv \/ inv # None)) \/ RowGone
    BY <1>12 DEF CommitFreeze, SetRow, DeleteRows, ScanFreezes, Crash, Has
  <2>3. op' = None => inv' = None
    BY <1>12 DEF CommitFreeze, SetRow, DeleteRows, ScanFreezes, Crash, Has, RowGone, StaleInv
  <2>4. inv' = None => Kinds \subseteq stale'
    <3>1. CASE UNCHANGED <<inv, stale>> \/ RowGone
      BY <3>1 DEF StaleInv, RowGone, Holders
    <3>2. CASE CommitFreeze
      <4>1. asked \in Asked
        BY <3>2 DEF CommitFreeze, TypeInv, Serving
      <4>2. [at |-> asked.at, cold |-> TRUE, encrypted |-> asked.encrypted, status |-> "active"] \in Inventory
        BY <4>1 DEF Asked, Inventory
      <4>3. QED
        BY <3>1, <3>2, <4>2, ColdNone DEF CommitFreeze
    <3>3. CASE SetRow
      <4>1. [at |-> "hot", cold |-> FALSE, encrypted |-> FALSE, status |-> "active"] \in Inventory
        BY DEF Inventory, Places
      <4>2. QED
        BY <3>1, <3>3, <4>1, ColdNone DEF SetRow
    <3>4. CASE ScanFreezes
      <4>1. inv' \in Inventory
        BY <3>4 DEF ScanFreezes, Inventory, Places
      <4>2. QED
        BY <4>1, ColdNone
    <3>5. QED
      BY <1>12, <3>1, <3>2, <3>3, <3>4 DEF DeleteRows, Crash
  <2>5. QED
    BY <2>1, <2>3, <2>4 DEF StaleInv, Serving
<1>13. CASE DeleteLocation \/ ScanForgets
  BY <1>13 DEF DeleteLocation, ScanForgets, RowGone, StaleInv, Serving, Holders
<1>14. CASE ScanAdds
  BY <1>14, ColdNone DEF ScanAdds, StaleInv, Serving
<1>15. QED
  BY <1>1, <1>5, <1>6, <1>7, <1>8, <1>9, <1>10, <1>11, <1>12, <1>13, <1>14 DEF ColdNext, JobSteps

-----------------------------------------------------------------------------
\* The two places of a job at work are the two places of the file in the location.
LEMMA JobPlaces ==
  ASSUME TypeInv, FitInv, ~astray, NEW k \in Kinds, AtWork(k)
  PROVE  /\ Source(k) = IF k = "encrypt" THEN "plain" ELSE "enc"
         /\ Target(k) = IF k = "encrypt" THEN "enc" ELSE "plain"
<1>1. Source(k) = IF k = "encrypt" THEN "plain" ELSE "enc"
  BY DEF FitInv, WorkFits
<1>2. Target(k) = IF k = "encrypt" THEN "enc" ELSE "plain"
  BY <1>1, TargetOf DEF Places, Kinds, NoTarget
<1>3. QED
  BY <1>1, <1>2

\* So a job at work is in the way of whoever takes a file there.
LEMMA Untaken ==
  ASSUME TypeInv, FitInv, ~astray, NEW p \in {"plain", "enc"},
         \A k \in Kinds : ~(AtWork(k) /\ p \in {Source(k), Target(k)})
  PROVE  NoneAtWork
BY JobPlaces DEF NoneAtWork, Kinds

\* What holds before a step of a quiet system.
LEMMA KeepFacts ==
  ASSUME TypeInv, FitInv, KeepInv, ColdNext, Quiet'
  PROVE  /\ Quiet /\ SomeWhole /\ HotInv /\ FreezeInv /\ ThawInv
         /\ \A k \in Kinds : JobHas(k)
         /\ file \in [Places -> Contents]
         /\ inv # None => inv \in Inventory /\ RowFits(inv)
         /\ jpc \in [Kinds -> {"idle", "write", "finish", "unlink", "commit", "status"}]
         /\ work \in [Kinds -> [at: Places, data: Contents]]
         /\ Serving => asked \in Asked /\ asked.at \in {"plain", "enc"}
         /\ \A k \in Kinds : AtWork(k) => /\ Source(k) = IF k = "encrypt" THEN "plain" ELSE "enc"
                                          /\ Target(k) = IF k = "encrypt" THEN "enc" ELSE "plain"
<1>1. Quiet
  BY GhostStep DEF Quiet
<1>2. SomeWhole /\ HotInv /\ FreezeInv /\ ThawInv /\ \A k \in Kinds : JobHas(k)
  BY <1>1 DEF KeepInv
<1>3. \A k \in Kinds : AtWork(k) => /\ Source(k) = IF k = "encrypt" THEN "plain" ELSE "enc"
                                    /\ Target(k) = IF k = "encrypt" THEN "enc" ELSE "plain"
  BY <1>1, JobPlaces DEF Quiet
<1>4. QED
  BY <1>1, <1>2, <1>3, RowTypes DEF Quiet, TypeInv, ColdTypeOK, FitInv

\* A job that is where it was has the places it had.
LEMMA JobSame ==
  ASSUME NEW k \in Kinds, jpc'[k] = jpc[k], work'[k].at = work[k].at
  PROVE  (AtWork(k)' <=> AtWork(k)) /\ Source(k)' = Source(k) /\ Target(k)' = Target(k)
BY DEF AtWork, Source, Target

\* A step of somebody else leaves a job what it has, if it leaves its two files.
LEMMA JobsKept ==
  ASSUME \A k \in Kinds : JobHas(k), UNCHANGED <<jpc, work>>, op = None => op' = None,
         \A k \in Kinds : AtWork(k) =>
            /\ file'[Source(k)] = file[Source(k)] /\ file'[Target(k)] = file[Target(k)]
            /\ Has(k)' => /\ Has(k) /\ inv'.at = inv.at
                          /\ inv'.cold = inv.cold /\ inv'.encrypted = inv.encrypted
            /\ Has(k) /\ ~Has(k)' => jpc[k] = "commit" \/ op' = None
  PROVE  (\A k \in Kinds : JobHas(k)') /\ (NoneAtWork' <=> NoneAtWork)
<1>1. \A k \in Kinds : (AtWork(k)' <=> AtWork(k)) /\ Source(k)' = Source(k) /\ Target(k)' = Target(k)
  BY JobSame
<1>2. ASSUME NEW k \in Kinds PROVE JobHas(k)'
  <2>1. SUFFICES ASSUME AtWork(k) PROVE JobHas(k)'
    BY <1>1 DEF JobHas
  <2>2. Has(k)' => inv'.at = Source(k) /\ Due(inv, k)' /\ (jpc[k] = "commit" => file[Source(k)] = "none")
    <3>1. SUFFICES ASSUME Has(k)' PROVE inv'.at = Source(k) /\ Due(inv, k)' /\ (jpc[k] = "commit" => file[Source(k)] = "none")
      OBVIOUS
    <3>2. Has(k) /\ inv.at = Source(k) /\ Due(inv, k) /\ (jpc[k] = "commit" => file[Source(k)] = "none")
      BY <2>1, <3>1 DEF JobHas
    <3>3. Due(inv, k)'
      BY <2>1, <3>1, <3>2 DEF Due
    <3>4. QED
      BY <2>1, <3>1, <3>2, <3>3
  <2>3. QED
    BY <1>1, <2>1, <2>2 DEF JobHas, WholeAt
<1>3. QED
  BY <1>1, <1>2 DEF NoneAtWork

\* Nor is anything asked of the jobs when none is at work.
LEMMA NoJobs ==
  ASSUME NoneAtWork, UNCHANGED <<jpc, work>>
  PROVE  NoneAtWork' /\ \A k \in Kinds : JobHas(k)'
BY JobSame DEF NoneAtWork, JobHas

LEMMA KeepFreeze ==
  ASSUME TypeInv, FitInv, StaleInv, KeepInv, Quiet', FreezeFile
  PROVE  KeepInv'
<1> USE DEF rows, jobs, request, counts, WholeAt
<1>1. ColdNext
  BY DEF ColdNext
<1> USE KeepFacts, <1>1
<1>2. PICK to \in {"plain", "enc"} : file[to] = "none" /\ asked'.at = to /\ asked'.data = "none"
  BY DEF FreezeFile
<1>3. inv' # None /\ inv'.at = "hot" /\ ~inv'.cold /\ inv'.status = "migrating"
      /\ inv # None /\ inv'.at = inv.at /\ inv'.cold = inv.cold /\ inv'.encrypted = inv.encrypted
  BY ColdNone DEF FreezeFile, Inventory
<1>4. stale' = stale \ {"request"} /\ rpc' \in {"encrypting", "freezing"}
      /\ UNCHANGED <<file, jpc, work, op>> /\ file["hot"] # "none"
  BY DEF FreezeFile, Begin, Fresh
<1>5. \A k \in Kinds : Has(k)' <=> Has(k)
  BY <1>3, <1>4 DEF Has, Kinds
<1>6. (\A k \in Kinds : JobHas(k)') /\ (NoneAtWork' <=> NoneAtWork)
  BY <1>3, <1>4, <1>5, JobsKept
<1>7. WholeAt("hot")
  BY <1>4 DEF HotInv, Whole, Contents, Places
<1>8. \A k \in Kinds : AtWork(k) => jpc[k] = "commit" /\ Target(k) # to /\ ~Has(k)
  <2>1. SUFFICES ASSUME NEW k \in Kinds, AtWork(k) PROVE jpc[k] = "commit" /\ Target(k) # to /\ ~Has(k)
    OBVIOUS
  <2>2. JobHas(k) /\ jpc[k] \in {"finish", "unlink", "commit"} /\ to \in {Source(k), Target(k)}
    BY <1>2, <2>1 DEF AtWork
  <2>3. jpc[k] = "commit" /\ Target(k) # to
    BY <1>2, <2>1, <2>2 DEF JobHas, Whole
  <2>4. inv.at = "hot" /\ Source(k) # "hot"
    BY <1>3, <2>1
  <2>5. QED
    BY <2>1, <2>2, <2>3, <2>4 DEF JobHas
<1>9. FreezeInv'
  BY <1>2, <1>3, <1>4, <1>5, <1>7, <1>8, JobSame DEF FreezeInv, Has
<1>10. HotInv' /\ SomeWhole' /\ ThawInv'
  BY <1>3, <1>4, <1>7 DEF HotInv, SomeWhole, ThawInv, Places
<1>11. QED
  BY <1>6, <1>9, <1>10 DEF KeepInv

LEMMA KeepFreezing ==
  ASSUME TypeInv, FitInv, StaleInv, KeepInv, Quiet', FreezeEncrypted \/ FreezePlain
  PROVE  KeepInv'
<1> USE DEF rows, jobs, request, counts, WholeAt
<1>1. ColdNext
  BY DEF ColdNext
<1> USE KeepFacts, <1>1
<1>2. Freezing /\ Serving /\ Has("request") /\ inv # None /\ inv.at = "hot" /\ ~inv.cold /\ inv.status = "migrating"
      /\ WholeAt("hot") /\ asked.data \in Whole \cup {"none"} /\ op # None
  BY DEF FreezeEncrypted, FreezePlain, Freezing, Serving, FreezeInv, Has, StaleInv
<1>3. \A k \in Kinds : AtWork(k) => jpc[k] = "commit" /\ Target(k) # asked.at /\ ~Has(k) /\ WholeAt(Target(k))
  BY <1>2 DEF FreezeInv, JobHas
<1>4. UNCHANGED <<jpc, work, stale, op>> /\ inv' # None /\ inv'.at = "hot" /\ ~inv'.cold
      /\ inv'.cold = inv.cold /\ inv'.encrypted = inv.encrypted /\ (rpc' # "idle" => UNCHANGED inv)
  <2>1. UNCHANGED <<jpc, work, stale, op>> /\ inv' \in {inv, [inv EXCEPT !.status = "active"]}
        /\ (rpc' # "idle" => UNCHANGED inv)
    BY <1>2 DEF FreezeEncrypted, FreezePlain, WithStatus, Done, Then
  <2>2. QED
    BY <1>2, <2>1, ColdNone DEF Inventory
<1>5. \A k \in Kinds : Has(k)' <=> Has(k)
  BY <1>2, <1>4 DEF Has
<1>6. (\A p \in Places : p \notin {"hot", asked.at} => file'[p] = file[p])
      /\ file'["hot"] \in {"none", file["hot"]} /\ (op = "copy" => file'["hot"] = file["hot"])
      /\ (file'["hot"] \in Whole \/ file'[asked.at] \in Whole)
  <2>1. CASE FreezeEncrypted
    <3>1. asked.at = "enc"
      BY <1>1, <2>1 DEF FreezeEncrypted, Quiet, FitInv, AskedFits
    <3>2. asked.data # "none" => Encoded[asked.data] \in Whole /\ file["enc"] # "none"
      BY <1>2, <2>1, CodesAreForms DEF Whole, FreezeInv, FreezeEncrypted
    <3>3. CASE rpc' = "frozen"
      <4>1. file' = [file EXCEPT !["enc"] = Finished(@, Encoded[asked.data]),
                                 !["hot"] = IF op = "move" THEN "none" ELSE @] /\ asked.data # "none"
        BY <1>2, <2>1, <3>3 DEF FreezeEncrypted, Then, Done
      <4>2. file'["enc"] \in Whole
        BY <3>2, <4>1 DEF Finished, Places
      <4>3. QED
        BY <3>1, <4>1, <4>2 DEF Places
    <3>4. CASE rpc' # "frozen"
      <4>1. \E c : file' \in {file, Place("enc", c)}
        BY <1>2, <2>1, <3>4 DEF FreezeEncrypted, Then, Done
      <4>2. QED
        BY <1>2, <3>1, <4>1 DEF Place, Places
    <3>5. QED
      BY <3>3, <3>4
  <2>2. CASE FreezePlain
    <3>1. asked.at = "plain"
      BY <1>1, <2>2 DEF FreezePlain, Quiet, FitInv, AskedFits
    <3>2. QED
      BY <1>2, <2>2, <3>1 DEF FreezePlain, Place, Moved, Places, Whole
  <2>3. QED
    BY <2>1, <2>2
<1>7. \A k \in Kinds : JobHas(k)'
  <2>1. SUFFICES ASSUME NEW k \in Kinds, AtWork(k) PROVE JobHas(k)'
    BY <1>4, JobSame DEF JobHas
  <2>2. jpc'[k] = "commit" /\ Target(k)' = Target(k) /\ WholeAt(Target(k)) /\ ~Has(k)'
        /\ \A j \in Kinds : AtWork(j)' => j = k
    BY <1>3, <1>4, <1>5, <2>1, JobSame DEF JobHas
  <2>3. file'[Target(k)] = file[Target(k)]
    BY <1>2, <1>3, <1>6, <2>1 DEF Places, Kinds
  <2>4. QED
    BY <2>2, <2>3 DEF JobHas
<1>8. SomeWhole' /\ HotInv'
  BY <1>2, <1>4, <1>6 DEF SomeWhole, HotInv, Places, Whole
<1>9. ThawInv' /\ FreezeInv'
  <2>1. CASE rpc' = "idle"
    BY <2>1 DEF ThawInv, FreezeInv, Freezing
  <2>2. CASE rpc' # "idle"
    <3>1. rpc' \in {"encrypting", "frozen"} /\ asked'.at = asked.at
      BY <1>2, <2>2 DEF FreezeEncrypted, FreezePlain, Done, Then, Asked
    <3>2. rpc' = "encrypting" => asked'.data = file["hot"] /\ file'["hot"] = file["hot"] /\ file'["enc"] = "torn"
      BY <1>2, <2>2 DEF FreezeEncrypted, FreezePlain, Done, Then, Asked, Place, Places
    <3>3. rpc' = "frozen" => WholeAt(asked.at)'
      <4>1. CASE FreezeEncrypted /\ rpc' = "frozen"
        <5>1. asked.at = "enc"
          BY <1>1, <4>1 DEF FreezeEncrypted, Quiet, FitInv, AskedFits
        <5>2. asked.data # "none" /\ Encoded[asked.data] \in Whole /\ file["enc"] # "none"
              /\ file'["enc"] = Finished(file["enc"], Encoded[asked.data])
          BY <1>2, <4>1, CodesAreForms DEF Whole, FreezeInv, FreezeEncrypted, Done, Then, Places
        <5>3. QED
          BY <3>1, <5>1, <5>2 DEF Finished
      <4>2. CASE FreezePlain /\ rpc' = "frozen"
        <5>1. asked.at = "plain"
          BY <1>1, <4>2 DEF FreezePlain, Quiet, FitInv, AskedFits
        <5>2. QED
          BY <1>2, <3>1, <4>2, <5>1 DEF FreezePlain, Done, Then, Place, Moved, Places
      <4>3. QED
        BY <4>1, <4>2
    <3>4. \A k \in Kinds : AtWork(k)' => jpc'[k] = "commit" /\ Target(k)' # asked'.at /\ ~Has(k)'
      BY <1>3, <1>4, <1>5, <3>1, JobSame
    <3>5. Has("request")' /\ inv'.status = "migrating"
      BY <1>2, <1>4, <2>2 DEF Has
    <3>6. FreezeInv'
      BY <1>2, <1>4, <3>1, <3>2, <3>3, <3>4, <3>5 DEF FreezeInv, Whole
    <3>7. QED
      BY <3>1, <3>6 DEF ThawInv
  <2>3. QED
    BY <2>1, <2>2
<1>10. QED
  BY <1>7, <1>8, <1>9 DEF KeepInv

LEMMA KeepCommitFreeze ==
  ASSUME TypeInv, FitInv, StaleInv, KeepInv, Quiet', CommitFreeze
  PROVE  KeepInv'
<1> USE DEF rows, jobs, request, counts, WholeAt
<1>1. ColdNext
  BY DEF ColdNext
<1> USE KeepFacts, <1>1
<1>2. Has("request") /\ WholeAt(asked.at) /\ rpc' = "idle" /\ UNCHANGED <<file, stale, op, jpc, work>>
      /\ \A k \in Kinds : AtWork(k) => ~Has(k)
  BY DEF CommitFreeze, FreezeInv, Freezing, Done
<1>3. \A k \in Kinds : AtWork(k) => ~Has(k)'
  BY <1>2 DEF Has
<1>4. \A k \in Kinds : JobHas(k)'
  BY <1>2, <1>3, JobsKept
<1>5. HotInv'
  <2>1. inv' = inv \/ (inv'.at = asked.at)
    BY DEF CommitFreeze
  <2>2. QED
    BY <1>2, <2>1 DEF HotInv, Whole
<1>6. SomeWhole' /\ FreezeInv' /\ ThawInv'
  BY <1>2 DEF SomeWhole, FreezeInv, Freezing, ThawInv
<1>7. QED
  BY <1>4, <1>5, <1>6 DEF KeepInv

LEMMA KeepThaw ==
  ASSUME TypeInv, FitInv, StaleInv, KeepInv, Quiet', ThawFile
  PROVE  KeepInv'
<1> USE DEF rows, jobs, request, counts, WholeAt
<1>1. ColdNext
  BY DEF ColdNext
<1> USE KeepFacts, <1>1
<1>2. inv # None /\ inv.cold /\ asked'.at = inv.at /\ file[inv.at] # "none" /\ rpc' = "thaw"
      /\ UNCHANGED <<file, inv, op, jpc, work>> /\ stale' = stale \ {"request"}
  BY DEF ThawFile, Begin, Fresh
<1>3. \A k \in Kinds : Has(k)' <=> Has(k)
  BY <1>2 DEF Has, Kinds
<1>4. (\A k \in Kinds : JobHas(k)') /\ (NoneAtWork' <=> NoneAtWork)
  BY <1>2, <1>3, JobsKept
<1>5. HotInv' /\ SomeWhole' /\ FreezeInv' /\ ThawInv'
  BY <1>2 DEF HotInv, SomeWhole, FreezeInv, Freezing, ThawInv
<1>6. QED
  BY <1>4, <1>5 DEF KeepInv

LEMMA KeepThawMove ==
  ASSUME TypeInv, FitInv, StaleInv, KeepInv, Quiet', ThawMove
  PROVE  KeepInv'
<1> USE DEF rows, jobs, request, counts, WholeAt
<1>1. ColdNext
  BY DEF ColdNext
<1> USE KeepFacts, <1>1
<1>2. rpc = "thaw" /\ asked \in Asked /\ asked.at \in {"plain", "enc"} /\ UNCHANGED <<inv, stale, op, jpc, work>>
  BY DEF ThawMove, Serving
<1>3. CASE rpc' = "idle"
  <2>1. UNCHANGED file
    BY <1>3 DEF ThawMove, Then, Done
  <2>2. (\A k \in Kinds : JobHas(k)') /\ (NoneAtWork' <=> NoneAtWork)
    BY <1>2, <2>1, JobsKept DEF Has
  <2>3. QED
    BY <1>2, <1>3, <2>1, <2>2 DEF KeepInv, HotInv, SomeWhole, FreezeInv, Freezing, ThawInv
<1>4. CASE rpc' # "idle"
  <2>1. file[asked.at] # "none" /\ UNCHANGED asked /\ rpc' \in {"forget", "thawed"}
    BY <1>4 DEF ThawMove, Then, Done
  <2>2. \A k \in Kinds : ~(AtWork(k) /\ asked.at \in {Source(k), Target(k)})
    <3>1. calm' => \A k \in Kinds : ~(AtWork(k) /\ asked.at \in {Source(k), Target(k)})
      BY <1>4, Zenon DEF ThawMove, Then, Done, Taken
    <3>2. QED
      BY <3>1 DEF Quiet
  <2>3. NoneAtWork
    BY <1>2, <2>2, Untaken DEF Quiet
  <2>4. NoneAtWork' /\ \A k \in Kinds : JobHas(k)'
    BY <1>2, <2>3, NoJobs
  <2>5. file[asked.at] \in Whole
    BY <1>2, <2>1, <2>3 DEF ThawInv, NoneAtWork, Whole, Contents, Places
  <2>6. Has("request") => inv.at = asked.at /\ inv.cold
    BY <1>2, <2>1, <2>3 DEF ThawInv
  <2>7. file'["hot"] \in Whole /\ (\A p \in Places : p # "hot" => file'[p] \in {file[p], "none"})
        /\ (rpc' = "forget" => file'[asked.at] = "none")
    <3>1. CASE op = "copy" /\ file["hot"] # "none"
      BY <1>2, <1>4, <3>1 DEF ThawMove, Then, Done, Place, Places, HotInv
    <3>2. CASE ~(op = "copy" /\ file["hot"] # "none") /\ asked.encrypted
      BY <1>2, <1>4, <3>2, CodesAreForms DEF ThawMove, Then, Done, Place, Places
    <3>3. CASE ~(op = "copy" /\ file["hot"] # "none") /\ ~asked.encrypted
      BY <1>2, <1>4, <2>5, <3>3 DEF ThawMove, Then, Done, Moved, Places
    <3>4. QED
      BY <3>1, <3>2, <3>3
  <2>8. HotInv' /\ SomeWhole'
    BY <1>2, <2>7 DEF HotInv, SomeWhole, Places, Whole, RowFits
  <2>9. FreezeInv' /\ ThawInv'
    BY <1>2, <2>1, <2>4, <2>6, <2>7 DEF FreezeInv, Freezing, ThawInv, Has, NoneAtWork
  <2>10. QED
    BY <2>4, <2>8, <2>9 DEF KeepInv
<1>5. QED
  BY <1>3, <1>4

LEMMA KeepThawed ==
  ASSUME TypeInv, FitInv, StaleInv, KeepInv, Quiet', RemoveThawed
  PROVE  KeepInv'
<1> USE DEF rows, jobs, request, counts, WholeAt
<1>1. ColdNext
  BY DEF ColdNext
<1> USE KeepFacts, <1>1
<1>2. rpc = "thawed" /\ asked \in Asked /\ asked.at \in {"plain", "enc"} /\ UNCHANGED <<inv, stale, op, jpc, work>>
  BY DEF RemoveThawed, Serving
<1>3. CASE rpc' = "idle"
  <2>1. UNCHANGED file
    BY <1>3 DEF RemoveThawed, Then, Done
  <2>2. (\A k \in Kinds : JobHas(k)') /\ (NoneAtWork' <=> NoneAtWork)
    BY <1>2, <2>1, JobsKept DEF Has
  <2>3. QED
    BY <1>2, <1>3, <2>1, <2>2 DEF KeepInv, HotInv, SomeWhole, FreezeInv, Freezing, ThawInv
<1>4. CASE rpc' # "idle"
  <2>1. file[asked.at] # "none" /\ UNCHANGED asked /\ rpc' = "forget" /\ file' = [file EXCEPT ![asked.at] = "none"]
    BY <1>4 DEF RemoveThawed, Then, Done, Place
  <2>2. \A k \in Kinds : ~(AtWork(k) /\ asked.at \in {Source(k), Target(k)})
    <3>1. calm' => \A k \in Kinds : ~(AtWork(k) /\ asked.at \in {Source(k), Target(k)})
      BY <1>4, Zenon DEF RemoveThawed, Then, Done, Taken
    <3>2. QED
      BY <3>1 DEF Quiet
  <2>3. NoneAtWork
    BY <1>2, <2>2, Untaken DEF Quiet
  <2>4. NoneAtWork' /\ \A k \in Kinds : JobHas(k)'
    BY <1>2, <2>3, NoJobs
  <2>5. (Has("request") => inv.at = asked.at) /\ WholeAt("hot")
    BY <1>2, <2>1, <2>3 DEF ThawInv
  <2>6. HotInv' /\ SomeWhole' /\ FreezeInv' /\ ThawInv'
    BY <1>2, <2>1, <2>4, <2>5 DEF HotInv, SomeWhole, Places, Whole, RowFits, FreezeInv, Freezing, ThawInv, Has
  <2>7. QED
    BY <2>4, <2>6 DEF KeepInv
<1>5. QED
  BY <1>3, <1>4

LEMMA KeepForget ==
  ASSUME TypeInv, FitInv, StaleInv, KeepInv, Quiet', ForgetRecord \/ SetRow
  PROVE  KeepInv'
<1> USE DEF rows, jobs, request, counts, WholeAt
<1>1. ColdNext
  BY DEF ColdNext
<1> USE KeepFacts, <1>1
<1>2. NoneAtWork /\ UNCHANGED <<file, op, stale, jpc, work>>
  BY DEF ForgetRecord, SetRow, ThawInv
<1>3. NoneAtWork' /\ \A k \in Kinds : JobHas(k)'
  BY <1>2, NoJobs
<1>4. CASE ForgetRecord
  BY <1>2, <1>3, <1>4 DEF KeepInv, HotInv, SomeWhole, FreezeInv, Freezing, ThawInv, ForgetRecord, Then, Done, Has
<1>5. CASE SetRow
  <2>1. inv' = inv \/ ~inv'.cold
    BY <1>5 DEF SetRow
  <2>2. QED
    BY <1>2, <1>3, <1>5, <2>1 DEF KeepInv, HotInv, SomeWhole, FreezeInv, Freezing, ThawInv, SetRow, Done
<1>6. QED
  BY <1>4, <1>5

LEMMA KeepDelete ==
  ASSUME TypeInv, FitInv, StaleInv, KeepInv, Quiet',
         DeletePath \/ (\E r \in left : ReverseFile(r)) \/ DeleteRows \/ DeleteLocation
  PROVE  KeepInv'
<1> USE DEF rows, jobs, request, counts, WholeAt
<1>1. ColdNext
  BY DEF ColdNext
<1> USE KeepFacts, <1>1
<1>2. CASE DeletePath
  <2>1. UNCHANGED <<file, inv, op, jpc, work>> /\ stale' = stale \ {"request"} /\ rpc' = "undo"
    BY <1>2 DEF DeletePath, Begin, Fresh
  <2>2. \A k \in Kinds : Has(k)' <=> Has(k)
    BY <2>1 DEF Has, Kinds
  <2>3. \A k \in Kinds : JobHas(k)'
    BY <2>1, <2>2, JobsKept
  <2>4. QED
    BY <2>1, <2>3 DEF KeepInv, HotInv, SomeWhole, FreezeInv, Freezing, ThawInv
<1>3. ASSUME NEW r \in left, ReverseFile(r) PROVE KeepInv'
  <2>1. rpc = "undo" /\ rpc' = "undo" /\ UNCHANGED <<inv, stale, op, jpc, work>> /\ r \in {"plain", "enc"}
    BY <1>3 DEF ReverseFile, TypeInv, ColdTypeOK
  <2>2. FreezeInv' /\ ThawInv'
    BY <2>1 DEF FreezeInv, Freezing, ThawInv
  <2>3. CASE UNCHANGED file
    <3>1. \A k \in Kinds : JobHas(k)'
      BY <2>1, <2>3, JobsKept DEF Has
    <3>2. QED
      BY <2>1, <2>2, <2>3, <3>1 DEF KeepInv, HotInv, SomeWhole
  <2>4. CASE file' # file
    <3>1. file[r] \in Whole /\ ~(op = "move" /\ file["hot"] # "none")
      BY <1>3, <2>1, <2>4 DEF ReverseFile, Quiet, Whole, Contents, Places
    <3>2. calm' => \A k \in Kinds : ~(AtWork(k) /\ r \in {Source(k), Target(k)})
      BY <1>3, <2>4, <3>1, Zenon DEF ReverseFile, Taken, Whole
    <3>3. NoneAtWork
      BY <2>1, <3>2, Untaken DEF Quiet
    <3>4. \A k \in Kinds : JobHas(k)'
      BY <2>1, <3>3, NoJobs
    <3>5. file'["hot"] \in Whole /\ (\A p \in Places : p # "hot" => file'[p] \in {file[p], "none"})
      BY <1>3, <2>1, <2>4, <3>1 DEF ReverseFile, Place, Moved, Places, HotInv
    <3>6. HotInv' /\ SomeWhole'
      BY <2>1, <3>5 DEF HotInv, SomeWhole, Places, Whole, RowFits
    <3>7. QED
      BY <2>2, <3>4, <3>6 DEF KeepInv
  <2>5. QED
    BY <2>3, <2>4
<1>4. CASE DeleteRows
  <2>1. UNCHANGED <<file, jpc, work>> /\ op' = None /\ inv' = None /\ rpc' = "idle"
    BY <1>4 DEF DeleteRows, RowGone, Done
  <2>2. \A k \in Kinds : JobHas(k)'
    BY <2>1, JobsKept DEF Has
  <2>3. op' # "copy"
    BY <2>1, ColdNone
  <2>4. QED
    BY <2>1, <2>2, <2>3 DEF KeepInv, HotInv, SomeWhole, FreezeInv, Freezing, ThawInv
<1>5. CASE DeleteLocation
  <2>1. UNCHANGED <<file, inv, stale, op, jpc, work, rpc>> /\ rpc = "idle"
    BY <1>5 DEF DeleteLocation, Quiet
  <2>2. \A k \in Kinds : JobHas(k)'
    BY <2>1, JobsKept DEF Has
  <2>3. QED
    BY <2>1, <2>2 DEF KeepInv, HotInv, SomeWhole, FreezeInv, Freezing, ThawInv
<1>6. QED
  BY <1>2, <1>3, <1>4, <1>5

LEMMA KeepScan ==
  ASSUME TypeInv, FitInv, StaleInv, KeepInv, Quiet', ScanFreezes \/ ScanForgets \/ ScanAdds
  PROVE  KeepInv'
<1> USE DEF rows, jobs, request, counts, WholeAt
<1>1. ColdNext
  BY DEF ColdNext
<1> USE KeepFacts, <1>1
<1>2. CASE ScanFreezes
  <2>1. rpc = "idle" /\ rpc' = "idle" /\ UNCHANGED <<stale, op, jpc, work>> /\ file["hot"] \in Whole /\ inv # None
    BY <1>2 DEF ScanFreezes, HotInv, Whole, Contents, Places
  <2>2. calm' => \A k \in Kinds : ~(AtWork(k) /\ "plain" \in {Source(k), Target(k)})
    BY <1>2, Zenon DEF ScanFreezes, Taken
  <2>3. NoneAtWork
    BY <2>2, Untaken DEF Quiet
  <2>4. \A k \in Kinds : JobHas(k)'
    BY <2>1, <2>3, NoJobs
  <2>5. file'["plain"] \in Whole /\ file'["enc"] = file["enc"] /\ file'["hot"] \in {"none", file["hot"]}
        /\ (op # "move" => file'["hot"] = file["hot"])
    BY <1>2, <2>1 DEF ScanFreezes, Place, Moved, Places
  <2>6. inv' = inv \/ (inv'.at = "plain")
    BY <1>2, <2>1 DEF ScanFreezes, Inventory
  <2>7. HotInv' /\ SomeWhole'
    BY <2>1, <2>5, <2>6 DEF HotInv, SomeWhole, Places, Whole, RowFits
  <2>8. QED
    BY <2>1, <2>4, <2>7 DEF KeepInv, FreezeInv, Freezing, ThawInv
<1>3. CASE ScanForgets
  <2>1. UNCHANGED <<file, op, jpc, work, rpc, asked>>
    BY <1>3 DEF ScanForgets
  <2>2. CASE UNCHANGED <<inv, stale>>
    <3>1. (\A k \in Kinds : JobHas(k)') /\ (NoneAtWork' <=> NoneAtWork)
      BY <2>1, <2>2, JobsKept DEF Has
    <3>2. \A k \in Kinds : (AtWork(k)' <=> AtWork(k)) /\ Target(k)' = Target(k) /\ (Has(k)' <=> Has(k))
      BY <2>1, <2>2, JobSame DEF Has
    <3>3. QED
      BY <2>1, <2>2, <3>1, <3>2 DEF KeepInv, HotInv, SomeWhole, FreezeInv, Freezing, ThawInv, Has
  <2>3. CASE inv # None /\ inv.status = "active" /\ file[inv.at] = "none" /\ RowGone
    <3>1. \A k \in Kinds : AtWork(k) /\ Has(k) => jpc[k] = "commit"
      BY <2>3 DEF JobHas, AtWork, Whole
    <3>2. (\A k \in Kinds : JobHas(k)') /\ (NoneAtWork' <=> NoneAtWork)
      BY <2>1, <2>3, <3>1, JobsKept DEF Has, RowGone
    <3>3. ~Freezing
      BY <2>3 DEF FreezeInv
    <3>4. \A k \in Kinds : (AtWork(k)' <=> AtWork(k)) /\ Target(k)' = Target(k)
      BY <2>1, JobSame
    <3>5. QED
      BY <2>1, <2>3, <3>2, <3>3, <3>4 DEF KeepInv, HotInv, SomeWhole, FreezeInv, Freezing, ThawInv, Has, RowGone
  <2>4. QED
    BY <1>3, <2>2, <2>3 DEF ScanForgets
<1>4. CASE ScanAdds
  <2>1. UNCHANGED <<file, op, stale, jpc, work, rpc, asked>> /\ inv = None /\ ~inv'.cold
    BY <1>4 DEF ScanAdds
  <2>2. \A h \in Kinds : ~Has(h) /\ ~Has(h)'
    BY <2>1 DEF StaleInv, Has
  <2>3. (\A k \in Kinds : JobHas(k)') /\ (NoneAtWork' <=> NoneAtWork)
    BY <2>1, <2>2, JobsKept
  <2>4. ~Freezing /\ (Serving => ~Has("request")')
    BY <2>1 DEF FreezeInv, StaleInv, Has
  <2>5. \A k \in Kinds : (AtWork(k)' <=> AtWork(k)) /\ Target(k)' = Target(k)
    BY <2>1, JobSame
  <2>6. QED
    BY <2>1, <2>3, <2>4, <2>5 DEF KeepInv, HotInv, SomeWhole, FreezeInv, Freezing, Serving, ThawInv
<1>5. QED
  BY <1>2, <1>3, <1>4

\* A job that is not at work, before or after its step.
LEMMA KeepIdleJob ==
  ASSUME TypeInv, FitInv, StaleInv, KeepInv, Quiet', NEW k \in Kinds,
         \/ StartJob(k) \/ ReadAgain(k) \/ SetStatus(k)
         \/ WriteTarget(k) /\ jpc'[k] # "finish"
  PROVE  KeepInv'
<1> USE DEF rows, request, counts, WholeAt
<1>1. ColdNext
  BY DEF ColdNext, JobSteps
<1> USE KeepFacts, <1>1
<1> DEFINE Rest == /\ ~AtWork(k) /\ ~AtWork(k)'
                   /\ \A j \in Kinds : j # k => jpc'[j] = jpc[j] /\ work'[j] = work[j]
<1>2. Rest \/ UNCHANGED <<jpc, work>>
  <2>1. CASE StartJob(k)
    BY <2>1 DEF StartJob, JobStep, AtWork
  <2>2. CASE ReadAgain(k)
    BY <2>2 DEF ReadAgain, AfterFailure, JobStep, AtWork
  <2>3. CASE SetStatus(k)
    BY <2>3 DEF SetStatus, JobStep, AtWork
  <2>4. CASE WriteTarget(k) /\ jpc'[k] # "finish"
    BY <2>4 DEF WriteTarget, AfterFailure, JobStep, AtWork
  <2>5. QED
    BY <2>1, <2>2, <2>3, <2>4
<1>3. UNCHANGED <<file, inv, op, rpc, asked>> /\ (\A h \in Holders : h # k => (h \in stale' <=> h \in stale))
  <2>1. CASE StartJob(k)
    BY <2>1 DEF StartJob, Fresh
  <2>2. CASE ReadAgain(k) \/ SetStatus(k)
    BY <2>2 DEF ReadAgain, SetStatus
  <2>3. CASE WriteTarget(k) /\ jpc'[k] # "finish"
    BY <2>3 DEF WriteTarget, JobStep
  <2>4. QED
    BY <2>1, <2>2, <2>3
<1>4. (Has("request")' <=> Has("request")) /\ \A j \in Kinds : j # k => (Has(j)' <=> Has(j))
  BY <1>3 DEF Has, Holders, Kinds
<1>5. UNCHANGED <<jpc, work>> => (Has(k)' <=> Has(k)) \/ ~AtWork(k)
  BY DEF StartJob, Fresh, ReadAgain, SetStatus, WriteTarget, JobStep, Has, AtWork
<1>6. \A j \in Kinds : /\ AtWork(j)' <=> AtWork(j)
                       /\ AtWork(j) => /\ jpc'[j] = jpc[j] /\ work'[j] = work[j]
                                       /\ Source(j)' = Source(j) /\ Target(j)' = Target(j) /\ (Has(j)' <=> Has(j))
  <2>1. SUFFICES ASSUME NEW j \in Kinds
                 PROVE  /\ AtWork(j)' <=> AtWork(j)
                        /\ AtWork(j) => /\ jpc'[j] = jpc[j] /\ work'[j] = work[j]
                                        /\ Source(j)' = Source(j) /\ Target(j)' = Target(j) /\ (Has(j)' <=> Has(j))
    OBVIOUS
  <2>2. CASE j = k /\ Rest
    BY <2>2
  <2>3. CASE j # k \/ UNCHANGED <<jpc, work>>
    BY <1>2, <1>4, <1>5, <2>3, JobSame
  <2>4. QED
    BY <1>2, <2>2, <2>3
<1>7. \A j \in Kinds : JobHas(j)'
  <2>1. SUFFICES ASSUME NEW j \in Kinds, AtWork(j)' PROVE JobHas(j)'
    BY DEF JobHas
  <2>2. JobHas(j) /\ AtWork(j) /\ jpc'[j] = jpc[j] /\ work'[j] = work[j] /\ (Has(j)' <=> Has(j))
        /\ Source(j)' = Source(j) /\ Target(j)' = Target(j) /\ \A i \in Kinds : AtWork(i)' => AtWork(i)
    BY <1>6, <2>1
  <2>3. Due(inv, j) => Due(inv, j)'
    BY <1>3 DEF Due
  <2>4. QED
    BY <1>3, <2>2, <2>3 DEF JobHas
<1>8. SomeWhole' /\ HotInv' /\ FreezeInv' /\ ThawInv'
  BY <1>3, <1>4, <1>6 DEF SomeWhole, HotInv, FreezeInv, Freezing, ThawInv, NoneAtWork
<1>9. QED
  BY <1>7, <1>8 DEF KeepInv

\* A job begins its output: nobody else was at work, and no request is in its way.
LEMMA KeepWrite ==
  ASSUME TypeInv, FitInv, StaleInv, KeepInv, Quiet', NEW k \in Kinds, WriteTarget(k), jpc'[k] = "finish"
  PROVE  KeepInv'
<1> USE DEF rows, request, counts, WholeAt
<1>1. ColdNext /\ FitInv'
  BY FitStep DEF ColdNext, JobSteps
<1> USE KeepFacts, <1>1
<1>2. /\ jpc' = [jpc EXCEPT ![k] = "finish"] /\ file' = [file EXCEPT ![Target(k)] = "torn"]
      /\ work' = [work EXCEPT ![k].data = file[Source(k)]]
      /\ file[Source(k)] # "none" /\ Source(k) \notin NoTarget(k)
      /\ UNCHANGED <<inv, stale, op, rpc, asked>>
  BY DEF WriteTarget, AfterFailure, JobStep
<1>3. Has(k) /\ Due(inv, k) /\ inv.at = Source(k)
  BY DEF WriteTarget, AfterFailure, Quiet, JobStep
<1>4. /\ Source(k) = IF k = "encrypt" THEN "plain" ELSE "enc"
      /\ Target(k) = IF k = "encrypt" THEN "enc" ELSE "plain"
  <2>1. Source(k) = IF k = "encrypt" THEN "plain" ELSE "enc"
    BY <1>3 DEF Has, Due, RowFits, Inventory, Kinds
  <2>2. QED
    BY <1>2, <2>1, TargetOf DEF Places, Kinds
<1>5. NoneAtWork
  <2>1. calm' => \A j \in Kinds : ~(AtWork(j) /\ Target(k) \in {Source(j), Target(j)})
    BY Zenon DEF WriteTarget, AfterFailure, Taken, JobStep
  <2>2. PICK p : p = Target(k)
    OBVIOUS
  <2>3. p \in {"plain", "enc"} /\ \A j \in Kinds : ~(AtWork(j) /\ p \in {Source(j), Target(j)})
    BY <1>4, <2>1, <2>2 DEF Quiet
  <2>4. QED
    BY <2>3, Untaken DEF Quiet
<1>6. file[Source(k)] \in Whole
  BY <1>2, <1>3, <1>4 DEF Has, Due, HotInv, Whole, Contents, Places
<1>7. /\ AtWork(k)' /\ Source(k)' = Source(k) /\ Target(k)' = Target(k) /\ jpc'[k] = "finish"
      /\ work'[k].data = file[Source(k)] /\ \A j \in Kinds : AtWork(j)' => j = k
  BY <1>2, <1>5 DEF AtWork, NoneAtWork, Source, Target
<1>8. file'[Source(k)] = file[Source(k)] /\ file'[Target(k)] = "torn" /\ file'["hot"] = file["hot"]
  BY <1>2, <1>4 DEF Places
<1>9. \A j \in Kinds : JobHas(j)'
  <2>1. Due(inv, k)' /\ Has(k)'
    BY <1>2, <1>3 DEF Due, Has
  <2>2. QED
    BY <1>2, <1>3, <1>6, <1>7, <1>8, <2>1 DEF JobHas
<1>10. SomeWhole' /\ HotInv'
  BY <1>2, <1>3, <1>4, <1>6, <1>8 DEF SomeWhole, HotInv, Places, Whole
<1>11. inv # None /\ inv.cold
  BY <1>3 DEF Has, Due
<1>12. ~Freezing /\ rpc \notin {"forget", "row"}
  <2>1. ~Freezing
    BY <1>11 DEF FreezeInv
  <2>2. CASE rpc \in {"forget", "row"} /\ Has("request")
    BY <1>2, <1>3, <2>2 DEF ThawInv
  <2>3. CASE rpc \in {"forget", "row"} /\ ~Has("request")
    BY <1>11, <2>3 DEF StaleInv, Serving, Has
  <2>4. QED
    BY <2>1, <2>2, <2>3
<1>13. FreezeInv' /\ ThawInv'
  <2>1. rpc = "thaw" /\ file'[asked.at] = "torn" => asked.at = Target(k)
    BY <1>4, <1>6, <1>8 DEF Serving, Whole
  <2>2. QED
    BY <1>2, <1>7, <1>8, <1>12, <2>1 DEF FreezeInv, Freezing, ThawInv, NoneAtWork
<1>14. QED
  BY <1>9, <1>10, <1>13 DEF KeepInv

\* While a job is between its output and its source, it has the file for itself.
LEMMA JobAlone ==
  ASSUME TypeInv, FitInv, StaleInv, KeepInv, ColdNext, Quiet', NEW k \in Kinds, AtWork(k), jpc[k] # "commit"
  PROVE  /\ ~Freezing /\ rpc \notin {"forget", "row"} /\ \A j \in Kinds : AtWork(j) => j = k
         /\ inv # None => Has(k)
         /\ Has(k) => inv.at = Source(k) /\ inv.cold
BY KeepFacts DEF FreezeInv, ThawInv, NoneAtWork, JobHas, StaleInv, Due, AtWork, Has

\* A job gives up: what it was reading is what the row names.
LEMMA JobGivesUp ==
  ASSUME TypeInv, FitInv, StaleInv, KeepInv, ColdNext, Quiet', NEW k \in Kinds, AtWork(k), jpc[k] # "commit",
         WholeAt(Source(k)), NEW l \in {"status", "idle"}, jpc' = [jpc EXCEPT ![k] = l],
         file' = [file EXCEPT ![Target(k)] = "none"], UNCHANGED <<inv, stale, op, rpc, asked, work>>
  PROVE  KeepInv'
<1> USE KeepFacts, JobAlone DEF WholeAt
<1>1. NoneAtWork' /\ \A j \in Kinds : JobHas(j)'
  BY DEF AtWork, NoneAtWork, JobHas
<1>2. file'[Source(k)] = file[Source(k)] /\ file'[Target(k)] = "none" /\ file'["hot"] = file["hot"]
  BY DEF Places
<1>3. SomeWhole' /\ HotInv'
  BY <1>2 DEF SomeWhole, HotInv, Places, Whole
<1>4. rpc \in {"thaw", "thawed"} /\ file'[asked.at] # "none" => asked.at = Source(k)
  BY <1>2 DEF Serving, Kinds
<1>5. FreezeInv' /\ ThawInv'
  BY <1>2, <1>4 DEF FreezeInv, Freezing, ThawInv, Has, Whole
<1>6. QED
  BY <1>1, <1>3, <1>5 DEF KeepInv

LEMMA KeepFinish ==
  ASSUME TypeInv, FitInv, StaleInv, KeepInv, Quiet', NEW k \in Kinds, FinishTarget(k)
  PROVE  KeepInv'
<1> USE DEF rows, request, counts, WholeAt
<1>1. ColdNext /\ AtWork(k) /\ jpc[k] = "finish" /\ JobHas(k)
  BY KeepFacts DEF ColdNext, JobSteps, FinishTarget, AtWork
<1> USE KeepFacts, <1>1
<1>2. UNCHANGED <<inv, stale, op, rpc, asked, work>>
  BY DEF FinishTarget
<1>3. WholeAt(Source(k)) /\ work[k].data \in Whole /\ file[Target(k)] # "none"
  BY DEF JobHas
<1>4. CASE jpc'[k] # "unlink"
  BY <1>2, <1>3, <1>4, JobGivesUp DEF FinishTarget, AfterFailure, JobStep
<1>5. CASE jpc'[k] = "unlink"
  <2>1. PICK c \in Contents :
           /\ IF k = "encrypt" THEN c = Encoded[work[k].data] ELSE Decodes(work[k].data, c)
           /\ file' = [file EXCEPT ![Target(k)] = Finished(@, c)]
    BY <1>5 DEF FinishTarget, AfterFailure, JobStep
  <2>2. c \in Whole
    BY <1>3, <2>1, CodesAreForms DEF Whole, Contents
  <2>3. file'[Target(k)] \in Whole /\ file'[Source(k)] = file[Source(k)] /\ file'["hot"] = file["hot"]
    BY <1>3, <2>1, <2>2 DEF Finished, Places
  <2>4. jpc' = [jpc EXCEPT ![k] = "unlink"]
    BY <1>5 DEF FinishTarget, JobStep
  <2>5. AtWork(k)' /\ jpc'[k] = "unlink" /\ Source(k)' = Source(k) /\ Target(k)' = Target(k)
        /\ \A j \in Kinds : AtWork(j)' => j = k
    BY <1>2, <2>4, JobAlone DEF AtWork, Source, Target
  <2>6. \A j \in Kinds : JobHas(j)'
    <3>1. (Has(k)' <=> Has(k)) /\ (Due(inv, k) => Due(inv, k)')
      BY <1>2 DEF Has, Due
    <3>2. QED
      BY <1>2, <1>3, <2>3, <2>5, <3>1 DEF JobHas
  <2>7. SomeWhole' /\ HotInv'
    BY <1>2, <1>3, <2>3, JobAlone DEF SomeWhole, HotInv, Places, Whole
  <2>8. rpc = "thaw" => file'[asked.at] # "torn"
    BY <1>3, <2>3 DEF Serving, Whole, Kinds
  <2>9. FreezeInv' /\ ThawInv'
    BY <1>2, <2>3, <2>5, <2>8, JobAlone DEF FreezeInv, Freezing, ThawInv, NoneAtWork
  <2>10. QED
    BY <2>6, <2>7, <2>9 DEF KeepInv
<1>6. QED
  BY <1>4, <1>5

LEMMA KeepUnlink ==
  ASSUME TypeInv, FitInv, StaleInv, KeepInv, Quiet', NEW k \in Kinds, UnlinkSource(k)
  PROVE  KeepInv'
<1> USE DEF rows, request, counts, WholeAt
<1>1. ColdNext /\ AtWork(k) /\ jpc[k] = "unlink" /\ JobHas(k)
  BY KeepFacts DEF ColdNext, JobSteps, UnlinkSource, AtWork
<1> USE KeepFacts, <1>1
<1>2. UNCHANGED <<inv, stale, op, rpc, asked, work>>
  BY DEF UnlinkSource
<1>3. WholeAt(Source(k)) /\ WholeAt(Target(k))
  BY DEF JobHas
<1>4. CASE jpc'[k] # "commit"
  BY <1>2, <1>3, <1>4, JobGivesUp DEF UnlinkSource, AfterFailure, JobStep
<1>5. CASE jpc'[k] = "commit"
  <2>1. jpc' = [jpc EXCEPT ![k] = "commit"] /\ file' = [file EXCEPT ![Source(k)] = "none"]
    BY <1>5 DEF UnlinkSource, AfterFailure, JobStep
  <2>2. file'[Target(k)] = file[Target(k)] /\ file'[Source(k)] = "none" /\ file'["hot"] = file["hot"]
    BY <2>1 DEF Places
  <2>3. AtWork(k)' /\ jpc'[k] = "commit" /\ Source(k)' = Source(k) /\ Target(k)' = Target(k)
        /\ \A j \in Kinds : AtWork(j)' => j = k
    BY <1>2, <2>1, JobAlone DEF AtWork, Source, Target
  <2>4. \A j \in Kinds : JobHas(j)'
    <3>1. (Has(k)' <=> Has(k)) /\ (Due(inv, k) => Due(inv, k)')
      BY <1>2 DEF Has, Due
    <3>2. QED
      BY <1>2, <1>3, <2>2, <2>3, <3>1 DEF JobHas
  <2>5. SomeWhole' /\ HotInv'
    BY <1>2, <1>3, <2>2, JobAlone DEF SomeWhole, HotInv, Places, Whole
  <2>6. rpc = "thaw" => file'[asked.at] # "torn"
    BY <1>3, <2>2 DEF Serving, Whole, Kinds
  <2>7. FreezeInv' /\ ThawInv'
    BY <1>2, <2>2, <2>3, <2>6, JobAlone DEF FreezeInv, Freezing, ThawInv, NoneAtWork
  <2>8. QED
    BY <2>4, <2>5, <2>7 DEF KeepInv
<1>6. QED
  BY <1>4, <1>5

\* The row is switched to the output, or the system is not calm any more.
LEMMA KeepCommit ==
  ASSUME TypeInv, FitInv, StaleInv, KeepInv, Quiet', NEW k \in Kinds, CommitFile(k)
  PROVE  KeepInv'
<1> USE DEF rows, request, counts, WholeAt
<1>1. ColdNext /\ AtWork(k) /\ jpc[k] = "commit" /\ JobHas(k)
  BY KeepFacts DEF ColdNext, JobSteps, CommitFile, AtWork
<1> USE KeepFacts, <1>1
<1>2. UNCHANGED <<file, stale, op, rpc, asked, work>> /\ jpc' = [jpc EXCEPT ![k] = "status"]
      /\ Has(k) /\ inv' = Switched(inv, k)
  BY DEF CommitFile, AfterFailure, JobStep, Quiet
<1>3. WholeAt(Target(k)) /\ file[Source(k)] = "none" /\ inv.cold /\ inv # None /\ \A j \in Kinds : AtWork(j) => j = k
  BY <1>2 DEF JobHas, Due, Has
<1>4. inv' \in Inventory /\ inv'.at = Target(k) /\ inv'.cold = inv.cold
  <2>1. Target(k) \in Places /\ inv \in Inventory
    BY <1>3 DEF Places
  <2>2. QED
    BY <1>2, <2>1, SwitchedRow
<1>5. NoneAtWork' /\ \A j \in Kinds : JobHas(j)'
  BY <1>2, <1>3 DEF AtWork, NoneAtWork, JobHas
<1>6. SomeWhole' /\ HotInv'
  BY <1>2, <1>3, <1>4 DEF SomeWhole, HotInv, Places, Whole
<1>7. ~Freezing /\ rpc \notin {"forget", "row"}
  BY <1>2 DEF FreezeInv, ThawInv, NoneAtWork
<1>8. rpc = "thaw" => file[asked.at] # "torn"
  BY <1>3 DEF Serving, Whole, Kinds
<1>9. rpc \in {"thaw", "thawed"} /\ file[asked.at] # "none" => asked.at = Target(k)
  BY <1>3 DEF Serving, Kinds
<1>10. FreezeInv' /\ ThawInv'
  BY <1>2, <1>3, <1>4, <1>7, <1>8, <1>9 DEF FreezeInv, Freezing, ThawInv
<1>11. QED
  BY <1>5, <1>6, <1>10 DEF KeepInv

\* Every step keeps the file.
LEMMA KeepStep ==
  ASSUME TypeInv, FitInv, StaleInv, KeepInv, [ColdNext]_coldVars
  PROVE  KeepInv'
<1>1. CASE UNCHANGED coldVars
  BY <1>1 DEF coldVars, KeepInv, Quiet, SomeWhole, WholeAt, HotInv, JobHas, AtWork, Source, Target, Has, Due,
              FreezeInv, Freezing, ThawInv, NoneAtWork
<1>2. SUFFICES ASSUME ColdNext, Quiet' PROVE KeepInv'
  BY <1>1 DEF KeepInv
<1> USE <1>2 DEF rows, jobs, request, counts
<1>3. CASE UpdateLocation \/ ScheduleJob
  <2>1. UNCHANGED <<file, inv, stale, op, jpc, work, rpc, asked>>
    BY <1>3 DEF UpdateLocation, ScheduleJob
  <2>2. Quiet
    BY KeepFacts
  <2>3. QED
    BY <2>1, <2>2 DEF KeepInv, SomeWhole, WholeAt, HotInv, JobHas, AtWork, Source, Target, Has, Due,
                      FreezeInv, Freezing, ThawInv, NoneAtWork
<1>4. CASE JobSteps
  <2>1. PICK k \in Kinds : StartJob(k) \/ ReadAgain(k) \/ WriteTarget(k) \/ FinishTarget(k)
                           \/ UnlinkSource(k) \/ CommitFile(k) \/ SetStatus(k)
    BY <1>4 DEF JobSteps
  <2>2. QED
    BY <2>1, KeepIdleJob, KeepWrite, KeepFinish, KeepUnlink, KeepCommit
<1>5. CASE Crash
  <2>1. UNCHANGED <<file, inv, op>> /\ rpc' = "idle" /\ (\A k \in Kinds : ~AtWork(k)') /\ Quiet
    BY <1>5, KeepFacts DEF Crash, Done, AtWork
  <2>2. QED
    BY <2>1 DEF KeepInv, SomeWhole, WholeAt, HotInv, JobHas, FreezeInv, Freezing, ThawInv
<1>6. QED
  BY <1>3, <1>4, <1>5, KeepFreeze, KeepFreezing, KeepCommitFreeze, KeepThaw, KeepThawMove, KeepThawed,
     KeepForget, KeepDelete, KeepScan DEF ColdNext

LEMMA KeepInitial == ColdInit => StaleInv /\ KeepInv
<1> SUFFICES ASSUME ColdInit PROVE StaleInv /\ KeepInv
  OBVIOUS
<1>1. inv # None /\ op # None /\ inv.at = "hot" /\ ~inv.cold
  <2>1. inv \in Inventory /\ op \in {"move", "copy"}
    BY ColdAssumption DEF ColdInit, Inventory, Places
  <2>2. QED
    BY <2>1, ColdNone DEF ColdInit
<1>2. file["hot"] = "clear" /\ "hot" \in Places /\ rpc = "idle" /\ \A k \in Kinds : ~AtWork(k)
  BY DEF ColdInit, Places, AtWork
<1>3. QED
  BY <1>1, <1>2 DEF StaleInv, Serving, KeepInv, SomeWhole, WholeAt, HotInv, JobHas, FreezeInv, Freezing, ThawInv, Whole

\* The file is whole at one place at least, whatever fails, is interrupted or is
\* served while the jobs run, as long as no job has gone astray or lost its files.
THEOREM FileIsKept == ColdSpec => []ContentKept
<1> DEFINE IInv == TypeInv /\ FitInv /\ StaleInv /\ KeepInv
<1>1. ColdInit => IInv
  BY TypeInitial, FormInitial, KeepInitial
<1>2. IInv /\ [ColdNext]_coldVars => IInv'
  BY TypeStep, FitStep, StaleStep, KeepStep
<1>3. IInv => ContentKept
  BY DEF KeepInv, Quiet, SomeWhole, WholeAt, ContentKept
<1>4. QED
  BY <1>1, <1>2, <1>3, PTL DEF ColdSpec
=============================================================================
