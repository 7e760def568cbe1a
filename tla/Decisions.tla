------------------------------- MODULE Decisions --------------------------------
(***************************************************************************)
(* Where a scan wants a file to be: the criteria of a path                 *)
(* (app/services/criteria_matcher.py), the walk that compares them with    *)
(* the file in hot storage and in the first location                       *)
(* (file_workflow_service.py), the choice of a location for a file that is *)
(* frozen (app/services/storage_routing_service.py), and what freezing and *)
(* thawing, and the scan's own reading of the file, do to its times.       *)
(*                                                                         *)
(* One file of a path.  The user uses and changes it, edits the criteria,  *)
(* and the locations fill and empty.  A scan walks, then moves: what       *)
(* happens between is not seen.  The moves themselves are in FileMover.    *)
(* A unit of time is a quarter of a minute, one of size a megabyte.        *)
(***************************************************************************)
EXTENDS Integers, FiniteSets, Absent

CONSTANTS
    CriteriaSets,   \* what the user may ask for: sets of criteria
    Texts,          \* the file's name, permissions, user and group
    Size,
    Locations, First,   \* First is the location that a scan walks
    Room,           \* what a location may be like: free space, files, and whether it is there
    MaxNow, MaxUses

ASSUME DecisionAssumption ==
    /\ First \in Locations /\ {None, "hot"} \cap Locations = {}
    /\ {Size, MaxNow, MaxUses} \subseteq Nat
    /\ \A cs \in CriteriaSets : \A c \in cs :
         c.type \in {"mtime", "atime", "ctime", "size"} => c.value \in Int \cup {None}
    /\ \A r \in Room : {r.free, r.files} \subseteq Nat

VARIABLES
    clock,
    atime, mtime, ctime,    \* the file's times
    opened,     \* macOS's time of the last opening, or None
    linking,    \* does the path leave symlinks (SYMLINK) or not (MOVE)?
    darwin,     \* does it run on macOS?
    typed,      \* does the name have an extension and a known MIME type?
    listed,     \* is there a row at the file's hot path?
    criteria,
    where,      \* "hot", or a location
    room,       \* a location's free space, files and presence
    verdict,    \* what the walk has decided: "freeze", "thaw" or "stay"
    quiet,      \* ghost: the user has done nothing since a walk found the file in hot storage
    reread,     \* ghost: a scan has read the file's content since, or then
    uses

decisionVars == <<clock, atime, mtime, ctime, opened, linking, darwin, typed, listed, criteria, where, room,
                  verdict, quiet, reread, uses>>

Moments == 0..MaxNow
DecisionTypeOK ==
    /\ {clock, atime, mtime, ctime} \subseteq Moments
    /\ opened \in Moments \cup {None}
    /\ criteria \in CriteriaSets
    /\ where \in Locations \cup {"hot"}
    /\ room \in [Locations -> Room]
    /\ verdict \in {"freeze", "thaw", "stay"}
    /\ quiet \in BOOLEAN /\ reread \in BOOLEAN
    /\ uses \in 0..MaxUses

DecisionInit ==
    /\ clock = 0 /\ atime = 0 /\ mtime = 0 /\ ctime = 0
    /\ opened = None
    /\ linking \in BOOLEAN /\ darwin \in BOOLEAN /\ typed \in BOOLEAN /\ listed = FALSE
    /\ criteria \in CriteriaSets
    /\ where = "hot"
    /\ room \in [Locations -> Room]
    /\ verdict = "stay" /\ quiet = FALSE /\ reread = FALSE /\ uses = 0

-----------------------------------------------------------------------------
(* CriteriaMatcher.  A criterion's value is a number (None if it is not     *)
(* one), or the set of the texts it stands for.                             *)

Compare(op, x, bound) ==
    \/ op = "gt"  /\ x > bound
    \/ op = "lt"  /\ x < bound
    \/ op = "gte" /\ x >= bound
    \/ op = "lte" /\ x <= bound

\* A bug: the bounds are the wrong way round.
MatchTimeSwapped(time, op, minutes) ==
    minutes # None /\ Compare(op, minutes, clock - time)

\* An age equals a value within half a minute.
MatchTime(time, op, minutes) ==
    /\ minutes # None
    /\ \/ Compare(op, clock - time, minutes)
       \/ op = "eq" /\ clock - time - minutes \in -1..1

MatchSize(op, size) == size # None /\ (Compare(op, Size, size) \/ (op = "eq" /\ Size = size))

\* On macOS the last opening counts, if it is later; a file that was never opened,
\* or that is no longer at its hot path, is as old as can be.
AtHotPath == where = "hot" \/ linking
LastUse ==
    IF ~darwin THEN atime
    ELSE IF opened = None \/ ~AtHotPath THEN -1000
    ELSE IF opened > atime THEN opened ELSE atime

\* The type is that of the hot path, not of the file in cold storage; it follows
\* symlinks unless it is asked for one.
MatchType(type) ==
    \/ type = "file" /\ AtHotPath
    \/ type = "link" /\ where # "hot" /\ linking

MatchCriterion(c) ==
    CASE c.type = "mtime" -> MatchTime(mtime, c.op, c.value)
      [] c.type = "atime" -> MatchTime(LastUse, c.op, c.value)
      [] c.type = "ctime" -> MatchTime(ctime, c.op, c.value)
      [] c.type = "size"  -> MatchSize(c.op, c.value)
      [] c.type \in {"name", "iname"} ->
            c.op \in {"eq", "contains", "matches", "regex"} /\ Texts[c.type] \in c.value
      [] c.type = "type"  -> MatchType(c.value)
      [] OTHER -> Texts[c.type] \in c.value     \* perm, user, group

\* match_file: without a criterion that is switched on, everything is active.
Active == \A c \in criteria : c.enabled => MatchCriterion(c)

-----------------------------------------------------------------------------
(* StorageRoutingService, in hundredths of a point.                         *)

MinFree == 1024
Margin == 1
Roots == 0..5000
RoundRoot(n) == CHOOSE r \in Roots : r * r <= n /\ n < (r + 1) * (r + 1)
SpaceScore(free) == IF free >= 10 * 1024 THEN 5000 ELSE RoundRoot((free * 78125) \div 32)
\* A bug: the fuller location scores higher.
LoadScoreTurned(files) == IF files >= 10000 THEN 3000 ELSE (3 * files) \div 10
LoadScore(files) == IF files >= 10000 THEN 0 ELSE 3000 - (3 * files) \div 10
\* The count of recent errors is of no row: it asks for rows where FALSE holds.
Score == [r \in Room |-> SpaceScore(r.free) + LoadScore(r.files)]

Fits(l) == room[l].there /\ room[l].free >= MinFree /\ room[l].free >= Size + Margin
Best(l) == Fits(l) /\ \A k \in Locations : Fits(k) => Score[room[k]] <= Score[room[l]]

-----------------------------------------------------------------------------
(* The scan.                                                                *)

\* The update of the inventory that ends the walk reads the content of a file
\* that has no row yet, and of one whose row lacks the extension or the type: for
\* some names that is every scan's.  Whether atime moves is the file system's affair.
Reads == \/ where = "hot" /\ ~(listed /\ typed)
         \/ where = First /\ ~typed

\* The walk sees the hot tree and the first location.  A link to another one
\* is a file to freeze for it, but has no row at its hot path and is left.
Walk ==
    /\ atime' \in IF Reads THEN {atime, clock} ELSE {atime}
    /\ listed' = (listed \/ where = "hot")
    /\ reread' = (Reads \/ (reread /\ where # "hot"))
    /\ verdict' = IF where = "hot" /\ ~Active THEN "freeze"
                  ELSE IF where = First /\ Active THEN "thaw" ELSE "stay"
    /\ quiet' = (quiet \/ where = "hot")
    /\ UNCHANGED <<clock, mtime, ctime, opened, linking, darwin, typed, criteria, where, room, uses>>

\* The times of use and change are put back after the move, as they were just
\* before it; ctime cannot be.  The row goes to the cold path.
Freeze(l) ==
    /\ verdict = "freeze" /\ verdict' = "stay" /\ where = "hot"
    /\ Best(l) /\ where' = l
    /\ ctime' = clock /\ listed' = FALSE
    /\ UNCHANGED <<clock, atime, mtime, opened, linking, darwin, typed, criteria, room, quiet, reread, uses>>

NoRoom ==
    /\ verdict = "freeze" /\ verdict' = "stay"
    /\ \A l \in Locations : ~Fits(l)
    /\ UNCHANGED <<clock, atime, mtime, ctime, opened, linking, darwin, typed, listed, criteria, where, room,
                   quiet, reread, uses>>

\* The checksum of the thawed file is read afterwards: that may count as a use.
Thaw ==
    /\ verdict = "thaw" /\ verdict' = "stay" /\ where = First
    /\ where' = "hot" /\ ctime' = clock /\ atime' \in {atime, clock}
    /\ UNCHANGED <<clock, mtime, opened, linking, darwin, typed, listed, criteria, room, quiet, reread, uses>>

-----------------------------------------------------------------------------
(* The user, the disks and the clock.                                       *)

Act == uses < MaxUses /\ uses' = uses + 1 /\ quiet' = FALSE /\ UNCHANGED <<reread, typed, listed>>

\* Only macOS keeps a time of the last opening, and not for every use.
Use ==
    /\ Act /\ atime' = clock
    /\ opened' \in {opened} \cup (IF darwin THEN {clock} ELSE {})
    /\ UNCHANGED <<clock, mtime, ctime, linking, darwin, criteria, where, room, verdict>>

Modify ==
    /\ Act /\ mtime' = clock /\ ctime' = clock
    /\ UNCHANGED <<clock, atime, opened, linking, darwin, criteria, where, room, verdict>>

EditCriteria ==
    /\ Act /\ criteria' \in CriteriaSets \ {criteria}
    /\ UNCHANGED <<clock, atime, mtime, ctime, opened, linking, darwin, where, room, verdict>>

RoomChanges(l) ==
    /\ uses < MaxUses /\ uses' = uses + 1
    /\ \E r \in Room : room' = [room EXCEPT ![l] = r]
    /\ UNCHANGED <<clock, atime, mtime, ctime, opened, linking, darwin, typed, listed, criteria, where, verdict,
                   quiet, reread>>

TickQuarter ==
    /\ clock < MaxNow /\ clock' = clock + 1
    /\ UNCHANGED <<atime, mtime, ctime, opened, linking, darwin, typed, listed, criteria, where, room, verdict,
                   quiet, reread, uses>>

DecisionNext ==
    \/ Walk \/ NoRoom \/ Thaw
    \/ \E l \in Locations : Freeze(l) \/ RoomChanges(l)
    \/ Use \/ Modify \/ EditCriteria \/ TickQuarter

DecisionSpec == DecisionInit /\ [][DecisionNext]_decisionVars

-----------------------------------------------------------------------------
\* "Files only age in one direction" (criteria_matcher.py:168-169): under criteria
\* that ask for a young file, what a scan has frozen no later scan thaws, however
\* much time passes, unless the user uses or changes it or edits the criteria.
\* Not so with ctime, which the freeze itself renews, or with the type of a link,
\* which it makes; nor with atime once a scan has read the content for the
\* inventory, at the walk that let the file be frozen or later
\* (file_workflow_service.py:1009-1015, 1040-1045): that may renew it.
Ages(c) ==
    /\ c.type \in {"atime", "mtime"} => c.op \in {"lt", "lte"}
    /\ c.type # "ctime"
    /\ ~(c.type = "type" /\ c.value = "link" /\ linking)
Renewed == reread /\ \E c \in criteria : c.enabled /\ c.type = "atime"
StaysFrozen ==
    [][(where \in Locations /\ where' = "hot" /\ (\A c \in criteria : c.enabled => Ages(c)) /\ ~Renewed)
       => ~quiet]_decisionVars

\* "Free space (higher is better)", "Current load (fewer files is better)"
\* (storage_routing_service.py:51-52): the file does not go to a location if another that it fits
\* has more space and no more files, or fewer files and no less space, as far as
\* the score counts them: up to its caps, and to its hundredths here (5 megabytes,
\* 4 files).
Counted(r) == [free |-> IF r.free > 10240 THEN 10240 ELSE r.free,
               files |-> IF r.files > 10000 THEN 10000 ELSE r.files]
Worse(r, q) ==
    LET a == Counted(r)  b == Counted(q)
    IN  /\ a.free <= b.free /\ a.files >= b.files
        /\ a.free + 5 <= b.free \/ a.files >= b.files + 4
GoesWhereItFitsBest ==
    [][\A l \in Locations : (where = "hot" /\ where' = l)
          => \A k \in Locations : Fits(k) => ~Worse(room[l], room[k])]_decisionVars
=============================================================================
