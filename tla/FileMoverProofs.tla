--------------------------- MODULE FileMoverProofs ---------------------------
(***************************************************************************)
(* Theorems about FileMover: for every set of contents, every subset of    *)
(* operations and faults, any number of jobs and any number of edits by    *)
(* the user, a job keeps the content it started from while nobody edits    *)
(* the file under it and the destination can be read to verify it; and a   *)
(* copy keeps it in any case.  The run FileMover_rollback shows why the    *)
(* other operations need the first condition; a mismatch that is not one   *)
(* is why they need the second.                                            *)
(***************************************************************************)
EXTENDS FileMover, TLAPS

\* Every initial state is well typed.
LEMMA TypeInit == Init => TypeOK
<1> SUFFICES ASSUME Init PROVE TypeOK
  OBVIOUS
<1>1. PICK place \in Starts :
          /\ file = [p \in Places |-> IF p = place THEN latest ELSE NoFile]
          /\ \/ place # "aside" /\ link = NoLink
             \/ place # "hot" /\ link = place
  BY DEF Init
<1>2. file \in [Places -> Contents]
  BY <1>1 DEF Init, Contents
<1>3. link \in {NoLink, "cold", "aside"}
  BY <1>1, MoverAssumption, Zenon DEF Places
<1>4. op \in Operations /\ checked \in BOOLEAN
  BY MoverAssumption DEF Init
<1>5. writes \in 0..MaxWrites /\ jobs \in 0..MaxJobs
  <2>1. writes = 0 /\ jobs = 0
    BY DEF Init
  <2>2. QED
    BY <2>1, MoverAssumption
<1>6. sum \in Contents \cup {NoSum} /\ snap \in Contents /\ latest \in Data \cup {NoFile}
  BY DEF Init, Contents
<1>7. sound \in BOOLEAN /\ calm \in BOOLEAN /\ unread \in BOOLEAN
  BY Zenon DEF Init
<1>8. QED
  BY <1>2, <1>3, <1>4, <1>5, <1>6, <1>7 DEF Init, TypeOK, Places, Labels

\* Type correctness, for every value of the constants.
LEMMA TypeCorrect == Spec => []TypeOK
<1>1. Init => TypeOK
  BY TypeInit
<1>2. TypeOK /\ [Next]_vars => TypeOK'
  <2> SUFFICES ASSUME TypeOK, [Next]_vars PROVE TypeOK'
    OBVIOUS
  <2> USE MoverAssumption DEF TypeOK, Contents, Places, Operations, Labels, jobVars,
          Return, Goto, Read, Resolved, Checksum
  <2>1. ASSUME NEW o \in Ops, NEW c \in Checked, Begin(o, c) PROVE TypeOK'
    <3>1. op' \in Operations /\ checked' \in BOOLEAN
      BY <2>1 DEF Begin
    <3>2. sound' \in BOOLEAN
      BY <2>1 DEF Begin
    <3>3. pc' \in Labels /\ from' \in Places /\ to' \in Places
      BY <2>1 DEF Begin
    <3>4. Read("hot") \in Contents
      OBVIOUS
    <3>5. sum' \in Contents \cup {NoSum}
      BY <2>1, <3>4 DEF Begin
    <3>6. jobs' \in 0..MaxJobs
      BY <2>1 DEF Begin
    <3>7. QED
      BY <2>1, <3>1, <3>2, <3>3, <3>5, <3>6 DEF Begin
  <2>2. CASE PreCheck
    BY <2>2 DEF PreCheck
  <2>3. CASE DispatchFile
    BY <2>3 DEF DispatchFile
  <2>4. CASE DispatchLinkCopy
    BY <2>4 DEF DispatchLinkCopy
  <2>5. CASE DispatchLink
    BY <2>5 DEF DispatchLink
  <2>6. CASE ThawLink
    BY <2>6 DEF ThawLink
  <2>7. CASE Rename
    BY <2>7 DEF Rename, AfterMove
  <2>8. CASE CopyOpen
    BY <2>8 DEF CopyOpen
  <2>9. CASE CopyLoop
    BY <2>9 DEF CopyLoop
  <2>10. CASE CopyStat
    BY <2>10 DEF CopyStat
  <2>11. CASE UnlinkSource
    BY <2>11 DEF UnlinkSource, AfterMove
  <2>12. CASE UnlinkLink
    BY <2>12 DEF UnlinkLink
  <2>13. CASE MakeLink
    BY <2>13 DEF MakeLink
  <2>14. CASE Restore
    BY <2>14 DEF Restore
  <2>15. CASE Verify
    <3>1. unread' \in BOOLEAN
      BY <2>15, Zenon DEF Verify
    <3>2. QED
      BY <2>15, <3>1 DEF Verify
  <2>16. CASE Rollback
    BY <2>16 DEF Rollback
  <2>17. CASE Crash
    BY <2>17 DEF Crash
  <2>18. ASSUME NEW d \in Data, UserSaves(d) PROVE TypeOK'
    <3>1. calm' \in BOOLEAN
      BY <2>18, Zenon DEF UserSaves
    <3>2. QED
      BY <2>18, <3>1 DEF UserSaves
  <2>19. CASE UserRemoves
    <3>1. calm' \in BOOLEAN
      BY <2>19, Zenon DEF UserRemoves
    <3>2. QED
      BY <2>19, <3>1 DEF UserRemoves
  <2>20. CASE UNCHANGED vars
    BY <2>20 DEF vars
  <2>21. QED
    BY <2>1, <2>2, <2>3, <2>4, <2>5, <2>6, <2>7, <2>8, <2>9, <2>10, <2>11, <2>12,
       <2>13, <2>14, <2>15, <2>16, <2>17, <2>18, <2>19, <2>20
    DEF Next, Step, User
<1>3. QED
  BY <1>1, <1>2, PTL DEF Spec

-----------------------------------------------------------------------------
\* MoverInv is inductive: each action keeps the content where ContentAt says.
THEOREM MoverInvariant == Spec => []MoverInv
<1>1. Init => MoverInv
  <2> SUFFICES ASSUME Init PROVE MoverInv
    OBVIOUS
  <2>1. pc = "idle" /\ ~sound /\ latest \in Data
    BY DEF Init
  <2>2. link # NoLink => file["hot"] = NoFile
    BY MoverAssumption DEF Init, Places
  <2>3. QED
    BY <2>1, <2>2, TypeInit DEF MoverInv, CalmJobKeepsContent, CopyKeepsContent,
       JobKeepsContent, FailedJobKeepsSource, SuccessDelivers, CopyInv
<1>2. MoverInv /\ TypeOK' /\ [Next]_vars => MoverInv'
  <2> SUFFICES ASSUME MoverInv, TypeOK', [Next]_vars PROVE MoverInv'
    OBVIOUS
  <2> USE MoverAssumption DEF MoverInv, TypeOK, Contents, Places, Operations, jobVars,
          Return, Goto, Read, Resolved, ContentAt, FreezeShape, ThawShape,
          CopyShape, PlainMove, CalmJobKeepsContent, CopyKeepsContent,
          JobKeepsContent, FailedJobKeepsSource, SuccessDelivers, CopyInv
  <2>1. ASSUME NEW o \in Ops, NEW c \in Checked, Begin(o, c) PROVE MoverInv'
    BY <2>1 DEF Begin, Checksum
  <2>2. CASE PreCheck
    BY <2>2 DEF PreCheck
  <2>3. CASE DispatchFile
    BY <2>3 DEF DispatchFile
  <2>4. CASE DispatchLinkCopy
    BY <2>4 DEF DispatchLinkCopy
  <2>5. CASE DispatchLink
    BY <2>5 DEF DispatchLink
  <2>6. CASE ThawLink
    BY <2>6 DEF ThawLink, Checksum
  <2>7. CASE Rename
    BY <2>7 DEF Rename, AfterMove
  <2>8. CASE CopyOpen
    BY <2>8 DEF CopyOpen
  <2>9. CASE CopyLoop
    BY <2>9 DEF CopyLoop
  <2>10. CASE CopyStat
    BY <2>10 DEF CopyStat
  <2>11. CASE UnlinkSource
    BY <2>11 DEF UnlinkSource, AfterMove
  <2>12. CASE UnlinkLink
    BY <2>12 DEF UnlinkLink
  <2>13. CASE MakeLink
    BY <2>13 DEF MakeLink
  <2>14. CASE Restore
    BY <2>14 DEF Restore
  <2>15. CASE Verify
    <3>1. CASE sum \in {NoSum, Read(to)} /\ Return("ok") /\ UNCHANGED unread
      BY <2>15, <3>1 DEF Verify
    <3>2. CASE sum \notin {NoSum, Read(to)} /\ Goto("rollback") /\ UNCHANGED unread
      <4>1. ~(calm /\ ~unread /\ sound)
        BY <2>15, <3>2 DEF Verify
      <4>2. calm' = calm /\ sound' = sound /\ unread' = unread
        BY <2>15, <3>2, Zenon DEF Verify
      <4>3. QED
        BY <2>15, <3>2, <4>1, <4>2 DEF Verify
    <3>3. CASE Goto("rollback") /\ unread' = TRUE
      BY <2>15, <3>3 DEF Verify
    <3>4. QED
      BY <2>15, <3>1, <3>2, <3>3, Zenon DEF Verify
  <2>16. CASE Rollback
    BY <2>16 DEF Rollback
  <2>17. CASE Crash
    BY <2>17 DEF Crash
  <2>18. ASSUME NEW d \in Data, UserSaves(d) PROVE MoverInv'
    <3>1. ~calm'
      BY <2>18, Zenon DEF UserSaves
    <3>2. latest' = d /\ Read("hot")' = d
      BY <2>18 DEF UserSaves
    <3>3. link' # NoLink => file'["hot"] = NoFile
      BY <2>18 DEF UserSaves
    <3>4. CopyInv'
      BY <2>18, <3>2 DEF UserSaves
    <3>5. CopyKeepsContent'
      <4>1. PICK p \in Places : p = Resolved("hot")'
        BY <2>18 DEF UserSaves
      <4>2. file'[p] = latest'
        BY <3>2, <4>1
      <4>3. QED
        BY <4>2
    <3>6. UNCHANGED <<unread, pc, result>>
      BY <2>18 DEF UserSaves
    <3>7. QED
      BY <3>1, <3>3, <3>4, <3>5, <3>6
  <2>19. CASE UserRemoves
    BY <2>19 DEF UserRemoves
  <2>20. CASE UNCHANGED vars
    BY <2>20 DEF vars
  <2>21. QED
    BY <2>1, <2>2, <2>3, <2>4, <2>5, <2>6, <2>7, <2>8, <2>9, <2>10, <2>11, <2>12, <2>13, <2>14, <2>15, <2>16, <2>17, <2>18, <2>19, <2>20
    DEF Next, Step, User
<1>3. QED
  BY <1>1, <1>2, TypeCorrect, PTL DEF Spec

\* While nobody touches the file and its destination can be read, the content is
\* whole somewhere at every call of a job (move_with_rollback's promise,
\* file_mover.py:195-196).
THEOREM ContentSafety == Spec => []CalmJobKeepsContent
<1>1. MoverInv => CalmJobKeepsContent
  BY DEF MoverInv
<1>2. QED
  BY <1>1, MoverInvariant, PTL

\* A copy loses nothing, whatever the user saves or removes under it.
THEOREM CopySafety == Spec => []CopyKeepsContent
<1>1. MoverInv => CopyKeepsContent
  BY DEF MoverInv
<1>2. QED
  BY <1>1, MoverInvariant, PTL

\* Under the same conditions a reported failure leaves the source as it was (the
\* callers put the row back to its old status).
THEOREM FailureSafety == Spec => []FailedJobKeepsSource
<1>1. MoverInv => FailedJobKeepsSource
  BY DEF MoverInv
<1>2. QED
  BY <1>1, MoverInvariant, PTL

\* A reported success has delivered the content, and the hot path is what the
\* operation promises.
THEOREM Delivery == Spec => []SuccessDelivers
<1>1. MoverInv => SuccessDelivers
  BY DEF MoverInv
<1>2. QED
  BY <1>1, MoverInvariant, PTL
=============================================================================
