----------------------------- MODULE ServicesProofs -----------------------------
(***************************************************************************)
(* Theorems about the parts that Services puts side by side.  Trust and    *)
(* encryption have proofs of their own (RemoteTrustProofs,                 *)
(* ColdStorageProofs); here are those of accounts, signed calls, login     *)
(* attempts, scan decisions and tag rules, and that an execution of the    *)
(* composition is one of each part: what is proved of a part holds of all  *)
(* of them together.                                                       *)
(***************************************************************************)
EXTENDS Services, RemoteTrustProofs, ColdStorageProofs, FiniteSetTheorems

-----------------------------------------------------------------------------
(* Accounts: as long as one change is made at a time an admin remains.     *)

IsAdmin(u) == users[u] # None /\ "admin" \in users[u].roles

\* The account that will be admin once the change c is committed: another's, one
\* that keeps the role, or the first.
Leaves(c) ==
    CASE c.kind = "setup"  -> "admin" \in c.row.roles
      [] c.kind = "roles"  -> "admin" \in c.row.roles \/ \E u \in UserNames \ {c.name} : IsAdmin(u)
      [] c.kind = "delete" -> \E u \in UserNames \ {c.name} : IsAdmin(u)
      [] OTHER             -> \E u \in UserNames : IsAdmin(u)

Alone == \A s, t \in Busy : s = t

\* What AdminRemains rests on: the change in flight is the only one, and was
\* accepted from the accounts that are still there.
AccessInv ==
    /\ AccessTypeOK
    /\ ~overlap => /\ Alone
                   /\ \A s \in Busy : Leaves(serving[s])
                   /\ AdminRemains

-----------------------------------------------------------------------------
\* What is accepted is a change.
LEMMA AcceptType ==
  ASSUME AccessTypeOK, NEW s \in Sessions, NEW c \in Change, Accept(s, c)
  PROVE  AccessTypeOK'
BY AccessAssumption DEF AccessTypeOK, Accept

\* A committed change leaves accounts.
LEMMA CommitType ==
  ASSUME AccessTypeOK, NEW s \in Sessions, CommitChange(s)
  PROVE  AccessTypeOK'
<1> DEFINE c == serving[s]
<1>1. c \in Change /\ c.name \in UserNames /\ c.row \in Account
  BY DEF CommitChange, Change
<1>2. users' \in [UserNames -> Account \cup {None}]
  <2>1. CASE users' = users
    BY <2>1 DEF AccessTypeOK
  <2>2. ASSUME NEW a \in Account \cup {None}, users' = [users EXCEPT ![c.name] = a]
        PROVE  users' \in [UserNames -> Account \cup {None}]
    BY <1>1, <2>2 DEF AccessTypeOK
  <2>3. ASSUME users[c.name] \in Account
        PROVE  /\ [users[c.name] EXCEPT !.roles = c.row.roles] \in Account
               /\ [users[c.name] EXCEPT !.password = c.row.password] \in Account
    BY <1>1, <2>3 DEF Account
  <2>4. users[c.name] # None => users[c.name] \in Account
    BY <1>1 DEF AccessTypeOK
  <2>5. QED
    BY <1>1, <2>1, <2>2, <2>3, <2>4 DEF CommitChange
<1>3. QED
  BY <1>1, <1>2 DEF AccessTypeOK, CommitChange

\* While nothing overlaps, a request is accepted only where none is in flight.
LEMMA AcceptedAlone ==
  ASSUME AccessTypeOK, NEW s \in Sessions, NEW c \in Change, Accept(s, c), ~overlap'
  PROVE  /\ ~overlap /\ Busy = {} /\ Busy' = {s} /\ serving'[s] = c
         /\ users' = users
BY DEF Accept, Busy, AccessTypeOK

\* A request that is accepted alone: what it leaves is judged by the accounts
\* it was checked against.
LEMMA AcceptKeeps ==
  ASSUME AccessInv, NEW s \in Sessions, NEW c \in Change, Accept(s, c), Leaves(c)
  PROVE  AccessInv'
<1>1. AccessTypeOK'
  BY AcceptType DEF AccessInv
<1>2. ASSUME ~overlap' PROVE Alone' /\ (\A t \in Busy : Leaves(serving[t]))' /\ AdminRemains'
  <2>1. ~overlap /\ Busy' = {s} /\ serving'[s] = c /\ users' = users
    BY <1>2, AcceptedAlone DEF AccessInv
  <2>2. Alone'
    BY <2>1 DEF Alone
  <2>3. Leaves(serving[s])'
    BY <2>1 DEF Leaves, IsAdmin
  <2>4. AdminRemains'
    BY <2>1 DEF AccessInv, AdminRemains
  <2>5. QED
    BY <2>1, <2>2, <2>3, <2>4
<1>3. QED
  BY <1>1, <1>2 DEF AccessInv

\* The admin who may call the user endpoints is there.
LEMMA CallerIsAdmin ==
  ASSUME NEW by, MayCall(by, "admin", "write")
  PROVE  IsAdmin(by)
<1>1. ASSUME NEW role \in {"viewer", "manager"}, NEW e \in Permissions[role]
      PROVE  e[1] # "admin"
  <2>1. CASE role = "viewer"
    <3>1. PICK t \in {"files", "paths", "stats", "browser", "tags", "storage",
                      "authentication", "Remote Connections"} : e = <<t, "read">>
      BY <1>1, <2>1 DEF Permissions
    <3>2. e[1] = t /\ t # "admin"
      BY <3>1
    <3>3. QED
      BY <3>2
  <2>2. CASE role = "manager"
    <3>1. e = <<"Encryption", "read">> \/
          \E t \in {"files", "paths", "tags", "tag-rules", "criteria", "cleanup",
                    "notifiers", "Remote Connections"} : e = <<t, "*">>
      BY <1>1, <2>2 DEF Permissions
    <3>2. CASE e = <<"Encryption", "read">>
      BY <3>2
    <3>3. ASSUME NEW t, t # "admin", e = <<t, "*">> PROVE e[1] # "admin"
      BY <3>3
    <3>4. QED
      BY <3>1, <3>2, <3>3
  <2>3. QED
    BY <1>1, <2>1, <2>2
<1>2. DOMAIN Permissions = {"viewer", "manager"}
  BY DEF Permissions
<1>3. ~\E role \in users[by].roles \cap DOMAIN Permissions :
           {<<"admin", "write">>, <<"admin", "*">>} \cap Permissions[role] # {}
  BY <1>1, <1>2
<1>4. QED
  BY <1>3 DEF MayCall, SignedIn, Permits, IsAdmin

\* Every step keeps the invariant: a request by what it checked, a commit because
\* nothing changed the accounts since.
LEMMA AccessStep == AccessInv /\ [AccessNext]_accessVars => AccessInv'
<1> SUFFICES ASSUME AccessInv, [AccessNext]_accessVars PROVE AccessInv'
  OBVIOUS
<1> USE DEF Change, Account, Roles
<1>1. ASSUME NEW s \in Sessions, NEW u \in UserNames, NEW p \in Passwords, Setup(s, u, p)
      PROVE  AccessInv'
  <2> DEFINE c == [kind |-> "setup", name |-> u, row |-> [roles |-> {"admin"}, password |-> p]]
  <2>1. c \in Change /\ Accept(s, c) /\ Leaves(c)
    BY <1>1 DEF Setup, Leaves
  <2>2. QED
    BY <2>1, AcceptKeeps
<1>2. ASSUME NEW s \in Sessions, NEW u \in UserNames, NEW p \in Passwords, ChangePassword(s, u, p)
      PROVE  AccessInv'
  <2> DEFINE c == [kind |-> "password", name |-> u, row |-> [users[u] EXCEPT !.password = p]]
  <2>1. users[u] \in Account
    BY <1>2 DEF ChangePassword, SignedIn, AccessInv, AccessTypeOK
  <2>2. c \in Change /\ Accept(s, c)
    BY <1>2, <2>1 DEF ChangePassword
  <2>3. CASE overlap'
    BY <2>2, <2>3, AcceptType DEF AccessInv
  <2>4. CASE ~overlap'
    <3>1. ~overlap
      BY <2>2, <2>4, AcceptedAlone DEF AccessInv
    <3>2. Leaves(c)
      BY <1>2, <3>1 DEF AccessInv, AdminRemains, Leaves, IsAdmin, ChangePassword, SignedIn
    <3>3. QED
      BY <2>2, <3>2, AcceptKeeps
  <2>5. QED
    BY <2>3, <2>4
<1>3. ASSUME NEW s \in Sessions, NEW u \in UserNames, NEW by \in UserNames, DeleteUser(s, by, u)
      PROVE  AccessInv'
  <2> DEFINE c == [kind |-> "delete", name |-> u, row |-> users[u]]
  <2>1. c \in Change /\ Accept(s, c)
    BY <1>3 DEF DeleteUser, AccessInv, AccessTypeOK
  <2>2. Leaves(c)
    BY <1>3, CallerIsAdmin DEF DeleteUser, Leaves
  <2>3. QED
    BY <2>1, <2>2, AcceptKeeps
<1>4. ASSUME NEW s \in Sessions, NEW u \in UserNames, NEW by \in UserNames, NEW p \in Passwords,
             CreateUser(s, by, u, p)
      PROVE  AccessInv'
  <2> DEFINE c == [kind |-> "create", name |-> u, row |-> [roles |-> {"viewer"}, password |-> p]]
  <2>1. c \in Change /\ Accept(s, c)
    BY <1>4 DEF CreateUser
  <2>2. Leaves(c)
    BY <1>4, CallerIsAdmin DEF CreateUser, Leaves
  <2>3. QED
    BY <2>1, <2>2, AcceptKeeps
<1>5. ASSUME NEW s \in Sessions, NEW u \in UserNames, NEW by \in UserNames, NEW roles \in SUBSET Roles,
             UpdateUserRoles(s, by, u, roles)
      PROVE  AccessInv'
  <2> DEFINE c == [kind |-> "roles", name |-> u, row |-> [users[u] EXCEPT !.roles = roles]]
  <2>1. users[u] \in Account
    BY <1>5 DEF UpdateUserRoles, AccessInv, AccessTypeOK
  <2>2. c \in Change /\ Accept(s, c) /\ c.row.roles = roles
    BY <1>5, <2>1 DEF UpdateUserRoles
  <2>3. Leaves(c)
    BY <1>5, <2>2, CallerIsAdmin DEF UpdateUserRoles, Leaves
  <2>4. QED
    BY <2>2, <2>3, AcceptKeeps
<1>6. ASSUME NEW u \in UserNames, NEW p \in Passwords, Authenticate(u, p)
      PROVE  AccessInv'
  BY <1>6 DEF Authenticate, AccessInv, AccessTypeOK, Alone, Busy, Leaves, IsAdmin, AdminRemains
<1>7. ASSUME NEW s \in Sessions, CommitChange(s)
      PROVE  AccessInv'
  <2> DEFINE c == serving[s]
  <2>1. AccessTypeOK'
    BY <1>7, CommitType DEF AccessInv
  <2>2. ASSUME ~overlap' PROVE Alone' /\ (\A t \in Busy : Leaves(serving[t]))' /\ AdminRemains'
    <3>1. ~overlap /\ Busy = {s} /\ Busy' = {} /\ Leaves(c) /\ c \in Change
      BY <1>7, <2>2, AccessAssumption DEF CommitChange, AccessInv, AccessTypeOK, Alone, Busy
    <3>2. AdminRemains'
      <4>1. CASE c.kind = "setup"
        BY <1>7, <3>1, <4>1, AccessAssumption
        DEF CommitChange, AccessInv, AccessTypeOK, AdminRemains, Leaves, IsAdmin
      <4>2. CASE c.kind = "create"
        BY <1>7, <3>1, <4>2, AccessAssumption
        DEF CommitChange, AccessInv, AccessTypeOK, AdminRemains, Leaves, IsAdmin
      <4>3. CASE c.kind = "roles"
        BY <1>7, <3>1, <4>3, AccessAssumption
        DEF CommitChange, AccessInv, AccessTypeOK, AdminRemains, Leaves, IsAdmin
      <4>4. CASE c.kind = "delete"
        BY <1>7, <3>1, <4>4, AccessAssumption
        DEF CommitChange, AccessInv, AccessTypeOK, AdminRemains, Leaves, IsAdmin
      <4>5. CASE c.kind = "password"
        BY <1>7, <3>1, <4>5, AccessAssumption
        DEF CommitChange, AccessInv, AccessTypeOK, AdminRemains, Leaves, IsAdmin
      <4>6. QED
        BY <3>1, <4>1, <4>2, <4>3, <4>4, <4>5
    <3>3. QED
      BY <3>1, <3>2 DEF Alone
  <2>3. QED
    BY <2>1, <2>2 DEF AccessInv
<1>8. CASE UNCHANGED accessVars
  BY <1>8 DEF accessVars, AccessInv, AccessTypeOK, Alone, Busy, Leaves, IsAdmin, AdminRemains
<1>9. QED
  BY <1>1, <1>2, <1>3, <1>4, <1>5, <1>6, <1>7, <1>8 DEF AccessNext

\* The invariant, for every value of the constants.
LEMMA AccessInvariant == AccessSpec => []AccessInv
<1>1. AccessInit => AccessInv
  <2> SUFFICES ASSUME AccessInit PROVE AccessInv
    OBVIOUS
  <2>1. AccessTypeOK
    <3>1. users \in [UserNames -> Account \cup {None}] /\ serving \in [Sessions -> Change \cup {None}]
      BY DEF AccessInit
    <3>2. tokens \subseteq UserNames /\ overlap \in BOOLEAN
      BY Zenon DEF AccessInit
    <3>3. changes \in 0..MaxChanges
      BY AccessAssumption DEF AccessInit
    <3>4. QED
      BY <3>1, <3>2, <3>3 DEF AccessTypeOK
  <2>2. Busy = {}
    BY AccessAssumption DEF AccessInit, Busy
  <2>3. AdminRemains
    BY DEF AccessInit, AdminRemains
  <2>4. QED
    BY <2>1, <2>2, <2>3 DEF AccessInv, Alone
<1>2. QED
  BY <1>1, AccessStep, PTL DEF AccessSpec

\* Accounts, tokens and requests keep their types.
THEOREM AccessTypeCorrect == AccessSpec => []AccessTypeOK
<1>1. AccessInv => AccessTypeOK
  BY DEF AccessInv
<1>2. QED
  BY <1>1, AccessInvariant, PTL

\* The admins cannot lock everybody out, one change at a time (users.py:86).
THEOREM NoLockout == AccessSpec => []AdminRemains
<1>1. AccessInv => AdminRemains
  BY DEF AccessInv, AdminRemains
<1>2. QED
  BY <1>1, AccessInvariant, PTL

-----------------------------------------------------------------------------
(* Signed calls: none is accepted twice, for any number of calls and       *)
(* handlers and any tolerance, provided that a handler takes no longer     *)
(* than the margin the cleanup adds to it.                                 *)

SInv == SignedTypeOK /\ Kept /\ InTime /\ AcceptedOnce

LEMMA SInvInit == SignedInit => SInv
BY TimeAssumption DEF SignedInit, SInv, SignedTypeOK, Kept, InTime, AcceptedOnce

LEMMA SInvStep == SInv /\ [SignedNext]_signedVars => SInv'
<1> SUFFICES ASSUME SInv, [SignedNext]_signedVars PROVE SInv'
    OBVIOUS
<1> USE TimeAssumption DEF SInv, SignedTypeOK, Kept, InTime, AcceptedOnce
<1>1. ASSUME NEW h \in Handlers, NEW r \in Requests, CheckTimestamp(h, r) PROVE SInv'
    BY <1>1 DEF CheckTimestamp, InTolerance
<1>2. ASSUME NEW h \in Handlers, LookupNonce(h) PROVE SInv'
    BY <1>2 DEF LookupNonce
<1>3. ASSUME NEW h \in Handlers, StoreNonce(h) PROVE SInv'
    BY <1>3 DEF StoreNonce
<1>4. CASE CleanupNonces
    BY <1>4 DEF CleanupNonces, Forgotten
<1>5. CASE Tick
    BY <1>5 DEF Tick
<1>6. CASE UNCHANGED signedVars
    BY <1>6 DEF signedVars
<1>7. QED
    BY <1>1, <1>2, <1>3, <1>4, <1>5, <1>6 DEF SignedNext

\* Calls, nonces and handlers keep their types.
THEOREM SignedTypes == SignedSpec => []SignedTypeOK
<1>1. SInv => SignedTypeOK
    BY DEF SInv
<1> QED
    BY <1>1, SInvInit, SInvStep, PTL DEF SignedSpec

\* Every signed call is accepted at most once.
THEOREM NoCallAcceptedTwice == SignedSpec => []AcceptedOnce
<1>1. SInv => AcceptedOnce
    BY DEF SInv
<1> QED
    BY <1>1, SInvInit, SInvStep, PTL DEF SignedSpec

-----------------------------------------------------------------------------
(* Login attempts: as long as the threads take turns no window has more    *)
(* attempts than the limit, for any limit, window and number of threads.   *)

Inside == {t \in Threads : step[t] # "out"}

\* The attempts that count in the window that ends at m.
Counting(list, m) == {b \in list : b[1] <= m /\ b[1] + Window > m}

\* The thread inside holds the address's list, and found in it all that was
\* admitted and has not expired.
TurnInv(t) ==
    /\ kept[t] /\ entered[t] <= time
    /\ \A a \in admitted :
         /\ a[1] <= entered[t]
         /\ a[1] + Window > entered[t] => a \in log /\ (step[t] = "trim" => a \in recent[t])

\* What WindowLimit rests on: an attempt stays in the list as long as it counts.
LimitInv ==
    /\ LimitTypeOK
    /\ ~crossed => /\ \A t, u \in Inside : t = u
                   /\ \A t \in Inside : TurnInv(t)
                   /\ \A a \in admitted :
                        a[1] <= time /\ (Inside = {} /\ a[1] + Window > time => a \in log)
                   /\ \A a \in admitted : Cardinality(Counting(admitted, a[1])) <= Limit

-----------------------------------------------------------------------------
\* Attempts are finitely many, at times.
LEMMA FiniteAttempts ==
  /\ IsFiniteSet(Attempt)
  /\ \A a \in Attempt : a[1] \in Nat /\ a[1] \in Times /\ a[2] \in 1..Limit /\ a = <<a[1], a[2]>>
<1>1. IsFiniteSet(Times) /\ IsFiniteSet(1..Limit)
  BY LimitAssumption, FS_Interval DEF Times
<1>2. Times \subseteq Nat
  BY LimitAssumption DEF Times
<1>3. IsFiniteSet(Times \X (1..Limit))
  BY <1>1, FS_Product, Zenon
<1>4. QED
  <2>1. ASSUME NEW a \in Attempt PROVE a[1] \in Times /\ a[2] \in 1..Limit /\ a = <<a[1], a[2]>>
    BY DEF Attempt
  <2>2. QED
    BY <1>2, <1>3, <2>1 DEF Attempt

\* Admitting an attempt adds one to the list and to the attempts admitted.
LEMMA AdmitEffect ==
  ASSUME LimitTypeOK, NEW t \in Threads, Admit(t)
  PROVE  \E e \in Attempt :
           /\ e[1] = entered[t] /\ e \notin log /\ log' = log \cup {e}
           /\ admitted' = IF crossed THEN {} ELSE admitted \cup {e}
<1>1. PICK e \in {entered[t]} \X (1..Limit) :
        /\ New(e) /\ log' = log \cup {e}
        /\ admitted' = IF crossed THEN {} ELSE admitted \cup {e}
  BY DEF Admit
<1>2. e \in Attempt /\ e[1] = entered[t]
  BY DEF LimitTypeOK, Attempt
<1>3. QED
  BY <1>1, <1>2 DEF New

\* The steps keep the types.
LEMMA LimitTypes ==
  ASSUME LimitTypeOK, LimitNext
  PROVE  LimitTypeOK'
<1> USE LimitAssumption DEF LimitTypeOK
<1>1. CASE PassTime
  BY <1>1 DEF PassTime, Times
<1>2. ASSUME NEW t \in Threads, Enter(t) PROVE LimitTypeOK'
  <2>1. log' \subseteq log /\ recent' = [recent EXCEPT ![t] = recent'[t]] /\ recent'[t] \subseteq log
    BY <1>2 DEF Enter, Since
  <2>2. kept' \in [Threads -> BOOLEAN]
    BY <1>2, Zenon DEF Enter
  <2>3. crossed' \in BOOLEAN
    BY <1>2, Zenon DEF Enter
  <2>4. QED
    BY <1>2, <2>1, <2>2, <2>3 DEF Enter
<1>3. ASSUME NEW t \in Threads, Trim(t) PROVE LimitTypeOK'
  BY <1>3 DEF Trim
<1>4. ASSUME NEW t \in Threads, Take(t) PROVE LimitTypeOK'
  <2>1. CASE UNCHANGED <<log, admitted>>
    BY <1>4, <2>1 DEF Take, Leave, Times
  <2>2. CASE Admit(t)
    BY <1>4, <2>2, AdmitEffect DEF Take, Leave, Times
  <2>3. QED
    BY <1>4, <2>1, <2>2 DEF Take
<1>5. QED
  BY <1>1, <1>2, <1>3, <1>4 DEF LimitNext

\* A thread that enters alone finds every attempt that counts: the cleanup drops
\* only what has expired.
LEMMA EnterKeeps ==
  ASSUME LimitInv, NEW t \in Threads, Enter(t)
  PROVE  LimitInv'
<1>1. LimitTypeOK'
  BY LimitTypes DEF LimitInv, LimitNext
<1> SUFFICES ASSUME ~crossed'
             PROVE  /\ \A u, v \in Inside' : u = v
                    /\ \A u \in Inside' : TurnInv(u)'
                    /\ \A a \in admitted' :
                         a[1] <= time' /\ (Inside' = {} /\ a[1] + Window > time' => a \in log')
                    /\ \A a \in admitted' : Cardinality(Counting(admitted', a[1])) <= Limit
  BY <1>1 DEF LimitInv
<1>2. ~crossed /\ Inside = {}
  BY DEF Enter, Inside
<1>3. Inside' = {t}
  BY <1>2 DEF Enter, Inside, LimitInv, LimitTypeOK
<1>4. admitted' = admitted /\ time' = time
  BY DEF Enter
<1>5. \A a \in admitted : a[1] \in Int /\ a[1] <= time /\ (a[1] + Window > time => a \in log)
  BY <1>2, FiniteAttempts DEF LimitInv, LimitTypeOK
<1>6. \A a \in admitted : a[1] + Window > time => a \in log' /\ a \in recent'[t]
  BY <1>5 DEF Enter, Since, LimitInv, LimitTypeOK
<1>7. kept'[t] /\ entered'[t] = time /\ time \in Int
  <2>1. kept'[t] /\ entered'[t] = time
    BY DEF Enter, LimitInv, LimitTypeOK
  <2>2. time \in Int
    BY LimitAssumption DEF LimitInv, LimitTypeOK, Times
  <2>3. QED
    BY <2>1, <2>2
<1>8. TurnInv(t)'
  BY <1>4, <1>5, <1>6, <1>7 DEF TurnInv
<1>9. \A a \in admitted' : Cardinality(Counting(admitted', a[1])) <= Limit
  BY <1>2, <1>4 DEF LimitInv, Counting
<1>10. QED
  BY <1>3, <1>4, <1>5, <1>8, <1>9

\* The trimmed list is the one the thread has read: no other has added to it.
LEMMA TrimKeeps ==
  ASSUME LimitInv, NEW t \in Threads, Trim(t)
  PROVE  LimitInv'
<1>1. LimitTypeOK'
  BY LimitTypes DEF LimitInv, LimitNext
<1> SUFFICES ASSUME ~crossed'
             PROVE  /\ \A u, v \in Inside' : u = v
                    /\ \A u \in Inside' : TurnInv(u)'
                    /\ \A a \in admitted' :
                         a[1] <= time' /\ (Inside' = {} /\ a[1] + Window > time' => a \in log')
                    /\ \A a \in admitted' : Cardinality(Counting(admitted', a[1])) <= Limit
  BY <1>1 DEF LimitInv
<1>2. ~crossed /\ Inside = {t} /\ Inside' = {t} /\ TurnInv(t)
  BY DEF Trim, Inside, LimitInv, LimitTypeOK
<1>3. TurnInv(t)'
  BY <1>2 DEF TurnInv, Trim, LimitInv, LimitTypeOK
<1>4. \A a \in admitted' : Cardinality(Counting(admitted', a[1])) <= Limit
  BY <1>2 DEF LimitInv, Counting, Trim
<1>5. QED
  BY <1>2, <1>3, <1>4 DEF LimitInv, Trim

\* An attempt is admitted where the list has room, and the list has all that
\* counts with it.
LEMMA TakeKeeps ==
  ASSUME LimitInv, NEW t \in Threads, Take(t)
  PROVE  LimitInv'
<1>1. LimitTypeOK'
  BY LimitTypes DEF LimitInv, LimitNext
<1> SUFFICES ASSUME ~crossed'
             PROVE  /\ \A u, v \in Inside' : u = v
                    /\ \A u \in Inside' : TurnInv(u)'
                    /\ \A a \in admitted' :
                         a[1] <= time' /\ (Inside' = {} /\ a[1] + Window > time' => a \in log')
                    /\ \A a \in admitted' : Cardinality(Counting(admitted', a[1])) <= Limit
  BY <1>1 DEF LimitInv
<1>2. ~crossed /\ Inside = {t} /\ Inside' = {} /\ TurnInv(t) /\ time' = time
  BY DEF Take, Leave, Inside, LimitInv, LimitTypeOK
<1>3. time \in Int /\ entered[t] \in Int /\ Window \in Int /\ Limit \in Int
  BY LimitAssumption DEF LimitInv, LimitTypeOK, Times
<1>4. \A a \in admitted : a \in Attempt /\ a[1] \in Int
  BY FiniteAttempts DEF LimitInv, LimitTypeOK
<1>5. \A a \in admitted : /\ a[1] <= entered[t] /\ a[1] <= time
                          /\ a[1] + Window > entered[t] => a \in log
  BY <1>2, <1>3, <1>4 DEF TurnInv
<1>6. CASE UNCHANGED <<log, admitted>>
  <2>1. \A a \in admitted' : Cardinality(Counting(admitted', a[1])) <= Limit
    BY <1>2, <1>6 DEF LimitInv, Counting
  <2>2. \A a \in admitted' : a[1] <= time' /\ (a[1] + Window > time' => a \in log')
    BY <1>2, <1>3, <1>4, <1>5, <1>6 DEF TurnInv
  <2>3. QED
    BY <1>2, <2>1, <2>2
<1>7. CASE Admit(t) /\ Cardinality(log) < Limit
  <2>1. PICK e \in Attempt : /\ e[1] = entered[t] /\ e \notin log /\ log' = log \cup {e}
                             /\ admitted' = admitted \cup {e}
    BY <1>2, <1>7, AdmitEffect DEF LimitInv
  <2>2. \A a \in admitted' : a[1] <= time' /\ (a[1] + Window > time' => a \in log')
    BY <1>2, <1>3, <1>4, <1>5, <2>1 DEF TurnInv
  <2>3. IsFiniteSet(log) /\ IsFiniteSet(log') /\ Cardinality(log') = Cardinality(log) + 1
    BY <2>1, FiniteAttempts, FS_Subset, FS_AddElement DEF LimitInv, LimitTypeOK
  <2>4. Cardinality(log') <= Limit
    <3>1. Cardinality(log) \in Nat
      BY <2>3, FS_CardinalityType
    <3>2. QED
      BY <1>3, <1>7, <2>3, <3>1
  <2>5. Cardinality(Counting(admitted', entered[t])) <= Limit
    <3>1. Counting(admitted', entered[t]) \subseteq log'
      BY <1>5, <2>1 DEF Counting
    <3>2. /\ Cardinality(Counting(admitted', entered[t])) <= Cardinality(log')
          /\ IsFiniteSet(Counting(admitted', entered[t]))
      BY <2>3, <3>1, FS_Subset
    <3>3. Cardinality(Counting(admitted', entered[t])) \in Nat /\ Cardinality(log') \in Nat
      BY <2>3, <3>2, FS_CardinalityType
    <3>4. QED
      BY <1>3, <2>4, <3>2, <3>3
  <2>6. ASSUME NEW a \in admitted' PROVE Cardinality(Counting(admitted', a[1])) <= Limit
    <3>1. CASE a[1] = entered[t]
      BY <2>5, <3>1
    <3>2. CASE a[1] # entered[t]
      <4>1. a \in admitted /\ a[1] < entered[t]
        BY <1>3, <1>4, <1>5, <2>1, <3>2
      <4>2. Counting(admitted', a[1]) = Counting(admitted, a[1])
        BY <1>3, <1>4, <2>1, <4>1 DEF Counting
      <4>3. QED
        BY <1>2, <4>1, <4>2 DEF LimitInv
    <3>3. QED
      BY <3>1, <3>2
  <2>7. QED
    BY <1>2, <2>2, <2>6
<1>8. QED
  BY <1>2, <1>3, <1>6, <1>7, FiniteAttempts, FS_Subset, FS_CardinalityType
  DEF Take, TurnInv, LimitInv, LimitTypeOK

\* Time passes: what counted at an earlier time may count no longer.
LEMMA TimeKeeps ==
  ASSUME LimitInv, PassTime
  PROVE  LimitInv'
<1>1. LimitTypeOK'
  BY LimitTypes DEF LimitInv, LimitNext
<1>2. time \in Int /\ \A a \in admitted : a[1] \in Int
  BY LimitAssumption, FiniteAttempts DEF LimitInv, LimitTypeOK, Times
<1>3. \A a \in admitted' : Cardinality(Counting(admitted', a[1])) <= Limit \/ crossed
  BY DEF LimitInv, Counting, PassTime
<1>4. Inside' = Inside
  BY DEF Inside, PassTime
<1>5. ASSUME NEW t \in Inside, TurnInv(t) PROVE TurnInv(t)'
  BY <1>2, <1>5, LimitAssumption DEF TurnInv, PassTime, Inside, LimitInv, LimitTypeOK, Times
<1>6. ~crossed => \A a \in admitted' : a[1] <= time' /\ (Inside' = {} /\ a[1] + Window > time' => a \in log')
  BY <1>2, <1>4, LimitAssumption DEF LimitInv, PassTime
<1>7. QED
  BY <1>1, <1>3, <1>4, <1>5, <1>6 DEF LimitInv, PassTime

\* The invariant, for every value of the constants.
LEMMA LimitInvariant == LimitSpec => []LimitInv
<1>1. LimitInit => LimitInv
  <2> SUFFICES ASSUME LimitInit PROVE LimitInv
    OBVIOUS
  <2>1. LimitTypeOK
    <3>1. 0 \in Times
      BY LimitAssumption DEF Times
    <3>2. crossed \in BOOLEAN /\ kept \in [Threads -> BOOLEAN]
      BY Zenon DEF LimitInit
    <3>3. QED
      BY <3>1, <3>2 DEF LimitInit, LimitTypeOK
  <2>2. QED
    BY <2>1 DEF LimitInit, LimitInv, Inside
<1>2. LimitInv /\ [LimitNext]_limitVars => LimitInv'
  <2> SUFFICES ASSUME LimitInv, [LimitNext]_limitVars PROVE LimitInv'
    OBVIOUS
  <2>1. CASE UNCHANGED limitVars
    BY <2>1 DEF limitVars, LimitInv, LimitTypeOK, Inside, TurnInv, Counting
  <2>2. QED
    BY <2>1, EnterKeeps, TrimKeeps, TakeKeeps, TimeKeeps DEF LimitNext
<1>3. QED
  BY <1>1, <1>2, PTL DEF LimitSpec

\* The attempts and the threads in the limiter keep their types.
THEOREM LimiterTypes == LimitSpec => []LimitTypeOK
<1>1. LimitInv => LimitTypeOK
  BY DEF LimitInv
<1>2. QED
  BY <1>1, LimitInvariant, PTL

\* No window has more attempts than the limit, as long as the threads take turns.
THEOREM AttemptsAreLimited == LimitSpec => []WindowLimit
<1>1. LimitInv => WindowLimit
  BY DEF LimitInv, WindowLimit, Counting
<1>2. QED
  BY <1>1, LimitInvariant, PTL

-----------------------------------------------------------------------------
(* What a scan decides: under criteria that a file only ever stops to      *)
(* match, for any criteria, locations and times.                           *)

Aging == \A c \in criteria : c.enabled => Ages(c)

\* What StaysFrozen rests on: the file in cold storage, and the one on its way
\* there, is not active.
DecisionInv ==
    /\ DecisionTypeOK
    /\ quiet /\ Aging /\ ~Renewed =>
         /\ where \in Locations => ~Active /\ verdict # "thaw"
         /\ where = "hot" /\ verdict = "freeze" => ~Active

-----------------------------------------------------------------------------
\* The steps keep the types.
LEMMA DecisionTypes ==
  ASSUME DecisionTypeOK, DecisionNext
  PROVE  DecisionTypeOK'
<1> USE DecisionAssumption DEF DecisionTypeOK
<1>1. CASE Walk
  <2>1. quiet' \in BOOLEAN /\ reread' \in BOOLEAN
    BY <1>1, Zenon DEF Walk
  <2>2. QED
    BY <1>1, <2>1 DEF Walk
<1>2. CASE NoRoom
  BY <1>2 DEF NoRoom
<1>3. CASE Thaw
  BY <1>3 DEF Thaw
<1>4. ASSUME NEW l \in Locations, Freeze(l) PROVE DecisionTypeOK'
  BY <1>4 DEF Freeze
<1>5. ASSUME NEW l \in Locations, RoomChanges(l) PROVE DecisionTypeOK'
  BY <1>5 DEF RoomChanges
<1>6. CASE Use \/ Modify \/ EditCriteria
  <2>1. quiet' \in BOOLEAN /\ uses' \in 0..MaxUses
    <3>1. quiet' = FALSE /\ uses < MaxUses /\ uses' = uses + 1
      BY <1>6 DEF Use, Modify, EditCriteria, Act
    <3>2. quiet' \in BOOLEAN
      BY <3>1, Zenon
    <3>3. QED
      BY <3>1, <3>2
  <2>2. CASE Use
    BY <2>1, <2>2 DEF Use, Act
  <2>3. CASE Modify
    BY <2>1, <2>3 DEF Modify, Act
  <2>4. CASE EditCriteria
    BY <2>1, <2>4 DEF EditCriteria, Act
  <2>5. QED
    BY <1>6, <2>2, <2>3, <2>4
<1>7. CASE TickQuarter
  BY <1>7 DEF TickQuarter, Moments
<1>8. QED
  BY <1>1, <1>2, <1>3, <1>4, <1>5, <1>6, <1>7 DEF DecisionNext

\* Time passes or the file is frozen: its last use and its last change are no
\* later than they were, and it is at its hot path only if it was.
Settles ==
    /\ clock' \in Moments /\ clock <= clock'
    /\ atime' = atime /\ mtime' = mtime /\ opened' = opened
    /\ linking' = linking /\ darwin' = darwin /\ criteria' = criteria
    /\ where = "hot" \/ where' = where

LEMMA UseNoLater ==
  ASSUME DecisionTypeOK, Settles
  PROVE  LastUse \in Int /\ LastUse' \in Int /\ LastUse' <= LastUse
<1>1. atime \in Int /\ -1000 <= atime /\ (opened # None => opened \in Int /\ -1000 <= opened)
  BY DecisionAssumption DEF DecisionTypeOK, Moments
<1>2. AtHotPath' => AtHotPath
  BY DEF Settles, AtHotPath
<1>3. /\ LastUse = IF ~darwin THEN atime ELSE IF opened = None \/ ~AtHotPath THEN -1000
                   ELSE IF opened > atime THEN opened ELSE atime
      /\ LastUse' = IF ~darwin THEN atime ELSE IF opened = None \/ ~AtHotPath' THEN -1000
                    ELSE IF opened > atime THEN opened ELSE atime
  BY DEF LastUse, Settles
<1>4. CASE ~darwin
  BY <1>1, <1>3, <1>4
<1>5. CASE darwin /\ (opened = None \/ ~AtHotPath)
  <2>1. LastUse = -1000 /\ LastUse' = -1000
    BY <1>2, <1>3, <1>5, Zenon
  <2>2. QED
    BY <2>1
<1>6. CASE darwin /\ opened # None /\ AtHotPath
  BY <1>1, <1>3, <1>6
<1>7. QED
  BY <1>4, <1>5, <1>6

\* A time that is no later, at a clock that is: what asks for a young file and did
\* not match still does not.
LEMMA AgeMatchesLess ==
  ASSUME NEW t \in Int, NEW u \in Int, u <= t, NEW rel \in {"lt", "lte"}, NEW m \in Int \cup {None},
         NEW n \in Int, NEW k \in Int, n <= k, ~(m # None /\ Compare(rel, n - t, m))
  PROVE  ~(m # None /\ Compare(rel, k - u, m))
<1>1. CASE m = None
  BY <1>1
<1>2. CASE m \in Int
  BY <1>2 DEF Compare
<1>3. QED
  BY <1>1, <1>2

LEMMA StaysInactive ==
  ASSUME DecisionTypeOK, Aging, Settles, ~Active
  PROVE  ~Active'
<1>1. PICK c \in criteria : c.enabled /\ ~MatchCriterion(c)
  BY DEF Active
<1>2. Ages(c) /\ c \in criteria'
  BY <1>1 DEF Aging, Settles
<1>3. clock \in Int /\ clock' \in Int /\ clock <= clock' /\ mtime \in Int
  BY DecisionAssumption DEF DecisionTypeOK, Settles, Moments
<1>4. c.type \in {"mtime", "atime", "ctime", "size"} => c.value \in Int \cup {None}
  BY DecisionAssumption DEF DecisionTypeOK
<1>5. ~MatchCriterion(c)'
  <2>1. CASE c.type = "mtime"
    <3>1. c.op \in {"lt", "lte"} /\ c.op # "eq"
      BY <1>2, <2>1 DEF Ages
    <3>2. ~(c.value # None /\ Compare(c.op, clock - mtime, c.value))
      BY <1>1, <2>1 DEF MatchCriterion, MatchTime
    <3>3. ~(c.value # None /\ Compare(c.op, clock' - mtime', c.value))
      <4>1. mtime' = mtime /\ mtime <= mtime
        BY <1>3 DEF Settles
      <4>2. ~(c.value # None /\ Compare(c.op, clock' - mtime, c.value))
        BY <1>3, <1>4, <2>1, <3>1, <3>2, <4>1, AgeMatchesLess
      <4>3. QED
        BY <4>1, <4>2
    <3>4. QED
      BY <2>1, <3>1, <3>3 DEF MatchCriterion, MatchTime
  <2>2. CASE c.type = "atime"
    <3>1. c.op \in {"lt", "lte"} /\ c.op # "eq"
      BY <1>2, <2>2 DEF Ages
    <3>2. ~(c.value # None /\ Compare(c.op, clock - LastUse, c.value))
      BY <1>1, <2>2 DEF MatchCriterion, MatchTime
    <3>3. ~(c.value # None /\ Compare(c.op, clock' - LastUse', c.value))
      BY <1>3, <1>4, <2>2, <3>1, <3>2, UseNoLater, AgeMatchesLess
    <3>4. QED
      BY <2>2, <3>1, <3>3 DEF MatchCriterion, MatchTime
  <2>3. CASE c.type = "size"
    BY <1>1, <2>3 DEF MatchCriterion
  <2>4. CASE c.type = "type"
    BY <1>1, <1>2, <2>4 DEF MatchCriterion, MatchType, AtHotPath, Ages, Settles
  <2>5. CASE c.type \notin {"mtime", "atime", "ctime", "size", "type"}
    BY <1>1, <2>5 DEF MatchCriterion
  <2>6. QED
    BY <1>2, <2>1, <2>2, <2>3, <2>4, <2>5 DEF Ages
<1>6. QED
  BY <1>1, <1>2, <1>5 DEF Active

\* Whether the file is active depends on its place and the criteria, on the times
\* of its changes, and on its last use if a criterion asks for it.
LEMMA ActiveSame ==
  ASSUME UNCHANGED <<clock, mtime, ctime, opened, linking, darwin, criteria, where>>,
         atime' = atime \/ \A c \in criteria : c.enabled => c.type # "atime"
  PROVE  (Active' <=> Active) /\ (Aging' <=> Aging)
<1>1. Aging' <=> Aging
  BY DEF Aging, Ages
<1>2. ASSUME NEW c \in criteria, c.enabled PROVE MatchCriterion(c)' <=> MatchCriterion(c)
  <2>1. CASE atime' = atime
    BY <2>1 DEF MatchCriterion, MatchTime, MatchSize, MatchType, LastUse, AtHotPath
  <2>2. CASE c.type # "atime"
    BY <2>2 DEF MatchCriterion, MatchTime, MatchSize, MatchType, AtHotPath
  <2>3. QED
    BY <1>2, <2>1, <2>2
<1>3. QED
  BY <1>1, <1>2 DEF Active

\* The user's acts end the quiet; the scan and the clock keep what was decided.
LEMMA DecisionStep == DecisionInv /\ [DecisionNext]_decisionVars => DecisionInv'
<1> SUFFICES ASSUME DecisionInv, [DecisionNext]_decisionVars PROVE DecisionInv'
  OBVIOUS
<1>1. DecisionTypeOK'
  BY DecisionTypes DEF DecisionInv, DecisionTypeOK, decisionVars
<1>2. CASE Walk
  <2>1. UNCHANGED <<clock, mtime, ctime, opened, linking, darwin, criteria, where>>
    BY <1>2 DEF Walk
  <2>2. reread' = (Reads \/ (reread /\ where # "hot"))
        /\ (atime' = atime \/ Reads) /\ quiet' = (quiet \/ where = "hot")
    BY <1>2 DEF Walk
  <2>3. ASSUME quiet', Aging', ~Renewed'
        PROVE  /\ where' \in Locations => ~Active' /\ verdict' # "thaw"
               /\ where' = "hot" /\ verdict' = "freeze" => ~Active'
    <3>1. atime' = atime \/ \A c \in criteria : c.enabled => c.type # "atime"
      BY <2>1, <2>2, <2>3 DEF Renewed
    <3>2. (Active' <=> Active) /\ Aging
      BY <2>1, <2>3, <3>1, ActiveSame
    <3>3. where \in Locations => quiet /\ ~Renewed
      <4>1. where \in Locations => where # "hot"
        BY DecisionAssumption
      <4>2. QED
        BY <2>1, <2>2, <2>3, <4>1 DEF Renewed
    <3>4. where \in Locations => ~Active
      BY <3>2, <3>3 DEF DecisionInv
    <3>5. verdict' = IF where = "hot" /\ ~Active THEN "freeze"
                     ELSE IF where = First /\ Active THEN "thaw" ELSE "stay"
      BY <1>2 DEF Walk
    <3>6. QED
      BY <2>1, <3>2, <3>4, <3>5, DecisionAssumption
  <2>4. QED
    BY <1>1, <2>3 DEF DecisionInv
<1>3. CASE NoRoom
  BY <1>1, <1>3, ActiveSame DEF NoRoom, Renewed, DecisionInv
<1>4. CASE Thaw
  BY <1>1, <1>4, DecisionAssumption DEF Thaw, DecisionInv
<1>5. ASSUME NEW l \in Locations, Freeze(l) PROVE DecisionInv'
  <2>1. Settles /\ (Aging' => Aging)
    BY <1>5, DecisionAssumption DEF Freeze, Settles, Aging, Ages, DecisionInv, DecisionTypeOK, Moments
  <2>2. QED
    BY <1>1, <1>5, <2>1, StaysInactive, DecisionAssumption DEF Freeze, Renewed, Settles, DecisionInv
<1>6. ASSUME NEW l \in Locations, RoomChanges(l) PROVE DecisionInv'
  BY <1>1, <1>6, ActiveSame DEF Renewed, RoomChanges, DecisionInv
<1>7. CASE Use \/ Modify \/ EditCriteria
  BY <1>1, <1>7 DEF Use, Modify, EditCriteria, Act, DecisionInv
<1>8. CASE TickQuarter
  <2>1. Settles /\ (Aging' => Aging)
    BY <1>1, <1>8, DecisionAssumption DEF TickQuarter, Settles, Aging, Ages, DecisionInv, DecisionTypeOK, Moments
  <2>2. QED
    BY <1>1, <1>8, <2>1, StaysInactive DEF Renewed, Settles, TickQuarter, DecisionInv
<1>9. CASE UNCHANGED decisionVars
  BY <1>1, <1>9, ActiveSame DEF Renewed, decisionVars, DecisionInv
<1>10. QED
  BY <1>2, <1>3, <1>4, <1>5, <1>6, <1>7, <1>8, <1>9 DEF DecisionNext

\* The invariant, for every value of the constants.
LEMMA DecisionInvariant == DecisionSpec => []DecisionInv
<1>1. DecisionInit => DecisionInv
  <2> SUFFICES ASSUME DecisionInit PROVE DecisionInv
    OBVIOUS
  <2>1. quiet \in BOOLEAN /\ reread \in BOOLEAN /\ ~quiet
    BY Zenon DEF DecisionInit
  <2>2. QED
    BY <2>1, DecisionAssumption DEF DecisionInit, DecisionInv, DecisionTypeOK, Moments
<1>2. QED
  BY <1>1, DecisionStep, PTL DEF DecisionSpec

\* The file, its times and the locations keep their types.
THEOREM DecisionTypesKept == DecisionSpec => []DecisionTypeOK
<1>1. DecisionInv => DecisionTypeOK
  BY DEF DecisionInv
<1>2. QED
  BY <1>1, DecisionInvariant, PTL

\* What a scan has frozen no later scan thaws, under criteria that ask for a young
\* file, unless the user does something to it, or the criteria go by atime and a scan
\* has read the content for the inventory.
THEOREM FrozenStaysFrozen == DecisionSpec => StaysFrozen
<1> DEFINE A == (where \in Locations /\ where' = "hot" /\ (\A c \in criteria : c.enabled => Ages(c)) /\ ~Renewed)
                => ~quiet
<1>1. DecisionInv /\ [DecisionNext]_decisionVars => [A]_decisionVars
  <2> SUFFICES ASSUME DecisionInv, DecisionNext, where \in Locations, where' = "hot", Aging, quiet,
                      ~Renewed
               PROVE  FALSE
    BY DEF Aging
  <2>1. Thaw
    BY DecisionAssumption
    DEF DecisionNext, Walk, NoRoom, Freeze, RoomChanges, Use, Modify, EditCriteria, TickQuarter
  <2>2. QED
    BY <2>1 DEF Thaw, DecisionInv
<1>2. QED
  BY <1>1, DecisionInvariant, PTL DEF DecisionSpec, StaysFrozen

-----------------------------------------------------------------------------
(* The choice of a location: the score tells the better one, for any room. *)

\* A set of naturals has a least element.
LEMMA Least ==
  ASSUME NEW T, T \subseteq Nat, T # {}
  PROVE  \E x \in T : \A y \in T : x <= y
<1>1. PICK x \in T : \A y \in T : ~ (<<y, x>> \in OpToRel(<, Nat))
  BY WFMin, NatLessThanWellFounded
<1>2. \A y \in T : <<y, x>> \in OpToRel(<, Nat) <=> y < x
  BY <1>1 DEF OpToRel
<1>3. \A y \in T : ~ (y < x)
  BY <1>1, <1>2, Zenon
<1>4. QED
  BY <1>3

LEMMA SquaresGrow ==
  ASSUME NEW a \in Nat, NEW b \in Nat, a <= b
  PROVE  a * a <= b * b
<1>1. a * a <= a * b /\ a * b <= b * b
  OBVIOUS
<1>2. QED
  BY <1>1

\* A number below a square has a root, rounded down.
LEMMA RootExists ==
  ASSUME NEW n \in Nat, NEW top \in Nat, n < top * top
  PROVE  \E r \in 0..(top - 1) : r * r <= n /\ n < (r + 1) * (r + 1)
<1> DEFINE T == {x \in 1..top : n < x * x}
<1>1. T \subseteq Nat
  OBVIOUS
<1>2. top \in T
  <2>1. top # 0
    OBVIOUS
  <2>2. QED
    BY <2>1
<1>3. PICK x \in T : \A y \in T : x <= y
  <2> HIDE DEF T
  <2>1. T # {}
    BY <1>2
  <2>2. QED
    BY <1>1, <2>1, Least
<1>4. PICK r \in 0..(top - 1) : r = x - 1 /\ n < (r + 1) * (r + 1)
  OBVIOUS
<1>5. r * r <= n
  <2>1. CASE r = 0
    BY <2>1
  <2>2. CASE r # 0
    <3>1. r \in 1..top /\ r \notin T
      BY <1>3, <1>4, <2>2
    <3>2. r * r \in Int
      BY <3>1
    <3>3. QED
      BY <3>1, <3>2
  <2>3. QED
    BY <2>1, <2>2
<1>6. QED
  BY <1>4, <1>5

LEMMA RootChosen ==
  ASSUME NEW n, \E r \in Roots : r * r <= n /\ n < (r + 1) * (r + 1)
  PROVE  /\ RoundRoot(n) \in Roots
         /\ RoundRoot(n) * RoundRoot(n) <= n
         /\ n < (RoundRoot(n) + 1) * (RoundRoot(n) + 1)
BY Zenon DEF RoundRoot

LEMMA RootRounds ==
  ASSUME NEW n \in Nat, n < 25000000
  PROVE  /\ RoundRoot(n) \in 0..5000
         /\ RoundRoot(n) * RoundRoot(n) <= n
         /\ n < (RoundRoot(n) + 1) * (RoundRoot(n) + 1)
<1>1. n < 5001 * 5001 /\ 5001 - 1 = 5000
  BY SMT
<1>2. \E r \in 0..(5001 - 1) : r * r <= n /\ n < (r + 1) * (r + 1)
  BY <1>1, RootExists, SMT
<1>3. Roots = 0..(5001 - 1) /\ Roots = 0..5000
  BY SMT DEF Roots
<1>4. \E r \in Roots : r * r <= n /\ n < (r + 1) * (r + 1)
  BY <1>2, <1>3, SMT
<1>5. RoundRoot(n) \in Roots /\ RoundRoot(n) * RoundRoot(n) <= n
      /\ n < (RoundRoot(n) + 1) * (RoundRoot(n) + 1)
  BY ONLY <1>4, RootChosen, Zenon
<1>6. QED
  BY <1>3, <1>5, SMT

\* The score of free space grows with it, and with 5 megabytes more it is larger.
LEMMA SpaceTells ==
  ASSUME NEW a \in Nat, NEW b \in Nat, a <= b
  PROVE  /\ SpaceScore(a) \in Int /\ SpaceScore(b) \in Int
         /\ SpaceScore(a) <= SpaceScore(b)
         /\ a < 10240 /\ (a + 5 <= b \/ 10240 <= b) /\ a + 5 <= 10240 => SpaceScore(a) < SpaceScore(b)
<1> DEFINE n == (a * 78125) \div 32
           m == (b * 78125) \div 32
<1>1. CASE 10240 <= a
  BY <1>1, SMT DEF SpaceScore
<1>2. CASE a < 10240
  <2>1. n \in Nat /\ n < 25000000
    BY <1>2, SMT
  <2> DEFINE r == RoundRoot(n)
  <2>2. r \in 0..5000 /\ r * r <= n /\ n < (r + 1) * (r + 1) /\ SpaceScore(a) = r
    BY <1>2, <2>1, RootRounds, SMT DEF SpaceScore
  <2>3. r < 5000
    <3>1. SUFFICES ASSUME 5000 <= r PROVE FALSE
      BY <2>2, SMT
    <3>2. 25000000 <= r * r
      BY <2>2, <3>1, SMT
    <3>3. QED
      BY <2>1, <2>2, <3>2, SMT
  <2>4. CASE 10240 <= b
    <3>1. SpaceScore(b) = 5000
      BY <2>4, SMT DEF SpaceScore
    <3> HIDE DEF r
    <3>2. QED
      BY <2>2, <2>3, <3>1, SMT
  <2>5. CASE b < 10240
    <3>1. m \in Nat /\ m < 25000000 /\ n <= m /\ (a + 5 <= b => n + 12206 <= m)
      BY <2>5, SMT
    <3> DEFINE s == RoundRoot(m)
    <3>2. s \in 0..5000 /\ s * s <= m /\ m < (s + 1) * (s + 1) /\ SpaceScore(b) = s
      BY <2>5, <3>1, RootRounds, SMT DEF SpaceScore
    <3> HIDE DEF r, s, n, m
    <3>3. r <= s
      <4>1. SUFFICES ASSUME s + 1 <= r PROVE FALSE
        BY <2>2, <3>2, SMT
      <4>2. (s + 1) * (s + 1) <= r * r
        <5>1. s + 1 \in Nat /\ r \in Nat
          BY <2>2, <3>2, SMT
        <5>2. QED
          BY <4>1, <5>1, SquaresGrow, SMT
      <4>3. r * r \in Int /\ (s + 1) * (s + 1) \in Int
        BY <2>2, <3>2, SMT
      <4>4. QED
        BY <2>1, <2>2, <3>1, <3>2, <4>2, <4>3, SMT
    <3>4. ASSUME a + 5 <= b PROVE r < s
      <4>1. SUFFICES ASSUME s <= r PROVE FALSE
        BY <2>2, <3>2, SMT
      <4>2. (s + 1) * (s + 1) <= (r + 1) * (r + 1)
        <5>1. s + 1 \in Nat /\ r + 1 \in Nat /\ s + 1 <= r + 1
          BY <2>2, <3>2, <4>1, SMT
        <5>2. QED
          BY <5>1, SquaresGrow, SMT
      <4>3. (r + 1) * (r + 1) = r * r + 2 * r + 1
        BY <2>2, SMT
      <4>4. r * r \in Int /\ (s + 1) * (s + 1) \in Int
        BY <2>2, <3>2, SMT
      <4>5. QED
        <5>1. PICK p \in Int, q \in Int : p = (s + 1) * (s + 1) /\ q = r * r
          BY <4>4, SMT
        <5>2. q <= n /\ m < p /\ p <= q + 2 * r + 1 /\ r \in 0..5000
          BY <2>2, <3>2, <4>2, <4>3, <5>1, SMT
        <5>3. n + 12206 <= m /\ n \in Nat /\ m \in Nat
          BY <2>1, <3>1, <3>4, SMT
        <5>4. QED
          BY <5>2, <5>3, SMT
    <3>5. QED
      BY <2>2, <2>5, <3>2, <3>3, <3>4, SMT
  <2>6. QED
    BY <2>4, <2>5, SMT
<1>3. QED
  BY <1>1, <1>2, SMT

\* The score of the load falls with the files, and with 4 fewer it is larger.
LEMMA LoadTells ==
  ASSUME NEW a \in Nat, NEW b \in Nat, b <= a
  PROVE  /\ LoadScore(a) \in Int /\ LoadScore(b) \in Int
         /\ LoadScore(a) <= LoadScore(b)
         /\ b + 4 <= a /\ b + 4 <= 10000 => LoadScore(a) < LoadScore(b)
BY DEF LoadScore

\* A location that is worse has a lower score.
LEMMA ScoreTells ==
  ASSUME NEW r \in Room, NEW q \in Room, Worse(r, q)
  PROVE  Score[r] \in Int /\ Score[q] \in Int /\ Score[r] < Score[q]
<1>1. r.free \in Nat /\ r.files \in Nat /\ q.free \in Nat /\ q.files \in Nat
  BY DecisionAssumption
<1> DEFINE a == Counted(r)
           b == Counted(q)
<1>2. /\ a.free = IF r.free > 10240 THEN 10240 ELSE r.free
      /\ b.free = IF q.free > 10240 THEN 10240 ELSE q.free
      /\ a.files = IF r.files > 10000 THEN 10000 ELSE r.files
      /\ b.files = IF q.files > 10000 THEN 10000 ELSE q.files
  BY DEF Counted
<1>3. /\ a.free <= b.free /\ a.files >= b.files
      /\ a.free + 5 <= b.free \/ a.files >= b.files + 4
  BY DEF Worse
<1> HIDE DEF a, b
<1>4. a.free \in Nat /\ b.free \in Nat /\ a.files \in Nat /\ b.files \in Nat
  BY <1>1, <1>2
<1>5. /\ SpaceScore(r.free) = SpaceScore(a.free) /\ SpaceScore(q.free) = SpaceScore(b.free)
      /\ LoadScore(r.files) = LoadScore(a.files) /\ LoadScore(q.files) = LoadScore(b.files)
  BY <1>1, <1>2 DEF SpaceScore, LoadScore
<1>6. /\ SpaceScore(a.free) \in Int /\ SpaceScore(b.free) \in Int /\ SpaceScore(a.free) <= SpaceScore(b.free)
      /\ a.free + 5 <= b.free => SpaceScore(a.free) < SpaceScore(b.free)
  BY <1>1, <1>2, <1>3, <1>4, SpaceTells
<1>7. /\ LoadScore(a.files) \in Int /\ LoadScore(b.files) \in Int /\ LoadScore(a.files) <= LoadScore(b.files)
      /\ a.files >= b.files + 4 => LoadScore(a.files) < LoadScore(b.files)
  BY <1>1, <1>2, <1>3, <1>4, LoadTells
<1>8. Score[r] = SpaceScore(a.free) + LoadScore(a.files) /\ Score[q] = SpaceScore(b.free) + LoadScore(b.files)
  BY <1>5 DEF Score
<1>9. QED
  BY <1>3, <1>6, <1>7, <1>8

\* A file is frozen where it fits best.
THEOREM FrozenWhereBest == DecisionSpec => GoesWhereItFitsBest
<1> DEFINE A == \A l \in Locations : (where = "hot" /\ where' = l)
                   => \A k \in Locations : Fits(k) => ~Worse(room[l], room[k])
<1>1. DecisionTypeOK /\ [DecisionNext]_decisionVars => [A]_decisionVars
  <2> SUFFICES ASSUME DecisionTypeOK, DecisionNext, NEW l \in Locations, where = "hot", where' = l,
                      NEW k \in Locations, Fits(k), Worse(room[l], room[k])
               PROVE  FALSE
    OBVIOUS
  <2>1. Freeze(l)
    <3>1. where' # where
      BY DecisionAssumption
    <3>2. ~(Walk \/ NoRoom \/ Use \/ Modify \/ EditCriteria \/ TickQuarter)
      BY <3>1 DEF Walk, NoRoom, Use, Modify, EditCriteria, TickQuarter
    <3>3. ~Thaw
      BY DecisionAssumption DEF Thaw
    <3>4. QED
      BY <3>1, <3>2, <3>3 DEF DecisionNext, Freeze, RoomChanges
  <2>2. Score[room[k]] <= Score[room[l]]
    BY <2>1 DEF Freeze, Best
  <2>3. room[k] \in Room /\ room[l] \in Room
    BY DEF DecisionTypeOK
  <2>4. QED
    BY <2>2, <2>3, ScoreTells
<1>2. QED
  BY <1>1, DecisionTypesKept, PTL DEF DecisionSpec, GoesWhereItFitsBest

-----------------------------------------------------------------------------
(* Tag rules: a run that reports success has set every mark it owed, for   *)
(* any number of files, tags, rules, runs and edits.                       *)

\* A mark a run owes: its rule is as the run holds it, and matches the file, which
\* is still to be read or has its mark.
DebtInv(j, o) ==
    /\ o.rule \in DOMAIN run[j].held
    /\ rules[o.rule] # None /\ run[j].held[o.rule] = rules[o.rule]
    /\ rules[o.rule].enabled /\ rules[o.rule].tag = o.tag
    /\ Evaluate(rules[o.rule].shape, o.file) /\ o.file \in inventory
    /\ o.file \in run[j].todo \cup run[j].skipped \/ <<o.file, o.tag>> \in marks \cup run[j].pending

RunInv(j) == run[j] # None /\ run[j].at # "failed" =>
    /\ \A o \in run[j].owed : DebtInv(j, o)
    /\ run[j].at = "done" => run[j].todo = {} /\ run[j].pending = {}

\* What AppliedToAll rests on.
TagInv == TagTypeOK /\ \A j \in RuleJobs : RunInv(j)

-----------------------------------------------------------------------------
\* A table of rules.
LEMMA TableType ==
  ASSUME NEW h \in RuleTables
  PROVE  /\ DOMAIN h \subseteq RuleIds /\ h \in [DOMAIN h -> Rule \cup {None}]
         /\ \A r \in DOMAIN h : h[r] # None => h[r] \in Rule
<1>1. PICK rs \in SUBSET RuleIds : h \in [rs -> Rule \cup {None}]
  BY DEF RuleTables
<1>2. QED
  BY <1>1

\* A function from rules to rows is one.
LEMMA IsTable ==
  ASSUME NEW rs \in SUBSET RuleIds, NEW h \in [rs -> Rule \cup {None}]
  PROVE  h \in RuleTables
BY DEF RuleTables

\* A job that is there is a run.
LEMMA JobType ==
  ASSUME TagTypeOK, NEW j \in RuleJobs, run[j] # None
  PROVE  run[j] \in Run
BY DEF TagTypeOK

\* What is excused of the jobs: marks they owe, and nothing else.
LEMMA ExcuseEffect ==
  ASSUME TagTypeOK, NEW lost, Excuse(lost)
  PROVE  /\ run' \in [RuleJobs -> Run \cup {None}]
         /\ \A k \in RuleJobs : run'[k] # None =>
              run[k] # None /\ run'[k] = [run[k] EXCEPT !.owed = @ \ lost]
<1>1. ASSUME NEW k \in RuleJobs, run[k] # None
      PROVE  [run[k] EXCEPT !.owed = @ \ lost] \in Run
  <2>1. run[k] \in Run
    BY <1>1, JobType
  <2>2. run[k].owed \ lost \subseteq Debt
    BY <2>1 DEF Run
  <2>3. QED
    BY <2>1, <2>2 DEF Run
<1>2. QED
  BY <1>1 DEF Excuse, TagTypeOK

\* The user's requests keep the types.
LEMMA RequestTypes ==
  ASSUME TagTypeOK, TagRequest
  PROVE  TagTypeOK'
<1> USE TagAssumption
<1>1. ASSUME Edit PROVE edits' \in 0..MaxEdits
  BY <1>1 DEF Edit, TagTypeOK
<1>2. ASSUME NEW n \in TagNames, CreateTag(n) \/ \E t \in TagIds : RenameTag(t, n) PROVE TagTypeOK'
  BY <1>1, <1>2 DEF CreateTag, RenameTag, TagTypeOK
<1>3. ASSUME NEW t \in TagIds, DeleteTag(t) PROVE TagTypeOK'
  BY <1>1, <1>3, ExcuseEffect DEF DeleteTag, TagTypeOK
<1>4. ASSUME NEW t \in TagIds, NEW f \in FileIds, AddTag(f, t) \/ RemoveTag(f, t) PROVE TagTypeOK'
  BY <1>1, <1>4, ExcuseEffect DEF AddTag, RemoveTag, TagTypeOK, Mark
<1>5. ASSUME NEW shape \in Shapes, NEW on \in BOOLEAN, NEW t \in TagIds, CreateRule(t, shape, on) PROVE TagTypeOK'
  <2>1. [tag |-> t, shape |-> shape, enabled |-> on] \in Rule
    BY DEF Rule
  <2>2. QED
    BY <1>1, <1>5, <2>1 DEF CreateRule, TagTypeOK
<1>6. ASSUME NEW shape \in Shapes, NEW on \in BOOLEAN, NEW r \in RuleIds, UpdateRule(r, shape, on) PROVE TagTypeOK'
  <2>1. rules[r] \in Rule
    BY <1>6 DEF UpdateRule, TagTypeOK
  <2>2. [rules[r] EXCEPT !.shape = shape, !.enabled = on] \in Rule
    BY <2>1 DEF Rule
  <2>3. rules' = [rules EXCEPT ![r] = [rules[r] EXCEPT !.shape = shape, !.enabled = on]]
    BY <1>6 DEF UpdateRule, TagTypeOK
  <2>4. QED
    BY <1>1, <1>6, <2>2, <2>3, ExcuseEffect DEF UpdateRule, TagTypeOK
<1>7. ASSUME NEW r \in RuleIds, DeleteRule(r) PROVE TagTypeOK'
  BY <1>1, <1>7, ExcuseEffect DEF DeleteRule, TagTypeOK
<1>8. ASSUME NEW f \in FileIds, DropFile(f) PROVE TagTypeOK'
  BY <1>1, <1>8, ExcuseEffect DEF DropFile, TagTypeOK
<1>9. QED
  BY <1>2, <1>3, <1>4, <1>5, <1>6, <1>7, <1>8 DEF TagRequest

\* A run of which others know nothing, but for marks they may excuse, still has
\* what it owes as long as its rules, its files and its marks are there.
LEMMA DebtsKept ==
  ASSUME TagTypeOK, NEW k \in RuleJobs, RunInv(k), NEW lost,
         run'[k] # None => /\ run[k] # None /\ run'[k].owed \subseteq run[k].owed \ lost
                           /\ run'[k].at = run[k].at /\ run'[k].held = run[k].held /\ run'[k].skipped = run[k].skipped
                           /\ run'[k].todo = run[k].todo /\ run'[k].pending = run[k].pending,
         \A o \in Debt \ lost : /\ rules[o.rule] # None => rules'[o.rule] = rules[o.rule]
                                /\ o.file \in inventory => o.file \in inventory'
                                /\ <<o.file, o.tag>> \in marks => <<o.file, o.tag>> \in marks'
  PROVE  RunInv(k)'
<1> SUFFICES ASSUME run'[k] # None, run'[k].at # "failed"
             PROVE  /\ \A o \in run'[k].owed : DebtInv(k, o)'
                    /\ run'[k].at = "done" => run'[k].todo = {} /\ run'[k].pending = {}
  BY DEF RunInv
<1>1. run[k] \in Run /\ run[k].at # "failed"
  BY JobType
<1>2. ASSUME NEW o \in run'[k].owed PROVE DebtInv(k, o)'
  <2>1. o \in run[k].owed /\ o \in Debt \ lost /\ DebtInv(k, o)
    BY <1>1, <1>2 DEF Run, RunInv
  <2>2. rules'[o.rule] = rules[o.rule] /\ o.file \in inventory'
    BY <2>1 DEF DebtInv
  <2>3. o.file \in run'[k].todo \cup run'[k].skipped \/ <<o.file, o.tag>> \in marks' \cup run'[k].pending
    BY <2>1 DEF DebtInv
  <2>4. QED
    BY <2>1, <2>2, <2>3 DEF DebtInv
<1>3. QED
  BY <1>1, <1>2 DEF RunInv

\* What the user takes back is excused.
LEMMA RequestKeeps ==
  ASSUME TagInv, TagRequest
  PROVE  TagInv'
<1>1. TagTypeOK /\ TagTypeOK' /\ \A k \in RuleJobs : RunInv(k)
  BY RequestTypes DEF TagInv
<1>2. ASSUME NEW lost, Excuse(lost) \/ (UNCHANGED run /\ lost = {}),
             \A o \in Debt \ lost : /\ rules[o.rule] # None => rules'[o.rule] = rules[o.rule]
                                    /\ o.file \in inventory => o.file \in inventory'
                                    /\ <<o.file, o.tag>> \in marks => <<o.file, o.tag>> \in marks'
      PROVE  TagInv'
  <2>1. ASSUME NEW k \in RuleJobs, run'[k] # None
        PROVE  /\ run[k] # None /\ run'[k].owed \subseteq run[k].owed \ lost
               /\ run'[k].at = run[k].at /\ run'[k].held = run[k].held /\ run'[k].skipped = run[k].skipped
               /\ run'[k].todo = run[k].todo /\ run'[k].pending = run[k].pending
    <3>1. CASE UNCHANGED run /\ lost = {}
      BY <2>1, <3>1
    <3>2. CASE Excuse(lost)
      <4>1. run[k] # None /\ run'[k] = [run[k] EXCEPT !.owed = @ \ lost]
        BY <1>1, <2>1, <3>2, ExcuseEffect
      <4>2. run[k] \in Run
        BY <1>1, <4>1, JobType
      <4>3. QED
        BY <4>1, <4>2 DEF Run
    <3>3. QED
      BY <1>2, <3>1, <3>2
  <2>2. ASSUME NEW k \in RuleJobs PROVE RunInv(k)'
    BY <1>1, <1>2, <2>1, DebtsKept
  <2>3. QED
    BY <1>1, <2>2 DEF TagInv
<1>3. ASSUME NEW n \in TagNames, CreateTag(n) \/ \E t \in TagIds : RenameTag(t, n) PROVE TagInv'
  BY <1>2, <1>3 DEF CreateTag, RenameTag
<1>4. ASSUME NEW t \in TagIds, DeleteTag(t) PROVE TagInv'
  <2> DEFINE lost == {o \in Debt : o.tag = t}
  <2>1. \A o \in Debt \ lost : <<o.file, o.tag>> \in marks => <<o.file, o.tag>> \in marks'
    BY <1>4 DEF DeleteTag
  <2>2. QED
    BY <1>2, <1>4, <2>1 DEF DeleteTag
<1>5. ASSUME NEW t \in TagIds, NEW f \in FileIds, AddTag(f, t) PROVE TagInv'
  BY <1>2, <1>5 DEF AddTag
<1>6. ASSUME NEW t \in TagIds, NEW f \in FileIds, RemoveTag(f, t) PROVE TagInv'
  <2> DEFINE lost == {o \in Debt : o.file = f /\ o.tag = t}
  <2>1. \A o \in Debt \ lost : <<o.file, o.tag>> \in marks => <<o.file, o.tag>> \in marks'
    BY <1>6 DEF RemoveTag
  <2>2. QED
    BY <1>2, <1>6, <2>1 DEF RemoveTag
<1>7. ASSUME NEW shape \in Shapes, NEW on \in BOOLEAN, NEW t \in TagIds, CreateRule(t, shape, on) PROVE TagInv'
  <2>1. PICK id \in RuleIds : /\ NextId(rules, id)
                              /\ rules' = [rules EXCEPT ![id] = [tag |-> t, shape |-> shape, enabled |-> on]]
    BY <1>7 DEF CreateRule
  <2>2. rules[id] = None
    BY <1>1, <2>1 DEF NextId, TagTypeOK, RuleIds
  <2>3. \A o \in Debt \ {} : rules[o.rule] # None => rules'[o.rule] = rules[o.rule]
    BY <1>1, <2>1, <2>2 DEF TagTypeOK, Debt
  <2>4. QED
    BY <1>2, <1>7, <2>3 DEF CreateRule
<1>8. ASSUME NEW r \in RuleIds, rules' = [rules EXCEPT ![r] = rules'[r]], Excuse({o \in Debt : o.rule = r}),
             UNCHANGED <<inventory, marks>>
      PROVE  TagInv'
  <2> DEFINE lost == {o \in Debt : o.rule = r}
  <2>1. \A o \in Debt \ lost : rules[o.rule] # None => rules'[o.rule] = rules[o.rule]
    BY <1>1, <1>8 DEF TagTypeOK, Debt
  <2>2. QED
    BY <1>2, <1>8, <2>1
<1>9. ASSUME NEW shape \in Shapes, NEW on \in BOOLEAN, NEW r \in RuleIds, UpdateRule(r, shape, on) PROVE TagInv'
  <2>1. rules' = [rules EXCEPT ![r] = rules'[r]]
    BY <1>1, <1>9 DEF UpdateRule, TagTypeOK
  <2>2. QED
    BY <1>8, <1>9, <2>1 DEF UpdateRule
<1>10. ASSUME NEW r \in RuleIds, DeleteRule(r) PROVE TagInv'
  <2>1. rules' = [rules EXCEPT ![r] = rules'[r]]
    BY <1>1, <1>10 DEF DeleteRule, TagTypeOK
  <2>2. QED
    BY <1>8, <1>10, <2>1 DEF DeleteRule
<1>11. ASSUME NEW f \in FileIds, DropFile(f) PROVE TagInv'
  <2> DEFINE lost == {o \in Debt : o.file = f}
  <2>1. \A o \in Debt \ lost : o.file \in inventory => o.file \in inventory'
    BY <1>11 DEF DropFile
  <2>2. QED
    BY <1>2, <1>11, <2>1 DEF DropFile
<1>12. QED
  BY <1>3, <1>4, <1>5, <1>6, <1>7, <1>9, <1>10, <1>11 DEF TagRequest

\* A step of a job that leaves the others, the rules and the files alone.
LEMMA RunAlone ==
  ASSUME TagInv, NEW j \in RuleJobs, NEW r \in Run \cup {None}, run' = [run EXCEPT ![j] = r],
         UNCHANGED <<tags, rules>>, edits' \in 0..MaxEdits,
         inventory \subseteq inventory', inventory' \subseteq born', born' \subseteq FileIds,
         marks \subseteq marks', marks' \subseteq Mark
  PROVE  RunInv(j)' => TagInv'
<1>1. TagTypeOK'
  BY DEF TagInv, TagTypeOK
<1>2. ASSUME NEW k \in RuleJobs, k # j PROVE RunInv(k)'
  <2>1. run'[k] = run[k] /\ RunInv(k) /\ TagTypeOK
    BY <1>2 DEF TagInv, TagTypeOK
  <2>2. \A o \in Debt \ {} : /\ rules[o.rule] # None => rules'[o.rule] = rules[o.rule]
                             /\ o.file \in inventory => o.file \in inventory'
                             /\ <<o.file, o.tag>> \in marks => <<o.file, o.tag>> \in marks'
    OBVIOUS
  <2>3. QED
    BY <2>1, <2>2, DebtsKept
<1>3. QED
  BY <1>1, <1>2 DEF TagInv

\* A run begins with every mark it owes still to set.
LEMMA StartEffect ==
  ASSUME TagTypeOK, NEW j \in RuleJobs, NEW kind \in {"apply", "scan"}, NEW files \in SUBSET FileIds,
         Start(j, kind, files), files \subseteq inventory', UNCHANGED rules
  PROVE  /\ \E r \in Run : run' = [run EXCEPT ![j] = r]
         /\ RunInv(j)'
<1> DEFINE owed == {o \in Owed(files, Enabled) : Evaluate(rules[o.rule].shape, o.file)}
           held == [r \in Enabled |-> rules[r]]
           new  == [kind |-> kind, at |-> "rules", held |-> held,
                    expired |-> (kind = "scan"), first |-> (kind = "apply"),
                    todo |-> files, count |-> 0, pending |-> {}, clash |-> FALSE, skipped |-> {}, owed |-> owed]
<1>1. Enabled \subseteq RuleIds /\ \A r \in Enabled : rules[r] \in Rule /\ rules[r].enabled
  BY DEF Enabled, TagTypeOK
<1>2. \A r \in Enabled : rules[r].tag \in TagIds /\ rules[r] # None
  BY <1>1, AbsentAssumption DEF Rule
<1>3. \A o \in owed : /\ o \in Debt /\ o.file \in files /\ o.rule \in Enabled /\ o.tag = rules[o.rule].tag
                      /\ Evaluate(rules[o.rule].shape, o.file)
  BY <1>1, <1>2 DEF Owed, Debt
<1>4. held \in RuleTables
  <2>1. held \in [Enabled -> Rule \cup {None}]
    BY <1>1
  <2>2. QED
    BY <1>1, <2>1, IsTable
<1>5. new \in Run
  <2>1. (kind = "scan") \in BOOLEAN /\ (kind = "apply") \in BOOLEAN
    BY Zenon
  <2>2. PICK b \in BOOLEAN, c \in BOOLEAN : b = (kind = "scan") /\ c = (kind = "apply")
    BY <2>1, Zenon
  <2>3. owed \subseteq Debt
    BY <1>3
  <2>4. new = [kind |-> kind, at |-> "rules", held |-> held, expired |-> b, first |-> c,
               todo |-> files, count |-> 0, pending |-> {}, clash |-> FALSE, skipped |-> {}, owed |-> owed]
    BY <2>2, Zenon
  <2> HIDE DEF owed, held
  <2>5. QED
    BY <1>4, <2>3, <2>4 DEF Run
<1>6. run' = [run EXCEPT ![j] = new]
  BY DEF Start
<1>7. RunInv(j)'
  <2>1. run'[j] = new
    BY <1>6 DEF TagTypeOK
  <2>2. new.owed = owed /\ new.held = held /\ new.todo = files /\ new.at = "rules"
    OBVIOUS
  <2> HIDE DEF new
  <2>3. ASSUME NEW o \in owed PROVE DebtInv(j, o)'
    <3>1. o.rule \in DOMAIN held /\ held[o.rule] = rules[o.rule]
      BY <1>3, <2>3
    <3> HIDE DEF owed, held
    <3>2. QED
      BY <1>1, <1>2, <1>3, <2>1, <2>2, <2>3, <3>1 DEF DebtInv
  <2> HIDE DEF owed, held
  <2>4. QED
    BY <2>1, <2>2, <2>3 DEF RunInv
<1> HIDE DEF new
<1>8. QED
  BY <1>5, <1>6, <1>7

\* What the job sees of the rules it owes marks for is what they are.
LEMMA SeenType ==
  ASSUME TagInv, NEW j \in RuleJobs, run[j] # None
  PROVE  /\ Seen(j) \in RuleTables
         /\ run[j].at # "failed" => \A o \in run[j].owed :
              o.rule \in DOMAIN Seen(j) /\ Seen(j)[o.rule] = rules[o.rule]
<1>1. run[j] \in Run
  BY JobType DEF TagInv
<1>2. run[j].held \in RuleTables
  BY <1>1 DEF Run
<1>3. DOMAIN run[j].held \subseteq RuleIds
  BY <1>2, TableType
<1>4. [r \in DOMAIN run[j].held |-> rules[r]] \in RuleTables
  <2>1. [r \in DOMAIN run[j].held |-> rules[r]] \in [DOMAIN run[j].held -> Rule \cup {None}]
    BY <1>3 DEF TagInv, TagTypeOK
  <2>2. QED
    BY <1>3, <2>1, IsTable
<1>5. run[j].at # "failed" => \A o \in run[j].owed :
        o.rule \in DOMAIN run[j].held /\ run[j].held[o.rule] = rules[o.rule]
  BY DEF TagInv, RunInv, DebtInv
<1>6. QED
  BY <1>2, <1>4, <1>5 DEF Seen

\* What the rules put on the file stays pending, or the file is one that is skipped.
LEMMA ApplyEffect ==
  ASSUME TagInv, NEW j \in RuleJobs, NEW f \in FileIds, ApplyToFile(j, f)
  PROVE  \E r \in Run :
           /\ run' = [run EXCEPT ![j] = r]
           /\ \/ r.at = "failed"
              \/ /\ r.at \in {"rules", "commit"} /\ r.held = Seen(j) /\ r.todo = run[j].todo \ {f}
                 /\ run[j].pending \subseteq r.pending
                 /\ r.owed = run[j].owed /\ run[j].skipped \subseteq r.skipped
                 /\ \A o \in r.owed : o.file = f => f \in r.skipped \/ <<f, o.tag>> \in marks \cup r.pending
<1> DEFINE held == Seen(j)
           lost == {r \in DOMAIN held : held[r] = None}
           news == {r \in IF Readable(j, f) THEN Matching(f, held) ELSE {} : <<f, held[r].tag>> \notin marks}
           put(rs) == {<<f, held[r].tag>> : r \in rs}
           Adding(rs) == [run[j] EXCEPT !.held = held, !.expired = FALSE, !.todo = @ \ {f}, !.count = @ + 1,
                            !.pending = @ \cup put(rs),
                            !.clash = @ \/ \E r, s \in rs : r # s /\ held[r].tag = held[s].tag]
<1>1. run[j] \in Run /\ run[j].at = "rules"
  BY JobType DEF TagInv, ApplyToFile
<1>2. held \in RuleTables
  BY <1>1, SeenType, AbsentAssumption
<1>3. \A r \in news : r \in DOMAIN held /\ held[r] \in Rule
  BY <1>2, TableType DEF Matching
<1>4. ASSUME NEW rs \in SUBSET news
      PROVE  /\ Adding(rs) \in Run /\ Adding(rs).at = "rules" /\ Adding(rs).held = held
             /\ Adding(rs).todo = run[j].todo \ {f} /\ Adding(rs).pending = run[j].pending \cup put(rs)
             /\ Adding(rs).owed = run[j].owed /\ Adding(rs).skipped = run[j].skipped
  <2> DEFINE clash == run[j].clash \/ \E r, s \in rs : r # s /\ held[r].tag = held[s].tag
             p == run[j].pending \cup put(rs)
  <2>1. clash \in BOOLEAN
    BY Zenon
  <2>2. p \in SUBSET Mark
    BY <1>1, <1>3 DEF Run, Rule, Mark
  <2>3. Adding(rs) = [run[j] EXCEPT !.held = held, !.expired = FALSE, !.todo = run[j].todo \ {f},
                        !.count = run[j].count + 1, !.pending = p, !.clash = clash]
    BY <1>1 DEF Run
  <2>4. PICK b \in BOOLEAN : b = clash
    BY <2>1, Zenon
  <2>5. Adding(rs) = [run[j] EXCEPT !.held = held, !.expired = FALSE, !.todo = run[j].todo \ {f},
                        !.count = run[j].count + 1, !.pending = p, !.clash = b]
    BY <2>3, <2>4, Zenon
  <2> HIDE DEF Adding, clash, held, p
  <2>6. run[j].count + 1 \in Nat /\ run[j].todo \ {f} \in SUBSET FileIds
    BY <1>1 DEF Run
  <2>7. Adding(rs) \in Run
    BY <1>1, <1>2, <2>2, <2>5, <2>6 DEF Run
  <2>8. /\ Adding(rs).at = "rules" /\ Adding(rs).held = held /\ Adding(rs).owed = run[j].owed
        /\ Adding(rs).skipped = run[j].skipped
        /\ Adding(rs).todo = run[j].todo \ {f} /\ Adding(rs).pending = p
    BY <1>1, <2>5 DEF Run
  <2>9. QED
    BY <2>7, <2>8 DEF p
<1>5. /\ f \in run[j].todo
      /\ IF lost = {} \/ (run[j].kind = "scan" /\ ~Readable(j, f))
         THEN run' = [run EXCEPT ![j] = [Adding(news) EXCEPT !.at =
                        IF run[j].kind = "scan" THEN (IF news = {} THEN "rules" ELSE "commit")
                        ELSE IF (run[j].count + 1) % Batch = 0 THEN "commit" ELSE "rules"]]
         ELSE IF run[j].kind = "scan"
         THEN \E rs \in SUBSET news :
                 run' = [run EXCEPT ![j] = [Adding(rs) EXCEPT !.skipped = @ \cup {f}]]
         ELSE run' = [run EXCEPT ![j].at = "failed"]
  BY Zenon DEF ApplyToFile
<1>6. ASSUME NEW o \in run[j].owed, o.file = f PROVE <<f, o.tag>> \in marks \cup put(news)
  <2>1. DebtInv(j, o) /\ o.rule \in DOMAIN held /\ held[o.rule] = rules[o.rule]
    BY <1>1, <1>6, SeenType, AbsentAssumption DEF TagInv, RunInv
  <2>2. Readable(j, f) /\ o.rule \in Matching(f, held)
    BY <1>6, <2>1 DEF Readable, Matching, DebtInv
  <2>3. held[o.rule].tag = o.tag
    BY <2>1 DEF DebtInv
  <2>4. QED
    BY <2>2, <2>3
<1> HIDE DEF Adding, put, held, news, lost
<1>7. CASE lost = {} \/ (run[j].kind = "scan" /\ ~Readable(j, f))
  <2>1. PICK a \in {"rules", "commit"} : run' = [run EXCEPT ![j] = [Adding(news) EXCEPT !.at = a]]
    BY <1>5, <1>7
  <2>2. [Adding(news) EXCEPT !.at = a] \in Run
    BY <1>4 DEF Run
  <2>3. WITNESS [Adding(news) EXCEPT !.at = a] \in Run
  <2>4. QED
    BY <1>4, <1>6, <2>1, <2>2 DEF Run, held
<1>8. CASE ~(lost = {} \/ (run[j].kind = "scan" /\ ~Readable(j, f))) /\ run[j].kind = "scan"
  <2>1. PICK rs \in SUBSET news :
          run' = [run EXCEPT ![j] = [Adding(rs) EXCEPT !.skipped = @ \cup {f}]]
    BY <1>5, <1>8
  <2> DEFINE more == run[j].skipped \cup {f}
  <2>2. Adding(rs) \in Run /\ Adding(rs).skipped = run[j].skipped /\ more \subseteq FileIds
    BY <1>1, <1>4 DEF Run
  <2>3. run' = [run EXCEPT ![j] = [Adding(rs) EXCEPT !.skipped = more]]
    BY <2>1, <2>2
  <2>4. run[j].skipped \subseteq more /\ f \in more
    OBVIOUS
  <2> HIDE DEF more
  <2>5. [Adding(rs) EXCEPT !.skipped = more] \in Run
    BY <2>2 DEF Run
  <2>6. WITNESS [Adding(rs) EXCEPT !.skipped = more] \in Run
  <2>7. QED
    BY <1>4, <2>2, <2>3, <2>4 DEF Run, held
<1>9. CASE ~(lost = {} \/ (run[j].kind = "scan" /\ ~Readable(j, f))) /\ run[j].kind # "scan"
  <2>1. run' = [run EXCEPT ![j] = [run[j] EXCEPT !.at = "failed"]]
    BY <1>5, <1>9 DEF TagInv, TagTypeOK
  <2>2. [run[j] EXCEPT !.at = "failed"] \in Run /\ [run[j] EXCEPT !.at = "failed"].at = "failed"
    BY <1>1 DEF Run
  <2>3. QED
    BY <2>1, <2>2
<1>10. QED
  BY <1>7, <1>8, <1>9

\* The rules are applied: the file is no longer to be read, its marks are there.
LEMMA ApplyKeeps ==
  ASSUME TagInv, NEW j \in RuleJobs, NEW f \in FileIds, ApplyToFile(j, f)
  PROVE  TagInv'
<1>1. run[j] # None /\ run[j].at = "rules" /\ UNCHANGED <<tags, rules, inventory, born, marks, edits>>
  BY DEF ApplyToFile
<1>2. PICK r \in Run :
        /\ run' = [run EXCEPT ![j] = r]
        /\ \/ r.at = "failed"
           \/ /\ r.at \in {"rules", "commit"} /\ r.held = Seen(j) /\ r.todo = run[j].todo \ {f}
              /\ run[j].pending \subseteq r.pending
              /\ r.owed = run[j].owed /\ run[j].skipped \subseteq r.skipped
              /\ \A o \in r.owed : o.file = f => f \in r.skipped \/ <<f, o.tag>> \in marks \cup r.pending
  BY ApplyEffect
<1>3. run'[j] = r
  BY <1>2 DEF TagInv, TagTypeOK
<1>4. RunInv(j)'
  <2>1. ASSUME r.at # "failed", NEW o \in r.owed PROVE DebtInv(j, o)'
    <3>1. o \in run[j].owed /\ DebtInv(j, o)
      BY <1>1, <1>2, <2>1 DEF TagInv, RunInv
    <3>2. o.rule \in DOMAIN r.held /\ r.held[o.rule] = rules[o.rule]
      BY <1>1, <1>2, <2>1, <3>1, SeenType
    <3>3. o.file \in r.todo \cup r.skipped \/ <<o.file, o.tag>> \in marks \cup r.pending
      BY <1>2, <2>1, <3>1 DEF DebtInv
    <3>4. QED
      BY <1>1, <1>3, <3>1, <3>2, <3>3 DEF DebtInv
  <2>2. QED
    BY <1>2, <1>3, <2>1 DEF RunInv
<1>5. QED
  BY <1>1, <1>2, <1>4, RunAlone DEF TagInv, TagTypeOK

\* A commit sets the marks that are pending, or the run fails.
LEMMA CommitKeeps ==
  ASSUME TagInv, NEW j \in RuleJobs, CommitMarks(j)
  PROVE  TagInv'
<1>1. run[j] \in Run /\ run[j].at = "commit" /\ run[j] # None /\ run[j].pending \subseteq Mark
  BY JobType DEF TagInv, CommitMarks, Run
<1>2. UNCHANGED <<tags, rules, inventory, born, edits>>
  BY DEF CommitMarks
<1>3. CASE run' = [run EXCEPT ![j].at = "failed"] /\ UNCHANGED marks
  <2>1. run' = [run EXCEPT ![j] = [run[j] EXCEPT !.at = "failed"]]
    BY <1>3 DEF TagInv, TagTypeOK
  <2>2. [run[j] EXCEPT !.at = "failed"] \in Run /\ [run[j] EXCEPT !.at = "failed"].at = "failed"
    BY <1>1 DEF Run
  <2>3. run'[j].at = "failed"
    BY <2>1, <2>2 DEF TagInv, TagTypeOK
  <2>4. RunInv(j)'
    BY <2>3 DEF RunInv
  <2>5. QED
    BY <1>2, <1>3, <2>1, <2>2, <2>4, RunAlone DEF TagInv, TagTypeOK
<1>4. CASE /\ marks' = marks \cup run[j].pending
           /\ run' = [run EXCEPT ![j].pending = {}, ![j].expired = TRUE, ![j].first = FALSE,
                                 ![j].at = IF run[j].todo = {} THEN "done" ELSE "rules"]
  <2>1. PICK a \in {"done", "rules"} : a = IF run[j].todo = {} THEN "done" ELSE "rules"
    OBVIOUS
  <2> DEFINE r == [run[j] EXCEPT !.pending = {}, !.expired = TRUE, !.first = FALSE, !.at = a]
  <2>2. run' = [run EXCEPT ![j] = r]
    BY <1>4, <2>1 DEF TagInv, TagTypeOK
  <2>3. r \in Run
    BY <1>1 DEF Run
  <2>4. /\ r.pending = {} /\ r.at = a /\ r.todo = run[j].todo /\ r.held = run[j].held
        /\ r.owed = run[j].owed /\ r.skipped = run[j].skipped
    BY <1>1 DEF Run
  <2> HIDE DEF r
  <2>5. run'[j] = r
    BY <2>2 DEF TagInv, TagTypeOK
  <2>6. ASSUME NEW o \in r.owed PROVE DebtInv(j, o)'
    <3>1. DebtInv(j, o)
      BY <1>1, <2>4, <2>6 DEF TagInv, RunInv
    <3>2. QED
      BY <1>2, <1>4, <2>4, <2>5, <3>1 DEF DebtInv
  <2>7. RunInv(j)'
    BY <2>1, <2>4, <2>5, <2>6 DEF RunInv
  <2>8. QED
    BY <1>1, <1>2, <1>4, <2>2, <2>3, <2>7, RunAlone DEF TagInv, TagTypeOK
<1>5. QED
  BY <1>3, <1>4 DEF CommitMarks

\* Every step keeps what the runs owe.
LEMMA TagStep == TagInv /\ [TagNext]_tagVars => TagInv'
<1> SUFFICES ASSUME TagInv, [TagNext]_tagVars PROVE TagInv'
  OBVIOUS
<1>1. TagTypeOK
  BY DEF TagInv
<1>2. ASSUME Edit PROVE edits' \in 0..MaxEdits
  BY <1>1, <1>2, TagAssumption DEF Edit, TagTypeOK
<1>3. ASSUME NEW j \in RuleJobs, StartApply(j) PROVE TagInv'
  <2>1. /\ Start(j, "apply", inventory) /\ inventory \in SUBSET FileIds /\ edits' \in 0..MaxEdits
        /\ UNCHANGED <<tags, rules, inventory, born, marks>>
    BY <1>1, <1>2, <1>3 DEF StartApply, TagTypeOK
  <2>2. (\E r \in Run : run' = [run EXCEPT ![j] = r]) /\ RunInv(j)'
    BY <1>1, <2>1, StartEffect
  <2>3. QED
    BY <1>1, <2>1, <2>2, RunAlone DEF TagTypeOK
<1>4. ASSUME NEW j \in RuleJobs, NEW files \in SUBSET FileIds, StartScan(j, files) PROVE TagInv'
  <2>1. /\ Start(j, "scan", files) /\ files \subseteq inventory' /\ edits' \in 0..MaxEdits
        /\ UNCHANGED <<tags, rules, marks>>
        /\ inventory \subseteq inventory' /\ inventory' \subseteq born' /\ born' \subseteq FileIds
    BY <1>1, <1>2, <1>4 DEF StartScan, TagTypeOK
  <2>2. (\E r \in Run : run' = [run EXCEPT ![j] = r]) /\ RunInv(j)'
    BY <1>1, <2>1, StartEffect
  <2>3. QED
    BY <1>1, <2>1, <2>2, RunAlone DEF TagTypeOK
<1>5. ASSUME NEW j \in RuleJobs, LastCommit(j) PROVE TagInv'
  <2>1. run[j] \in Run /\ run[j].at = "rules" /\ UNCHANGED <<tags, rules, inventory, born, marks, edits>>
    BY <1>1, <1>5, JobType DEF LastCommit
  <2> DEFINE r == [run[j] EXCEPT !.at = "commit"]
  <2>2. run' = [run EXCEPT ![j] = r]
    BY <1>1, <1>5 DEF LastCommit, TagTypeOK
  <2>3. r \in Run /\ r.at = "commit" /\ r.todo = run[j].todo /\ r.held = run[j].held
        /\ r.owed = run[j].owed /\ r.pending = run[j].pending /\ r.skipped = run[j].skipped
    BY <2>1 DEF Run
  <2> HIDE DEF r
  <2>4. run'[j] = r
    BY <1>1, <2>2 DEF TagTypeOK
  <2>5. run[j] # None /\ \A o \in run[j].owed : DebtInv(j, o)
    BY <1>5, <2>1 DEF TagInv, RunInv, LastCommit
  <2>6. ASSUME NEW o \in r.owed PROVE DebtInv(j, o)'
    BY <2>1, <2>3, <2>4, <2>5, <2>6 DEF DebtInv
  <2>7. RunInv(j)'
    BY <2>3, <2>4, <2>6 DEF RunInv
  <2>8. QED
    BY <1>1, <2>1, <2>2, <2>3, <2>7, RunAlone DEF TagTypeOK
<1>6. ASSUME NEW j \in RuleJobs, EndRun(j) PROVE TagInv'
  <2>1. run' = [run EXCEPT ![j] = None] /\ UNCHANGED <<tags, rules, inventory, born, marks, edits>>
    BY <1>6 DEF EndRun
  <2>2. RunInv(j)'
    BY <1>1, <2>1 DEF RunInv, TagTypeOK
  <2>3. QED
    BY <1>1, <2>1, <2>2, RunAlone DEF TagTypeOK
<1>7. CASE UNCHANGED tagVars
  BY <1>7 DEF tagVars, TagInv, TagTypeOK, RunInv, DebtInv
<1>8. QED
  BY <1>3, <1>4, <1>5, <1>6, <1>7, RequestKeeps, ApplyKeeps, CommitKeeps DEF TagNext

\* The invariant, for every value of the constants.
LEMMA TagInvariant == TagSpec => []TagInv
<1>1. TagInit => TagInv
  BY TagAssumption DEF TagInit, TagInv, TagTypeOK, RunInv
<1>2. QED
  BY <1>1, TagStep, PTL DEF TagSpec

\* Tags, rules, marks and the runs keep their types.
THEOREM TagTypes == TagSpec => []TagTypeOK
<1>1. TagInv => TagTypeOK
  BY DEF TagInv
<1>2. QED
  BY <1>1, TagInvariant, PTL

\* A run that reports success has tagged every file its rules matched, but for the
\* files that a scan has skipped because a rule was deleted.
THEOREM RulesAreApplied == TagSpec => []AppliedToAll
<1>1. TagInv => AppliedToAll
  BY DEF TagInv, AppliedToAll, RunInv, DebtInv
<1>2. QED
  BY <1>1, TagInvariant, PTL

-----------------------------------------------------------------------------
(* The parts together.                                                     *)

\* A part runs by its own steps, or stands still.
LEMMA PartSteps ==
  ASSUME [ServicesNext]_servicesVars
  PROVE  /\ [TrustNext]_trustVars /\ [SignedNext]_signedVars /\ [ColdNext]_coldVars
         /\ [TagNext]_tagVars /\ [AccessNext]_accessVars /\ [LimitNext]_limitVars
         /\ [DecisionNext]_decisionVars
<1>1. CASE ServicesNext
  BY <1>1 DEF ServicesNext
<1>2. CASE UNCHANGED servicesVars
  BY <1>2 DEF servicesVars
<1>3. QED
  BY <1>1, <1>2

\* An execution of the services is one of each part, so that each theorem about a part
\* holds of the composition that the run checks.
THEOREM PartsAreImplemented ==
  ServicesSpec => /\ TrustSpec /\ SignedSpec /\ ColdSpec /\ TagSpec /\ AccessSpec /\ LimitSpec
                  /\ DecisionSpec
<1>1. ServicesInit => /\ TrustInit /\ SignedInit /\ ColdInit /\ TagInit /\ AccessInit /\ LimitInit
                      /\ DecisionInit
  BY DEF ServicesInit
<1>2. QED
  BY <1>1, PartSteps, PTL DEF ServicesSpec, TrustSpec, SignedSpec, ColdSpec, TagSpec, AccessSpec, LimitSpec,
     DecisionSpec

\* Every part keeps its types.
THEOREM ServicesTypes == ServicesSpec => []ServicesTypeOK
<1>1. /\ TrustTypeOK /\ SignedTypeOK /\ ColdTypeOK /\ TagTypeOK
      /\ AccessTypeOK /\ LimitTypeOK /\ DecisionTypeOK
      => ServicesTypeOK
  BY DEF ServicesTypeOK
<1>2. QED
  BY <1>1, PartsAreImplemented, TrustTypeCorrect, SignedTypes, ColdTypes, TagTypes, AccessTypeCorrect,
     LimiterTypes, DecisionTypesKept, PTL
=================================================================================
