--------------------------- MODULE RemoteTrustProofs ---------------------------
(***************************************************************************)
(* Theorems about RemoteTrust: an instance trusts the other only by its    *)
(* own user's last decision, and once nothing about it is in flight, each  *)
(* has heard of the other's mode: for any number of calls in flight, lost  *)
(* or late, of user actions and of rotations of the codes.                 *)
(***************************************************************************)
EXTENDS RemoteTrust, FiniteSetTheorems, TLAPS

\* There is another instance.
LEMMA PeerType == ASSUME NEW i \in Instances PROVE Peer(i) \in Instances /\ Peer(i) # i
<1>1. \E j \in Instances : j # i
  <2>1. SUFFICES ASSUME \A j \in Instances : j = i PROVE FALSE
    OBVIOUS
  <2>2. Instances = {i}
    BY <2>1
  <2>3. QED
    BY <2>2, FS_Singleton, TrustAssumption
<1>2. QED
  BY <1>1 DEF Peer

\* None is neither a row nor a call.
LEMMA NoneApart == None \notin Row /\ None \notin Call
BY TrustNone

\* The row that a request makes is a row, and trusts no more than the old one.
LEMMA RequestedRowType ==
  ASSUME NEW old \in Row \cup {None}, NEW m \in Modes
  PROVE  /\ RequestedRow(old, m) \in Row /\ RequestedRow(old, m).remoteMode = m
         /\ RequestedRow(old, m).trust = "trusted" => old # None /\ old.trust = "trusted"
BY NoneApart DEF RequestedRow, Row, Modes

\* So is the one that the answer makes.
LEMMA AnsweredRowType ==
  ASSUME NEW row \in Row \cup {None}, NEW call \in Call
  PROVE  /\ AnsweredRow(row, call) \in Row \cup {None}
         /\ AnsweredRow(row, call) # None =>
              row # None /\ AnsweredRow(row, call).trust = row.trust
BY NoneApart DEF AnsweredRow, Row, Call, Modes

\* What the sending and the answering of a call leave behind is a call.
LEMMA SendType ==
  ASSUME TrustTypeOK, NEW c \in CallIds, NEW i \in Instances, NEW row \in Row,
         NEW kind \in {"request", "sync", "serve", "terminate"},
         NEW k \in 0..MaxCode \cup {None}, Send(c, kind, i, row, k)
  PROVE  calls' \in [CallIds -> Call \cup {None}]
BY DEF Send, TrustTypeOK, Call, Row

LEMMA AnswerType ==
  ASSUME TrustTypeOK, NEW c \in CallIds, calls[c] # None, NEW m \in Modes,
         NEW stage \in {"answered", "refused"}, Answer(c, stage, m)
  PROVE  calls' \in [CallIds -> Call \cup {None}]
<1>1. calls[c] \in Call
  BY DEF TrustTypeOK
<1>2. [calls[c] EXCEPT !.stage = stage, !.mode = m] \in Call
  BY <1>1 DEF Call
<1>3. QED
  BY <1>2 DEF Answer, TrustTypeOK

\* The ghost of what is known is a boolean whatever happens.
LEMMA KnowType ==
  ASSUME NEW failed, Know(failed) PROVE known' \in [Instances -> BOOLEAN]
<1>1. \A i \in Instances :
        (\/ conn'[i] = None /\ conn'[Peer(i)] = None
         \/ known[i] /\ i \notin failed /\ ~Outdated(i)') \in BOOLEAN
  BY Zenon
<1>2. QED
  BY <1>1, Zenon DEF Know

TInv == TrustTypeOK /\ TrustFollowsUser

\* Nobody is trusted at first.
LEMMA TrustInitial == TrustInit => TInv
BY TrustAssumption DEF TrustInit, TInv, TrustTypeOK, TrustFollowsUser, Trusted, HasRow

\* The steps of the users keep the invariant.
LEMMA UserStep ==
  ASSUME TInv, NEW i \in Instances,
         \/ TrustConnection(i) \/ RejectConnection(i) \/ RotateCode(i)
         \/ \E c \in CallIds :
               \/ DeleteConnection(i, c) \/ PullFile(i, c)
               \/ \E m \in Modes : \/ UpdateMode(i, m, c)
                                   \/ \E k \in 0..MaxCode \cup {None} : InitiateConnection(i, m, k, c)
  PROVE  TInv'
<1> USE TrustAssumption, NoneApart
<1>1. CASE TrustConnection(i)
  <2>1. [conn[i] EXCEPT !.trust = "trusted"] \in Row
    BY <1>1 DEF TrustConnection, TInv, TrustTypeOK, HasRow, Row
  <2>2. QED
    BY <1>1, <2>1 DEF TrustConnection, TInv, TrustTypeOK, TrustFollowsUser, Trusted, HasRow,
                      UserActs, Decide
<1>2. CASE RejectConnection(i)
  <2>1. [conn[i] EXCEPT !.trust = "rejected"] \in Row
    BY <1>2 DEF RejectConnection, TInv, TrustTypeOK, HasRow, Row
  <2>2. [conn[i] EXCEPT !.trust = "rejected"].trust = "rejected"
    BY <1>2 DEF RejectConnection, TInv, TrustTypeOK, HasRow, Row
  <2>3. QED
    BY <1>2, <2>1, <2>2 DEF RejectConnection, TInv, TrustTypeOK, TrustFollowsUser, Trusted,
                            HasRow, UserActs, Decide
<1>3. CASE RotateCode(i)
  BY <1>3 DEF RotateCode, TInv, TrustTypeOK, TrustFollowsUser, Trusted, HasRow
<1>4. ASSUME NEW c \in CallIds, DeleteConnection(i, c) PROVE TInv'
  <2>1. CASE Trusted(i)
    <3>1. conn[i] \in Row /\ conn' = conn /\ decision' = decision
      BY <1>4, <2>1 DEF DeleteConnection, TInv, TrustTypeOK, HasRow
    <3>2. calls' \in [CallIds -> Call \cup {None}]
      BY <1>4, <2>1, <3>1, SendType DEF DeleteConnection, TInv
    <3>3. QED
      BY <1>4, <2>1, <3>1, <3>2 DEF DeleteConnection, TInv, TrustTypeOK, TrustFollowsUser,
                                    Trusted, HasRow, UserActs
  <2>2. CASE ~Trusted(i)
    <3>1. known' \in [Instances -> BOOLEAN]
      BY <1>4, <2>2, KnowType DEF DeleteConnection
    <3>2. QED
      BY <1>4, <2>2, <3>1 DEF DeleteConnection, Forget, Decide, TInv, TrustTypeOK,
                              TrustFollowsUser, Trusted, HasRow, UserActs
  <2>3. QED
    BY <2>1, <2>2
<1>5. ASSUME NEW c \in CallIds, PullFile(i, c) PROVE TInv'
  <2>1. conn[i] \in Row
    BY <1>5 DEF PullFile, TInv, TrustTypeOK, HasRow
  <2>2. calls' \in [CallIds -> Call \cup {None}]
    BY <1>5, <2>1, SendType DEF PullFile, TInv
  <2>3. QED
    BY <1>5, <2>2 DEF PullFile, TInv, TrustTypeOK, TrustFollowsUser, Trusted, HasRow, UserActs
<1>6. ASSUME NEW c \in CallIds, NEW m \in Modes, UpdateMode(i, m, c) PROVE TInv'
  <2>1. conn[i] \in Row
    BY <1>6 DEF UpdateMode, TInv, TrustTypeOK, HasRow
  <2>2. [conn[i] EXCEPT !.mode = m] \in Row /\ [conn[i] EXCEPT !.mode = m].trust = conn[i].trust
    BY <2>1 DEF Row
  <2>3. conn' \in [Instances -> Row \cup {None}] /\ conn'[i] = [conn[i] EXCEPT !.mode = m]
    BY <1>6, <2>2 DEF UpdateMode, TInv, TrustTypeOK
  <2>4. known' \in [Instances -> BOOLEAN]
    BY <1>6, KnowType DEF UpdateMode
  <2>5. calls' \in [CallIds -> Call \cup {None}]
    <3>1. CASE Trusted(i)
      BY <1>6, <2>2, <2>3, <3>1, SendType DEF UpdateMode, TInv
    <3>2. CASE ~Trusted(i)
      BY <1>6, <3>2 DEF UpdateMode, TInv, TrustTypeOK
    <3>3. QED
      BY <3>1, <3>2
  <2>6. QED
    BY <1>6, <2>2, <2>3, <2>4, <2>5 DEF UpdateMode, TInv, TrustTypeOK, TrustFollowsUser,
                                        Trusted, HasRow, UserActs
<1>7. ASSUME NEW c \in CallIds, NEW m \in Modes, NEW k \in 0..MaxCode \cup {None},
             InitiateConnection(i, m, k, c)
      PROVE  TInv'
  <2> DEFINE row == [trust |-> "trusted", mode |-> m,
                     remoteMode |-> IF HasRow(i) THEN conn[i].remoteMode ELSE "push_only"]
  <2>1. row \in Row
    BY DEF TInv, TrustTypeOK, HasRow, Row, Modes
  <2>2. conn' = [conn EXCEPT ![i] = row] /\ Send(c, "request", i, row, k)
    BY <1>7 DEF InitiateConnection
  <2>3. calls' \in [CallIds -> Call \cup {None}]
    BY <2>1, <2>2, SendType DEF TInv
  <2>4. known' \in [Instances -> BOOLEAN]
    BY <1>7, KnowType DEF InitiateConnection
  <2>5. row.trust = "trusted" /\ row # None
    BY <2>1
  <2> HIDE DEF row
  <2>6. conn' \in [Instances -> Row \cup {None}]
    BY <2>1, <2>2 DEF TInv, TrustTypeOK
  <2>7. decision' = [decision EXCEPT ![i] = "trusted"] /\ acts' \in 0..MaxActs /\ code' = code
    BY <1>7 DEF InitiateConnection, Decide, UserActs, TInv, TrustTypeOK
  <2>8. TrustTypeOK'
    BY <2>3, <2>4, <2>6, <2>7 DEF TInv, TrustTypeOK
  <2>9. TrustFollowsUser'
    BY <2>2, <2>7 DEF TInv, TrustTypeOK, TrustFollowsUser, Trusted, HasRow
  <2>10. QED
    BY <2>8, <2>9 DEF TInv
<1>8. QED
  BY <1>1, <1>2, <1>3, <1>4, <1>5, <1>6, <1>7

\* The steps of the handlers and of the senders keep the invariant.
LEMMA CallStep ==
  ASSUME TInv, NEW c \in CallIds,
         \/ HandleConnectionRequest(c) \/ SyncTransferMode(c)
         \/ ServeTransfer(c) \/ TerminateConnection(c)
         \/ ConcludeCall(c) \/ LoseCall(c)
  PROVE  TInv'
<1> DEFINE call == calls[c]
           i == call.from
           j == Peer(i)
<1>1. call # None
  BY DEF HandleConnectionRequest, SyncTransferMode, ServeTransfer, TerminateConnection,
         ConcludeCall, LoseCall, SignedCall
<1>2. call \in Call /\ i \in Instances /\ call.mode \in Modes
  BY <1>1 DEF TInv, TrustTypeOK, Call
<1>3. j \in Instances /\ j # i
  BY <1>2, PeerType
<1> HIDE DEF j
<1>4. CASE HandleConnectionRequest(c)
  <2>1. CASE call.code \notin {None, code[j]}
    <3>1. calls' \in [CallIds -> Call \cup {None}]
      BY <1>1, <1>2, <1>4, <2>1, AnswerType DEF HandleConnectionRequest, TInv, j
    <3>2. known' \in [Instances -> BOOLEAN]
      BY <1>4, <2>1, KnowType DEF HandleConnectionRequest, j
    <3>3. QED
      BY <1>4, <2>1, <3>1, <3>2 DEF HandleConnectionRequest, TInv, TrustTypeOK,
                                    TrustFollowsUser, Trusted, HasRow, j
  <2>2. CASE call.code \in {None, code[j]}
    <3> DEFINE new == RequestedRow(conn[j], call.mode)
    <3>1. conn' = [conn EXCEPT ![j] = new]
      BY <1>4, <2>2 DEF HandleConnectionRequest, j
    <3>2. /\ new \in Row
          /\ new.trust = "trusted" => conn[j] # None /\ conn[j].trust = "trusted"
      BY <1>2, <1>3, RequestedRowType DEF TInv, TrustTypeOK
    <3> HIDE DEF new
    <3>3. conn' \in [Instances -> Row \cup {None}] /\ conn'[j].mode \in Modes
      BY <1>3, <3>1, <3>2 DEF TInv, TrustTypeOK, Row
    <3>4. calls' \in [CallIds -> Call \cup {None}]
      BY <1>1, <1>4, <2>2, <3>3, AnswerType DEF HandleConnectionRequest, TInv, j
    <3>5. known' \in [Instances -> BOOLEAN]
      BY <1>4, <2>2, KnowType DEF HandleConnectionRequest, j
    <3>6. acts' = acts /\ code' = code /\ decision' = decision
      BY <1>4 DEF HandleConnectionRequest
    <3>7. TrustFollowsUser'
      BY <1>3, <3>1, <3>2, <3>6 DEF TInv, TrustTypeOK, TrustFollowsUser, Trusted, HasRow
    <3>8. QED
      BY <3>3, <3>4, <3>5, <3>6, <3>7 DEF TInv, TrustTypeOK
  <2>3. QED
    BY <2>1, <2>2
<1>5. CASE SyncTransferMode(c)
  <2>1. calls' \in [CallIds -> Call \cup {None}]
    BY <1>1, <1>2, <1>5, AnswerType DEF SyncTransferMode, TInv
  <2>2. known' \in [Instances -> BOOLEAN]
    BY <1>5, KnowType DEF SyncTransferMode
  <2>3. CASE Verified(j, "sync")
    <3>1. conn[j] \in Row
      BY <1>3, <2>3 DEF Verified, Trusted, HasRow, TInv, TrustTypeOK
    <3>2. [conn[j] EXCEPT !.remoteMode = call.mode] \in Row
      BY <1>2, <3>1 DEF Row
    <3>3. QED
      BY <1>3, <1>5, <2>1, <2>2, <2>3, <3>1, <3>2
         DEF SyncTransferMode, TInv, TrustTypeOK, TrustFollowsUser, Trusted, HasRow, Row, Verified, j
  <2>4. CASE ~Verified(j, "sync")
    BY <1>5, <2>1, <2>2, <2>4
       DEF SyncTransferMode, TInv, TrustTypeOK, TrustFollowsUser, Trusted, HasRow, j
  <2>5. QED
    BY <2>3, <2>4
<1>6. CASE ServeTransfer(c)
  <2>1. calls' \in [CallIds -> Call \cup {None}]
    BY <1>1, <1>2, <1>6, AnswerType DEF ServeTransfer, TInv
  <2>2. QED
    BY <1>6, <2>1 DEF ServeTransfer, TInv, TrustTypeOK, TrustFollowsUser, Trusted, HasRow
<1>7. CASE TerminateConnection(c)
  <2>1. calls' \in [CallIds -> Call \cup {None}]
    BY <1>1, <1>2, <1>7, AnswerType DEF TerminateConnection, TInv
  <2>2. conn' = conn
    BY <1>7 DEF TerminateConnection, Verified, SignedBody, SentBody
  <2>3. QED
    BY <1>7, <2>1, <2>2 DEF TerminateConnection, TInv, TrustTypeOK, TrustFollowsUser, Trusted,
                            HasRow
<1>8. CASE ConcludeCall(c)
  <2>1. calls' \in [CallIds -> Call \cup {None}]
    BY <1>8 DEF ConcludeCall, TInv, TrustTypeOK
  <2>2. known' \in [Instances -> BOOLEAN]
    BY <1>8, KnowType DEF ConcludeCall
  <2>3. CASE Forget(i)
    BY <1>2, <1>8, <2>1, <2>2, <2>3
       DEF ConcludeCall, Forget, Decide, TInv, TrustTypeOK, TrustFollowsUser, Trusted, HasRow
  <2>4. CASE conn' = [conn EXCEPT ![i] = AnsweredRow(@, call)] /\ decision' = decision
    <3>1. /\ AnsweredRow(conn[i], call) \in Row \cup {None}
          /\ AnsweredRow(conn[i], call) # None =>
               conn[i] # None /\ AnsweredRow(conn[i], call).trust = conn[i].trust
      BY <1>2, AnsweredRowType DEF TInv, TrustTypeOK
    <3>2. QED
      BY <1>2, <1>8, <2>1, <2>2, <2>4, <3>1
         DEF ConcludeCall, TInv, TrustTypeOK, TrustFollowsUser, Trusted, HasRow
  <2>5. CASE UNCHANGED <<conn, decision>>
    BY <1>8, <2>1, <2>2, <2>5
       DEF ConcludeCall, TInv, TrustTypeOK, TrustFollowsUser, Trusted, HasRow
  <2>6. QED
    BY <1>8, <2>3, <2>4, <2>5 DEF ConcludeCall
<1>9. CASE LoseCall(c)
  <2>1. [call EXCEPT !.waiting = FALSE] \in Call
    BY <1>2 DEF Call
  <2>2. calls' \in [CallIds -> Call \cup {None}]
    BY <1>9, <2>1 DEF LoseCall, TInv, TrustTypeOK
  <2>3. known' \in [Instances -> BOOLEAN]
    BY <1>9, KnowType DEF LoseCall
  <2>4. CASE Forget(i)
    BY <1>2, <1>9, <2>2, <2>3, <2>4
       DEF LoseCall, Forget, Decide, TInv, TrustTypeOK, TrustFollowsUser, Trusted, HasRow
  <2>5. CASE UNCHANGED <<conn, decision>>
    BY <1>9, <2>2, <2>3, <2>5
       DEF LoseCall, TInv, TrustTypeOK, TrustFollowsUser, Trusted, HasRow
  <2>6. QED
    BY <1>9, <2>4, <2>5 DEF LoseCall
<1>10. QED
  BY <1>4, <1>5, <1>6, <1>7, <1>8, <1>9

LEMMA TrustStep == TInv /\ [TrustNext]_trustVars => TInv'
<1>1. TInv /\ UNCHANGED trustVars => TInv'
  BY DEF TInv, TrustTypeOK, TrustFollowsUser, Trusted, HasRow, trustVars
<1>2. QED
  BY <1>1, UserStep, CallStep DEF TrustNext

\* Type correctness, for every value of the constants.
THEOREM TrustTypeCorrect == TrustSpec => []TrustTypeOK
<1>1. TInv => TrustTypeOK
  BY DEF TInv
<1>2. QED
  BY <1>1, TrustInitial, TrustStep, PTL DEF TrustSpec

\* An instance trusts the other only by its own user's last decision.
THEOREM TrustIsTheUsers == TrustSpec => []TrustFollowsUser
<1>1. TInv => TrustFollowsUser
  BY DEF TInv
<1>2. QED
  BY <1>1, TrustInitial, TrustStep, PTL DEF TrustSpec

-----------------------------------------------------------------------------
(* What an instance has for the other's mode.                              *)

\* There is no third instance.
LEMMA OnlyTwo ==
  ASSUME NEW i \in Instances
  PROVE  /\ Peer(i) \in Instances /\ Peer(i) # i /\ Peer(Peer(i)) = i
         /\ \A n \in Instances : n = i \/ n = Peer(i)
<1> DEFINE j == Peer(i)
<1>1. j \in Instances /\ j # i
  BY PeerType
<1> HIDE DEF j
<1>2. ASSUME NEW n \in Instances, n # i, n # j PROVE FALSE
  <2>1. IsFiniteSet({i}) /\ Cardinality({i}) = 1
    BY FS_Singleton
  <2>2. IsFiniteSet({i} \cup {j}) /\ Cardinality({i} \cup {j}) = 2
    BY <1>1, <2>1, FS_AddElement
  <2>3. IsFiniteSet(({i} \cup {j}) \cup {n}) /\ Cardinality(({i} \cup {j}) \cup {n}) = 3
    BY <1>1, <1>2, <2>2, FS_AddElement
  <2>4. ({i} \cup {j}) \cup {n} \subseteq Instances
    BY <1>1
  <2>5. Cardinality(({i} \cup {j}) \cup {n}) <= Cardinality(Instances)
    BY <2>4, FS_Subset, TrustAssumption
  <2>6. QED
    BY <2>3, <2>5, TrustAssumption
<1>3. Peer(j) \in Instances /\ Peer(j) # j
  BY <1>1, PeerType
<1>4. QED
  BY <1>1, <1>2, <1>3 DEF j

\* The calls whose end may bring the mode of i to the other: those that tell it,
\* and a request of the other that is not yet answered.
MayTell(c, i) ==
    \/ Tells(c, i)
    \/ calls[c].from # i /\ calls[c].kind = "request" /\ calls[c].stage = "sent"

Informed(i) ==
    \/ conn[Peer(i)].remoteMode = conn[i].mode
    \/ \E c \in InFlight : MayTell(c, i)

\* What is known of an instance is told by no outdated call, and is in the
\* other's row or on its way there.
InformedInv ==
    \A i \in Instances : known[i] =>
        /\ (conn[i] = None /\ conn[Peer(i)] = None) \/ ~Outdated(i)
        /\ HasRow(i) /\ HasRow(Peer(i)) => Informed(i)

\* What is known after a step was known before it, was heard, and is not overtaken.
LEMMA KnowMeans ==
  ASSUME NEW failed, Know(failed), NEW i \in Instances, known'[i]
  PROVE  \/ conn'[i] = None /\ conn'[Peer(i)] = None
         \/ known[i] /\ i \notin failed /\ ~Outdated(i)'
BY Zenon DEF Know

\* So the step has only to keep or to bring the news.
LEMMA KnowStep ==
  ASSUME NEW failed, Know(failed),
         \A i \in Instances : known[i] /\ i \notin failed /\ ~Outdated(i)' /\ HasRow(i)'
                              /\ HasRow(Peer(i))' => Informed(i)'
  PROVE  InformedInv'
<1>1. SUFFICES ASSUME NEW i \in Instances, known'[i]
               PROVE  /\ (conn'[i] = None /\ conn'[Peer(i)] = None) \/ ~Outdated(i)'
                      /\ HasRow(i)' /\ HasRow(Peer(i))' => Informed(i)'
  BY Zenon DEF InformedInv
<1>2. CASE conn'[i] = None /\ conn'[Peer(i)] = None
  BY <1>2 DEF HasRow
<1>3. CASE known[i] /\ i \notin failed /\ ~Outdated(i)'
  BY <1>3
<1>4. QED
  BY <1>1, <1>2, <1>3, KnowMeans

\* News that is in the row or on its way stays so if the rows' modes do and no
\* call that may tell it is lost.
LEMMA StillInformed ==
  ASSUME NEW i \in Instances, Informed(i),
         conn'[i].mode = conn[i].mode,
         conn'[Peer(i)].remoteMode = conn[Peer(i)].remoteMode,
         \A c \in InFlight : MayTell(c, i) => c \in InFlight' /\ MayTell(c, i)'
  PROVE  Informed(i)'
BY DEF Informed, InFlight

\* A call that is sent joins those in flight.
LEMMA SendKeeps ==
  ASSUME TrustTypeOK, NEW c \in CallIds, NEW i \in Instances, NEW row \in Row,
         NEW kind \in {"request", "sync", "serve", "terminate"},
         NEW k \in 0..MaxCode \cup {None}, Send(c, kind, i, row, k)
  PROVE  /\ \A d \in InFlight : d \in InFlight' /\ calls'[d] = calls[d]
         /\ \A d \in InFlight' : d = c \/ d \in InFlight
         /\ c \in InFlight' /\ calls'[c].kind = kind /\ calls'[c].from = i
         /\ calls'[c].mode = row.mode /\ calls'[c].stage = "sent"
<1>1. calls' \in [CallIds -> Call \cup {None}]
  BY SendType
<1>2. calls'[c] # None
  <2>1. calls'[c] \in [kind : {kind}, from : {i}, mode : {row.mode}, code : {k},
                       seen : {row.remoteMode}, stage : {"sent"}, waiting : {TRUE}]
    BY DEF Send, TrustTypeOK
  <2>2. calls'[c] \in Call
    BY <2>1 DEF Call, Row
  <2>3. QED
    BY <2>2, NoneApart
<1>3. QED
  BY <1>2 DEF Send, InFlight, TrustTypeOK

\* A call that the other instance has answered or refused stays in flight while
\* its sender waits, and goes otherwise; no other call is touched.
LEMMA AnswerKeeps ==
  ASSUME TrustTypeOK, NEW c \in CallIds, calls[c] # None, NEW m \in Modes,
         NEW stage \in {"answered", "refused"}, Answer(c, stage, m)
  PROVE  /\ \A d \in CallIds : d # c => calls'[d] = calls[d]
         /\ calls[c].waiting =>
              /\ c \in InFlight' /\ calls'[c].kind = calls[c].kind /\ calls'[c].from = calls[c].from
              /\ calls'[c].mode = m /\ calls'[c].stage = stage
         /\ ~calls[c].waiting => c \notin InFlight'
<1>1. calls[c] \in Call
  BY DEF TrustTypeOK
<1>2. [calls[c] EXCEPT !.stage = stage, !.mode = m] \in Call
  BY <1>1 DEF Call
<1>3. QED
  BY <1>1, <1>2, NoneApart DEF Answer, TrustTypeOK, InFlight, Call

\* Calls that carry no mode, and changes of trust, leave it as it is.
LEMMA QuietStep ==
  ASSUME InformedInv, known' = known,
         \A i \in Instances :
            /\ conn'[i] = None <=> conn[i] = None
            /\ conn[i] # None => conn'[i].mode = conn[i].mode /\ conn'[i].remoteMode = conn[i].remoteMode,
         \A c \in InFlight : calls[c].kind \in {"request", "sync"} =>
                                c \in InFlight' /\ calls'[c] = calls[c],
         \A c \in InFlight' : calls'[c].kind \in {"request", "sync"} =>
                                c \in InFlight /\ calls'[c] = calls[c]
  PROVE  InformedInv'
<1>1. SUFFICES ASSUME NEW i \in Instances, known[i]
               PROVE  /\ (conn'[i] = None /\ conn'[Peer(i)] = None) \/ ~Outdated(i)'
                      /\ HasRow(i)' /\ HasRow(Peer(i))' => Informed(i)'
  BY Zenon DEF InformedInv
<1>2. Peer(i) \in Instances
  BY PeerType
<1>3. CASE conn[i] = None /\ conn[Peer(i)] = None
  BY <1>2, <1>3 DEF HasRow
<1>4. CASE ~Outdated(i) /\ (HasRow(i) /\ HasRow(Peer(i)) => Informed(i))
  <2>1. ~Outdated(i)'
    BY <1>4 DEF Outdated, Tells, HasRow
  <2>2. HasRow(i)' /\ HasRow(Peer(i))' => Informed(i)'
    BY <1>2, <1>4 DEF Informed, MayTell, Tells, HasRow
  <2>3. QED
    BY <2>1, <2>2
<1>5. QED
  BY <1>1, <1>3, <1>4 DEF InformedInv, HasRow

\* The steps of the users keep each other informed, or know that they do not.
LEMMA UserInforms ==
  ASSUME TInv, InformedInv, NEW i \in Instances,
         \/ TrustConnection(i) \/ RejectConnection(i) \/ RotateCode(i)
         \/ \E c \in CallIds :
               \/ DeleteConnection(i, c) \/ PullFile(i, c)
               \/ \E m \in Modes : \/ UpdateMode(i, m, c)
                                   \/ \E k \in 0..MaxCode \cup {None} : InitiateConnection(i, m, k, c)
  PROVE  InformedInv'
<1> USE NoneApart DEF TInv
<1> DEFINE j == Peer(i)
<1>0. j \in Instances /\ j # i /\ Peer(j) = i /\ \A n \in Instances : n = i \/ n = j
  BY OnlyTwo
<1> HIDE DEF j
<1>1. CASE TrustConnection(i)
  BY <1>1, QuietStep DEF TrustConnection, TrustTypeOK, HasRow, Row, InFlight
<1>2. CASE RejectConnection(i)
  BY <1>2, QuietStep DEF RejectConnection, TrustTypeOK, HasRow, Row, InFlight
<1>3. CASE RotateCode(i)
  BY <1>3, QuietStep DEF RotateCode, InFlight
<1>4. ASSUME NEW c \in CallIds, DeleteConnection(i, c) PROVE InformedInv'
  <2>1. CASE Trusted(i)
    <3>1. conn[i] \in Row /\ Send(c, "terminate", i, conn[i], None)
      BY <1>4, <2>1 DEF DeleteConnection, TrustTypeOK, HasRow
    <3>2. UNCHANGED <<conn, known>>
      BY <1>4, <2>1 DEF DeleteConnection
    <3>3. QED
      BY <3>1, <3>2, SendKeeps, QuietStep
  <2>2. CASE ~Trusted(i)
    <3>1. Know({}) /\ ~HasRow(i)'
      BY <1>4, <2>2 DEF DeleteConnection, Forget, HasRow, TrustTypeOK
    <3>2. QED
      BY <1>0, <3>1, KnowStep DEF j
  <2>3. QED
    BY <2>1, <2>2
<1>5. ASSUME NEW c \in CallIds, PullFile(i, c) PROVE InformedInv'
  <2>1. conn[i] \in Row /\ Send(c, "serve", i, conn[i], None) /\ UNCHANGED <<conn, known>>
    BY <1>5 DEF PullFile, TrustTypeOK, HasRow
  <2>2. QED
    BY <2>1, SendKeeps, QuietStep
<1>6. ASSUME NEW c \in CallIds, NEW m \in Modes, UpdateMode(i, m, c) PROVE InformedInv'
  <2>1. conn[i] \in Row /\ conn' = [conn EXCEPT ![i].mode = m]
    BY <1>6 DEF UpdateMode, TrustTypeOK, HasRow
  <2>2. conn'[i] = [conn[i] EXCEPT !.mode = m] /\ conn'[j] = conn[j]
    BY <1>0, <2>1 DEF TrustTypeOK
  <2>3. conn'[i] \in Row /\ conn'[i].remoteMode = conn[i].remoteMode
    BY <2>1, <2>2 DEF Row
  \* What i knows of j is as it was, if no call that may bring it is touched.
  <2>4. ASSUME known[j], HasRow(j)',
               \A d \in InFlight : d \in InFlight' /\ calls'[d] = calls[d]
        PROVE  Informed(j)'
    <3>1. Informed(j)
      BY <1>0, <2>1, <2>2, <2>4 DEF InformedInv, HasRow
    <3>2. QED
      BY <1>0, <2>2, <2>3, <2>4, <3>1, StillInformed DEF MayTell, Tells
  <2>5. CASE Trusted(i)
    <3>1. Send(c, "sync", i, conn'[i], None) /\ Know({})
      BY <1>6, <2>5 DEF UpdateMode
    <3>2. /\ \A d \in InFlight : d \in InFlight' /\ calls'[d] = calls[d]
          /\ c \in InFlight' /\ Tells(c, i)'
      BY <2>3, <3>1, SendKeeps DEF Tells
    <3>3. Informed(i)'
      BY <3>2 DEF Informed, MayTell
    <3>4. QED
      BY <1>0, <2>4, <3>1, <3>2, <3>3, KnowStep
  <2>6. CASE ~Trusted(i)
    <3>1. UNCHANGED calls /\ Know({i})
      BY <1>6, <2>6 DEF UpdateMode
    <3>2. \A d \in InFlight : d \in InFlight' /\ calls'[d] = calls[d]
      BY <3>1 DEF InFlight
    <3>3. QED
      BY <1>0, <2>4, <3>1, <3>2, KnowStep
  <2>7. QED
    BY <2>5, <2>6
<1>7. ASSUME NEW c \in CallIds, NEW m \in Modes, NEW k \in 0..MaxCode \cup {None},
             InitiateConnection(i, m, k, c)
      PROVE  InformedInv'
  <2> DEFINE row == [trust |-> "trusted", mode |-> m,
                     remoteMode |-> IF HasRow(i) THEN conn[i].remoteMode ELSE "push_only"]
  <2>1. row \in Row
    BY DEF TrustTypeOK, HasRow, Row, Modes
  <2>2. Send(c, "request", i, row, k) /\ Know({})
    BY <1>7 DEF InitiateConnection
  <2> HIDE DEF row
  <2>3. c \in InFlight' /\ MayTell(c, i)' /\ MayTell(c, j)'
    BY <1>0, <2>1, <2>2, SendKeeps DEF MayTell, Tells
  <2>4. Informed(i)' /\ Informed(j)'
    BY <2>3 DEF Informed
  <2>5. QED
    BY <1>0, <2>2, <2>4, KnowStep
<1>8. QED
  BY <1>1, <1>2, <1>3, <1>4, <1>5, <1>6, <1>7

\* So do the steps of the handlers and of the senders.
LEMMA CallInforms ==
  ASSUME TInv, InformedInv, NEW c \in CallIds,
         \/ HandleConnectionRequest(c) \/ SyncTransferMode(c)
         \/ ServeTransfer(c) \/ TerminateConnection(c)
         \/ ConcludeCall(c) \/ LoseCall(c)
  PROVE  InformedInv'
<1> USE NoneApart DEF TInv
<1> DEFINE call == calls[c]
<1>1. call # None /\ c \in InFlight
  BY DEF HandleConnectionRequest, SyncTransferMode, ServeTransfer, TerminateConnection,
         ConcludeCall, LoseCall, SignedCall, InFlight
<1>2. call \in Call /\ call.mode \in Modes
  BY <1>1 DEF TrustTypeOK, Call
<1>i. PICK i \in Instances : i = call.from
  BY <1>2 DEF Call
<1>3. PICK j \in Instances : /\ j = Peer(i) /\ j # i /\ Peer(j) = i
                             /\ \A n \in Instances : n = i \/ n = j
  BY OnlyTwo
\* A call that tells the mode of an instance with a row tells its row's mode.
<1>4. ASSUME NEW n \in Instances, known[n], HasRow(n), Tells(c, n) PROVE call.mode = conn[n].mode
  BY <1>1, <1>4 DEF InformedInv, Outdated, HasRow
\* What may tell of n and is not c stays in flight.
<1>5. ASSUME NEW n \in Instances, known[n], HasRow(n), HasRow(Peer(n)), ~MayTell(c, n),
             \A d \in CallIds : d # c => calls'[d] = calls[d],
             conn'[n].mode = conn[n].mode, conn'[Peer(n)].remoteMode = conn[Peer(n)].remoteMode
      PROVE  Informed(n)'
  <2>1. Informed(n)
    BY <1>5 DEF InformedInv
  <2>2. \A d \in InFlight : MayTell(d, n) => d \in InFlight' /\ MayTell(d, n)'
    BY <1>5 DEF InFlight, MayTell, Tells
  <2>3. QED
    BY <1>5, <2>1, <2>2, StillInformed
<1>6. CASE HandleConnectionRequest(c)
  <2>1. CASE call.code \notin {None, code[j]}
    <3>1. Know(Instances)
      BY <1>i, <1>3, <1>6, <2>1 DEF HandleConnectionRequest
    <3>2. QED
      BY <1>i, <1>3, <3>1, KnowStep
  <2>2. CASE call.code \in {None, code[j]}
    <3> DEFINE new == RequestedRow(conn[j], call.mode)
    <3>1. /\ conn' = [conn EXCEPT ![j] = new] /\ Answer(c, "answered", conn'[j].mode)
          /\ Know(IF call.waiting THEN {} ELSE {j})
          /\ call.kind = "request" /\ call.stage = "sent"
      BY <1>i, <1>3, <1>6, <2>2 DEF HandleConnectionRequest
    <3>2. new \in Row /\ new.remoteMode = call.mode
      BY <1>2, <1>i, <1>3, RequestedRowType DEF TrustTypeOK
    <3> HIDE DEF new
    <3>3. conn'[j] = new /\ conn'[i] = conn[i]
      BY <1>2, <1>i, <1>3, <3>1 DEF TrustTypeOK
    <3>4. ASSUME known[i], HasRow(i)' PROVE Informed(i)'
      BY <1>2, <1>i, <1>3, <1>4, <3>1, <3>2, <3>3, <3>4 DEF Tells, Informed, HasRow
    <3>5. ASSUME call.waiting PROVE Informed(j)'
      <4>1. conn'[j].mode \in Modes
        BY <1>i, <1>3, <3>2, <3>3 DEF Row
      <4>2. c \in InFlight' /\ Tells(c, j)'
        BY <1>1, <1>i, <1>3, <3>1, <3>5, <4>1, AnswerKeeps DEF Tells
      <4>3. QED
        BY <1>i, <1>3, <4>2 DEF Informed, MayTell
    <3>6. QED
      BY <1>i, <1>3, <3>1, <3>4, <3>5, KnowStep
  <2>3. QED
    BY <2>1, <2>2
<1>7. CASE SyncTransferMode(c)
  <2>1. /\ call.kind = "sync" /\ call.stage = "sent"
        /\ \A d \in CallIds : d # c => calls'[d] = calls[d]
    BY <1>1, <1>2, <1>i, <1>3, <1>7, AnswerKeeps DEF SyncTransferMode, SignedCall
  <2>2. ~MayTell(c, j) /\ Tells(c, i)
    BY <1>i, <1>3, <2>1 DEF MayTell, Tells
  <2>3. CASE Verified(j, "sync")
    <3>1. conn' = [conn EXCEPT ![j].remoteMode = call.mode] /\ Know({})
      BY <1>i, <1>3, <1>7, <2>3 DEF SyncTransferMode
    <3>2. conn[j] \in Row
      BY <1>i, <1>3, <2>3 DEF Verified, Trusted, HasRow, TrustTypeOK
    <3>3. /\ conn'[i] = conn[i] /\ conn'[j].remoteMode = call.mode
          /\ conn'[j].mode = conn[j].mode
      BY <1>2, <1>i, <1>3, <3>1, <3>2 DEF TrustTypeOK, Row
    <3>4. ASSUME known[i], HasRow(i)' PROVE Informed(i)'
      BY <1>2, <1>i, <1>3, <1>4, <2>2, <3>3, <3>4 DEF Informed, HasRow
    <3>5. ASSUME known[j], HasRow(i)' PROVE Informed(j)'
      BY <1>i, <1>3, <1>5, <2>1, <2>2, <3>2, <3>3, <3>5 DEF HasRow
    <3>6. QED
      BY <1>i, <1>3, <3>1, <3>4, <3>5, KnowStep
  <2>4. CASE ~Verified(j, "sync")
    <3>1. conn' = conn /\ Know({i})
      BY <1>i, <1>3, <1>7, <2>4 DEF SyncTransferMode
    <3>2. ASSUME known[j], HasRow(i)', HasRow(j)' PROVE Informed(j)'
      BY <1>i, <1>3, <1>5, <2>1, <2>2, <3>1, <3>2 DEF HasRow
    <3>3. QED
      BY <1>i, <1>3, <3>1, <3>2, KnowStep
  <2>5. QED
    BY <2>3, <2>4
<1>8. CASE ServeTransfer(c)
  <2>1. /\ UNCHANGED <<conn, known>> /\ call.kind = "serve"
        /\ \E stage \in {"answered", "refused"} : Answer(c, stage, call.mode)
    BY <1>i, <1>3, <1>8 DEF ServeTransfer, SignedCall
  <2>2. QED
    BY <1>1, <1>2, <1>i, <1>3, <2>1, AnswerKeeps, QuietStep DEF InFlight
<1>9. CASE TerminateConnection(c)
  <2>1. /\ UNCHANGED <<conn, known>> /\ call.kind = "terminate"
        /\ Answer(c, "refused", call.mode)
    BY <1>i, <1>3, <1>9 DEF TerminateConnection, SignedCall, Verified, SignedBody, SentBody
  <2>2. QED
    BY <1>1, <1>2, <1>i, <1>3, <2>1, AnswerKeeps, QuietStep DEF InFlight
<1>10. CASE ConcludeCall(c)
  <2>1. call.stage # "sent" /\ \A d \in CallIds : d # c => calls'[d] = calls[d]
    BY <1>i, <1>3, <1>10 DEF ConcludeCall, TrustTypeOK
  <2>2. CASE Forget(i) /\ Know({})
    <3>1. ~HasRow(i)'
      BY <1>2, <1>i, <1>3, <2>2 DEF Forget, HasRow, TrustTypeOK
    <3>2. QED
      BY <1>i, <1>3, <2>2, <3>1, KnowStep
  <2>3. CASE /\ call.kind = "request" /\ call.stage = "answered"
             /\ conn' = [conn EXCEPT ![i] = AnsweredRow(@, call)]
             /\ Know(IF Skipped(conn[i], call) THEN {j} ELSE {})
    <3> DEFINE new == AnsweredRow(conn[i], call)
    <3>1. conn'[i] = new /\ conn'[j] = conn[j]
      BY <1>2, <1>i, <1>3, <2>3 DEF TrustTypeOK
    <3>2. /\ new = None <=> conn[i] = None
          /\ new # None => /\ new.mode = conn[i].mode
                           /\ ~Skipped(conn[i], call) => new.remoteMode = call.mode
      BY <1>2, <1>i, <1>3 DEF AnsweredRow, Skipped, TrustTypeOK, Row
    <3> HIDE DEF new
    <3>3. Tells(c, j) /\ ~MayTell(c, i)
      BY <1>2, <1>i, <1>3, <2>3 DEF Tells, MayTell
    <3>4. ASSUME known[j], HasRow(j)', HasRow(i)', ~Skipped(conn[i], call) PROVE Informed(j)'
      BY <1>i, <1>3, <1>4, <3>1, <3>2, <3>3, <3>4 DEF Informed, HasRow
    <3>5. ASSUME known[i], HasRow(i)', HasRow(j)' PROVE Informed(i)'
      BY <1>2, <1>i, <1>3, <1>5, <2>1, <3>1, <3>2, <3>3, <3>5 DEF HasRow
    <3>6. QED
      BY <1>i, <1>3, <2>3, <3>4, <3>5, KnowStep
  <2>4. CASE /\ call.kind = "request" => call.stage = "refused"
             /\ UNCHANGED conn /\ Know({})
    <3>1. \A n \in Instances : ~MayTell(c, n)
      BY <1>i, <1>3, <2>1, <2>4 DEF MayTell, Tells
    <3>2. QED
      BY <1>i, <1>3, <1>5, <2>1, <2>4, <3>1, KnowStep DEF HasRow
  <2>5. QED
    BY <1>i, <1>3, <1>10, <2>2, <2>3, <2>4 DEF ConcludeCall
<1>11. CASE LoseCall(c)
  <2>1. \A d \in CallIds : d # c => calls'[d] = calls[d]
    BY <1>i, <1>3, <1>11 DEF LoseCall, TrustTypeOK
  <2>2. PICK unheard : /\ Know(unheard)
                       /\ call.kind = "request" /\ call.stage = "sent" => unheard = Instances
                       /\ call.kind = "request" /\ call.stage = "answered" => unheard = {j}
                       /\ call.kind = "sync" /\ call.stage = "sent" => unheard = {i}
    BY <1>i, <1>3, <1>11 DEF LoseCall
  <2>3. CASE call.kind = "terminate"
    <3>1. ~HasRow(i)'
      BY <1>2, <1>i, <1>3, <1>11, <2>3 DEF LoseCall, Forget, HasRow, TrustTypeOK
    <3>2. QED
      BY <1>i, <1>3, <2>2, <3>1, KnowStep
  <2>4. CASE call.kind # "terminate"
    <3>1. conn' = conn
      BY <1>i, <1>3, <1>11, <2>4 DEF LoseCall
    <3>2. \A n \in Instances : n \notin unheard => ~MayTell(c, n)
      BY <1>2, <1>i, <1>3, <2>2 DEF MayTell, Tells, Call
    <3>3. QED
      BY <1>i, <1>3, <1>5, <2>1, <2>2, <3>1, <3>2, KnowStep DEF HasRow
  <2>5. QED
    BY <2>3, <2>4
<1>12. QED
  BY <1>6, <1>7, <1>8, <1>9, <1>10, <1>11

KInv == TInv /\ InformedInv

LEMMA KnownStep == KInv /\ [TrustNext]_trustVars => KInv'
<1>1. KInv /\ UNCHANGED trustVars => InformedInv'
  BY DEF KInv, InformedInv, Informed, Outdated, Tells, MayTell, HasRow, InFlight, trustVars
<1>2. QED
  BY <1>1, TrustStep, UserInforms, CallInforms DEF TrustNext, KInv

LEMMA KnownInitial == TrustInit => KInv
BY TrustInitial, PeerType DEF TrustInit, KInv, InformedInv, HasRow

\* Once no request and no mode is under way, what may tell a mode is not either.
LEMMA InformedAgrees == KInv => ModesAgree
BY DEF KInv, InformedInv, Informed, ModesAgree, Telling, MayTell, Tells

\* An instance's mode is what the other has for it, once nothing about it is under
\* way, unless the other could not hear of it; any number of users' actions and
\* of calls in flight, lost, late or overtaken.
THEOREM ModesComeToAgree == TrustSpec => []ModesAgree
BY InformedAgrees, KnownInitial, KnownStep, PTL DEF TrustSpec
=============================================================================
