------------------------------ MODULE RemoteTrust ------------------------------
(***************************************************************************)
(* Two instances that connect, trust and ask each other: the row of        *)
(* remote_connections each keeps for the other, the user's requests        *)
(* (app/routers/api/remote.py), the handshake, the change of the transfer  *)
(* mode and the termination (app/services/remote_connection_service.py),   *)
(* the connection code (app/utils/remote_auth.py) and the check of a       *)
(* signed call (app/utils/remote_signature.py).                            *)
(*                                                                         *)
(* A handler has no await between its reads and its commit and is one      *)
(* step.  A call of the other instance is a message: it may be lost, its   *)
(* answer may be lost, and it may be handled after its sender has given    *)
(* up.  Both instances have their URL configured.                          *)
(***************************************************************************)
EXTENDS Naturals, FiniteSets, Absent

CONSTANTS
    Instances,  \* two of them
    CallIds,    \* bounds the calls in flight
    MaxActs,    \* bounds what the two users do
    MaxCode     \* bounds the hourly rotations of a code

ASSUME TrustAssumption ==
    /\ IsFiniteSet(Instances) /\ Cardinality(Instances) = 2
    /\ MaxActs \in Nat /\ MaxCode \in Nat /\ None \notin 0..MaxCode

VARIABLES
    conn,       \* the row an instance has for the other, or None
    code,       \* remote_auth's current code, by its generation
    calls,      \* calls in flight, and those whose answer the sender waits for
    acts,
    decision,   \* ghost: what the user of an instance has last decided
    known       \* ghost: no word of an instance's mode was lost, refused,
                \* unsent, overtaken or ignored since neither had a row

trustVars == <<conn, code, calls, acts, decision, known>>

Modes == {"push_only", "bidirectional"}
Row == [trust: {"pending", "trusted", "rejected"}, mode: Modes, remoteMode: Modes]
Call == [kind: {"request", "sync", "serve", "terminate"}, from: Instances,
         mode: Modes,                    \* the sender's; once answered, the receiver's
         code: 0..MaxCode \cup {None},   \* the code the user typed, if any
         seen: Modes,                    \* the remote_transfer_mode the sender has read
         stage: {"sent", "answered", "refused"},
         waiting: BOOLEAN]               \* does the sender still wait?

ASSUME TrustNone == None \notin Row \cup Call \cup Modes

TrustTypeOK ==
    /\ conn \in [Instances -> Row \cup {None}]
    /\ code \in [Instances -> 0..MaxCode]
    /\ calls \in [CallIds -> Call \cup {None}]
    /\ acts \in 0..MaxActs
    /\ decision \in [Instances -> {"none", "trusted", "rejected"}]
    /\ known \in [Instances -> BOOLEAN]

TrustInit ==
    /\ conn = [i \in Instances |-> None]
    /\ code = [i \in Instances |-> 0]
    /\ calls = [c \in CallIds |-> None]
    /\ acts = 0
    /\ decision = [i \in Instances |-> "none"]
    /\ known = [i \in Instances |-> TRUE]

Peer(i)      == CHOOSE j \in Instances : j # i
HasRow(i)    == conn[i] # None
Trusted(i)   == HasRow(i) /\ conn[i].trust = "trusted"
EffectiveBidirectional(row) == row.mode = "bidirectional" /\ row.remoteMode = "bidirectional"
InFlight     == {c \in CallIds : calls[c] # None}

\* The calls that tell the other instance the mode of i.
Tells(c, i) ==
    \/ calls[c].from = i /\ calls[c].kind \in {"request", "sync"} /\ calls[c].stage = "sent"
    \/ calls[c].from # i /\ calls[c].kind = "request" /\ calls[c].stage = "answered"
\* One of them is overtaken: it tells a mode that i has changed since, or of a
\* row that i has deleted.
Outdated(i) == \E c \in InFlight : Tells(c, i) /\ (HasRow(i) => calls[c].mode # conn[i].mode)

\* failed: the instances whose mode the other will not hear of.
Know(failed) ==
    known' = [i \in Instances |->
                 \/ conn'[i] = None /\ conn'[Peer(i)] = None
                 \/ known[i] /\ i \notin failed /\ ~Outdated(i)']

Send(c, kind, i, row, k) ==
    /\ calls[c] = None
    /\ calls' = [calls EXCEPT ![c] =
                    [kind |-> kind, from |-> i, mode |-> row.mode, code |-> k,
                     seen |-> row.remoteMode, stage |-> "sent", waiting |-> TRUE]]

UserActs == acts < MaxActs /\ acts' = acts + 1
Decide(i, d) == decision' = [decision EXCEPT ![i] = d]

-----------------------------------------------------------------------------
(* The user's requests.                                                    *)

\* POST /connect and POST /connections: the row is committed as TRUSTED, then
\* the other instance is asked, with the code the user was given, if any.
InitiateConnection(i, m, k, c) ==
    LET row == [trust |-> "trusted", mode |-> m,
                remoteMode |-> IF HasRow(i) THEN conn[i].remoteMode ELSE "push_only"]
    IN  /\ UserActs
        /\ k # None => k <= code[Peer(i)]
        /\ conn' = [conn EXCEPT ![i] = row]
        /\ Send(c, "request", i, row, k)
        /\ Decide(i, "trusted") /\ Know({})
        /\ UNCHANGED code

\* Trust and reject warn of a row that is not PENDING, and go on.
TrustConnection(i) ==
    /\ UserActs /\ HasRow(i)
    /\ conn' = [conn EXCEPT ![i].trust = "trusted"]
    /\ Decide(i, "trusted")
    /\ UNCHANGED <<code, calls, known>>

RejectConnection(i) ==
    /\ UserActs /\ HasRow(i)
    /\ conn' = [conn EXCEPT ![i].trust = "rejected"]
    /\ Decide(i, "rejected")
    /\ UNCHANGED <<code, calls, known>>

\* PATCH /connections/{id}: the other instance is told only of a TRUSTED row's mode.
UpdateMode(i, m, c) ==
    /\ UserActs /\ HasRow(i)
    /\ conn' = [conn EXCEPT ![i].mode = m]
    /\ IF Trusted(i)
       THEN Send(c, "sync", i, conn'[i], None) /\ Know({})
       ELSE UNCHANGED calls /\ Know({i})
    /\ UNCHANGED <<code, decision>>

\* DELETE /connections/{id} tells the other instance of a TRUSTED row's end
\* first; the row goes when that call has ended, whichever way.
Forget(i) == conn' = [conn EXCEPT ![i] = None] /\ Decide(i, "none")

DeleteConnection(i, c) ==
    /\ UserActs /\ HasRow(i)
    /\ IF Trusted(i)
       THEN Send(c, "terminate", i, conn[i], None) /\ UNCHANGED <<conn, decision, known>>
       ELSE Forget(i) /\ UNCHANGED calls /\ Know({})
    /\ UNCHANGED code

\* POST /pull looks at the modes and not at the trust.
PullFile(i, c) ==
    /\ UserActs /\ HasRow(i) /\ EffectiveBidirectional(conn[i])
    /\ Send(c, "serve", i, conn[i], None)
    /\ UNCHANGED <<conn, code, decision, known>>

RotateCode(i) ==
    /\ code[i] < MaxCode
    /\ code' = [code EXCEPT ![i] = @ + 1]
    /\ UNCHANGED <<conn, calls, acts, decision, known>>

-----------------------------------------------------------------------------
(* The other instance's handlers.                                          *)

Answer(c, stage, m) ==
    calls' = [calls EXCEPT ![c] =
                 IF @.waiting THEN [@ EXCEPT !.stage = stage, !.mode = m] ELSE None]

\* Bugs: a new row is trusted at once; the sender's mode is not taken into a row that exists.
RequestedRowTrusting(old, m) ==
    IF old = None
    THEN [trust |-> "trusted", mode |-> "push_only", remoteMode |-> m]
    ELSE [old EXCEPT !.remoteMode = m]
RequestedRowForgetful(old, m) ==
    IF old = None
    THEN [trust |-> "pending", mode |-> "push_only", remoteMode |-> m]
    ELSE [old EXCEPT !.trust = IF @ = "rejected" THEN "pending" ELSE @]

\* The code is checked only if there is one.  A new row is PENDING, and a
\* rejected one is PENDING again; any other keeps its trust.
RequestedRow(old, m) ==
    IF old = None
    THEN [trust |-> "pending", mode |-> "push_only", remoteMode |-> m]
    ELSE [old EXCEPT !.remoteMode = m,
                     !.trust = IF @ = "rejected" THEN "pending" ELSE @]

HandleConnectionRequest(c) ==
    LET j == Peer(calls[c].from)
    IN  /\ calls[c] # None /\ calls[c].kind = "request" /\ calls[c].stage = "sent"
        /\ IF calls[c].code \notin {None, code[j]}
           THEN Answer(c, "refused", calls[c].mode) /\ UNCHANGED conn /\ Know(Instances)
           ELSE /\ conn' = [conn EXCEPT ![j] = RequestedRow(@, calls[c].mode)]
                /\ Answer(c, "answered", conn'[j].mode)
                /\ Know(IF calls[c].waiting THEN {} ELSE {j})
        /\ UNCHANGED <<code, acts, decision>>

\* verify_signature_from_components: the sender must be known and TRUSTED, and
\* the body be the one that was signed.  A termination is signed over no body
\* and sent with an empty object.
SignedBody(kind) == IF kind = "terminate" THEN "empty" ELSE "payload"
SentBody(kind)   == IF kind = "terminate" THEN "object" ELSE "payload"
Verified(j, kind) == Trusted(j) /\ SignedBody(kind) = SentBody(kind)

SignedCall(c, kind) == calls[c] # None /\ calls[c].kind = kind /\ calls[c].stage = "sent"

SyncTransferMode(c) ==
    LET j == Peer(calls[c].from)
    IN  /\ SignedCall(c, "sync")
        /\ IF Verified(j, "sync")
           THEN /\ conn' = [conn EXCEPT ![j].remoteMode = calls[c].mode]
                /\ Answer(c, "answered", calls[c].mode) /\ Know({})
           ELSE /\ Answer(c, "refused", calls[c].mode) /\ UNCHANGED conn
                /\ Know({calls[c].from})
        /\ UNCHANGED <<code, acts, decision>>

\* A call that is accepted leaves a PULL job.  Trust and modes are asked for here
\* only: the job's run (RemoteTransfer), a retry of it and the minute job after a
\* restart send the file later, whatever has become of the row by then.
MayServe(j) == Verified(j, "serve") /\ EffectiveBidirectional(conn[j])

ServeTransfer(c) ==
    LET j == Peer(calls[c].from)
    IN  /\ SignedCall(c, "serve")
        /\ Answer(c, IF MayServe(j) THEN "answered" ELSE "refused", calls[c].mode)
        /\ UNCHANGED <<conn, code, acts, decision, known>>

TerminateConnection(c) ==
    LET j == Peer(calls[c].from)
    IN  /\ SignedCall(c, "terminate")
        /\ IF Verified(j, "terminate")
           THEN /\ conn' = [conn EXCEPT ![j].trust = "rejected"]
                /\ Answer(c, "answered", calls[c].mode)
           ELSE Answer(c, "refused", calls[c].mode) /\ UNCHANGED conn
        /\ UNCHANGED <<code, acts, decision, known>>

-----------------------------------------------------------------------------
(* The sender goes on.                                                     *)

\* The mode in the answer is written if it is not the one that was read before
\* the call, to a row that is still there.
AnsweredRow(row, call) ==
    IF row = None \/ call.mode = call.seen THEN row ELSE [row EXCEPT !.remoteMode = call.mode]

\* It is news to the row, and not to the session, which writes nothing.
Skipped(row, call) == row # None /\ call.mode = call.seen /\ call.mode # row.remoteMode

\* A refused request is not taken back: its answer is 400, and the rollback is
\* for 401 and 403.
ConcludeCall(c) ==
    LET call == calls[c]
        i == call.from
    IN  /\ call # None /\ call.waiting /\ call.stage # "sent"
        /\ calls' = [calls EXCEPT ![c] = None]
        /\ \/ call.kind = "terminate" /\ Forget(i) /\ Know({})
           \/ /\ call.kind = "request" /\ call.stage = "answered"
              /\ conn' = [conn EXCEPT ![i] = AnsweredRow(@, call)] /\ UNCHANGED decision
              /\ Know(IF Skipped(conn[i], call) THEN {Peer(i)} ELSE {})
           \/ /\ call.kind = "request" => call.stage = "refused"
              /\ call.kind # "terminate" /\ UNCHANGED <<conn, decision>> /\ Know({})
        /\ UNCHANGED <<code, acts>>

\* The call or its answer is lost, or the sender has waited long enough and the
\* call is handled later.  It keeps the row it has for the other instance.
LoseCall(c) ==
    LET call == calls[c]
        i == call.from
        unheard == CASE call.kind = "request" /\ call.stage = "sent" -> Instances
                     [] call.kind = "request" /\ call.stage = "answered" -> {Peer(i)}
                     [] call.kind = "sync" /\ call.stage = "sent" -> {i}
                     [] OTHER -> {}
    IN  /\ call # None /\ call.waiting
        /\ \/ calls' = [calls EXCEPT ![c] = None]
           \/ call.stage = "sent" /\ calls' = [calls EXCEPT ![c].waiting = FALSE]
        /\ IF call.kind = "terminate" THEN Forget(i) ELSE UNCHANGED <<conn, decision>>
        /\ Know(unheard)
        /\ UNCHANGED <<code, acts>>

TrustNext ==
    \/ \E i \in Instances :
          \/ TrustConnection(i) \/ RejectConnection(i) \/ RotateCode(i)
          \/ \E c \in CallIds :
                \/ DeleteConnection(i, c) \/ PullFile(i, c)
                \/ \E m \in Modes : \/ UpdateMode(i, m, c)
                                    \/ \E k \in 0..MaxCode \cup {None} : InitiateConnection(i, m, k, c)
    \/ \E c \in CallIds :
          \/ HandleConnectionRequest(c) \/ SyncTransferMode(c)
          \/ ServeTransfer(c) \/ TerminateConnection(c)
          \/ ConcludeCall(c) \/ LoseCall(c)

TrustSpec == TrustInit /\ [][TrustNext]_trustVars

-----------------------------------------------------------------------------
(* Properties.                                                             *)

\* An instance trusts the other only while that is its own user's last decision,
\* whatever the other sends (remote_connection_service.py:255-278).
TrustFollowsUser == \A i \in Instances : Trusted(i) => decision[i] = "trusted"

\* Once nothing about it is under way, an instance's mode is what the other has
\* for it, unless the other could not hear of it: handshakes that cross, modes
\* changed meanwhile, rows deleted and made anew
\* (remote_connection_service.py:164-169, 255-278; remote.py:488-504, 1142-1143).
Telling == \E c \in InFlight : calls[c].kind \in {"request", "sync"}
ModesAgree ==
    \A i \in Instances :
        known[i] /\ ~Telling /\ HasRow(i) /\ HasRow(Peer(i))
            => conn[Peer(i)].remoteMode = conn[i].mode
=============================================================================
