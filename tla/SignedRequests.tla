---------------------------- MODULE SignedRequests -----------------------------
(***************************************************************************)
(* The protection of signed calls against being delivered twice:           *)
(* verify_signature_from_components (app/utils/remote_signature.py) with   *)
(* its table of nonces, and the hourly cleanup of that table               *)
(* (app/services/scheduler.py).  The handlers and the cleanup, a thread of *)
(* its own, share the table and nothing else.                              *)
(*                                                                         *)
(* A handler reads the clock first and the table later; it is assumed to   *)
(* take no longer than Lag, and the receiver's clock not to go back.  The  *)
(* sender's trust and the signature are checked in RemoteTrust.            *)
(***************************************************************************)
EXTENDS Integers, Absent

CONSTANTS
    Requests,   \* signed calls: each has a nonce and a timestamp of its own
    Handlers,   \* calls handled at a time
    Tolerance,  \* signature_timestamp_tolerance
    Buffer,     \* what the cleanup adds to it: a minute
    Lag,
    MaxTime     \* bounds the timestamps and the clock

ASSUME TimeAssumption ==
    /\ Tolerance \in Nat /\ Buffer \in Nat /\ MaxTime \in Nat
    /\ Lag \in 0..Buffer
    /\ None \notin Requests

VARIABLES
    now,        \* the receiver's clock
    stamp,      \* a request's timestamp, by the sender's clock
    nonces,     \* request_nonces: the requests whose nonce is stored
    vpc,        \* a handler's next step
    req, since, \* its request, and the time it has read
    accepted    \* how often a request was accepted

signedVars == <<now, stamp, nonces, vpc, req, since, accepted>>

SignedTypeOK ==
    /\ now \in Nat
    /\ stamp \in [Requests -> 0..MaxTime]
    /\ nonces \subseteq Requests
    /\ vpc \in [Handlers -> {"idle", "lookup", "store"}]
    /\ req \in [Handlers -> Requests \cup {None}]
    /\ since \in [Handlers -> Nat]
    /\ accepted \in [Requests -> Nat]

SignedInit ==
    /\ now = 0
    /\ stamp \in [Requests -> 0..MaxTime]
    /\ nonces = {}
    /\ vpc = [h \in Handlers |-> "idle"]
    /\ req = [h \in Handlers |-> None]
    /\ since = [h \in Handlers |-> 0]
    /\ accepted = [r \in Requests |-> 0]

InTolerance(r) == now - stamp[r] <= Tolerance /\ stamp[r] - now <= Tolerance

\* A copy of the request arrives; one that is too old or too new is refused.
CheckTimestamp(h, r) ==
    /\ vpc[h] = "idle" /\ InTolerance(r)
    /\ vpc' = [vpc EXCEPT ![h] = "lookup"]
    /\ req' = [req EXCEPT ![h] = r]
    /\ since' = [since EXCEPT ![h] = now]
    /\ UNCHANGED <<now, stamp, nonces, accepted>>

LookupNonce(h) ==
    /\ vpc[h] = "lookup"
    /\ vpc' = [vpc EXCEPT ![h] = IF req[h] \in nonces THEN "idle" ELSE "store"]
    /\ UNCHANGED <<now, stamp, nonces, req, since, accepted>>

\* A bug: the index on the nonce is not unique.
StoreNonceAgain(h) ==
    /\ vpc[h] = "store"
    /\ vpc' = [vpc EXCEPT ![h] = "idle"]
    /\ nonces' = nonces \cup {req[h]}
    /\ accepted' = [accepted EXCEPT ![req[h]] = @ + 1]
    /\ UNCHANGED <<now, stamp, req, since>>

\* The nonce is unique: the commit of a second row fails, and with it the call.
StoreNonce(h) ==
    /\ vpc[h] = "store"
    /\ vpc' = [vpc EXCEPT ![h] = "idle"]
    /\ IF req[h] \in nonces
       THEN UNCHANGED <<nonces, accepted>>
       ELSE /\ nonces' = nonces \cup {req[h]}
            /\ accepted' = [accepted EXCEPT ![req[h]] = @ + 1]
    /\ UNCHANGED <<now, stamp, req, since>>

\* cleanup_old_nonces_job_func.
Forgotten(r) == stamp[r] < now - (Tolerance + Buffer)
CleanupNonces ==
    /\ nonces' = {r \in nonces : ~Forgotten(r)}
    /\ UNCHANGED <<now, stamp, vpc, req, since, accepted>>

Tick ==
    /\ now < MaxTime
    /\ \A h \in Handlers : vpc[h] # "idle" => now - since[h] < Lag
    /\ now' = now + 1
    /\ UNCHANGED <<stamp, nonces, vpc, req, since, accepted>>

SignedNext ==
    \/ \E h \in Handlers : LookupNonce(h) \/ StoreNonce(h) \/ \E r \in Requests : CheckTimestamp(h, r)
    \/ CleanupNonces \/ Tick

SignedSpec == SignedInit /\ [][SignedNext]_signedVars
-----------------------------------------------------------------------------
(* Properties.                                                             *)

\* No signed call is accepted twice, however often and whenever it is delivered,
\* and whenever the cleanup runs (remote_signature.py:82-93, 99-110, 144-147;
\* scheduler.py:697-699).
AcceptedOnce == \A r \in Requests : accepted[r] <= 1

\* What it rests on: the nonce of an accepted call is kept until no handler that
\* has found the time right can still look for it.
Kept == \A r \in Requests :
           accepted[r] >= 1 => r \in nonces \/ now > stamp[r] + Tolerance + Buffer
InTime == \A h \in Handlers : vpc[h] # "idle" =>
             /\ req[h] \in Requests
             /\ since[h] <= now /\ now <= since[h] + Lag
             /\ since[h] <= stamp[req[h]] + Tolerance
=============================================================================
