------------------------------- MODULE LoginLimit -------------------------------
(***************************************************************************)
(* The limit on login attempts (app/utils/rate_limiter.py), which several  *)
(* threads of the server enter at a time without a lock: the list of the   *)
(* times at which attempts from one address were admitted, and the cleanup *)
(* that drops an empty list.  The order of the list tells nothing: it is a *)
(* set of attempts, with a number for those of the same time.              *)
(***************************************************************************)
EXTENDS Integers, FiniteSets

CONSTANTS
    Threads,
    Limit,      \* attempts in a window
    Window,     \* its length, and the interval of the cleanup
    MaxClock

ASSUME LimitAssumption ==
    {Limit, Window, MaxClock} \subseteq Nat

VARIABLES
    time,
    log,        \* the address's list, empty if there is none
    cleaned,    \* the time of the last cleanup
    step,       \* a thread's next step
    entered,    \* the time it has read
    recent,     \* the recent attempts it has found
    kept,       \* is the list it holds still the address's?
    admitted,   \* ghost: when attempts were admitted
    crossed     \* ghost: two threads were in the limiter at a time

limitVars == <<time, log, cleaned, step, entered, recent, kept, admitted, crossed>>

Times   == 0..MaxClock
Attempt == Times \X (1..Limit)
LimitTypeOK ==
    /\ time \in Times /\ cleaned \in Times
    /\ log \subseteq Attempt
    /\ step \in [Threads -> {"out", "trim", "take"}]
    /\ entered \in [Threads -> Times]
    /\ recent \in [Threads -> SUBSET Attempt]
    /\ kept \in [Threads -> BOOLEAN]
    /\ admitted \subseteq Attempt /\ crossed \in BOOLEAN

LimitInit ==
    /\ time = 0 /\ log = {} /\ cleaned = 0
    /\ step = [t \in Threads |-> "out"]
    /\ entered = [t \in Threads |-> 0]
    /\ recent = [t \in Threads |-> {}]
    /\ kept = [t \in Threads |-> TRUE]
    /\ admitted = {} /\ crossed = FALSE

Since(list, now) == {a \in list : a[1] + Window > now}

\* is_allowed: the cleanup when it is due, which drops a list that has become
\* empty; then the address's list, made if need be, is read.
Enter(t) ==
    LET due  == time > cleaned + Window
        left == IF due THEN Since(log, time) ELSE log
    IN  /\ step[t] = "out" /\ step' = [step EXCEPT ![t] = "trim"]
        /\ cleaned' = IF due THEN time ELSE cleaned
        /\ log' = left
        /\ kept' = [u \in Threads |-> u = t \/ (kept[u] /\ ~(due /\ left = {}))]
        /\ recent' = [recent EXCEPT ![t] = Since(left, time)]
        /\ entered' = [entered EXCEPT ![t] = time]
        /\ crossed' = (crossed \/ \E u \in Threads : step[u] # "out")
        /\ UNCHANGED <<time, admitted>>

\* Its recent attempts replace the list: what another thread has added is lost.
Trim(t) ==
    /\ step[t] = "trim" /\ step' = [step EXCEPT ![t] = "take"]
    /\ log' = IF kept[t] THEN recent[t] ELSE log
    /\ UNCHANGED <<time, cleaned, entered, recent, kept, admitted, crossed>>

Leave(t) == step' = [step EXCEPT ![t] = "out"] /\ recent' = [recent EXCEPT ![t] = {}]
            /\ entered' = [entered EXCEPT ![t] = 0]

\* The list's next attempt at that time.
New(a) == a \notin log /\ \A n \in 1..(a[2] - 1) : <<a[1], n>> \in log
Admit(t) ==
    \E a \in {entered[t]} \X (1..Limit) :
        /\ New(a) /\ log' = log \cup {a}
        /\ admitted' = IF crossed THEN {} ELSE admitted \cup {a}

\* A bug: a full list has room for one more.
TakeOneMore(t) ==
    /\ step[t] = "take" /\ Leave(t)
    /\ IF ~kept[t] \/ Cardinality(log) > Limit THEN UNCHANGED <<log, admitted>> ELSE Admit(t)
    /\ UNCHANGED <<time, cleaned, kept, crossed>>

\* The attempt is admitted unless the list is full.  What a thread puts into a list
\* that was dropped is forgotten with it: the thread that dropped it has crossed.
Take(t) ==
    /\ step[t] = "take" /\ Leave(t)
    /\ IF ~kept[t] \/ Cardinality(log) >= Limit THEN UNCHANGED <<log, admitted>> ELSE Admit(t)
    /\ UNCHANGED <<time, cleaned, kept, crossed>>

\* A thread that has entered is out again within one tick.
PassTime ==
    /\ time < MaxClock /\ \A t \in Threads : step[t] # "out" => entered[t] = time
    /\ time' = time + 1
    /\ UNCHANGED <<log, cleaned, step, entered, recent, kept, admitted, crossed>>

LimitNext == PassTime \/ \E t \in Threads : Enter(t) \/ Trim(t) \/ Take(t)

LimitSpec == LimitInit /\ [][LimitNext]_limitVars

-----------------------------------------------------------------------------
\* No window has more attempts than the limit, whenever the cleanup runs, as long
\* as the threads take turns (rate_limiter.py:20-56 has no lock: two threads at a
\* time can forget as many attempts as they like).
WindowLimit == crossed \/
    \A a \in admitted :
        Cardinality({b \in admitted : b[1] <= a[1] /\ b[1] + Window > a[1]}) <= Limit
=============================================================================
