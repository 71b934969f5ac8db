----------------------------- MODULE LeaderLock -----------------------------
(***************************************************************************)
(* The Redis leader lock of leader_lock.py, which makes a background task   *)
(* of the server run in one uvicorn worker at a time: SET key token NX EX   *)
(* ttl to acquire, a compare-and-delete script to release.                  *)
(*                                                                         *)
(* Every worker runs the same loop: sleep, try to acquire, run the task,    *)
(* release.  Redis expires the key, calls to Redis fail on either side of   *)
(* their effect, workers die, and a task may run for longer than the ttl.   *)
(*                                                                         *)
(* Time is relative: the seconds the key has left, and the seconds each     *)
(* acquisition is old, counted no further than the properties need.         *)
(***************************************************************************)
EXTENDS Integers, FiniteSets

CONSTANTS
    Worker,      \* the worker processes
    Token,       \* what token_hex(8) may return
    TTL,         \* expiry of the key
    Connected,   \* the workers with a Redis client (MT_REDIS_URL is set)
    MaxTask,     \* longest time a task runs
    MaxFaults    \* bound on failed calls to Redis and on deaths of workers

None == "none"

ASSUME LockConstants ==
    /\ None \notin Token /\ None \notin Worker
    /\ TTL \in Nat \ {0}
    /\ Connected \subseteq Worker
    /\ MaxTask \in Nat
    /\ MaxFaults \in Nat

VARIABLES
    lock,     \* the key in Redis: its value and the time it has left
    leader,   \* what each worker knows of its acquisition
    faults    \* failed calls and deaths so far

lockVars == <<lock, leader, faults>>

NoLock  == [token |-> None, left |-> 0]
Waiting == [won |-> "no", token |-> None, age |-> 0]

\* won: "redis" (SET answered OK), "degraded" (SET raised), "local" (no Redis).
LockTypeOK ==
    /\ lock \in [token: Token \cup {None}, left: Nat]
    /\ leader \in [Worker -> [won: {"no", "redis", "degraded", "local"},
                              token: Token \cup {None}, age: Nat]]
    /\ faults \in Nat

Running(w) == leader[w].won # "no"

-----------------------------------------------------------------------------
(* acquire_task_lock *)

\* A token nobody holds: 64 random bits do not repeat within the life of one.
FreshToken(t) == t # lock.token /\ \A w \in Worker : t # leader[w].token

Acquisition(how, t) == [won |-> how, token |-> t, age |-> 0]

\* Mutant of Taken: SET without NX.
TakenAlways(t) == [token |-> t, left |-> TTL]

\* SET key token NX EX ttl
Taken(t) == IF lock = NoLock THEN [token |-> t, left |-> TTL] ELSE lock

\* No Redis: every caller wins, with an empty token.
AcquireLocal(w) ==
    /\ w \notin Connected
    /\ leader[w] = Waiting
    /\ leader' = [leader EXCEPT ![w] = Acquisition("local", None)]
    /\ UNCHANGED <<lock, faults>>

Acquire(w, t) ==
    /\ w \in Connected
    /\ leader[w] = Waiting
    /\ FreshToken(t)
    /\ lock' = Taken(t)
    /\ lock'.token = t
    /\ leader' = [leader EXCEPT ![w] = Acquisition("redis", t)]
    /\ faults' = faults

\* The call raises, whether or not Redis carried it out: run anyway.
AcquireDegraded(w, t) ==
    /\ w \in Connected
    /\ faults < MaxFaults
    /\ faults' = faults + 1
    /\ leader[w] = Waiting
    /\ FreshToken(t)
    /\ lock' \in {lock, Taken(t)}
    /\ leader' = [leader EXCEPT ![w] = Acquisition("degraded", t)]

-----------------------------------------------------------------------------
(* release_task_lock *)

\* Mutant of Released: DEL without the comparison.
ReleasedAny(w) == NoLock

\* The compare-and-delete script.
Released(w) == IF lock.token = leader[w].token THEN NoLock ELSE lock

Release(w) ==
    /\ Running(w)
    /\ lock' = IF leader[w].token = None THEN lock ELSE Released(w)
    /\ leader' = [leader EXCEPT ![w] = Waiting]
    /\ faults' = faults

\* The call raises: "expiry will clean it up".
ReleaseFails(w) ==
    /\ Running(w)
    /\ leader[w].token # None
    /\ faults < MaxFaults
    /\ faults' = faults + 1
    /\ lock' \in {lock, Released(w)}
    /\ leader' = [leader EXCEPT ![w] = Waiting]

\* The worker dies and is started again.
WorkerDies(w) ==
    /\ Running(w)
    /\ faults < MaxFaults
    /\ faults' = faults + 1
    /\ leader' = [leader EXCEPT ![w] = Waiting]
    /\ lock' = lock

-----------------------------------------------------------------------------
(* Time *)

\* Mutant of LockLater: SET without EX.
LockForEver == lock

\* Mutant of LockLater: the key stays when its time is up.
LockBelowZero == [lock EXCEPT !.left = @ - 1]

LockLater == IF lock.left <= 1 THEN NoLock ELSE [lock EXCEPT !.left = @ - 1]

LockTick ==
    /\ \A w \in Worker : Running(w) => leader[w].age < MaxTask
    /\ lock' = LockLater
    /\ leader' = [w \in Worker |->
                    IF Running(w) THEN [leader[w] EXCEPT !.age = @ + 1] ELSE leader[w]]
    /\ faults' = faults

LockInit == lock = NoLock /\ leader = [w \in Worker |-> Waiting] /\ faults = 0

LockNext ==
    \/ \E w \in Worker : AcquireLocal(w) \/ Release(w) \/ ReleaseFails(w) \/ WorkerDies(w)
    \/ \E w \in Worker, t \in Token : Acquire(w, t) \/ AcquireDegraded(w, t)
    \/ LockTick

LockSpec == LockInit /\ [][LockNext]_lockVars

-----------------------------------------------------------------------------
(* Properties *)

\* "Exactly one worker wins per TTL window": of the workers whose SET was
\* answered OK, at most one is running its task within the ttl of its
\* acquisition, whatever the slow, dead and degraded ones do meanwhile.
Leads(w) == leader[w].won = "redis" /\ leader[w].age < TTL

OneLeader == \A v, w \in Worker : Leads(v) /\ Leads(w) => v = w

\* "A slow leader can never clobber a successor's lock": a key whose holder
\* is still running its task disappears by expiry or by the holder's own
\* release, never because another worker finishes.
KeyKept ==
    \A w \in Worker :
        /\ leader[w].token = lock.token /\ lock.token # None
        /\ leader'[w] = leader[w]
        => lock'.token = lock.token

KeyIsOwn == [][KeyKept]_lockVars

\* No death and no failed release locks the task out: the key is free again
\* or someone is at work.
NeverStuck == (lock # NoLock) ~> (lock = NoLock)

-----------------------------------------------------------------------------
(* The inductive strengthening of OneLeader *)

\* The key belongs to the worker that leads, for as long as it leads.
LeaderHoldsKey ==
    \A w \in Worker : Leads(w) =>
        lock.token = leader[w].token /\ lock.left = TTL - leader[w].age

TokensDiffer ==
    \A v, w \in Worker :
        leader[v].token = leader[w].token /\ leader[v].token # None => v = w

TokensKept ==
    \A w \in Worker :
        /\ leader[w].won \in {"redis", "degraded"} => leader[w].token # None
        /\ leader[w].won = "no" => leader[w] = Waiting

LockInv == LockTypeOK /\ LeaderHoldsKey /\ TokensDiffer /\ TokensKept
=============================================================================
