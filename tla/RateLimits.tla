----------------------------- MODULE RateLimits -----------------------------
(***************************************************************************)
(* The two rate limiters.  check_rate_limit of src/server/database.py      *)
(* keeps the attempts of every limiter in one table, and each check first  *)
(* deletes what is older than its own window.  On SQLite a check is one    *)
(* transaction; the Postgres store commits every statement by itself.      *)
(* memory_rate_limit.py keeps the telemetry's attempts in each worker.     *)
(***************************************************************************)
EXTENDS Integers, FiniteSets

CONSTANTS
    Worker,
    Limiter,        \* pairs of an identifier and an action
    Most,           \* limiter -> attempts it allows in its window
    Window,         \* limiter -> its window, in minutes
    Keep,           \* what the clean-up of seven days leaves, in minutes
    MemoryMost,     \* attempts the limiter in memory allows
    MaxTime,        \* bound on the clock
    None

RateConstants ==
    /\ \A l \in Limiter : Most[l] \in Nat \ {0} /\ Window[l] \in 0..Keep
    /\ Keep \in Nat /\ MemoryMost \in Nat /\ MaxTime \in Nat /\ None \notin Limiter

VARIABLES
    postgres,   \* MT_DATABASE_URL is set
    now,        \* the clock, in minutes
    rows,       \* rate_limits: for each limiter and minute how many attempts
    req,        \* the check in progress on each worker (Postgres)
    bucket,     \* _windows of each worker, of one device: attempts in each minute
    granted,    \* history: attempts of each limiter that were let through
    passed,     \* history: attempts the limiter in memory let through, by worker
    raced       \* history: limiters with a check that another one overtook

vars == <<postgres, now, rows, req, bucket, granted, passed, raced>>

Time == 0..MaxTime
Never == [t \in Time |-> 0]
NoCheck == [limiter |-> None, step |-> "none", stale |-> FALSE]
At(counts) == [counts EXCEPT ![now] = @ + 1]

\* The attempts, each by its minute and its number in that minute.
Attempts(counts) == UNION {{t} \X (1..counts[t]) : t \in Time}
Total(counts) == Cardinality(Attempts(counts))

Init ==
    /\ postgres \in BOOLEAN
    /\ now = 0
    /\ rows = [l \in Limiter |-> Never]
    /\ req = [w \in Worker |-> NoCheck]
    /\ bucket = [w \in Worker |-> Never]
    /\ granted = [l \in Limiter |-> Never]
    /\ passed = [w \in Worker |-> Never]
    /\ raced = {}

\* Mutant of Since: what has been there for the whole window goes.
SinceOpen(counts, window) == [t \in Time |-> IF t <= now - window THEN 0 ELSE counts[t]]

\* What is left when everything before the window is deleted.
Since(counts, window) == [t \in Time |-> IF t < now - window THEN 0 ELSE counts[t]]

\* The DELETE of a check: the rows of every limiter.
Kept(l) == [k \in Limiter |-> Since(rows[k], Window[l])]

\* check_rate_limit on SQLite.  A refusal is not committed, its DELETE neither.
Check(l) ==
    /\ ~postgres
    /\ Total(Kept(l)[l]) < Most[l]
    /\ rows' = [Kept(l) EXCEPT ![l] = At(@)]
    /\ granted' = [granted EXCEPT ![l] = At(@)]
    /\ UNCHANGED <<postgres, now, req, bucket, passed, raced>>

\* On Postgres: the DELETE,
Delete(w, l) ==
    /\ postgres /\ req[w] = NoCheck
    /\ rows' = Kept(l)
    /\ req' = [req EXCEPT ![w] = [limiter |-> l, step |-> "count", stale |-> FALSE]]
    /\ UNCHANGED <<postgres, now, bucket, granted, passed, raced>>

\* the SELECT,
Count(w) ==
    LET l == req[w].limiter IN
    /\ req[w].step = "count"
    /\ req' = [req EXCEPT ![w] = IF Total(rows[l]) >= Most[l] THEN NoCheck
                                 ELSE [@ EXCEPT !.step = "insert", !.stale = FALSE]]
    /\ UNCHANGED <<postgres, now, rows, bucket, granted, passed, raced>>

\* and the INSERT.
Insert(w) ==
    LET l == req[w].limiter IN
    /\ req[w].step = "insert"
    /\ rows' = [rows EXCEPT ![l] = At(@)]
    /\ granted' = [granted EXCEPT ![l] = At(@)]
    /\ req' = [v \in Worker |-> IF v = w THEN NoCheck
                                ELSE IF req[v].limiter = l THEN [req[v] EXCEPT !.stale = TRUE]
                                ELSE req[v]]
    /\ raced' = IF req[w].stale THEN raced \cup {l} ELSE raced
    /\ UNCHANGED <<postgres, now, bucket, passed>>

\* periodic_rate_limit_cleanup and purge_old_data.
CleanUp ==
    /\ rows' = [l \in Limiter |-> Since(rows[l], Keep)]
    /\ UNCHANGED <<postgres, now, req, bucket, granted, passed, raced>>
-----------------------------------------------------------------------------
\* check_memory_rate_limit, under the lock of its process, with a window of a minute.
CheckMemory(w) ==
    LET live == Since(bucket[w], 1) IN
    /\ bucket' = [bucket EXCEPT ![w] = IF Total(live) < MemoryMost THEN At(live) ELSE live]
    /\ passed' = IF Total(live) < MemoryMost THEN [passed EXCEPT ![w] = At(@)] ELSE passed
    /\ UNCHANGED <<postgres, now, rows, req, granted, raced>>

\* sweep_locked drops a device whose last attempt is older than the minute.
Sweep(w) ==
    /\ Since(bucket[w], 1) = Never
    /\ bucket' = [bucket EXCEPT ![w] = Never]
    /\ UNCHANGED <<postgres, now, rows, req, granted, passed, raced>>

Tick ==
    /\ now < MaxTime
    /\ now' = now + 1
    /\ UNCHANGED <<postgres, rows, req, bucket, granted, passed, raced>>

Next ==
    \/ \E l \in Limiter : Check(l) \/ \E w \in Worker : Delete(w, l)
    \/ \E w \in Worker : Count(w) \/ Insert(w) \/ CheckMemory(w) \/ Sweep(w)
    \/ CleanUp \/ Tick

Spec == Init /\ [][Next]_vars
-----------------------------------------------------------------------------
\* Every variable has its type.
TypeOK ==
    /\ now \in Time
    /\ rows \in [Limiter -> [Time -> Nat]] /\ bucket \in [Worker -> [Time -> Nat]]
    /\ \A w \in Worker : req[w].limiter \in Limiter \cup {None}

\* Attempts in the window that ends at t.
Within(counts, t, window) == [s \in Time |-> IF s \in (t - window)..t THEN counts[s] ELSE 0]
In(counts, t, window) == Total(Within(counts, t, window))

Holds(l) == \A t \in Time : In(granted[l], t, Window[l]) <= Most[l]

Narrowest(l) == \A k \in Limiter : Window[l] <= Window[k]

\* A limiter whose window no other one undercuts lets no more through in any window
\* than it allows, unless on Postgres one of its checks was overtaken between the
\* count and the insert; the one in memory holds in every worker by itself
\* (check_rate_limit, check_memory_rate_limit).
LimitHolds ==
    /\ \A l \in Limiter \ raced : Narrowest(l) => Holds(l)
    /\ \A w \in Worker, t \in Time : In(passed[w], t, 1) <= MemoryMost

\* "Brute force: 5 failed attempts / 15 min per user" (user_security.py): every
\* limiter holds over its own window, on SQLite, where no check is overtaken.
EveryLimitHolds == ~postgres => \A l \in Limiter : Holds(l)

-----------------------------------------------------------------------------
(* The inductive invariant *)

Counts == [Time -> Nat]
Checks == [limiter: Limiter \cup {None}, step: {"none", "count", "insert"}, stale: BOOLEAN]

RateTypes ==
    /\ postgres \in BOOLEAN /\ now \in Time
    /\ rows \in [Limiter -> Counts] /\ granted \in [Limiter -> Counts]
    /\ bucket \in [Worker -> Counts] /\ passed \in [Worker -> Counts]
    /\ req \in [Worker -> Checks] /\ raced \subseteq Limiter
    /\ \A w \in Worker : req[w].step # "none" => postgres /\ req[w].limiter \in Limiter

\* Nothing was let through in the minutes to come.
NothingAhead ==
    \A t \in Time : t > now => /\ \A l \in Limiter : granted[l][t] = 0
                              /\ \A w \in Worker : passed[w][t] = 0

\* What was let through within the window is still in the table, or in memory.
StillThere ==
    /\ \A l \in Limiter, t \in Time :
           Narrowest(l) /\ t >= now - Window[l] => rows[l][t] = granted[l][t]
    /\ \A w \in Worker, t \in Time : t >= now - 1 => bucket[w][t] = passed[w][t]

\* A check that was not overtaken after its count has room for one more attempt.
RoomLeft ==
    \A w \in Worker :
        LET l == req[w].limiter IN
        req[w].step = "insert" /\ ~req[w].stale /\ Narrowest(l) =>
            In(granted[l], now, Window[l]) < Most[l]

RateInv == RateTypes /\ NothingAhead /\ StillThere /\ RoomLeft /\ LimitHolds
=============================================================================
