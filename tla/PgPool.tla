------------------------------- MODULE PgPool --------------------------------
(***************************************************************************)
(* The one asyncpg pool of a worker (src/server/storage.py): threads that    *)
(* run a statement find it in _pg_db, or connect it under _pg_db_lock on     *)
(* the facade's own event loop and wait for that at most a minute; shutdown  *)
(* closes it, while threads of background work may still be running.         *)
(***************************************************************************)
EXTENDS Integers, FiniteSets

CONSTANTS
    Thread,
    MaxPools      \* bound on pools created

VARIABLES
    db,        \* _pg_db: the pool, 0 for None
    open,      \* pools with connections to PostgreSQL
    made,      \* pools created so far
    lock,      \* who holds _pg_db_lock
    thread,    \* where each thread is, and the pool it has in hand
    orphans,   \* connects nobody waits for any more, and the pools they made
    closing    \* shutdown: "no", "locked" or "done"

vars == <<db, open, made, lock, thread, orphans, closing>>

Pool == 1..MaxPools
Idle == [pc |-> "idle", pool |-> 0]
Free == "free"
Shutdown == "shutdown"

PoolConstants == MaxPools \in Nat /\ Free \notin Thread /\ Shutdown \notin Thread

Init ==
    /\ db = 0 /\ open = {} /\ made = 0
    /\ lock = Free
    /\ thread = [t \in Thread |-> Idle]
    /\ orphans = [waiting |-> 0, pools |-> {}]
    /\ closing = "no"

At(t, pc) == thread[t].pc = pc
To(t, pc) == thread' = [thread EXCEPT ![t].pc = pc]

\* _get_pg_db's first look, without the lock.
Look(t) ==
    /\ At(t, "idle")
    /\ To(t, IF db = 0 THEN "wait" ELSE "return")
    /\ UNCHANGED <<db, open, made, lock, orphans, closing>>

Lock(t) ==
    /\ At(t, "wait") /\ lock = Free
    /\ lock' = t
    /\ To(t, "check")
    /\ UNCHANGED <<db, open, made, orphans, closing>>

\* Mutant of Missing: the second look is left out.
MissingStill == TRUE

\* The second look, under the lock.
Missing == db = 0

Check(t) ==
    /\ At(t, "check")
    /\ IF Missing THEN To(t, "connect") /\ UNCHANGED lock
                  ELSE To(t, "return") /\ lock' = Free
    /\ UNCHANGED <<db, open, made, orphans, closing>>

\* A new PostgresDatabase connects; _pg_db is set once it has.
Connect(t) ==
    /\ At(t, "connect")
    /\ made < MaxPools
    /\ made' = made + 1
    /\ open' = open \cup {made'}
    /\ db' = made'
    /\ lock' = Free
    /\ To(t, "return")
    /\ UNCHANGED <<orphans, closing>>

ConnectFails(t) ==
    /\ At(t, "connect")
    /\ lock' = Free
    /\ To(t, "idle")
    /\ UNCHANGED <<db, open, made, orphans, closing>>

\* _PgLoop.run gives up after 60 seconds; the coroutine goes on.
GivesUp(t) ==
    /\ At(t, "connect")
    /\ made + orphans.waiting < MaxPools
    /\ orphans' = [orphans EXCEPT !.waiting = @ + 1]
    /\ lock' = Free
    /\ To(t, "idle")
    /\ UNCHANGED <<db, open, made, closing>>

LateConnect ==
    /\ orphans.waiting > 0 /\ made < MaxPools
    /\ made' = made + 1
    /\ open' = open \cup {made'}
    /\ orphans' = [waiting |-> orphans.waiting - 1, pools |-> orphans.pools \cup {made'}]
    /\ UNCHANGED <<db, lock, thread, closing>>

\* "return _pg_db" reads it once more.
Return(t) ==
    /\ At(t, "return")
    /\ thread' = [thread EXCEPT ![t] = [pc |-> "run", pool |-> db]]
    /\ UNCHANGED <<db, open, made, lock, orphans, closing>>

\* The statement runs, or fails when its pool is closed.
Execute(t) ==
    /\ At(t, "run")
    /\ thread' = [thread EXCEPT ![t] = Idle]
    /\ UNCHANGED <<db, open, made, lock, orphans, closing>>

\* close_pg_store: looks, takes the lock, looks again.
BeginClose ==
    /\ closing = "no" /\ db # 0 /\ lock = Free
    /\ lock' = Shutdown
    /\ closing' = "locked"
    /\ UNCHANGED <<db, open, made, thread, orphans>>

Close ==
    /\ closing = "locked"
    /\ open' = open \ {db}
    /\ db' = 0
    /\ lock' = Free
    /\ closing' = "done"
    /\ UNCHANGED <<made, thread, orphans>>

Next ==
    \/ \E t \in Thread : \/ Look(t) \/ Lock(t) \/ Check(t) \/ Connect(t) \/ ConnectFails(t)
                         \/ GivesUp(t) \/ Return(t) \/ Execute(t)
    \/ LateConnect \/ BeginClose \/ Close

Spec == Init /\ [][Next]_vars

-----------------------------------------------------------------------------
\* Every variable has its type.
TypeOK ==
    /\ db \in 0..MaxPools /\ open \subseteq Pool /\ made \in 0..MaxPools
    /\ lock \in Thread \cup {Free, Shutdown}
    /\ thread \in [Thread -> [pc: {"idle", "wait", "check", "connect", "return", "run"},
                              pool: 0..MaxPools]]
    /\ orphans \in [waiting: 0..MaxPools, pools: SUBSET Pool]
    /\ closing \in {"no", "locked", "done"}

\* "concurrent first-use from multiple request threads must not ...
\* double-connect the pool" (_ensure_started): the only pool open besides the
\* one in _pg_db is one whose connecting outlived the thread that waited for
\* it, and until shutdown every statement runs on a pool that is open.
OnePool ==
    /\ open \ orphans.pools \subseteq {db}
    /\ closing = "no" => \A t \in Thread : At(t, "run") => thread[t].pool \in open

-----------------------------------------------------------------------------
(* The inductive invariant *)

\* Who looks for the second time or connects holds the lock, and the pool a
\* thread takes in hand is there until shutdown.
PoolInv ==
    /\ TypeOK /\ OnePool
    /\ \A t \in Thread : thread[t].pc \in {"check", "connect"} => lock = t
    /\ \A t \in Thread : At(t, "connect") => db = 0
    /\ closing = "locked" => lock = Shutdown
    /\ db # 0 => db \in open
    /\ closing = "no" => \A t \in Thread : At(t, "return") => db # 0
    /\ \A p \in open \cup orphans.pools : p <= made
=============================================================================
