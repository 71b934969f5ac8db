------------------------ MODULE OfflineMonitorProofs ------------------------
(***************************************************************************)
(* The lock serves one leader at a time, for any set of workers and tokens  *)
(* and any ttl: LockInv is inductive.  Its heart is LeaderHoldsKey: the     *)
(* time the key has left and the age of the acquisition it belongs to run   *)
(* in step, so within the ttl the key still names its leader; and since no  *)
(* two acquisitions share a token, no release but the leader's own can      *)
(* delete it.                                                               *)
(*                                                                          *)
(* The offline monitor uses the lock as LeaderLock says: whatever it does   *)
(* to devices and alerts, its steps are steps of the lock or leave the lock *)
(* alone.  All that is proved of the lock therefore holds of the monitor.   *)
(***************************************************************************)
EXTENDS OfflineMonitor, TLAPS, FiniteSetTheorems

-----------------------------------------------------------------------------
(* The lock *)

\* Nobody leads and the key is not there at the start.
LEMMA InitInv == LockInit => LockInv
    BY LockConstants DEF LockInit, LockInv, LockTypeOK, LeaderHoldsKey, TokensDiffer, TokensKept,
       Leads, NoLock, Waiting

\* Giving an acquisition up, whether or not the key goes with it.
LEMMA LeaveStep ==
    ASSUME LockInv, NEW w \in Worker, Running(w),
           leader' = [leader EXCEPT ![w] = Waiting], faults' \in Nat,
           \/ lock' = lock
           \/ leader[w].token # None /\ lock' = Released(w)
    PROVE  LockInv'
<1> USE LockConstants DEF LockInv
<1>1. LockTypeOK'
    BY DEF LockTypeOK, Released, NoLock, Waiting
<1>2. LeaderHoldsKey'
  <2> SUFFICES ASSUME NEW v \in Worker, Leads(v)'
               PROVE  lock'.token = leader'[v].token /\ lock'.left = TTL - leader'[v].age
    BY DEF LeaderHoldsKey
  <2>1. v # w /\ leader'[v] = leader[v]
    BY DEF Leads, LockTypeOK, Waiting
  <2>2. Leads(v)
    BY <2>1 DEF Leads
  <2>3. lock.token = leader[v].token /\ lock.left = TTL - leader[v].age /\ leader[v].token # None
    BY <2>2 DEF LeaderHoldsKey, TokensKept, Leads
  <2>4. lock' = lock
    BY <2>1, <2>3 DEF TokensDiffer, Released
  <2>5. QED
    BY <2>1, <2>3, <2>4
<1>3. TokensDiffer' /\ TokensKept'
    BY DEF TokensDiffer, TokensKept, LockTypeOK, Waiting
<1>4. QED
    BY <1>1, <1>2, <1>3

\* A new acquisition, with a token nobody holds.
LEMMA EnterStep ==
    ASSUME LockInv, NEW w \in Worker, NEW t \in Token, FreshToken(t), leader[w] = Waiting,
           NEW how \in {"redis", "degraded"}, faults' \in Nat,
           leader' = [leader EXCEPT ![w] = Acquisition(how, t)],
           lock' \in {lock, Taken(t)}, how = "redis" => lock'.token = t
    PROVE  LockInv'
<1> USE LockConstants DEF LockInv
<1>1. LockTypeOK'
    BY DEF LockTypeOK, Taken, Acquisition
<1>2. LeaderHoldsKey'
  <2> SUFFICES ASSUME NEW v \in Worker, Leads(v)'
               PROVE  lock'.token = leader'[v].token /\ lock'.left = TTL - leader'[v].age
    BY DEF LeaderHoldsKey
  <2>1. CASE v = w
    <3>1. leader'[w] = Acquisition(how, t) /\ how = "redis"
      BY <2>1 DEF Leads, LockTypeOK, Acquisition
    <3>2. lock' = [token |-> t, left |-> TTL]
      BY <3>1 DEF FreshToken, Taken
    <3>3. QED
      BY <2>1, <3>1, <3>2 DEF Acquisition
  <2>2. CASE v # w
    <3>1. leader'[v] = leader[v] /\ Leads(v)
      BY <2>2 DEF Leads, LockTypeOK
    <3>2. lock.token = leader[v].token /\ lock.left = TTL - leader[v].age /\ leader[v].token # None
      BY <3>1 DEF LeaderHoldsKey, TokensKept, Leads
    <3>3. lock' = lock
      BY <3>2 DEF Taken, NoLock
    <3>4. QED
      BY <3>1, <3>2, <3>3
  <2>3. QED
    BY <2>1, <2>2
<1>3. TokensDiffer'
    BY DEF TokensDiffer, FreshToken, LockTypeOK, Acquisition
<1>4. TokensKept'
    BY DEF TokensKept, LockTypeOK, Acquisition
<1>5. QED
    BY <1>1, <1>2, <1>3, <1>4

\* Without Redis the worker leads by itself and leaves the key alone.
LEMMA LocalStep ==
    ASSUME LockInv, NEW w \in Worker, AcquireLocal(w)
    PROVE  LockInv'
<1> USE LockConstants DEF LockInv, AcquireLocal
<1>1. LockTypeOK'
    BY DEF LockTypeOK, Acquisition
<1>2. LeaderHoldsKey'
    BY DEF LeaderHoldsKey, Leads, LockTypeOK, Acquisition
<1>3. TokensDiffer' /\ TokensKept'
    BY DEF TokensDiffer, TokensKept, LockTypeOK, Acquisition
<1>4. QED
    BY <1>1, <1>2, <1>3

\* Time: the key and the acquisition it belongs to grow old together.
LEMMA TickStep ==
    ASSUME LockInv, LockTick
    PROVE  LockInv'
<1> USE LockConstants DEF LockInv, LockTick
<1>1. lock' \in [token: Token \cup {None}, left: Nat] /\ faults' \in Nat
    BY DEF LockTypeOK, LockLater, NoLock
<1>2. \A w \in Worker :
        /\ leader'[w].won = leader[w].won /\ leader'[w].token = leader[w].token
        /\ leader'[w].age \in {leader[w].age, leader[w].age + 1}
        /\ Running(w) => leader'[w].age = leader[w].age + 1
        /\ ~Running(w) => leader'[w] = leader[w]
        /\ leader'[w] \in [won: {"no", "redis", "degraded", "local"},
                           token: Token \cup {None}, age: Nat]
    BY DEF LockTypeOK
<1>3. LockTypeOK'
    BY <1>1, <1>2 DEF LockTypeOK
<1>4. LeaderHoldsKey'
  <2> SUFFICES ASSUME NEW w \in Worker, Leads(w)'
               PROVE  lock'.token = leader'[w].token /\ lock'.left = TTL - leader'[w].age
    BY DEF LeaderHoldsKey
  <2>1. leader[w].won = "redis" /\ Running(w) /\ leader'[w].age < TTL
    BY <1>2 DEF Leads, Running
  <2>2. leader[w].age \in Nat /\ lock.left \in Nat
    BY DEF LockTypeOK
  <2>3. leader[w].age < TTL
    BY <1>2, <2>1, <2>2
  <2>4. leader'[w].age = leader[w].age + 1
    BY <1>2, <2>1
  <2>5. lock.token = leader[w].token /\ lock.left = TTL - leader[w].age
    BY <2>1, <2>3 DEF Leads, LeaderHoldsKey
  <2>6. lock' = [lock EXCEPT !.left = lock.left - 1]
    BY <2>1, <2>2, <2>4, <2>5 DEF LockLater
  <2>7. QED
    BY <1>2, <2>2, <2>4, <2>5, <2>6 DEF LockTypeOK
<1>5. TokensDiffer'
    BY <1>2 DEF TokensDiffer
<1>6. TokensKept'
    BY <1>2 DEF TokensKept, Running
<1>7. QED
    BY <1>3, <1>4, <1>5, <1>6

\* Every step of the lock keeps its invariant.
LEMMA InvStep == LockInv /\ [LockNext]_lockVars => LockInv'
<1> SUFFICES ASSUME LockInv, [LockNext]_lockVars PROVE LockInv'
    OBVIOUS
<1>1. faults \in Nat
    BY DEF LockInv, LockTypeOK
<1>2. ASSUME NEW w \in Worker, AcquireLocal(w) PROVE LockInv'
    BY <1>2, LocalStep
<1>3. ASSUME NEW w \in Worker, Release(w) PROVE LockInv'
    BY <1>1, <1>3, LeaveStep DEF Release
<1>4. ASSUME NEW w \in Worker, ReleaseFails(w) PROVE LockInv'
  <2>1. faults + 1 \in Nat
    BY <1>1
  <2>2. faults' \in Nat
    BY <1>4, <2>1 DEF ReleaseFails
  <2>3. QED
    BY <1>4, <2>2, LeaveStep DEF ReleaseFails
<1>5. ASSUME NEW w \in Worker, WorkerDies(w) PROVE LockInv'
  <2>1. faults + 1 \in Nat
    BY <1>1
  <2>2. faults' \in Nat
    BY <1>5, <2>1 DEF WorkerDies
  <2>3. QED
    BY <1>5, <2>2, LeaveStep DEF WorkerDies
<1>6. ASSUME NEW w \in Worker, NEW t \in Token, Acquire(w, t) PROVE LockInv'
    BY <1>1, <1>6, EnterStep DEF Acquire
<1>7. ASSUME NEW w \in Worker, NEW t \in Token, AcquireDegraded(w, t) PROVE LockInv'
  <2>1. faults + 1 \in Nat
    BY <1>1
  <2>2. faults' \in Nat
    BY <1>7, <2>1 DEF AcquireDegraded
  <2>3. QED
    BY <1>7, <2>2, EnterStep DEF AcquireDegraded
<1>8. CASE LockTick
    BY <1>8, TickStep
<1>9. CASE UNCHANGED lockVars
    BY <1>9 DEF lockVars, LockInv, LockTypeOK, LeaderHoldsKey, TokensDiffer, TokensKept, Leads
<1>10. QED
    BY <1>2, <1>3, <1>4, <1>5, <1>6, <1>7, <1>8, <1>9 DEF LockNext

\* The lock and what the workers know of it are well typed in every state.
THEOREM LockInvHolds == LockSpec => []LockInv
    BY InitInv, InvStep, PTL DEF LockSpec

\* Two workers whose SET was answered OK never run the task within the ttl of
\* their acquisitions at the same time (leader_lock.py: "exactly one worker
\* wins per TTL window").
THEOREM OneLeaderHolds == LockSpec => []OneLeader
<1>1. LockInv => OneLeader
    BY DEF LockInv, LeaderHoldsKey, TokensDiffer, TokensKept, OneLeader, Leads
<1>2. QED
    BY <1>1, LockInvHolds, PTL

\* A worker that finishes late deletes its own key or none (the compare-and-
\* delete script of release_task_lock), so the key of a worker that goes on
\* with its task changes only as time passes.
THEOREM KeyIsOwnHolds == LockSpec => KeyIsOwn
<1>1. LockInv /\ [LockNext]_lockVars => [KeyKept]_lockVars
  <2> SUFFICES ASSUME LockInv, LockNext, NEW v \in Worker,
                      leader[v].token = lock.token, lock.token # None, leader'[v] = leader[v]
               PROVE  lock'.token = lock.token
    BY DEF KeyKept
  <2> USE DEF LockInv
  <2>1. ASSUME NEW w \in Worker, leader' = [leader EXCEPT ![w] = Waiting], Running(w)
        PROVE  Released(w).token = lock.token
    <3>1. v # w
      BY <2>1 DEF LockTypeOK, Waiting, Running
    <3>2. QED
      BY <3>1 DEF TokensDiffer, Released
  <2>2. ASSUME NEW t \in Token PROVE Taken(t) = lock
    BY DEF Taken, NoLock
  <2>3. ~LockTick
    <3>1. Running(v)
      BY DEF TokensKept, Running, Waiting
    <3>2. leader[v].age \in Nat
      BY DEF LockTypeOK
    <3>3. LockTick => leader'[v].age = leader[v].age + 1
      BY <3>1 DEF LockTick, LockTypeOK
    <3>4. QED
      BY <3>2, <3>3
  <2>4. QED
    BY <2>1, <2>2, <2>3 DEF LockNext, AcquireLocal, Acquire, AcquireDegraded, Release,
       ReleaseFails, WorkerDies
<1>2. QED
    BY <1>1, LockInvHolds, PTL DEF LockSpec, KeyIsOwn

-----------------------------------------------------------------------------
(* The monitor above it *)

\* Every behaviour of the offline monitor is one of the leader lock.
THEOREM UsesTheLock == Spec => LockSpec
<1>1. Init => LockInit
    BY DEF Init
<1>2. [Next]_vars => [LockNext]_lockVars
  <2> SUFFICES ASSUME [Next]_vars PROVE [LockNext]_lockVars
    OBVIOUS
  <2>1. ASSUME NEW w \in Worker, StartSweep(w) PROVE LockNext
    BY <2>1 DEF StartSweep, LockNext
  <2>2. ASSUME NEW w \in Worker, EndSweep(w) PROVE LockNext
    BY <2>2 DEF EndSweep, LockNext
  <2>3. ASSUME NEW w \in Worker, Die(w) PROVE LockNext
    BY <2>3 DEF Die, LockNext
  <2>4. CASE Tick
    BY <2>4 DEF Tick, LockNext
  <2>5. ASSUME NEW w \in Worker, NEW d \in Device, BeginAlert(w, d) PROVE UNCHANGED lockVars
    BY <2>5 DEF BeginAlert
  <2>6. ASSUME NEW w \in Worker, NEW n \in 1..Channels, NEW delivered \in BOOLEAN,
               NEW logged \in BOOLEAN, NextChannel(w, n, delivered, logged)
        PROVE  UNCHANGED lockVars
    BY <2>6 DEF NextChannel
  <2>7. ASSUME NEW d \in Device, Report(d) \/ Watch(d) PROVE UNCHANGED lockVars
    BY <2>7 DEF Report, Watch
  <2>8. CASE UNCHANGED vars
    BY <2>8 DEF vars
  <2>9. QED
    BY <2>1, <2>2, <2>3, <2>4, <2>5, <2>6, <2>7, <2>8 DEF Next
<1>3. QED
    BY <1>1, <1>2, PTL DEF Spec, LockSpec

\* Two workers that got the key never sweep within the ttl of their
\* acquisitions at the same time.
THEOREM OneSweep == Spec => []OneLeader
    BY UsesTheLock, OneLeaderHolds, PTL

-----------------------------------------------------------------------------
(* Type correctness *)

\* Everything starts with its type.
LEMMA MonitorTypeInit == Init => TypeOK
<1> SUFFICES ASSUME Init PROVE TypeOK
    OBVIOUS
<1>1. LockTypeOK /\ \A w \in Worker : ~Running(w)
    BY InitInv, LockConstants DEF Init, LockInv, LockInit, Running, Waiting
<1>2. /\ todo \in [Worker -> SUBSET Device] /\ stale \in [Worker -> SUBSET Device]
      /\ current \in [Worker -> Device \cup {None}] /\ left \in [Worker -> 0..Channels]
    BY MonitorConstants DEF Init
<1>3. /\ silent \in [Device -> 0..(Threshold + 1)] /\ told \in [Device -> 0..(MaxLapses + 1)]
      /\ watched \in [Device -> BOOLEAN] /\ marked \in [Device -> BOOLEAN]
      /\ genuine \in [Device -> BOOLEAN] /\ lapses \in 0..MaxLapses
    BY MonitorConstants DEF Init
<1>4. /\ \A w \in Worker : todo[w] = {} /\ current[w] = None
      /\ \A w \in Worker : (left[w] = 0) = (current[w] = None)
    BY DEF Init
<1>5. QED
    BY <1>1, <1>2, <1>3, <1>4 DEF TypeOK

\* The count of lapses stays within its bound.
LEMMA LapsesType ==
    ASSUME TypeOK, NEW n \in Nat
    PROVE  Lapses(n) \in 0..MaxLapses
    BY MonitorConstants DEF TypeOK, Lapses

\* The workers that run a task are finitely many.
LEMMA Counted ==
    ASSUME NEW S \in SUBSET Worker
    PROVE  IsFiniteSet(S) /\ Cardinality(S) \in Nat
    BY MonitorConstants, FS_Subset, FS_CardinalityType

\* A sweep belongs to a worker that runs the task, and a device is current
\* exactly while channels of its alert are left.
LEMMA MonitorTypeStep == TypeOK /\ LockInv' /\ [Next]_vars => TypeOK'
<1> SUFFICES ASSUME TypeOK, LockInv', [Next]_vars PROVE TypeOK'
    OBVIOUS
<1> USE DEF devices, sweeps, history
<1>0. LockTypeOK'
    BY DEF LockInv
<1>1. ASSUME NEW w \in Worker, StartSweep(w) PROVE TypeOK'
  <2>1. \E how \in {"redis", "degraded", "local"}, t \in Token \cup {None} :
            leader' = [leader EXCEPT ![w] = Acquisition(how, t)]
    BY <1>1 DEF StartSweep, AcquireLocal, Acquire, AcquireDegraded
  <2>2. \A v \in Worker : Running(v) => Running(v)'
    BY <2>1 DEF Running, Acquisition, TypeOK, LockTypeOK
  <2>3. Running(w)'
    BY <2>1 DEF Running, Acquisition, TypeOK, LockTypeOK
  <2>4. todo' \in [Worker -> SUBSET Device] /\ \A v \in Worker : v # w => todo'[v] = todo[v]
    BY <1>1 DEF StartSweep, Sweeping, TypeOK
  <2>5. lapses' \in 0..MaxLapses
    BY <1>1, LapsesType DEF StartSweep, TypeOK
  <2>6. stale' \in [Worker -> SUBSET Device] /\ UNCHANGED <<devices, current, left, told, genuine>>
    BY <1>1 DEF StartSweep, TypeOK
  <2>7. \A v \in Worker : ~Running(v)' => todo'[v] = {} /\ current'[v] = None
    BY <2>2, <2>3, <2>4, <2>6 DEF TypeOK
  <2>8. QED
    BY <1>0, <2>4, <2>5, <2>6, <2>7 DEF TypeOK
<1>2. ASSUME NEW w \in Worker, EndSweep(w) PROVE TypeOK'
  <2>1. leader' = [leader EXCEPT ![w] = Waiting] /\ todo[w] = {} /\ current[w] = None
    BY <1>2 DEF EndSweep, Release, ReleaseFails
  <2>2. \A v \in Worker : v # w => (Running(v)' <=> Running(v))
    BY <2>1 DEF Running, TypeOK, LockTypeOK
  <2>3. UNCHANGED <<devices, sweeps, history>>
    BY <1>2 DEF EndSweep
  <2>4. QED
    BY <1>0, <2>1, <2>2, <2>3 DEF TypeOK
<1>3. ASSUME NEW w \in Worker, Die(w) PROVE TypeOK'
  <2>1. leader' = [leader EXCEPT ![w] = Waiting]
    BY <1>3 DEF Die, WorkerDies
  <2>2. \A v \in Worker : v # w => (Running(v)' <=> Running(v))
    BY <2>1 DEF Running, TypeOK, LockTypeOK
  <2>3. lapses' \in 0..MaxLapses
    BY <1>3, LapsesType DEF Die, TypeOK
  <2>4. /\ todo' = [todo EXCEPT ![w] = {}] /\ current' = [current EXCEPT ![w] = None]
        /\ left' = [left EXCEPT ![w] = 0] /\ UNCHANGED <<devices, stale, told, genuine>>
    BY <1>3 DEF Die
  <2>5. /\ todo' \in [Worker -> SUBSET Device] /\ current' \in [Worker -> Device \cup {None}]
        /\ left' \in [Worker -> 0..Channels]
    BY <2>4, MonitorConstants DEF TypeOK
  <2>6. \A v \in Worker : ~Running(v)' => todo'[v] = {} /\ current'[v] = None
    BY <2>2, <2>4 DEF TypeOK
  <2>7. \A v \in Worker : (left'[v] = 0) = (current'[v] = None)
    BY <2>4 DEF TypeOK
  <2>8. QED
    BY <1>0, <2>3, <2>4, <2>5, <2>6, <2>7 DEF TypeOK
<1>4. ASSUME NEW w \in Worker, NEW d \in Device, BeginAlert(w, d) PROVE TypeOK'
  <2>1. UNCHANGED leader /\ UNCHANGED <<devices, stale, lapses>>
    BY <1>4 DEF BeginAlert, lockVars
  <2>2. /\ todo' \in [Worker -> SUBSET Device] /\ current' \in [Worker -> Device \cup {None}]
        /\ left' \in [Worker -> 0..Channels]
    BY <1>4, MonitorConstants DEF BeginAlert, TypeOK
  <2>3. told' \in [Device -> 0..(MaxLapses + 1)] /\ genuine' \in [Device -> BOOLEAN]
    BY <1>4, MonitorConstants DEF BeginAlert, TypeOK
  <2>4. \A v \in Worker : ~Running(v)' => todo'[v] = {} /\ current'[v] = None
    <3>1. Running(w)
      BY <1>4 DEF BeginAlert, TypeOK
    <3>2. QED
      BY <1>4, <2>1, <3>1 DEF BeginAlert, TypeOK, Running
  <2>5. \A v \in Worker : (left'[v] = 0) = (current'[v] = None)
    BY <1>4, MonitorConstants DEF BeginAlert, TypeOK
  <2>6. QED
    BY <1>0, <2>1, <2>2, <2>3, <2>4, <2>5 DEF TypeOK
<1>5. ASSUME NEW w \in Worker, NEW n \in 1..Channels, NEW delivered \in BOOLEAN,
             NEW logged \in BOOLEAN, NextChannel(w, n, delivered, logged)
      PROVE  TypeOK'
  <2>1. /\ current[w] # None /\ current[w] \in Device /\ n <= left[w] /\ left[w] \in 0..Channels
        /\ UNCHANGED <<leader, silent, watched, todo, stale, told, genuine>>
    BY <1>5 DEF NextChannel, lockVars, TypeOK
  <2>2. marked' \in [Device -> BOOLEAN]
    BY <1>5, <2>1 DEF NextChannel, LogAlert, TypeOK
  <2>3. lapses' \in 0..MaxLapses
    BY <1>5, LapsesType DEF NextChannel, TypeOK
  <2>4. /\ left' = [left EXCEPT ![w] = left[w] - n]
        /\ current' = [current EXCEPT ![w] = IF left[w] = n THEN None ELSE current[w]]
    BY <1>5 DEF NextChannel
  <2>5. left[w] - n \in 0..Channels /\ (left[w] - n = 0 <=> left[w] = n)
    BY <2>1, MonitorConstants
  <2>6. left' \in [Worker -> 0..Channels] /\ current' \in [Worker -> Device \cup {None}]
    BY <2>1, <2>4, <2>5 DEF TypeOK
  <2>7. \A v \in Worker : (left'[v] = 0) = (current'[v] = None)
    BY <2>1, <2>4, <2>5 DEF TypeOK
  <2>8. \A v \in Worker : ~Running(v)' => todo'[v] = {} /\ current'[v] = None
    BY <2>1, <2>4 DEF TypeOK, Running
  <2>9. QED
    BY <1>0, <2>1, <2>2, <2>3, <2>6, <2>7, <2>8 DEF TypeOK
<1>6. ASSUME NEW d \in Device, Report(d) PROVE TypeOK'
  <2>1. UNCHANGED leader /\ UNCHANGED <<watched, sweeps, lapses>>
    BY <1>6 DEF Report, lockVars
  <2>2. /\ silent' \in [Device -> 0..(Threshold + 1)] /\ told' \in [Device -> 0..(MaxLapses + 1)]
        /\ marked' \in [Device -> BOOLEAN] /\ genuine' \in [Device -> BOOLEAN]
    BY <1>6, MonitorConstants DEF Report, TypeOK
  <2>3. stale' \in [Worker -> SUBSET Device]
    BY <1>6 DEF Report, TypeOK
  <2>4. QED
    BY <1>0, <2>1, <2>2, <2>3 DEF TypeOK, Running
<1>7. ASSUME NEW d \in Device, Watch(d) PROVE TypeOK'
    BY <1>0, <1>7 DEF Watch, lockVars, TypeOK, Running
<1>8. CASE Tick
  <2>1. lapses' \in 0..MaxLapses
    BY <1>8, LapsesType, Counted DEF Tick
  <2>2. silent' \in [Device -> 0..(Threshold + 1)]
    BY <1>8, MonitorConstants DEF Tick, TypeOK
  <2>3. \A w \in Worker : Running(w)' <=> Running(w)
    BY <1>8 DEF Tick, LockTick, Running, TypeOK, LockTypeOK
  <2>4. UNCHANGED <<watched, marked, sweeps, stale, told, genuine>>
    BY <1>8 DEF Tick
  <2>5. QED
    BY <1>0, <2>1, <2>2, <2>3, <2>4 DEF TypeOK
<1>9. CASE UNCHANGED vars
    BY <1>0, <1>9 DEF vars, lockVars, TypeOK, Running
<1>10. QED
    BY <1>1, <1>2, <1>3, <1>4, <1>5, <1>6, <1>7, <1>8, <1>9 DEF Next

-----------------------------------------------------------------------------
(* One alert for one silence *)

\* Counting sets of workers.
LEMMA CountWorkers ==
    ASSUME NEW S \in SUBSET Worker, NEW T \in SUBSET Worker
    PROVE  /\ S \subseteq T => Cardinality(S) <= Cardinality(T)
           /\ \A w \in Worker : S \subseteq T \cup {w} => Cardinality(S) <= Cardinality(T) + 1
           /\ \A w \in T : S \subseteq T \ {w} => Cardinality(S) + 1 <= Cardinality(T)
<1>1. /\ IsFiniteSet(S) /\ Cardinality(S) \in Nat /\ IsFiniteSet(T) /\ Cardinality(T) \in Nat
    BY Counted
<1>2. S \subseteq T => Cardinality(S) <= Cardinality(T)
    BY <1>1, FS_Subset
<1>3. ASSUME NEW w \in Worker, S \subseteq T \cup {w}
      PROVE  Cardinality(S) <= Cardinality(T) + 1
  <2>1. IsFiniteSet(T \cup {w}) /\ Cardinality(T \cup {w}) =
            IF w \in T THEN Cardinality(T) ELSE Cardinality(T) + 1
    BY <1>1, FS_AddElement
  <2>2. S \in SUBSET (T \cup {w})
    BY <1>3
  <2>3. Cardinality(S) <= Cardinality(T \cup {w})
    BY <2>1, <2>2, FS_Subset
  <2>4. QED
    BY <1>1, <2>1, <2>3
<1>4. ASSUME NEW w \in T, S \subseteq T \ {w}
      PROVE  Cardinality(S) + 1 <= Cardinality(T)
  <2>1. IsFiniteSet(T \ {w}) /\ Cardinality(T \ {w}) = Cardinality(T) - 1
    BY <1>1, FS_RemoveElement
  <2>2. S \in SUBSET (T \ {w})
    BY <1>4
  <2>3. Cardinality(S) <= Cardinality(T \ {w})
    BY <2>1, <2>2, FS_Subset
  <2>4. QED
    BY <1>1, <2>1, <2>3
<1>5. QED
    BY <1>2, <1>3, <1>4

\* No two sweeps are entitled: the leader's is the one the key belongs to.
LEMMA EntitledOnce ==
    ASSUME LockInv, NEW v \in Worker, NEW w \in Worker, Entitled(v), Entitled(w)
    PROVE  v = w
    BY DEF Entitled, LockInv, LeaderHoldsKey, TokensDiffer, TokensKept, Leads

\* Below the bound the history counts every lapse.
LEMMA LapsesGrow ==
    ASSUME TypeOK, NEW n \in Nat, Lapses(n) < MaxLapses
    PROVE  lapses < MaxLapses /\ Lapses(n) = lapses + n
    BY MonitorConstants DEF TypeOK, Lapses

\* What AlertsExcused says of one device.
Excused(d) ==
    told[d] + Cardinality(Pending(d)) <= lapses + (IF marked[d] THEN 1 ELSE Owed(d))

\* The numbers that Excused compares.
LEMMA Numbers ==
    ASSUME TypeOK, NEW d \in Device
    PROVE  /\ told[d] \in Nat /\ lapses \in Nat /\ Owed(d) \in {0, 1} /\ marked[d] \in BOOLEAN
           /\ Pending(d) \in SUBSET Worker /\ Cardinality(Pending(d)) \in Nat
           /\ Excess \in SUBSET Worker /\ Cardinality(Excess) \in Nat
<1>1. Pending(d) \in SUBSET Worker /\ Excess \in SUBSET Worker
    BY DEF Pending, Excess
<1>2. QED
    BY <1>1, Counted, MonitorConstants DEF TypeOK, Owed

\* A new sweep is the leader's, which no other is entitled to beside, or has a
\* lapse of its own.
LEMMA StartStep ==
    ASSUME TypeOK, TypeOK', LockInv, SweepsExcused, AlertsExcused,
           NEW w \in Worker, StartSweep(w)
    PROVE  SweepsExcused' /\ AlertsExcused'
<1>1. leader[w] = Waiting /\ \E how \in {"redis", "degraded", "local"}, t \in Token \cup {None} :
            leader' = [leader EXCEPT ![w] = Acquisition(how, t)]
    BY DEF StartSweep, AcquireLocal, Acquire, AcquireDegraded
<1>2. /\ ~Running(w) /\ ~Entitled(w) /\ todo[w] = {} /\ current[w] = None
    BY <1>1 DEF Waiting, Running, Entitled, TypeOK
<1>3. \A v \in Worker : v # w => /\ leader'[v] = leader[v]
                                 /\ todo'[v] = todo[v] /\ current'[v] = current[v]
    BY <1>1 DEF StartSweep, Sweeping, TypeOK, LockTypeOK
<1>4. /\ \A d \in todo'[w] : ~marked[d]
      /\ UNCHANGED <<told, marked, current>>
    BY <1>2 DEF StartSweep, Sweeping, TypeOK, Overdue, devices
<1>5. \A v \in Worker : v # w => (Entitled(v)' <=> Entitled(v)) /\ (Running(v)' <=> Running(v))
    BY <1>3 DEF Entitled, Running
<1>6. \A d \in Device : /\ Pending(d)' \subseteq Pending(d) \cup {w}
                        /\ (d \notin todo'[w] => Pending(d)' \subseteq Pending(d))
                        /\ Owed(d) = 1 => Owed(d)' = 1
    BY <1>2, <1>3, <1>5 DEF Pending, Owed
<1>7. /\ Excess \in SUBSET Worker /\ Excess' \in SUBSET Worker
      /\ \A d \in Device : Pending(d)' \in SUBSET Worker
    BY DEF Pending, Excess
<1>8. \A d \in Device :
        /\ Cardinality(Pending(d)') \in Nat
        /\ Cardinality(Pending(d)') <= Cardinality(Pending(d)) + 1
        /\ d \notin todo'[w] => Cardinality(Pending(d)') <= Cardinality(Pending(d))
    BY <1>6, <1>7, Counted, CountWorkers, Numbers
<1>9. CASE lapses' = lapses /\ Entitled(w)' /\ \A v \in Worker : ~Entitled(v)
  <2>1. Cardinality(Excess') <= Cardinality(Excess)
    <3>1. Excess' \subseteq Excess
      BY <1>5, <1>9 DEF Excess
    <3>2. QED
      BY <3>1, <1>7, CountWorkers
  <2>2. Cardinality(Excess) \in Nat /\ Cardinality(Excess') \in Nat /\ lapses \in Nat
    BY <1>7, Counted, MonitorConstants DEF TypeOK
  <2>3. SweepsExcused'
    BY <1>9, <2>1, <2>2 DEF SweepsExcused
  <2>4. ASSUME NEW d \in Device, lapses < MaxLapses PROVE Excused(d)'
    <3>1. Excused(d) /\ Owed(d) = 0
      BY <1>9, <2>4 DEF AlertsExcused, Excused, Owed
    <3>2. d \in todo'[w] => ~marked[d] /\ Owed(d)' = 1
      BY <1>4, <1>9 DEF Owed
    <3>3. Owed(d)' \in {0, 1}
      BY DEF Owed
    <3>4. told[d] + Cardinality(Pending(d)') <= lapses + (IF marked[d] THEN 1 ELSE Owed(d)')
      BY <1>8, <3>1, <3>2, <3>3, Numbers DEF Excused
    <3>5. QED
      BY <1>4, <1>9, <3>4 DEF Excused
  <2>5. QED
    BY <1>9, <2>3, <2>4 DEF AlertsExcused, Excused
<1>10. CASE lapses' = Lapses(1)
  <2> SUFFICES ASSUME lapses' < MaxLapses
               PROVE  Cardinality(Excess') <= lapses' /\ \A d \in Device : Excused(d)'
    BY DEF SweepsExcused, AlertsExcused, Excused
  <2>1. lapses < MaxLapses /\ lapses' = lapses + 1
    BY <1>10, LapsesGrow
  <2>2. Cardinality(Excess') <= Cardinality(Excess) + 1
    <3>1. Excess' \subseteq Excess \cup {w}
      BY <1>5 DEF Excess
    <3>2. QED
      BY <3>1, <1>7, CountWorkers
  <2>3. Cardinality(Excess) \in Nat /\ Cardinality(Excess') \in Nat /\ lapses \in Nat
    BY <1>7, Counted, MonitorConstants DEF TypeOK
  <2>4. Cardinality(Excess') <= lapses'
    BY <2>1, <2>2, <2>3 DEF SweepsExcused
  <2>5. ASSUME NEW d \in Device PROVE Excused(d)'
    <3>1. Excused(d)
      BY <2>1 DEF AlertsExcused, Excused
    <3>2. Owed(d)' \in {0, 1} /\ (Owed(d) = 1 => Owed(d)' = 1)
      BY <1>6 DEF Owed
    <3>3. told[d] + Cardinality(Pending(d)') <= lapses + 1 + (IF marked[d] THEN 1 ELSE Owed(d)')
      BY <1>8, <3>1, <3>2, Numbers DEF Excused
    <3>4. QED
      BY <1>4, <2>1, <3>3 DEF Excused
  <2>6. QED
    BY <2>4, <2>5
<1>11. \/ lapses' = Lapses(1)
       \/ lapses' = lapses /\ Entitled(w)' /\ \A v \in Worker : ~Entitled(v)
  <2>1. CASE AcquireLocal(w) /\ lapses' = IF Worker = {w} THEN lapses ELSE Lapses(1)
    <3>1. CASE Worker = {w}
      <4>1. leader'[w] = Acquisition("local", None)
        BY <2>1 DEF AcquireLocal, TypeOK, LockTypeOK
      <4>2. Entitled(w)'
        BY <3>1, <4>1, LockConstants DEF Entitled, Acquisition
      <4>3. QED
        BY <1>2, <2>1, <3>1, <4>2
    <3>2. QED
      BY <2>1, <3>1
  <2>2. ASSUME NEW t \in Token, Acquire(w, t), lapses' = lapses
        PROVE  Entitled(w)' /\ \A v \in Worker : ~Entitled(v)
    <3>1. leader'[w] = Acquisition("redis", t) /\ w \in Connected
      BY <2>2 DEF Acquire, TypeOK, LockTypeOK
    <3>2. Entitled(w)'
      BY <3>1, LockConstants DEF Entitled, Acquisition
    <3>3. lock = NoLock
      BY <2>2 DEF Acquire, Taken, FreshToken
    <3>4. ASSUME NEW v \in Worker, Entitled(v) PROVE FALSE
      <4>1. v # w
        BY <1>2, <3>4
      <4>2. Leads(v)
        BY <3>4, <4>1 DEF Entitled, Leads
      <4>3. leader[v].age < TTL /\ leader[v].age \in Nat /\ lock.left = TTL - leader[v].age
        BY <3>4, <4>2 DEF Entitled, LockInv, LockTypeOK, LeaderHoldsKey
      <4>4. QED
        BY <3>3, <4>3, LockConstants DEF NoLock
    <3>5. QED
      BY <3>2, <3>4
  <2>3. QED
    BY <2>1, <2>2 DEF StartSweep
<1>12. QED
    BY <1>9, <1>10, <1>11

\* An alert that begins is one that was pending.
LEMMA BeginStep ==
    ASSUME TypeOK, SweepsExcused, AlertsExcused,
           NEW w \in Worker, NEW c \in Device, BeginAlert(w, c)
    PROVE  SweepsExcused' /\ AlertsExcused'
<1>1. UNCHANGED <<leader, marked, lapses>>
    BY DEF BeginAlert, lockVars, devices
<1>2. SweepsExcused'
    BY <1>1 DEF SweepsExcused, Excess, Entitled, Running
<1>3. ASSUME NEW d \in Device, lapses < MaxLapses PROVE Excused(d)'
  <2>1. Excused(d)
    BY <1>3 DEF AlertsExcused, Excused
  <2>2. Owed(d)' = Owed(d)
    <3>1. \A v \in Worker : (d \in todo'[v] \/ current'[v] = d) <=> (d \in todo[v] \/ current[v] = d)
      BY MonitorConstants DEF BeginAlert, TypeOK
    <3>2. QED
      BY <1>1, <3>1 DEF Owed, Entitled
  <2>3. Pending(d)' \in SUBSET Worker /\ Cardinality(Pending(d)') \in Nat
    BY Counted DEF Pending
  <2>4. CASE d = c
    <3>1. w \in Pending(d) /\ Pending(d)' \subseteq Pending(d) \ {w}
      BY <2>4 DEF BeginAlert, TypeOK, Pending
    <3>2. Cardinality(Pending(d)') + 1 <= Cardinality(Pending(d))
      BY <2>3, <3>1, Numbers, CountWorkers
    <3>3. told'[d] \in {told[d], told[d] + 1}
      BY <2>4 DEF BeginAlert, TypeOK
    <3>4. QED
      BY <1>1, <2>1, <2>2, <2>3, <3>2, <3>3, Numbers DEF Excused
  <2>5. CASE d # c
    <3>1. Pending(d)' = Pending(d) /\ told'[d] = told[d]
      BY <2>5 DEF BeginAlert, TypeOK, Pending
    <3>2. QED
      BY <1>1, <2>1, <2>2, <3>1 DEF Excused
  <2>6. QED
    BY <2>4, <2>5
<1>4. QED
    BY <1>1, <1>2, <1>3 DEF AlertsExcused, Excused

\* An alert that ends leaves a row, or counts a lapse.
LEMMA ChannelStep ==
    ASSUME TypeOK, TypeOK', SweepsExcused, AlertsExcused, NEW w \in Worker, NEW n \in 1..Channels,
           NEW delivered \in BOOLEAN, NEW logged \in BOOLEAN,
           NextChannel(w, n, delivered, logged)
    PROVE  SweepsExcused' /\ AlertsExcused'
<1> DEFINE c == current[w]
<1>1. /\ c \in Device /\ UNCHANGED <<leader, todo, told>>
      /\ \A d \in Device : d # c => marked'[d] = marked[d]
      /\ marked[c] => marked'[c]
      /\ \A v \in Worker : v # w => current'[v] = current[v]
      /\ current'[w] = c \/ (current'[w] = None /\ (marked'[c] \/ lapses' = Lapses(1)))
      /\ lapses' = lapses \/ lapses' = Lapses(1)
  <2>1. c \in Device
    BY DEF NextChannel, TypeOK
  <2>2. marked' = [marked EXCEPT ![c] = marked[c] \/ (logged /\ silent[c] > 0)]
    BY DEF NextChannel, LogAlert
  <2>3. marked'[c] = (marked[c] \/ (logged /\ silent[c] > 0))
    BY <2>1, <2>2 DEF TypeOK
  <2>4. silent[c] \in Nat
    BY <2>1, MonitorConstants DEF TypeOK
  <2>5. ~marked'[c] => ~logged \/ silent[c] = 0
    BY <2>3, <2>4
  <2>6. marked[c] => marked'[c]
    BY <2>3
  <2>7. /\ lapses' = IF left[w] = n /\ ~marked'[c] /\ (~logged \/ silent[c] = 0)
                     THEN Lapses(1) ELSE lapses
        /\ current' = [current EXCEPT ![w] = IF left[w] = n THEN None ELSE c]
        /\ UNCHANGED <<leader, todo, told>>
    BY DEF NextChannel, lockVars
  <2>8. current'[w] = (IF left[w] = n THEN None ELSE c)
        /\ \A v \in Worker : v # w => current'[v] = current[v]
    BY <2>7 DEF TypeOK
  <2>9. current'[w] = c \/ (current'[w] = None /\ (marked'[c] \/ lapses' = Lapses(1)))
    BY <2>5, <2>7, <2>8
  <2>10. QED
    BY <2>1, <2>2, <2>6, <2>7, <2>8, <2>9 DEF TypeOK
<1> HIDE DEF c
<1> SUFFICES ASSUME lapses' < MaxLapses
             PROVE  Cardinality(Excess') <= lapses' /\ \A d \in Device : Excused(d)'
    BY DEF SweepsExcused, AlertsExcused, Excused
<1>2. /\ lapses \in Nat /\ lapses' \in Nat /\ lapses <= lapses' /\ lapses < MaxLapses
      /\ lapses' = Lapses(1) => lapses' = lapses + 1
    BY <1>1, LapsesGrow, MonitorConstants DEF TypeOK
<1>3. Excess' = Excess /\ Cardinality(Excess) \in Nat
    BY <1>1, Counted DEF Excess, Entitled, Running
<1>4. Cardinality(Excess') <= lapses'
    BY <1>2, <1>3 DEF SweepsExcused
<1>5. ASSUME NEW d \in Device PROVE Excused(d)'
  <2>1. Excused(d)
    BY <1>2 DEF AlertsExcused, Excused
  <2>2. Pending(d)' = Pending(d) /\ told'[d] = told[d]
    BY <1>1 DEF Pending
  <2>3. Owed(d)' \in {0, 1} /\ marked'[d] \in BOOLEAN
    BY DEF Owed, TypeOK
  <2>4. \/ marked'[d]
        \/ ~marked[d] /\ (Owed(d) = 1 => Owed(d)' = 1)
        \/ ~marked[d] /\ lapses' = lapses + 1
    <3>1. CASE d # c
      <4>1. marked'[d] = marked[d]
        BY <1>1, <3>1
      <4>2. \A v \in Worker : current[v] = d => current'[v] = d
        BY <1>1, <3>1 DEF c
      <4>3. Owed(d) = 1 => Owed(d)' = 1
        BY <1>1, <4>2 DEF Owed, Entitled
      <4>4. QED
        BY <4>1, <4>3, Numbers
    <3>2. CASE d = c
      <4>1. CASE current'[w] = c
        <5>1. \A v \in Worker : current[v] = d => current'[v] = d
          BY <1>1, <3>2, <4>1
        <5>2. Owed(d) = 1 => Owed(d)' = 1
          BY <1>1, <5>1 DEF Owed, Entitled
        <5>3. QED
          BY <1>1, <3>2, <5>2
      <4>2. CASE marked'[c]
        BY <3>2, <4>2
      <4>3. CASE lapses' = Lapses(1)
        BY <1>1, <1>2, <3>2, <4>3
      <4>4. QED
        BY <1>1, <4>1, <4>2, <4>3
    <3>3. QED
      BY <3>1, <3>2
  <2>5. told[d] + Cardinality(Pending(d)) <= lapses' + (IF marked'[d] THEN 1 ELSE Owed(d)')
    BY <1>2, <2>1, <2>3, <2>4, Numbers DEF Excused
  <2>6. QED
    BY <2>2, <2>5 DEF Excused
<1>6. QED
    BY <1>4, <1>5

\* A sweep that ends, or dies in the middle of an alert without a row and
\* counts a lapse.
LEMMA LeaveSweepStep ==
    ASSUME TypeOK, TypeOK', SweepsExcused, AlertsExcused, NEW w \in Worker, EndSweep(w) \/ Die(w)
    PROVE  SweepsExcused' /\ AlertsExcused'
<1>1. /\ leader' = [leader EXCEPT ![w] = Waiting] /\ UNCHANGED <<marked, told>>
      /\ todo'[w] = {} /\ current'[w] = None
      /\ \A v \in Worker : v # w => todo'[v] = todo[v] /\ current'[v] = current[v]
      /\ current[w] # None /\ ~marked[current[w]] => lapses' = Lapses(1)
      /\ lapses' = lapses \/ lapses' = Lapses(1)
  <2>1. CASE EndSweep(w)
    BY <2>1 DEF EndSweep, Release, ReleaseFails, devices, sweeps, history
  <2>2. CASE Die(w)
    BY <2>2 DEF Die, WorkerDies, devices, TypeOK
  <2>3. QED
    BY <2>1, <2>2
<1>2. /\ ~Running(w)' /\ ~Entitled(w)'
      /\ \A v \in Worker : v # w => (Entitled(v)' <=> Entitled(v)) /\ (Running(v)' <=> Running(v))
    BY <1>1 DEF Waiting, Running, Entitled, TypeOK, LockTypeOK
<1> SUFFICES ASSUME lapses' < MaxLapses
             PROVE  Cardinality(Excess') <= lapses' /\ \A d \in Device : Excused(d)'
    BY DEF SweepsExcused, AlertsExcused, Excused
<1>3. /\ lapses \in Nat /\ lapses' \in Nat /\ lapses <= lapses' /\ lapses < MaxLapses
      /\ lapses' = Lapses(1) => lapses' = lapses + 1
    BY <1>1, LapsesGrow, MonitorConstants DEF TypeOK
<1>4. Cardinality(Excess') <= lapses'
  <2>1. Excess' \subseteq Excess /\ Excess \in SUBSET Worker /\ Excess' \in SUBSET Worker
    BY <1>2 DEF Excess
  <2>2. Cardinality(Excess') <= Cardinality(Excess)
    BY <2>1, CountWorkers
  <2>3. Cardinality(Excess) \in Nat /\ Cardinality(Excess') \in Nat
    BY <2>1, Counted
  <2>4. QED
    BY <1>3, <2>2, <2>3 DEF SweepsExcused
<1>5. ASSUME NEW d \in Device PROVE Excused(d)'
  <2>1. Excused(d)
    BY <1>3 DEF AlertsExcused, Excused
  <2>2. /\ Pending(d)' \in SUBSET Worker /\ Cardinality(Pending(d)') \in Nat
        /\ Owed(d)' \in {0, 1}
    BY Counted DEF Pending, Owed
  <2>3. CASE d \in todo[w]
    <3>1. w \in Pending(d) /\ Pending(d)' \subseteq Pending(d) \ {w}
      BY <1>1, <2>3 DEF Pending
    <3>2. Cardinality(Pending(d)') + 1 <= Cardinality(Pending(d))
      BY <2>2, <3>1, Numbers, CountWorkers
    <3>3. QED
      BY <1>1, <1>3, <2>1, <2>2, <3>2, Numbers DEF Excused
  <2>4. CASE d \notin todo[w]
    <3>1. Pending(d)' \subseteq Pending(d)
      BY <1>1 DEF Pending
    <3>2. Cardinality(Pending(d)') <= Cardinality(Pending(d))
      BY <2>2, <3>1, Numbers, CountWorkers
    <3>3. CASE current[w] = d /\ ~marked[d]
      <4>1. lapses' = lapses + 1
        BY <1>1, <1>3, <3>3, MonitorConstants
      <4>2. QED
        BY <1>1, <2>1, <2>2, <3>2, <4>1, Numbers DEF Excused
    <3>4. CASE marked[d]
      BY <1>1, <1>3, <2>1, <2>2, <3>2, <3>4, Numbers DEF Excused
    <3>5. CASE current[w] # d
      <4>1. Owed(d) = 1 => Owed(d)' = 1
        BY <1>1, <1>2, <2>4, <3>5 DEF Owed
      <4>2. QED
        BY <1>1, <1>3, <2>1, <2>2, <3>2, <4>1, Numbers DEF Excused
    <3>6. QED
      BY <3>3, <3>4, <3>5
  <2>5. QED
    BY <2>3, <2>4
<1>6. QED
    BY <1>4, <1>5

\* When a device reports, what is still pending about it is at most the entitled
\* sweep's alert, and one alert for each sweep that a lapse excuses.
LEMMA ReportStep ==
    ASSUME TypeOK, LockInv, SweepsExcused, AlertsExcused, NEW c \in Device, Report(c)
    PROVE  SweepsExcused' /\ AlertsExcused'
<1>1. /\ UNCHANGED <<leader, todo, current, lapses>>
      /\ told'[c] = 0 /\ marked'[c] = FALSE
      /\ \A d \in Device : d # c => told'[d] = told[d] /\ marked'[d] = marked[d]
    BY DEF Report, lockVars, sweeps, TypeOK
<1>2. Excess' = Excess /\ SweepsExcused'
    BY <1>1 DEF SweepsExcused, Excess, Entitled, Running
<1>3. ASSUME NEW d \in Device, lapses < MaxLapses PROVE Excused(d)'
  <2>1. Pending(d)' = Pending(d) /\ Owed(d)' = Owed(d)
    BY <1>1 DEF Pending, Owed, Entitled
  <2>2. CASE d # c
    BY <1>1, <1>3, <2>1, <2>2 DEF AlertsExcused, Excused
  <2>3. CASE d = c
    <3>1. Cardinality(Excess) <= lapses
      BY <1>3 DEF SweepsExcused
    <3>2. \A v \in Pending(c) : Running(v) /\ (v \in Excess \/ Entitled(v))
      BY DEF Pending, Excess, TypeOK
    <3>3. CASE \E v \in Pending(c) : Entitled(v)
      <4>1. PICK v \in Pending(c) : Entitled(v)
        BY <3>3
      <4>2. Pending(c) \subseteq Excess \cup {v}
        BY <3>2, <4>1, EntitledOnce DEF Pending
      <4>3. Cardinality(Pending(c)) <= Cardinality(Excess) + 1 /\ v \in Worker
        BY <4>1, <4>2, Numbers, CountWorkers
      <4>4. Owed(c) = 1
        BY <4>1, <4>3 DEF Owed, Pending
      <4>5. QED
        BY <1>1, <2>1, <2>3, <3>1, <4>3, <4>4, Numbers DEF Excused
    <3>4. CASE ~\E v \in Pending(c) : Entitled(v)
      <4>1. Cardinality(Pending(c)) <= Cardinality(Excess)
        BY <3>2, <3>4, Numbers, CountWorkers
      <4>2. QED
        BY <1>1, <2>1, <2>3, <3>1, <4>1, Numbers DEF Excused
    <3>5. QED
      BY <3>3, <3>4
  <2>4. QED
    BY <2>2, <2>3
<1>4. QED
    BY <1>1, <1>2, <1>3 DEF AlertsExcused, Excused

\* A sweep that outlives the key is entitled no more, and counts a lapse.
LEMMA TimeStep ==
    ASSUME TypeOK, TypeOK', LockInv, SweepsExcused, AlertsExcused, Tick
    PROVE  SweepsExcused' /\ AlertsExcused'
<1> DEFINE expiring == {w \in Worker : Running(w) /\ leader[w].age = TTL - 1}
<1>1. /\ lapses' = Lapses(Cardinality(expiring)) /\ UNCHANGED <<todo, current, told, marked>>
      /\ \A w \in Worker : leader'[w] = IF Running(w) THEN [leader[w] EXCEPT !.age = @ + 1]
                                        ELSE leader[w]
    BY DEF Tick, LockTick, sweeps
<1>2. expiring \in SUBSET Worker /\ Cardinality(expiring) \in Nat
    BY Counted
<1>3. \A w \in Worker : /\ Running(w)' <=> Running(w)
                        /\ Entitled(w) /\ w \notin expiring => Entitled(w)'
  <2> SUFFICES ASSUME NEW w \in Worker
               PROVE  /\ Running(w)' <=> Running(w)
                      /\ Entitled(w) /\ w \notin expiring => Entitled(w)'
    OBVIOUS
  <2>1. leader[w] \in [won: {"no", "redis", "degraded", "local"},
                       token: Token \cup {None}, age: Nat]
    BY DEF TypeOK, LockTypeOK
  <2>2. Running(w)' <=> Running(w)
    BY <1>1, <2>1 DEF Running
  <2>3. ASSUME Entitled(w), w \notin expiring PROVE Entitled(w)'
    <3>1. Running(w)
      BY <2>3 DEF Entitled, Running
    <3>2. leader'[w].won = leader[w].won /\ leader'[w].age = leader[w].age + 1
      BY <1>1, <2>1, <3>1
    <3>3. leader[w].age + 1 < TTL
      BY <2>1, <2>3, <3>1, LockConstants DEF Entitled
    <3>4. QED
      BY <2>3, <3>2, <3>3 DEF Entitled
  <2>4. QED
    BY <2>2, <2>3
<1> HIDE DEF expiring
<1> SUFFICES ASSUME lapses' < MaxLapses
             PROVE  Cardinality(Excess') <= lapses' /\ \A d \in Device : Excused(d)'
    BY DEF SweepsExcused, AlertsExcused, Excused
<1>4. lapses \in Nat /\ lapses < MaxLapses /\ lapses' = lapses + Cardinality(expiring)
    BY <1>1, <1>2, LapsesGrow, MonitorConstants DEF TypeOK
<1>5. ASSUME NEW w \in Worker, w \in expiring PROVE lapses' >= lapses + 1
  <2>1. {} \subseteq expiring \ {w}
    OBVIOUS
  <2>2. Cardinality({}) + 1 <= Cardinality(expiring)
    BY <1>2, <1>5, <2>1, CountWorkers
  <2>3. QED
    BY <1>2, <1>4, <2>2, FS_EmptySet
<1>6. Excess \in SUBSET Worker /\ Excess' \in SUBSET Worker
    BY DEF Excess
<1>7. Cardinality(Excess) \in Nat /\ Cardinality(Excess') \in Nat /\ Cardinality(Excess) <= lapses
    BY <1>4, <1>6, Counted DEF SweepsExcused
<1>8. Cardinality(Excess') <= lapses'
  <2>1. CASE \E w \in Worker : Entitled(w) /\ w \in expiring
    <3>1. PICK w \in Worker : Entitled(w) /\ w \in expiring
      BY <2>1
    <3>2. Excess' \subseteq Excess \cup {w}
      BY <1>3, <3>1, EntitledOnce DEF Excess
    <3>3. Cardinality(Excess') <= Cardinality(Excess) + 1
      BY <1>6, <3>2, CountWorkers
    <3>4. lapses' >= lapses + 1
      BY <1>5, <3>1
    <3>5. QED
      BY <1>4, <1>2, <1>7, <3>3, <3>4
  <2>2. CASE ~\E w \in Worker : Entitled(w) /\ w \in expiring
    <3>1. Excess' \subseteq Excess
      BY <1>3, <2>2 DEF Excess
    <3>2. Cardinality(Excess') <= Cardinality(Excess)
      BY <1>6, <3>1, CountWorkers
    <3>3. QED
      BY <1>2, <1>4, <1>7, <3>2
  <2>3. QED
    BY <2>1, <2>2
<1>9. ASSUME NEW d \in Device PROVE Excused(d)'
  <2>1. Excused(d)
    BY <1>4 DEF AlertsExcused, Excused
  <2>2. Pending(d)' = Pending(d) /\ told'[d] = told[d] /\ marked'[d] = marked[d]
    BY <1>1 DEF Pending
  <2>3. lapses' \in Nat /\ lapses' >= lapses /\ Owed(d)' \in {0, 1}
    BY <1>2, <1>4 DEF Owed
  <2>4. (Owed(d) = 1 => Owed(d)' = 1) \/ lapses' >= lapses + 1
    BY <1>1, <1>3, <1>5 DEF Owed
  <2>5. told[d] + Cardinality(Pending(d)) <= lapses' + (IF marked[d] THEN 1 ELSE Owed(d)')
    BY <2>1, <2>3, <2>4, Numbers DEF Excused
  <2>6. QED
    BY <2>2, <2>5 DEF Excused
<1>10. QED
    BY <1>8, <1>9

\* The invariant on which OncePerIncident rests is inductive.
THEOREM MonitorInvHolds == Spec => []MonitorInv
<1>1. Init => MonitorInv
  <2> SUFFICES ASSUME Init PROVE MonitorInv
    OBVIOUS
  <2>1. TypeOK /\ LockInv
    BY MonitorTypeInit, InitInv DEF Init
  <2>2. Excess = {} /\ \A d \in Device : Pending(d) = {} /\ told[d] = 0
    BY DEF Init, LockInit, Excess, Pending, Running, Waiting
  <2>3. lapses = 0 /\ Cardinality({}) = 0 /\ \A d \in Device : Owed(d) \in {0, 1}
    BY FS_EmptySet DEF Init, Owed
  <2>4. SweepsExcused /\ AlertsExcused
    BY <2>2, <2>3 DEF SweepsExcused, AlertsExcused
  <2>5. QED
    BY <2>1, <2>4 DEF MonitorInv
<1>2. [Next]_vars => [LockNext]_lockVars
  <2> SUFFICES ASSUME [Next]_vars PROVE [LockNext]_lockVars
    OBVIOUS
  <2>1. ASSUME NEW w \in Worker, StartSweep(w) \/ EndSweep(w) \/ Die(w) PROVE LockNext
    BY <2>1 DEF StartSweep, EndSweep, Die, LockNext
  <2>2. CASE Tick
    BY <2>2 DEF Tick, LockNext
  <2>3. CASE UNCHANGED lockVars
    BY <2>3
  <2>4. QED
    BY <2>1, <2>2, <2>3 DEF Next, vars, BeginAlert, NextChannel, Report, Watch
<1>3. MonitorInv /\ [Next]_vars => MonitorInv'
  <2> SUFFICES ASSUME MonitorInv, [Next]_vars PROVE MonitorInv'
    OBVIOUS
  <2> USE DEF MonitorInv
  <2>1. LockInv'
    BY <1>2, InvStep
  <2>2. TypeOK'
    BY <2>1, MonitorTypeStep
  <2>3. ASSUME NEW w \in Worker, StartSweep(w) PROVE SweepsExcused' /\ AlertsExcused'
    BY <2>2, <2>3, StartStep
  <2>4. ASSUME NEW w \in Worker, EndSweep(w) \/ Die(w) PROVE SweepsExcused' /\ AlertsExcused'
    BY <2>2, <2>4, LeaveSweepStep
  <2>5. ASSUME NEW w \in Worker, NEW d \in Device, BeginAlert(w, d)
        PROVE  SweepsExcused' /\ AlertsExcused'
    BY <2>5, BeginStep
  <2>6. ASSUME NEW w \in Worker, NEW n \in 1..Channels, NEW delivered \in BOOLEAN,
               NEW logged \in BOOLEAN, NextChannel(w, n, delivered, logged)
        PROVE  SweepsExcused' /\ AlertsExcused'
    BY <2>2, <2>6, ChannelStep
  <2>7. ASSUME NEW d \in Device, Report(d) PROVE SweepsExcused' /\ AlertsExcused'
    BY <2>7, ReportStep
  <2>8. ASSUME Tick PROVE SweepsExcused' /\ AlertsExcused'
    BY <2>2, <2>8, TimeStep
  <2>9. ASSUME UNCHANGED <<leader, marked, todo, current, told, lapses>>
        PROVE  SweepsExcused' /\ AlertsExcused'
    BY <2>9 DEF SweepsExcused, AlertsExcused, Excess, Pending, Owed, Entitled, Running
  <2>10. SweepsExcused' /\ AlertsExcused'
    BY <2>3, <2>4, <2>5, <2>6, <2>7, <2>8, <2>9
    DEF Next, Watch, vars, lockVars, devices, sweeps, history
  <2>11. QED
    BY <2>1, <2>2, <2>10
<1>4. QED
    BY <1>1, <1>3, PTL DEF Spec

\* Every variable of the monitor stays within its type, and only a worker that
\* runs the task has a sweep.
THEOREM MonitorTypeCorrect == Spec => []TypeOK
<1>1. MonitorInv => TypeOK
    BY DEF MonitorInv
<1>2. QED
    BY <1>1, MonitorInvHolds, PTL

\* An owner is alerted once about one silence, and once more for each lapse,
\* however many workers sweep how many devices ("once per incident, never on
\* every sweep").
THEOREM OncePerIncidentHolds == Spec => []OncePerIncident
<1>1. MonitorInv => OncePerIncident
  <2> SUFFICES ASSUME MonitorInv, lapses < MaxLapses, NEW d \in Device
               PROVE  told[d] <= 1 + lapses
    BY DEF OncePerIncident
  <2>1. told[d] + Cardinality(Pending(d)) <= lapses + (IF marked[d] THEN 1 ELSE Owed(d))
    BY DEF MonitorInv, AlertsExcused
  <2>2. QED
    BY <2>1, Numbers DEF MonitorInv
<1>2. QED
    BY <1>1, MonitorInvHolds, PTL
=============================================================================
