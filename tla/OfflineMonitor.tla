--------------------------- MODULE OfflineMonitor ---------------------------
(***************************************************************************)
(* The offline monitor of offline_monitor.py: every worker's loop acquires  *)
(* the leader lock, takes a snapshot of the devices that have gone silent   *)
(* and have no device_offline row newer than their last_seen, and alerts    *)
(* their owners one device and one channel at a time.  The alerts table is  *)
(* the deduplication record; it is written after each channel's send, by    *)
(* AlertEngine._log_alert.                                                  *)
(*                                                                         *)
(* Between the snapshot and the last row, devices report back, are marked   *)
(* stolen or change owner, workers die and inserts fail.                    *)
(*                                                                         *)
(* Time is relative here too: how long each device has been silent, and     *)
(* whether its newest device_offline row is newer than its last_seen.       *)
(***************************************************************************)
EXTENDS LeaderLock

CONSTANTS
    Device,
    Threshold,   \* MT_OFFLINE_ALERT_MINUTES, at least 10 minutes
    Channels,    \* channels an alert goes out on (email, SMS, push, WhatsApp)
    MaxLapses    \* bound on the history: lapses are counted up to it

ASSUME MonitorConstants ==
    /\ None \notin Device
    /\ IsFiniteSet(Worker)
    /\ Threshold \in Nat \ {0}
    /\ Channels \in Nat \ {0}
    /\ MaxLapses \in Nat \ {0}

VARIABLES
    silent,    \* time since last_seen
    watched,   \* the device has an owner and is not stolen
    marked,    \* a device_offline row has sent_at > last_seen
    todo,      \* the rest of each worker's snapshot
    current,   \* the device each worker is alerting
    left,      \* channels of that alert still to go out
    stale,     \* history: devices of each snapshot that reported since it was taken
    told,      \* history: alerts begun since the device last reported
    genuine,   \* history: one of those was about the silence that lasts
    lapses     \* history: events that excuse one more alert

devices == <<silent, watched, marked>>
sweeps  == <<todo, current, left>>
history == <<stale, told, genuine, lapses>>
vars == <<lockVars, devices, sweeps, history>>

TypeOK ==
    /\ LockTypeOK
    /\ silent \in [Device -> 0..(Threshold + 1)]
    /\ watched \in [Device -> BOOLEAN]
    /\ marked \in [Device -> BOOLEAN]
    /\ todo \in [Worker -> SUBSET Device]
    /\ current \in [Worker -> Device \cup {None}]
    /\ left \in [Worker -> 0..Channels]
    /\ stale \in [Worker -> SUBSET Device]
    /\ told \in [Device -> 0..(MaxLapses + 1)]
    /\ genuine \in [Device -> BOOLEAN]
    /\ lapses \in 0..MaxLapses
    /\ \A w \in Worker : ~Running(w) => todo[w] = {} /\ current[w] = None
    /\ \A w \in Worker : (left[w] = 0) = (current[w] = None)

\* The history counts no further than the properties look.
Lapses(n) == IF lapses + n < MaxLapses THEN lapses + n ELSE MaxLapses

-----------------------------------------------------------------------------
(* find_offline_devices *)

\* Mutant of Overdue: without the NOT EXISTS.
OverdueAgain(d) == silent[d] > Threshold /\ watched[d]

Overdue(d) == silent[d] > Threshold /\ watched[d] /\ ~marked[d]

\* The sweep starts with the snapshot; if the query raises there is none.
Sweeping(w) ==
    \/ todo' = [todo EXCEPT ![w] = {d \in Device : Overdue(d)}]
    \/ todo' = todo

\* Nothing keeps a worker without Redis from sweeping beside the others.
StartSweep(w) ==
    /\ \/ AcquireLocal(w) /\ lapses' = IF Worker = {w} THEN lapses ELSE Lapses(1)
       \/ \E t \in Token : Acquire(w, t) /\ lapses' = lapses
       \/ \E t \in Token : AcquireDegraded(w, t) /\ lapses' = Lapses(1)
    /\ Sweeping(w)
    /\ stale' = [stale EXCEPT ![w] = {}]
    /\ UNCHANGED <<devices, current, left, told, genuine>>

-----------------------------------------------------------------------------
(* run_offline_sweep: one device, one channel at a time *)

\* send_all for the next device of the snapshot.
BeginAlert(w, d) ==
    /\ current[w] = None
    /\ d \in todo[w]
    /\ todo' = [todo EXCEPT ![w] = @ \ {d}]
    /\ current' = [current EXCEPT ![w] = d]
    /\ left' = [left EXCEPT ![w] = Channels]
    /\ told' = [told EXCEPT ![d] = IF @ > MaxLapses THEN @ ELSE @ + 1]
    /\ genuine' = [genuine EXCEPT ![d] = @ \/ d \notin stale[w]]
    /\ UNCHANGED <<lockVars, devices, stale, lapses>>

\* Mutant of LogAlert: suppressed and failed sends leave no row.
LogAlertDelivered(d, delivered, logged) ==
    marked' = [marked EXCEPT ![d] = @ \/ (delivered /\ logged /\ silent[d] > 0)]

\* _log_alert: one row for each channel, whether delivered, suppressed or
\* failed.  sent_at has whole seconds: a row of the second the device reported
\* in is not newer than last_seen.  A failed INSERT is a warning.
LogAlert(d, delivered, logged) ==
    marked' = [marked EXCEPT ![d] = @ \/ (logged /\ silent[d] > 0)]

\* A channel's send returns and its row is written.  In quiet hours, and when
\* the type is disabled, nothing is sent and all rows are written at once.
NextChannel(w, n, delivered, logged) ==
    LET d == current[w] IN
    /\ d # None
    /\ n \in {1, Channels} /\ n <= left[w]
    /\ delivered => n = 1
    /\ LogAlert(d, delivered, logged)
    /\ left' = [left EXCEPT ![w] = @ - n]
    /\ current' = [current EXCEPT ![w] = IF left[w] = n THEN None ELSE d]
    /\ lapses' = IF left[w] = n /\ ~marked'[d] /\ (~logged \/ silent[d] = 0)
                 THEN Lapses(1) ELSE lapses
    /\ UNCHANGED <<lockVars, silent, watched, todo, stale, told, genuine>>

EndSweep(w) ==
    /\ todo[w] = {}
    /\ current[w] = None
    /\ Release(w) \/ ReleaseFails(w)
    /\ UNCHANGED <<devices, sweeps, history>>

\* Mutant of Die: the new process goes on with the old one's snapshot.
DieKeepsTodo(w) ==
    /\ WorkerDies(w)
    /\ current' = [current EXCEPT ![w] = None]
    /\ left' = [left EXCEPT ![w] = 0]
    /\ UNCHANGED <<devices, todo, history>>

\* A death in the middle of an alert none of whose rows is written yet leaves
\* nothing that says the owner was told.
Die(w) ==
    /\ WorkerDies(w)
    /\ todo' = [todo EXCEPT ![w] = {}]
    /\ current' = [current EXCEPT ![w] = None]
    /\ left' = [left EXCEPT ![w] = 0]
    /\ lapses' = IF current[w] # None /\ ~marked[current[w]] THEN Lapses(1) ELSE lapses
    /\ UNCHANGED <<devices, stale, told, genuine>>

-----------------------------------------------------------------------------
(* The devices *)

\* A heartbeat, a location, a batch of queued ones or a registration.
Report(d) ==
    /\ silent' = [silent EXCEPT ![d] = 0]
    /\ marked' = [marked EXCEPT ![d] = FALSE]
    /\ told' = [told EXCEPT ![d] = 0]
    /\ genuine' = [genuine EXCEPT ![d] = FALSE]
    /\ stale' = [w \in Worker |->
                   IF d \in todo[w] \/ current[w] = d THEN stale[w] \cup {d} ELSE stale[w]]
    /\ UNCHANGED <<lockVars, watched, sweeps, lapses>>

\* Theft mode, recovery, linking to an account, deletion of the account.
Watch(d) ==
    /\ watched' = [watched EXCEPT ![d] = ~@]
    /\ UNCHANGED <<lockVars, silent, marked, sweeps, history>>

\* A task that outlives its key is an excuse as well: another worker starts.
Tick ==
    /\ LockTick
    /\ silent' = [d \in Device |-> IF silent[d] > Threshold THEN silent[d] ELSE silent[d] + 1]
    /\ lapses' = Lapses(Cardinality({w \in Worker : Running(w) /\ leader[w].age = TTL - 1}))
    /\ UNCHANGED <<watched, marked, sweeps, stale, told, genuine>>

-----------------------------------------------------------------------------
Init ==
    /\ LockInit
    /\ silent = [d \in Device |-> 0]
    /\ watched = [d \in Device |-> TRUE]
    /\ marked = [d \in Device |-> FALSE]
    /\ todo = [w \in Worker |-> {}]
    /\ current = [w \in Worker |-> None]
    /\ left = [w \in Worker |-> 0]
    /\ stale = [w \in Worker |-> {}]
    /\ told = [d \in Device |-> 0]
    /\ genuine = [d \in Device |-> FALSE]
    /\ lapses = 0

Next ==
    \/ \E w \in Worker : StartSweep(w) \/ EndSweep(w) \/ Die(w)
    \/ \E w \in Worker, d \in Device : BeginAlert(w, d)
    \/ \E w \in Worker, n \in 1..Channels, delivered, logged \in BOOLEAN :
           NextChannel(w, n, delivered, logged)
    \/ \E d \in Device : Report(d) \/ Watch(d)
    \/ Tick

Spec == Init /\ [][Next]_vars

\* Time passes, the loops run, sends return within their timeouts, and neither
\* the query that takes the snapshot nor the INSERT of a row fails for ever.
\* Some worker finds the key free again and again: they sleep in between.
Fairness ==
    /\ WF_vars(Tick)
    /\ SF_vars(\E w \in Worker : StartSweep(w) /\ todo'[w] = {d \in Device : Overdue(d)})
    /\ \A w \in Worker :
        /\ WF_vars(EndSweep(w))
        /\ WF_vars(\E d \in Device : BeginAlert(w, d))
        /\ WF_vars(\E n \in 1..Channels, delivered, logged \in BOOLEAN :
                       NextChannel(w, n, delivered, logged))
        /\ \A d \in Device :
               SF_vars(/\ current[w] = d
                       /\ \E n \in 1..Channels, delivered \in BOOLEAN :
                              NextChannel(w, n, delivered, TRUE))

FairSpec == Spec /\ Fairness

-----------------------------------------------------------------------------
(* Properties *)

\* "Once per incident, never on every sweep": an owner is alerted once about
\* one silence, however many workers sweep, unless a lapse excuses another
\* alert: an alert of which no row could be written, Redis failing or missing,
\* or a sweep longer than the ttl of the lock.
OncePerIncident == lapses < MaxLapses => \A d \in Device : told[d] <= 1 + lapses

\* "When the device comes back online and later goes offline again, it alerts
\* once more": a device that is silent for too long gets an alert about this
\* very silence, not only the row of an alert about an earlier one.
SilenceTold ==
    \A d \in Device :
        (silent[d] > Threshold /\ watched[d])
            ~> (genuine[d] \/ ~watched[d] \/ silent[d] <= Threshold)

\* A device that is silent for too long is reported (or gets the row that says
\* so), through deaths, failing inserts and snapshots and a failing Redis.
SilenceReported ==
    \A d \in Device :
        (silent[d] > Threshold /\ watched[d])
            ~> (marked[d] \/ ~watched[d] \/ silent[d] <= Threshold)

-----------------------------------------------------------------------------
(* The inductive strengthening of OncePerIncident *)

\* The one sweep that no lapse excuses: the leader's within its ttl, or the
\* only worker's.
Entitled(w) ==
    /\ leader[w].age < TTL
    /\ leader[w].won = "redis" \/ (leader[w].won = "local" /\ Worker = {w})

\* The sweeps beside it.
Excess == {w \in Worker : Running(w) /\ ~Entitled(w)}

\* The sweeps that are going to alert about d.
Pending(d) == {w \in Worker : d \in todo[w]}

\* The entitled sweep still owes d a row.
Owed(d) == IF \E w \in Worker : Entitled(w) /\ (d \in todo[w] \/ current[w] = d) THEN 1 ELSE 0

\* Every sweep beside the entitled one is excused by a lapse of its own.
SweepsExcused == lapses < MaxLapses => Cardinality(Excess) <= lapses

\* So is every alert, begun or to come, but one: while no row says so, only the
\* entitled sweep's own alert is free.
AlertsExcused ==
    lapses < MaxLapses =>
        \A d \in Device : told[d] + Cardinality(Pending(d)) <=
                             lapses + (IF marked[d] THEN 1 ELSE Owed(d))

MonitorInv == TypeOK /\ LockInv /\ SweepsExcused /\ AlertsExcused
=============================================================================
