---------------------------- MODULE AlertRouting -----------------------------
(***************************************************************************)
(* Which alerts a device's reports raise, and over which channels           *)
(* (post_location and post_heartbeat in src/server/routes/devices.py,       *)
(* send_all in src/server/alerts.py): the ten minutes in which one incident *)
(* is alerted once, the owner's channels, types and quiet hours, the        *)
(* recipients, and the rows that tell the next request of an alert.         *)
(*                                                                         *)
(* send_all writes its rows over a connection of its own, and SQLite has one *)
(* writer: a request that still held its transaction would wait for itself. *)
(* How a channel is retried or given up is AlertChannels' subject.          *)
(***************************************************************************)
EXTENDS Integers, Sequences, FiniteSets, Selections

CONSTANTS
    Request,        \* reports being served
    Reports,        \* what a report may raise, on either path
    Inputs,         \* bodies of a change of settings
    Hours,          \* hours of a day
    EnvPhone,       \* MT_ALERT_PHONE is set
    MaxFaults,      \* bound on database failures and deaths
    None

VARIABLES
    settings,   \* the device's alert settings
    hour,       \* the local hour
    tokens,     \* a push token is registered
    rows,       \* the best alerts row of the last ten minutes, of the types it is read for
    job,        \* where each request is
    open,       \* requests that hold the database's write lock
    told,       \* history: alerts of each type sent in these ten minutes
    excused,    \* history: types of which a row was lost or not yet written
    faults

vars == <<settings, hour, tokens, rows, job, open, told, excused, faults>>

\* ALL_CHANNELS, of which e-mail and WhatsApp find their recipients as SMS does.
Channels == <<"sms", "push">>
Channel  == {"sms", "push"}
Toggles  == {"theft_detected", "sim_changed", "geofence_exit"}
Always   == {"theft_detected", "sim_changed"}
Repeats  == {"sim_changed", "failed_unlock_attempts"}

\* Both handlers look at what a report raises in a fixed order; a heartbeat
\* carries neither a score nor a position.
LocationOrder  == <<"theft_detected", "sim_changed", "failed_unlock_attempts", "geofence_exit">>
HeartbeatOrder == <<"sim_changed", "failed_unlock_attempts">>

Defaults == [channels |-> {}, types |-> {}, quiet |-> <<>>, phone |-> FALSE]
Idle == [at |-> "idle", todo |-> <<>>, left |-> <<>>, reach |-> {}, tried |-> {}, due |-> {}]

Init ==
    /\ settings = Defaults /\ hour = 0 /\ tokens = FALSE
    /\ rows = [t \in Repeats |-> "none"]
    /\ job = [r \in Request |-> Idle] /\ open = {}
    /\ told = [t \in Repeats |-> 0] /\ excused = {} /\ faults = 0

-----------------------------------------------------------------------------
(* The owner's settings and the phone's push token *)

\* update_device_alert_settings refuses what it does not know.
Accepted(i) ==
    /\ i.phone # "bare"
    /\ i.channels \subseteq Channel /\ i.types \subseteq Toggles
    /\ \A h \in {i.start, i.end} \ {None} : h \in 0..(Hours - 1)

\* Half a window of quiet hours is none; an empty list is all.
Stored(i) ==
    [channels |-> i.channels, types |-> i.types, phone |-> i.phone = "plus",
     quiet |-> IF None \in {i.start, i.end} THEN <<>> ELSE <<i.start, i.end>>]

ChangeSettings(i) ==
    /\ Accepted(i)
    /\ settings' = Stored(i)
    /\ UNCHANGED <<hour, tokens, rows, job, open, told, excused, faults>>

\* register_fcm_token, by this phone or by another one: without a token of the
\* device's own, a push goes to every registered one.  A token that the provider
\* calls unregistered is dropped by _cleanup_stale_tokens.
ChangeTokens ==
    /\ tokens' \in BOOLEAN
    /\ UNCHANGED <<settings, hour, rows, job, open, told, excused, faults>>

-----------------------------------------------------------------------------
(* send_all *)

\* [start, end), over midnight when it ends before it starts.
InQuiet(quiet) ==
    /\ quiet # <<>>
    /\ IF quiet[1] <= quiet[2] THEN hour \in quiet[1]..(quiet[2] - 1)
       ELSE hour >= quiet[1] \/ hour < quiet[2]

\* Mutant of Suppressed: quiet hours are for everything.
SuppressedAll(t, prefs) ==
    \/ t \notin Always /\ prefs.types # {} /\ t \notin prefs.types
    \/ InQuiet(prefs.quiet)

Suppressed(t, prefs) ==
    /\ t \notin Always
    /\ (prefs.types # {} /\ t \notin prefs.types) \/ InQuiet(prefs.quiet)

\* Without preferences, or when they cannot be read, all channels are used.
Allowed(prefs) == IF prefs.channels = {} THEN Channel ELSE prefs.channels

Reachable(phone) ==
    (IF phone \/ EnvPhone THEN {"sms"} ELSE {}) \cup (IF tokens THEN {"push"} ELSE {})

\* A row of type t: delivered or only tried.
Better(t, how) ==
    [u \in Repeats |-> IF u = t /\ rows[u] # "delivered" THEN how ELSE rows[u]]

\* What send_all does before it first awaits: a read that fails is passed over,
\* and a muted alert has a row for each channel (one that is lost changes nothing).
Begins(r, t, lost) ==
    LET prefs == IF "prefs" \in lost THEN Defaults ELSE settings
        reach == Reachable(settings.phone /\ "phone" \notin lost)
                 \ (IF "tokens" \in lost THEN {"push"} ELSE {})
        muted == Suppressed(t, prefs)
    IN  /\ muted => open \subseteq {r}
        /\ faults' = faults + Cardinality(lost) /\ faults' <= MaxFaults
        /\ job' = [job EXCEPT ![r] = [@ EXCEPT
                      !.at = "sending", !.tried = {}, !.reach = reach,
                      !.left = IF muted THEN <<>>
                               ELSE Kept(Channels, Allowed(prefs)),
                      !.due = Allowed(settings) \cap reach]]
        /\ rows' = IF muted /\ r \notin open THEN Better(t, "tried") ELSE rows
        /\ told' = [u \in Repeats |-> IF u = t /\ ~muted THEN told[u] + 1 ELSE told[u]]

Sending(t) == {r \in Request : job[r].at = "sending" /\ Head(job[r].todo) = t}

\* The INSERT waits for another request's transaction, and fails on its own.
Logged(r, t, ok) ==
    /\ open \subseteq {r}
    /\ rows' = IF r \in open THEN rows ELSE Better(t, IF ok THEN "delivered" ELSE "tried")

\* A channel has answered, or has no recipient, and its row is written.
SendChannel(r, ok, logs) ==
    /\ job[r].at = "sending" /\ job[r].left # <<>>
    /\ LET c == Head(job[r].left)
           t == Head(job[r].todo)
       IN  /\ ok => c \in job[r].reach
           /\ job' = [job EXCEPT ![r].left = Tail(@), ![r].tried = @ \cup ({c} \cap job[r].reach)]
           /\ IF logs THEN Logged(r, t, ok) /\ UNCHANGED <<excused, faults>>
              ELSE /\ faults < MaxFaults /\ faults' = faults + 1
                   /\ excused' = excused \cup ({t} \cap Repeats) /\ UNCHANGED rows
    /\ UNCHANGED <<settings, hour, tokens, open, told>>

Ends(r) ==
    /\ job[r].at = "sending" /\ job[r].left = <<>>
    /\ job' = [job EXCEPT ![r] = [Idle EXCEPT !.at = "next", !.todo = Tail(job[r].todo)]]
    /\ UNCHANGED <<settings, hour, tokens, rows, open, told, excused, faults>>

-----------------------------------------------------------------------------
(* A report *)

\* The report itself is stored and committed by then.
Receive(r, report) ==
    /\ job[r].at = "idle"
    /\ job' = [job EXCEPT ![r] = [Idle EXCEPT !.at = "next",
                  !.todo = Kept(IF report.path = "location" THEN LocationOrder ELSE HeartbeatOrder,
                                report.raises)]]
    /\ UNCHANGED <<settings, hour, tokens, rows, open, told, excused, faults>>

\* Failed unlocks queue a capture, unless one was queued lately, and an exit the
\* zone's reaction: a transaction ...
Write(r) ==
    /\ job[r].at = "next" /\ job[r].todo # <<>>
    /\ Head(job[r].todo) \in {"failed_unlock_attempts", "geofence_exit"}
    /\ \/ open = {} /\ open' = {r}
       \/ open' = open
    /\ job' = [job EXCEPT ![r].at = "written"]
    /\ UNCHANGED <<settings, hour, tokens, rows, told, excused, faults>>

\* Mutant of Commit: left to the end of the request.
CommitLater(r) ==
    /\ job[r].at = "written"
    /\ job' = [job EXCEPT ![r].at = "check"]
    /\ UNCHANGED <<settings, hour, tokens, rows, open, told, excused, faults>>

\* ... which is committed before the alert ("Commit BEFORE send_all").
Commit(r) ==
    /\ job[r].at = "written"
    /\ open' = open \ {r}
    /\ job' = [job EXCEPT ![r].at = "check"]
    /\ UNCHANGED <<settings, hour, tokens, rows, told, excused, faults>>

AtAlert(r) ==
    \/ job[r].at = "check"
    \/ job[r].at = "next" /\ job[r].todo # <<>> /\ Head(job[r].todo) \in Always

\* Mutant of Recent: alerts that nobody received do not count.
RecentDelivered(t) == rows[t] = "delivered"

\* _alert_recent
Recent(t) == rows[t] # "none"

SkipRepeat(r) ==
    /\ AtAlert(r) /\ Head(job[r].todo) \in Repeats /\ Recent(Head(job[r].todo))
    /\ job' = [job EXCEPT ![r] = [Idle EXCEPT !.at = "next", !.todo = Tail(job[r].todo)]]
    /\ UNCHANGED <<settings, hour, tokens, rows, open, told, excused, faults>>

Alert(r, lost) ==
    /\ AtAlert(r)
    /\ LET t == Head(job[r].todo)
       IN  /\ ~(t \in Repeats /\ Recent(t))
           /\ Begins(r, t, lost)
           /\ excused' = IF Sending(t) = {} THEN excused ELSE excused \cup ({t} \cap Repeats)
    /\ UNCHANGED <<settings, hour, tokens, open>>

Finish(r) ==
    /\ job[r].at = "next" /\ job[r].todo = <<>>
    /\ job' = [job EXCEPT ![r] = Idle]
    /\ open' = open \ {r}
    /\ UNCHANGED <<settings, hour, tokens, rows, told, excused, faults>>

\* The worker is killed: SQLite drops its transaction, and rows are not written.
Die(r) ==
    /\ job[r].at # "idle" /\ faults < MaxFaults
    /\ faults' = faults + 1
    /\ job' = [job EXCEPT ![r] = Idle]
    /\ open' = open \ {r}
    /\ excused' = IF job[r].at = "sending" THEN excused \cup ({Head(job[r].todo)} \cap Repeats)
                  ELSE excused
    /\ UNCHANGED <<settings, hour, tokens, rows, told>>

\* Ten minutes without a row of the type; a send takes less.
Lapse(t) ==
    /\ rows[t] # "none" \/ told[t] > 0
    /\ Sending(t) = {}
    /\ rows' = [rows EXCEPT ![t] = "none"] /\ told' = [told EXCEPT ![t] = 0]
    /\ excused' = excused \ {t}
    /\ UNCHANGED <<settings, hour, tokens, job, open, faults>>

Strike ==
    /\ hour' = (hour + 1) % Hours
    /\ UNCHANGED <<settings, tokens, rows, job, open, told, excused, faults>>

Next ==
    \/ \E i \in Inputs : ChangeSettings(i)
    \/ ChangeTokens
    \/ \E r \in Request :
           \/ \E report \in Reports : Receive(r, report)
           \/ Write(r) \/ Commit(r) \/ SkipRepeat(r) \/ Ends(r) \/ Finish(r) \/ Die(r)
           \/ \E lost \in SUBSET {"prefs", "phone", "tokens"} : Alert(r, lost)
           \/ \E ok, logs \in BOOLEAN : SendChannel(r, ok, logs)
    \/ \E t \in Repeats : Lapse(t)
    \/ Strike

Spec == Init /\ [][Next]_vars

-----------------------------------------------------------------------------
(* Properties *)

\* Every variable has its type.
TypeOK ==
    /\ settings \in [channels: SUBSET Channel, types: SUBSET Toggles, phone: BOOLEAN,
                     quiet: {<<>>} \cup ((0..(Hours - 1)) \X (0..(Hours - 1)))]
    /\ hour \in 0..(Hours - 1) /\ tokens \in BOOLEAN
    /\ rows \in [Repeats -> {"none", "tried", "delivered"}]
    /\ \A r \in Request : job[r].at \in {"idle", "next", "written", "check", "sending"}
    /\ open \subseteq Request /\ Cardinality(open) <= 1
    /\ told \in [Repeats -> Nat] /\ excused \subseteq Repeats /\ faults \in 0..MaxFaults

\* "one incident = one always-deliver alert" (_alert_recent): in ten minutes a
\* changed SIM or failed unlocks are alerted once, whichever path reports them
\* how often, unless a report found no row because the first alert was still
\* being sent, or its row was lost to a failure.
OneAlert == \A t \in Repeats \ excused : told[t] <= 1

\* "a DB hiccup can never suppress emergency alerts" (_load_device_alert_prefs):
\* when an emergency has been dealt with, each channel the owner allows and for
\* which a recipient could be read has been tried, at any hour.
NotSilenced ==
    \A r \in Request :
        job[r].at = "sending" /\ job[r].left = <<>> /\ Head(job[r].todo) \in Always =>
            job[r].due \subseteq job[r].tried
-----------------------------------------------------------------------------
(* The inductive invariant *)

Kinds == {"theft_detected", "sim_changed", "failed_unlock_attempts", "geofence_exit"}
Stages == {"idle", "next", "written", "check", "sending"}
Jobs == [at: Stages, todo: Seq(Kinds), left: Seq(Channel), reach: SUBSET Channel,
         tried: SUBSET Channel, due: SUBSET Channel]

RoutingTypes ==
    /\ settings.channels \subseteq Channel
    /\ rows \in [Repeats -> {"none", "tried", "delivered"}]
    /\ job \in [Request -> Jobs]
    /\ told \in [Repeats -> Nat] /\ excused \subseteq Repeats

\* The write lock is held from a request's write to its commit, never over an alert.
LockedToWrite == \A r \in Request : r \in open => job[r].at = "written"

\* Who writes, checks or sends does so for an alert.
HasAlert == \A r \in Request : job[r].at \in {"written", "check", "sending"} => job[r].todo # <<>>

\* What was told has a row, or is about to: a channel is still to be logged.
RowPending ==
    \A t \in Repeats \ excused :
        /\ told[t] <= 1
        /\ told[t] > 0 => rows[t] # "none" \/ Sending(t) # {}
        /\ \A r \in Sending(t) : rows[t] # "none" \/ job[r].left # <<>>

\* A channel due to an emergency was tried, or its turn is to come.
DuePending ==
    \A r \in Request :
        job[r].at = "sending" /\ Head(job[r].todo) \in Always =>
            /\ job[r].due \subseteq job[r].reach
            /\ job[r].due \subseteq job[r].tried \cup {job[r].left[i] : i \in DOMAIN job[r].left}

RoutingInv == RoutingTypes /\ LockedToWrite /\ HasAlert /\ RowPending /\ DuePending
=============================================================================
