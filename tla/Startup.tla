------------------------------ MODULE Startup -------------------------------
(***************************************************************************)
(* How the server's workers come up and go down: the lifespan handler of    *)
(* src/server/main.py, the SQLite schema and its upgrades                   *)
(* (src/server/database.py), and the PostgreSQL schema                      *)
(* (src/server/database_postgres.py, src/server/storage.py).                *)
(*                                                                         *)
(* All workers of a host start together and find the database of an earlier *)
(* release, or none.  Every CREATE TABLE and ALTER TABLE commits by itself  *)
(* on SQLite; on PostgreSQL the whole schema is one transaction.            *)
(***************************************************************************)
EXTENDS Integers, Sequences, FiniteSets

CONSTANTS
    Worker,
    MaxFaults   \* bound on lock timeouts, failures of the database and deaths

VARIABLES
    postgres,   \* MT_DATABASE_URL is set
    tables,     \* the tables of the database
    columns,    \* of the columns later releases added, those present
    worker,     \* where each worker is, and what it knows
    faults

vars == <<postgres, tables, columns, worker, faults>>

-----------------------------------------------------------------------------
(* The schema: the tables by name, and the columns that ALTERs add. *)

Of(table, names) == [i \in DOMAIN names |-> <<table, names[i]>>]

FirstTables == {"users", "devices", "cell_location_cache"}

EarlyColumns ==
    Of("devices", <<"device_key_hash", "alert_phone", "alert_email", "alert_channels",
                    "enabled_types", "quiet_hours_start", "quiet_hours_end", "capture_armed",
                    "location_mode">>)
    \o Of("commands", <<"failure_reason">>)
    \o Of("devices", <<"archived_at", "sms_phone", "sms_commands_enabled">>)
    \o Of("commands", <<"delivery_channel">>)

LateColumns ==
    Of("recovery_sightings", <<"hop_count", "relayed">>)
    \o Of("geofences", <<"auto_action", "last_inside">>)
    \o Of("recovery_requests", <<"beacon_token">>)
    \o Of("locations", <<"location_data">>)
    \o Of("media", <<"file_path", "file_size">>)
    \o Of("api_keys", <<"key_type", "request_count">>)
    \o Of("users", <<"totp_secret_enc", "totp_enabled", "totp_last_period">>)

Altered == EarlyColumns \o LateColumns

TokenTables      == {"password_reset_tokens", "email_verify_tokens"}
TelemetryTables  == {"locations", "media", "commands", "evidence_cases", "alerts", "heartbeats",
                     "geofences"}
SharingTables    == {"device_shares", "api_keys", "guardian_profiles", "recovery_requests",
                     "recovery_sightings", "p2p_pairings"}
ComplianceTables == {"audit_log", "fcm_tokens", "rate_limits", "revoked_tokens",
                     "tracking_consents", "abuse_reports", "privacy_consents",
                     "data_export_requests"}
ReportTables     == {"analytics_events", "payments", "error_log"}
CircleTables     == {"mesh_beacons", "mesh_sightings", "circles", "circle_members",
                     "circle_devices"}

Scripts == <<TokenTables, TelemetryTables, SharingTables, ComplianceTables, ReportTables,
             CircleTables>>

Tables == FirstTables \cup UNION {Scripts[i] : i \in DOMAIN Scripts}
ColumnsOf(ts) == {Altered[i] : i \in {j \in DOMAIN Altered : Altered[j][1] \in ts}}

\* The PostgreSQL schema has the same tables with the same columns.
PostgresDevices  == {"devices"} \cup (TelemetryTables \ {"geofences"})
PostgresAccounts == {"geofences", "audit_log", "users", "fcm_tokens"} \cup SharingTables
PostgresReports  == {"cell_location_cache", "rate_limits", "revoked_tokens", "mesh_beacons",
                     "mesh_sightings", "circles"} \cup ReportTables \cup TokenTables
PostgresConsents == {"circle_members", "circle_devices", "tracking_consents", "abuse_reports",
                     "privacy_consents", "data_export_requests"}
PostgresTables == PostgresDevices \cup PostgresAccounts \cup PostgresReports \cup PostgresConsents

\* What a start checks before it takes a database for current.
RequiredTables ==
    Tables \ {"payments", "tracking_consents", "abuse_reports", "privacy_consents",
              "data_export_requests"}
ExpectedColumns == ColumnsOf(Tables \ {"recovery_sightings"})

-----------------------------------------------------------------------------
Columns == ColumnsOf(Tables)

Down == [pc |-> "down", at |-> 1, retried |-> FALSE, lost |-> FALSE, new |-> {}, pg |-> FALSE,
         queue |-> FALSE]

\* No database yet, the current one, or that of a release that lacked one table
\* or one column.
Init ==
    /\ postgres \in BOOLEAN
    /\ \/ tables = {} /\ columns = {}
       \/ tables = Tables /\ columns = Columns
       \/ \E t \in Tables : tables = Tables \ {t} /\ columns = ColumnsOf(tables)
       \/ \E c \in Columns : tables = Tables /\ columns = Columns \ {c}
    /\ worker = [w \in Worker |-> Down]
    /\ faults = 0

Moves(w, next) == worker' = [worker EXCEPT ![w] = next]

\* CREATE TABLE IF NOT EXISTS: a table that is there keeps the columns it has, a
\* new one has all but those of users, which only the ALTERs add.
Create(ts) ==
    /\ tables' = tables \cup ts
    /\ columns' = columns \cup ColumnsOf(ts \ (tables \cup {"users"}))

-----------------------------------------------------------------------------
(* ensure_initialized and init_db *)

\* Mutant of Current: the tables alone, as the check once did.
CurrentTables == RequiredTables \subseteq tables

Current == RequiredTables \subseteq tables /\ ExpectedColumns \subseteq columns

Begin(w) ==
    /\ worker[w] = Down
    /\ Moves(w, [Down EXCEPT !.pc = IF postgres THEN "config"
                                    ELSE IF tables # {} /\ Current THEN "queue"
                                    ELSE "first",
                             !.retried = tables = {}])
    /\ UNCHANGED <<postgres, tables, columns, faults>>

CreateFirst(w) ==
    /\ worker[w].pc = "first"
    /\ Create(FirstTables)
    /\ Moves(w, [worker[w] EXCEPT !.pc = "alter", !.at = 1])
    /\ UNCHANGED <<postgres, faults>>

NextColumn(w) ==
    IF worker[w].at < Len(Altered) THEN [worker[w] EXCEPT !.at = @ + 1]
    ELSE [worker[w] EXCEPT !.pc = "later", !.at = 1]

\* An ALTER that fails is passed over: the column is there, or its table is not.
Alter(w) ==
    /\ worker[w].pc = "alter"
    /\ LET c == Altered[worker[w].at]
       IN  columns' = IF c[1] \in tables THEN columns \cup {c} ELSE columns
    /\ Moves(w, NextColumn(w))
    /\ UNCHANGED <<postgres, tables, faults>>

\* Another process holds the database for longer than the busy timeout: an
\* ALTER is passed over, a script fails.
Busy(w) ==
    /\ faults < MaxFaults
    /\ \E v \in Worker \ {w} : worker[v].pc \notin {"down", "failed"}
    /\ faults' = faults + 1

AlterTimesOut(w) ==
    /\ worker[w].pc = "alter"
    /\ Busy(w)
    /\ Moves(w, [NextColumn(w) EXCEPT !.lost = TRUE])
    /\ UNCHANGED <<postgres, tables, columns>>

\* The reports' script also builds the index on devices.device_key_hash.
Runs(i) == Scripts[i] = ReportTables => <<"devices", "device_key_hash">> \in columns

CreateLater(w) ==
    /\ worker[w].pc = "later"
    /\ Runs(worker[w].at)
    /\ Create(Scripts[worker[w].at])
    /\ Moves(w, IF worker[w].at < Len(Scripts) THEN [worker[w] EXCEPT !.at = @ + 1]
                ELSE [worker[w] EXCEPT !.pc = "queue"])
    /\ UNCHANGED <<postgres, faults>>

\* init_db raises: ensure_initialized runs it once more, unless it just did.
ScriptFails(w) ==
    /\ \/ worker[w].pc \in {"first", "later"} /\ Busy(w)
       \/ worker[w].pc = "later" /\ ~Runs(worker[w].at) /\ UNCHANGED faults
    /\ Moves(w, IF worker[w].retried THEN [worker[w] EXCEPT !.pc = "failed"]
                ELSE [worker[w] EXCEPT !.pc = "first", !.at = 1, !.retried = TRUE])
    /\ UNCHANGED <<postgres, tables, columns>>

-----------------------------------------------------------------------------
(* lifespan *)

\* start_write_queue, when batching is on; never beside PostgreSQL.
StartQueue(w) ==
    /\ worker[w].pc = "queue"
    /\ \E on \in BOOLEAN : Moves(w, [worker[w] EXCEPT !.pc = "config", !.queue = on])
    /\ UNCHANGED <<postgres, tables, columns, faults>>

\* settings.validate() finds nothing, or the worker gives up.
Validate(w) ==
    /\ worker[w].pc = "config"
    /\ \E next \in {IF postgres THEN "connect" ELSE "serving", "failed"} :
           Moves(w, [worker[w] EXCEPT !.pc = next])
    /\ UNCHANGED <<postgres, tables, columns, faults>>

\* init_pg_store connects and hands PostgreSQL the schema, one transaction.
Connect(w) ==
    /\ worker[w].pc = "connect"
    /\ Moves(w, [worker[w] EXCEPT !.pc = "schema", !.new = PostgresTables \ tables])
    /\ UNCHANGED <<postgres, tables, columns, faults>>

Commit(w) ==
    /\ worker[w].pc = "schema"
    /\ worker[w].new \cap tables = {}
    /\ tables' = tables \cup worker[w].new
    /\ columns' = columns \cup ColumnsOf(worker[w].new)
    /\ Moves(w, [worker[w] EXCEPT !.pc = "serving", !.pg = TRUE, !.new = {}])
    /\ UNCHANGED <<postgres, faults>>

\* Another worker created the types first: taken for success.
DuplicateType(w) ==
    /\ worker[w].pc = "schema"
    /\ worker[w].new \cap tables # {}
    /\ Moves(w, [worker[w] EXCEPT !.pc = "serving", !.pg = TRUE, !.new = {}])
    /\ UNCHANGED <<postgres, tables, columns, faults>>

\* Any other failure is logged; the worker serves all the same.
SetupFails(w) ==
    /\ worker[w].pc \in {"connect", "schema"}
    /\ faults < MaxFaults /\ faults' = faults + 1
    /\ Moves(w, [worker[w] EXCEPT !.pc = "serving", !.new = {}])
    /\ UNCHANGED <<postgres, tables, columns>>

\* Shutdown: the tasks are cancelled, the queue is flushed, the pool is closed.
StopQueue(w) ==
    /\ worker[w].pc = "serving"
    /\ Moves(w, [worker[w] EXCEPT !.pc = "closing", !.queue = FALSE])
    /\ UNCHANGED <<postgres, tables, columns, faults>>

Close(w) ==
    /\ worker[w].pc \in {"closing", "failed"}
    /\ Moves(w, Down)
    /\ UNCHANGED <<postgres, tables, columns, faults>>

Dies(w) ==
    /\ worker[w].pc \notin {"down", "failed"}
    /\ faults < MaxFaults /\ faults' = faults + 1
    /\ Moves(w, Down)
    /\ UNCHANGED <<postgres, tables, columns>>

Next ==
    \E w \in Worker :
        \/ Begin(w) \/ CreateFirst(w) \/ Alter(w) \/ AlterTimesOut(w) \/ CreateLater(w)
        \/ ScriptFails(w) \/ StartQueue(w) \/ Validate(w) \/ Connect(w) \/ Commit(w)
        \/ DuplicateType(w) \/ SetupFails(w) \/ StopQueue(w) \/ Close(w) \/ Dies(w)

Spec == Init /\ [][Next]_vars

-----------------------------------------------------------------------------
\* Every variable has its type.
TypeOK ==
    /\ postgres \in BOOLEAN
    /\ tables \subseteq Tables
    /\ columns \subseteq ColumnsOf(tables)
    /\ worker \in [Worker -> [pc: {"down", "first", "alter", "later", "queue", "config", "connect",
                                   "schema", "serving", "closing", "failed"},
                              at: 1..Len(Altered), retried: BOOLEAN, lost: BOOLEAN,
                              new: SUBSET Tables, pg: BOOLEAN, queue: BOOLEAN]]
    /\ faults \in 0..MaxFaults

\* "Ensure the database is initialized with the complete, current schema"
\* (ensure_initialized), for the tables and columns the check lists: a worker
\* serves only once they are all there, whichever worker made them, whatever
\* the earlier release lacked and wherever an earlier start died - unless one
\* of its own ALTERs was passed over for a lock, or PostgreSQL set up nothing.
ServesCurrentSchema ==
    \A w \in Worker :
        worker[w].pc = "serving" =>
            IF postgres THEN worker[w].pg => PostgresTables \subseteq tables
            ELSE \/ worker[w].lost
                 \/ RequiredTables \subseteq tables /\ ExpectedColumns \subseteq columns
-----------------------------------------------------------------------------
(* The inductive invariant *)

\* A column of a table that is there, and that an ALTER has yet to add.
Missing(i) == Altered[i][1] \in tables /\ Altered[i] \notin columns

\* What a worker has got through of the upgrade, of its checks or of the PostgreSQL
\* schema holds, whatever other workers did meanwhile.
Knows(s) ==
    /\ s.pc \in {"alter", "later"} => FirstTables \subseteq tables
    /\ s.pc = "alter" /\ ~s.lost => \A i \in DOMAIN Altered : i < s.at => ~Missing(i)
    /\ s.pc = "later" => /\ \A i \in DOMAIN Scripts : i < s.at => Scripts[i] \subseteq tables
                         /\ s.lost \/ \A i \in DOMAIN Altered : ~Missing(i)
    /\ s.pc \in {"queue", "config", "serving"} /\ ~postgres => s.lost \/ Current
    /\ s.pc \in {"connect", "schema"} => postgres
    /\ s.pc \in {"first", "alter", "later", "queue"} => ~postgres
    /\ s.pc = "schema" => s.new = PostgresTables \ tables \/ PostgresTables \subseteq tables
    /\ s.pg => PostgresTables \subseteq tables

Stages == {"down", "first", "alter", "later", "queue", "config", "connect", "schema", "serving",
           "closing", "failed"}
State == [pc: Stages, at: Nat, retried: BOOLEAN, lost: BOOLEAN, new: SUBSET Tables, pg: BOOLEAN,
          queue: BOOLEAN]

StartupInv ==
    /\ postgres \in BOOLEAN
    /\ worker \in [Worker -> State]
    /\ \A w \in Worker : Knows(worker[w])
=============================================================================
