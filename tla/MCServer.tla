------------------------------ MODULE MCServer -------------------------------
(***************************************************************************)
(* The components that the server's worker processes share through the     *)
(* database, Redis or a file, in one run: telemetry (TelemetryStore), the  *)
(* offline monitor where one worker has no Redis, the dashboards' feeds,   *)
(* ownership and shares, links, tokens and codes, rate limits, circles,    *)
(* start-up, feature flags, release digests, the routing of alerts and the *)
(* PostgreSQL store.                                                       *)
(*                                                                         *)
(* They share no variable, so each behaviour is of one of them, chosen at  *)
(* the start: the variables of TelemetryStore keep their initial values in *)
(* the others, whose own are in registers; a part that needs fewer leaves  *)
(* the rest at 0.  Five modules are there twice, with other constants.     *)
(***************************************************************************)
EXTENDS TelemetryStore, ServerStatements, TLC

CONSTANTS
    User, Device,
    Solo, Lone,                     \* sets of one, for a user and for what there is one of
    Box, Linked,                    \* hosts of the offline monitor; those with Redis
    Dash, Tab,                      \* dashboards
    ResetLink, VerifyLink, Token,
    Query, Thread,
    Nobody

VARIABLES part, r1, r2, r3, r4, r5, r6, r7, r8, r9, r10, r11, r12, r13, r14, r15, r16, r17,
          r18, r19, r20, r21

\* One of the pings is sent a second time.
Sends == LET p == CHOOSE p \in Ping : TRUE IN [q \in Ping |-> IF q = p THEN 2 ELSE 1]

\* No part tells one worker or one account from another.
Exchangeable == Permutations(Worker) \cup Permutations(User)

registers == <<r1, r2, r3, r4, r5, r6, r7, r8, r9, r10, r11, r12, r13, r14, r15, r16, r17,
               r18, r19, r20, r21>>

Watch == INSTANCE OfflineMonitor WITH
    Worker <- Box, Connected <- Linked, Device <- Lone, TTL <- 1, MaxTask <- 1, MaxFaults <- 0,
    Threshold <- 1, Channels <- 1, MaxLapses <- 1,
    lock <- r1, leader <- r2, faults <- r3, silent <- r4, watched <- r5, marked <- r6,
    todo <- r7, current <- r8, left <- r9, stale <- r10, told <- r11, genuine <- r12,
    lapses <- r13

Feed == INSTANCE BroadcastHub WITH
    None <- Nobody, Admin <- "admin", User <- Solo, Conn <- Dash, Limit <- 1,
    WithRedis <- {TRUE}, MaxChanges <- 0, MaxFaults <- 1,
    redis <- r1, owner <- r2, share <- r3, changes <- r4, changing <- r5, tasks <- r6,
    inbox <- r7, listening <- r8, cache <- r9, conns <- r10, socket <- r11,
    update <- r12, feeds <- r13, faults <- r14, got <- r15, seen <- r16, owned <- r17,
    overlapped <- r18, missed <- r19, unanswered <- r20, crowded <- r21

Owners == INSTANCE BroadcastHub WITH
    None <- Nobody, Admin <- "admin", Conn <- Tab, Limit <- 1,
    WithRedis <- BOOLEAN, MaxChanges <- 1, MaxFaults <- 0,
    redis <- r1, owner <- r2, share <- r3, changes <- r4, changing <- r5, tasks <- r6,
    inbox <- r7, listening <- r8, cache <- r9, conns <- r10, socket <- r11,
    update <- r12, feeds <- r13, faults <- r14, got <- r15, seen <- r16, owned <- r17,
    overlapped <- r18, missed <- r19, unanswered <- r20, crowded <- r21

Plans == INSTANCE DeviceAccess WITH
    None <- Nobody, Worker <- Lone, Operator <- "operator",
    Phone <- [d \in Device |-> "phone"], Allowances <- {1, 2},
    MaxUnowned <- 1, MaxGrants <- 1,
    account <- r1, allowance <- r2, row <- r3, share <- r4, grants <- r5, req <- r6,
    best <- r7, late <- r8

Grants == INSTANCE DeviceAccess WITH
    None <- Nobody, Device <- Lone, Operator <- "operator",
    Phone <- [d \in Lone |-> "phone"], Allowances <- {1},
    MaxUnowned <- 1, MaxGrants <- 1,
    account <- r1, allowance <- r2, row <- r3, share <- r4, grants <- r5, req <- r6,
    best <- r7, late <- r8

Links == INSTANCE Accounts WITH
    MaxSecrets <- 0, MaxPeriod <- 1, MaxLogins <- 0,
    cred <- r1, verified <- r2, period <- r3, secret <- r4, setups <- r5,
    enabled <- r6, last <- r7, challenge <- r8, req <- r9, uses <- r10,
    accepted <- r11, proved <- r12, raced <- r13

Codes == INSTANCE Accounts WITH
    ResetLink <- {}, VerifyLink <- {}, Token <- {}, MaxSecrets <- 2, MaxPeriod <- 4, MaxLogins <- 2,
    cred <- r1, verified <- r2, period <- r3, secret <- r4, setups <- r5,
    enabled <- r6, last <- r7, challenge <- r8, req <- r9, uses <- r10,
    accepted <- r11, proved <- r12, raced <- r13

Rows == INSTANCE RateLimits WITH
    None <- Nobody, Limiter <- {"minute", "quarter"}, Most <- [minute |-> 1, quarter |-> 1],
    Window <- [minute |-> 1, quarter |-> 3], Keep <- 3, MemoryMost <- 0, MaxTime <- 4,
    postgres <- r1, now <- r2, rows <- r3, req <- r4, bucket <- r5, granted <- r6,
    passed <- r7, raced <- r8

Memory == INSTANCE RateLimits WITH
    None <- Nobody, Limiter <- {}, Most <- <<>>, Window <- <<>>, Keep <- 3,
    MemoryMost <- 2, MaxTime <- 4,
    postgres <- r1, now <- r2, rows <- r3, req <- r4, bucket <- r5, granted <- r6,
    passed <- r7, raced <- r8

Circle == INSTANCE Circles WITH
    None <- Nobody, Device <- Lone, MaxCodes <- 2, MaxChanges <- 2,
    postgres <- r1, circle <- r2, owner <- r3, code <- r4, members <- r5, shared <- r6,
    account <- r7, holder <- r8, admins <- r9, changes <- r10, req <- r11,
    overtaken <- r12

Boot == INSTANCE Startup WITH
    MaxFaults <- 0,
    postgres <- r1, tables <- r2, columns <- r3, worker <- r4, faults <- r5

Alone == INSTANCE Startup WITH
    Worker <- Lone, MaxFaults <- 1,
    postgres <- r1, tables <- r2, columns <- r3, worker <- r4, faults <- r5

Flagged == INSTANCE Flags WITH
    Flag <- {"maintenance_mode", "community_watch"}, Keep <- 2, MaxEdits <- 3,
    file <- r1, cache <- r2, age <- r3, quiet <- r4, edits <- r5

Release == INSTANCE Releases WITH
    Request <- Query, Worker <- Lone, MaxDeploys <- 2,
    files <- r1, cache <- r2, job <- r3, deploys <- r4

Sql == INSTANCE SqlFacade WITH
    Statements <- Live,
    statement <- r1, given <- r2, sent <- r3

\* One change of the settings is accepted and one refused; a heartbeat repeats
\* what a position reported.
Settings ==
    {[phone |-> "plus", channels |-> {"sms"}, types |-> {"geofence_exit"}, start |-> 1, end |-> 0],
     [phone |-> "bare", channels |-> {}, types |-> {}, start |-> Nobody, end |-> Nobody]}
Signals ==
    {[path |-> "location", raises |-> {"sim_changed", "failed_unlock_attempts"}],
     [path |-> "heartbeat", raises |-> {"sim_changed"}]}

Routes == INSTANCE AlertRouting WITH
    None <- Nobody, Request <- Query, Reports <- Signals, Inputs <- Settings, Hours <- 2,
    EnvPhone <- FALSE, MaxFaults <- 1,
    settings <- r1, hour <- r2, tokens <- r3, rows <- r4, job <- r5, open <- r6,
    told <- r7, excused <- r8, faults <- r9

Pools == INSTANCE PgPool WITH
    MaxPools <- 3,
    db <- r1, open <- r2, made <- r3, lock <- r4, thread <- r5, orphans <- r6,
    closing <- r7

ASSUME ServerConstants ==
    /\ Watch!LockConstants /\ Watch!MonitorConstants
    /\ Plans!DeviceAccessConstants /\ Grants!DeviceAccessConstants
    /\ Pools!PoolConstants
    /\ Links!AccountsConstants /\ Codes!AccountsConstants
    /\ Rows!RateConstants /\ Memory!RateConstants
    /\ Circle!CirclesConstants /\ Flagged!FlagsConstants /\ Release!ReleasesConstants
    /\ Feed!HubConstants /\ Owners!HubConstants

-----------------------------------------------------------------------------
\* Telemetry at rest.
Resting == Init /\ ~batched

Blank13 == r14 = 0 /\ r15 = 0 /\ r16 = 0 /\ r17 = 0 /\ r18 = 0 /\ r19 = 0 /\
      r20 = 0 /\ r21 = 0
Blank12 == r13 = 0 /\ Blank13
Blank9 == r10 = 0 /\ r11 = 0 /\ r12 = 0 /\ Blank12
Blank8 == r9 = 0 /\ Blank9
Blank7 == r8 = 0 /\ Blank8
Blank5 == r6 = 0 /\ r7 = 0 /\ Blank7
Blank4 == r5 = 0 /\ Blank5
Blank3 == r4 = 0 /\ Blank4
Blank == r1 = 0 /\ r2 = 0 /\ r3 = 0 /\ Blank3

PartInit ==
    \/ part = "telemetry" /\ Init /\ Blank
    \/ part = "watch" /\ Resting /\ Watch!Init /\ Blank13
    \/ part = "feed" /\ Resting /\ Feed!Init
    \/ part = "owners" /\ Resting /\ Owners!Init
    \/ part = "plans" /\ Resting /\ Plans!Init /\ Blank8
    \/ part = "grants" /\ Resting /\ Grants!Init /\ Blank8
    \/ part = "links" /\ Resting /\ Links!Init /\ Blank13
    \/ part = "codes" /\ Resting /\ Codes!Init /\ Blank13
    \/ part = "rows" /\ Resting /\ Rows!Init /\ Blank8
    \/ part = "memory" /\ Resting /\ Memory!Init /\ Blank8
    \/ part = "circle" /\ Resting /\ Circle!Init /\ Blank12
    \/ part = "start" /\ Resting /\ Boot!Init /\ Blank5
    \/ part = "alone" /\ Resting /\ Alone!Init /\ Blank5
    \/ part = "flags" /\ Resting /\ Flagged!Init /\ Blank5
    \/ part = "release" /\ Resting /\ Release!Init /\ Blank4
    \/ part = "sql" /\ Resting /\ Sql!Init /\ Blank3
    \/ part = "routes" /\ Resting /\ Routes!Init /\ Blank9
    \/ part = "pool" /\ Resting /\ Pools!Init /\ Blank7

After3 == <<r4, r5, r6, r7, r8, r9, r10, r11, r12, r13, r14, r15, r16, r17,
      r18, r19, r20, r21>>
After4 == <<r5, r6, r7, r8, r9, r10, r11, r12, r13, r14, r15, r16, r17, r18,
      r19, r20, r21>>
After5 == <<r6, r7, r8, r9, r10, r11, r12, r13, r14, r15, r16, r17, r18, r19,
      r20, r21>>
After7 == <<r8, r9, r10, r11, r12, r13, r14, r15, r16, r17, r18, r19, r20,
      r21>>
After8 == <<r9, r10, r11, r12, r13, r14, r15, r16, r17, r18, r19, r20, r21>>
After9 == <<r10, r11, r12, r13, r14, r15, r16, r17, r18, r19, r20, r21>>
After12 == <<r13, r14, r15, r16, r17, r18, r19, r20, r21>>
After13 == <<r14, r15, r16, r17, r18, r19, r20, r21>>

PartNext ==
    \/ part = "telemetry" /\ Next /\ UNCHANGED <<part, registers>>
    \/ part = "watch" /\ Watch!Next /\ UNCHANGED <<part, vars, After13>>
    \/ part = "feed" /\ Feed!Next /\ UNCHANGED <<part, vars>>
    \/ part = "owners" /\ Owners!Next /\ UNCHANGED <<part, vars>>
    \/ part = "plans" /\ Plans!Next /\ UNCHANGED <<part, vars, After8>>
    \/ part = "grants" /\ Grants!Next /\ UNCHANGED <<part, vars, After8>>
    \/ part = "links" /\ Links!Next /\ UNCHANGED <<part, vars, After13>>
    \/ part = "codes" /\ Codes!Next /\ UNCHANGED <<part, vars, After13>>
    \/ part = "rows" /\ Rows!Next /\ UNCHANGED <<part, vars, After8>>
    \/ part = "memory" /\ Memory!Next /\ UNCHANGED <<part, vars, After8>>
    \/ part = "circle" /\ Circle!Next /\ UNCHANGED <<part, vars, After12>>
    \/ part = "start" /\ Boot!Next /\ UNCHANGED <<part, vars, After5>>
    \/ part = "alone" /\ Alone!Next /\ UNCHANGED <<part, vars, After5>>
    \/ part = "flags" /\ Flagged!Next /\ UNCHANGED <<part, vars, After5>>
    \/ part = "release" /\ Release!Next /\ UNCHANGED <<part, vars, After4>>
    \/ part = "sql" /\ Sql!Next /\ UNCHANGED <<part, vars, After3>>
    \/ part = "routes" /\ Routes!Next /\ UNCHANGED <<part, vars, After9>>
    \/ part = "pool" /\ Pools!Next /\ UNCHANGED <<part, vars, After7>>

PartSpec == PartInit /\ [][PartNext]_<<part, vars, registers>>

-----------------------------------------------------------------------------
(* The properties of the parts; those of TelemetryStore are stated there. *)

\* Every variable of a part has its type; for Circles, with what the tables'
\* foreign keys ask for.
AllTypes ==
    /\ TypeOK
    /\ part = "watch" => Watch!TypeOK
    /\ part = "feed" => Feed!TypeOK
    /\ part = "owners" => Owners!TypeOK
    /\ part = "plans" => Plans!TypeOK
    /\ part = "grants" => Grants!TypeOK
    /\ part = "links" => Links!TypeOK
    /\ part = "codes" => Codes!TypeOK
    /\ part = "rows" => Rows!TypeOK
    /\ part = "memory" => Memory!TypeOK
    /\ part = "circle" => Circle!TypeOK
    /\ part = "start" => Boot!TypeOK
    /\ part = "alone" => Alone!TypeOK
    /\ part = "flags" => Flagged!TypeOK
    /\ part = "release" => Release!TypeOK
    /\ part = "sql" => Sql!TypeOK
    /\ part = "routes" => Routes!TypeOK
    /\ part = "pool" => Pools!TypeOK

\* A dashboard receives only devices its account could see since it connected
\* (_connection_can_receive).
NoForeignFeed ==
    /\ part = "feed" => Feed!NoForeignFeed
    /\ part = "owners" => Owners!NoForeignFeed

\* An update reaches a connection once, the workers' caches of the owner agree
\* with the table once they had time to, and a worker keeps to its limit
\* (broadcast_to_dashboards, update_device_owner, dashboard_websocket); one
\* incident is alerted once, and an emergency over every channel its owner
\* allows (_alert_recent, send_all).
ToldOnce ==
    /\ part = "feed" => Feed!OncePerPublish /\ Feed!CacheAgrees /\ Feed!WithinLimit
    /\ part = "owners" => Owners!OncePerPublish /\ Owners!CacheAgrees /\ Owners!WithinLimit
    /\ part = "routes" => Routes!OneAlert /\ Routes!NotSilenced

\* A device changes hands only by an overtaken request, accounts keep to their
\* plans, owners and shares refer to accounts that may hold them, and a device is
\* in a circle only for a member who shared it (register_device, claim_device,
\* delete_device_cascade, leave_circle).
OwnerKept ==
    [][/\ part = "plans" => Plans!OwnerKeptStep /\ Plans!AllowanceHeld /\ Plans!LinksAgree
       /\ part = "grants" => Grants!OwnerKeptStep /\ Grants!AllowanceHeld /\ Grants!LinksAgree
       /\ part = "circle" => Circle!SharersAreMembers
      ]_registers

\* Links and tokens are honoured once, a second factor is enabled only for a
\* secret that was shown, its codes are spaced, and attempts keep to the limit
\* (_consume_email_token, enable_2fa, login_with_two_factor, check_rate_limit).
SignInGuarded ==
    /\ part = "links" => Links!HonouredOnce
    /\ part = "codes" => Codes!EnabledIsProved /\ Codes!CodeSpaced
    /\ part = "rows" => Rows!LimitHolds
    /\ part = "memory" => Memory!LimitHolds

\* A worker that serves has the current schema, what it executes reaches
\* PostgreSQL with parameters of the right types, over the one pool there is
\* (ensure_initialized, PgStore.execute, _ensure_started).
StoreServes ==
    /\ part = "start" => Boot!ServesCurrentSchema
    /\ part = "alone" => Alone!ServesCurrentSchema
    /\ part = "sql" => Sql!ParametersFit
    /\ part = "pool" => Pools!OnePool

\* Every worker goes by the flags in the file, and the digests of a release
\* are those of the file in place (feature_flags.py, _get_apk_checksum).
OneVersion ==
    /\ part = "flags" => Flagged!FlagsSettle
    /\ part = "release" => Release!DigestTrue
=============================================================================
