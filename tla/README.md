# Magneetar in TLA+

Magneetar finds, locks and wipes lost phones. This directory models the parts of
it that keep state across several actors (server workers, the database, Redis,
the phone's services, the providers of messages), checks them with TLC, and
proves the most important facts with TLAPS. Every definition is translated from
the sources; `PROJECT.json` ("map") gives the lines each one stands for.

Paths below are relative to the repository; `app/` stands for
`android-app/app/src/main/java/com/magneetar/app/`.

## 1. The system

```
   dashboard / WhatsApp / USSD ----> server workers <----> SQLite or PostgreSQL
                                     |    |   \  leader lock, pub/sub
                                     |    |    `---------> Redis (optional)
              providers <------------'    |
     (SendGrid, Twilio, Termii, FCM)      |  location, heartbeat, upload, media,
                                          |  command poll and ack  (HTTP)
                                        phone: TrackingService, MediaCaptureService,
                                               MessagingService, SmsCommandReceiver
```

Several uvicorn workers run the same program against one database; the phone is
the only one to open connections, so everything the server wants from it waits
in a table until it asks.

| part | state it keeps | operations | who it talks to |
|---|---|---|---|
| Commands, poll channel (`server/routes/dashboard.py`, `devices.py`; `app/TrackingService.kt`, `MediaCaptureService.kt`, `RecentCommandTracker.kt`, `OfflineOutbox.kt`) | rows with status, channel and expiry; on the phone the commands in flight, the outcomes remembered, the acks not delivered | issue, poll, ack, history, delete; handle a batch, capture, wipe, remember, flush | owner, geofence, theft escalation and WhatsApp issue; the phone polls every 10 s |
| Other command channels (`server/sms_relay.py`, `fcm_command.py`, `routes/ussd.py`, `routes/whatsapp.py`; `app/SmsCommandReceiver.kt`, `MagneetarMessagingService.kt`) | delivery_channel of a row, the USSD session | send SMS, fall back to the poll, push, parse an SMS reply | Twilio, Termii, FCM, Africa's Talking |
| Leader lock (`server/leader_lock.py`) | one Redis key per task | SET NX EX, compare and delete | the background tasks of every worker |
| Offline monitor (`server/offline_monitor.py`) | rows of the alerts table | sweep: snapshot, alert, log | leader lock, alert engine |
| Alert engine (`server/alerts.py`, `circuit_breaker.py`) | failures per channel, a breaker around SendGrid, push tokens | send, retry, skip, probe | providers |
| Routing of alerts (`server/routes/devices.py`, `alerts.py`, `routes/dashboard.py`) | settings of a device, push tokens, rows of the last ten minutes | report, deduplicate, mute, choose channels and recipients, log | alert channels, the owner |
| Telemetry (`server/routes/devices.py`, `write_queue.py`, `archive_monitor.py`) | locations, last_seen, archived_at; a queue and a writer task per worker | post, batch, upload, heartbeat, flush, stop, archive | the phone; leader lock |
| WebSocket hub (`server/websocket_manager.py`, `main.py`) | connections with what each may receive, caches of owners | connect, broadcast, publish, listen, announce an owner, evict | Redis, dashboards |
| Theft mode and zones (`server/sentinel.py`, `routes/devices.py`) | operating mode, last scores, cases, state of the zone, queued commands | score, confirm, activate, recover, react to unlocks and exits | commands, alerts |
| Evidence (`server/evidence.py`, `media_store.py`, `database.py`) | files, rows, hash chain, counters | upload, chain, count, delete, close, purge | theft mode, media uploads |
| Ownership (`server/routes/devices.py`, `dashboard.py`, `user_auth.py`) | owner and archiving of each device, shares, plans | register, adopt, claim, unlink, share, revoke, delete, end an account | WebSocket hub |
| Accounts (`server/auth.py`, `user_auth.py`, `user_security.py`) | e-mailed links, refresh tokens, the second factor | reset, verify, refresh, set up, enable, disable, sign in | rate limits |
| Rate limits (`server/database.py`, `memory_rate_limit.py`) | attempts with their times | check, clean up | nearly every endpoint |
| Circles (`server/routes/circles.py`) | members, shared devices, invite code | create, join, leave, remove, share, delete | accounts, ownership |
| Start-up (`server/main.py`, `database.py`, `database_postgres.py`) | the schema; where each worker is | create, alter, validate, serve, stop | every worker of the host at once |
| PostgreSQL store (`server/storage.py`) | one pool per worker | rewrite a statement, convert parameters, connect, close | every query |
| Flags and releases (`server/feature_flags.py`, `main.py`) | a file and copies of it; digests of the release's file | read, edit; resolve, hash, keep | operator, phones |
| The rest (payments, mesh, peer-to-peer, screens...) | see "components" in `PROJECT.json` and section 5 | | |

### What is hard

* **Nothing arrives exactly once.** A request times out and is carried out all
  the same; its answer is lost; it lands after the phone gave up on it. The
  command protocol is poll-until-ack, so the server repeats a command until an
  ack arrives, and the phone has to remember what it did.
* **The memory is not durable at once** (`SharedPreferences.apply()`), it lapses
  after 60 minutes, and it is one string that two threads read, change and write
  back without a lock (`app/RecentCommandTracker.kt:58-62`).
* **Two loops and a service work on the same commands**: the command loop, the
  heartbeat loop (both flush one outbox) and the capture service, which outlives
  several polls.
* **A lease is not a lock.** A sweep may outlive the ttl of its key; a call to
  Redis may fail after it took effect; a worker may have no Redis at all.
* **State is read before an await and used after it**: the snapshot of silent
  devices, the check of a breaker, the poll response.
* **`sqlite3` begins a transaction at the first write**, so what is read before
  it is not protected, and several processes share the file.
* **Accepted writes wait in memory** for up to a window, through shutdowns.
* **A handler looks, decides and writes in statements of their own.** On one
  worker nothing comes between them when there is no await; another worker's
  request may: owners, plans, single-use links, circles, custody chains.
* **Copies grow stale**: owners, allowed sets, flags, digests, schema checks.
* **The same command travels on several channels**, and not all of them
  consult the memory of what was done.

"hazards" in `PROJECT.json` has each of them at its line, with the properties that
cover it.

### What makes each part correct

| part | properties |
|---|---|
| commands | carried out at most once, also when every message is repeated, while the phone remembers; EXECUTED is shown only for what was carried out; an outcome shown stays; nothing runs long after it expired; what does not expire is answered in the end |
| leader lock | one leader per ttl; nobody takes away another's key; the key gets free again |
| offline monitor | one alert per silence, and at least one |
| alert channels | an outage never disables a channel for good; a half-open breaker is judged by its own probes |
| routing of alerts | one incident is alerted once; an emergency goes over every channel its owner allows, at any hour |
| telemetry | one row per ping; nothing accepted is lost unaccounted for; last_seen does not go back; no device with a fresh row is hidden |
| command channels | no command is stranded on a channel that does not work; what a provider took is not polled as well; EXECUTED is shown only for what happened; the poll repeats nothing and starts nothing late |
| theft mode | stolen exactly while a case is open for it; no single ping sets it off and a streak does; no exit piles up commands |
| evidence | every photo of a case is in its chain, has its file, and is counted; an open case is not purged |
| hub | a dashboard receives only what its account could see, once; caches of owners agree in the end; the limit holds |
| ownership, circles | a device changes hands only through its owner or an overtaken request; plans hold; owners, shares and members refer to accounts that may hold them |
| accounts, limits | links and tokens serve once, codes are spaced, the factor is enabled only for a secret that was shown, attempts keep to the limit |
| start-up, store | a worker serves only on the current schema; parameters reach PostgreSQL with the types it wants, over one pool |
| flags, releases | all workers go by the file after 5 s; a digest is that of the file in place |

## 2. The modules

| module | models | state and actions |
|---|---|---|
| `CommandPromise` | what the owner is promised of one command (abstract) | times carried out, times forgotten, what is shown |
| `CommandRelay` | the poll channel end to end | `row` is the commands table, `wire` the acks that land late; `pc`, `batch`, `cur`, `out` are the command loop; `capture` the capture service; `tracker`/`saved` the RecentCommandTracker in memory and on disk, `edits` the updates of it that have read the string and not written it back; `outbox` and `taken` the OfflineOutbox and what each flusher took out of it. One action per endpoint, per step between two suspension points of a coroutine, and one each for time and process death |
| `LeaderLock` | the Redis lock | the key with the time it has left, what each worker knows of its acquisition; `AcquireDegraded` and `ReleaseFails` are calls that raise on either side of their effect |
| `OfflineMonitor` | EXTENDS LeaderLock with the sweep | `silent`, `watched`, `marked` are the devices as the query sees them, `todo`, `current`, `left` a worker's progress through its snapshot |
| `TelemetryStore` | reports, the write queue, the archive sweep | `tx` is the transaction in hand of each worker, `queue`, `writer`, `held` its SQLiteWriteQueue; `PostQueued` and `PostDirect` are the two ways of `post_location`, `PostSimple` the endpoint that un-archives nothing, `Commit` runs the writes of a transaction |
| `AlertChannels` | one channel of the alert engine in one process | `failures`, `disabled` are the engine's breaker, `breaker` the CircuitBreaker of SendGrid, `task` where each coroutine is in `send_all`, `running` the one that runs until its next await |
| `AlertRouting` | which alerts reports raise and over which channels | `job` is where each request is, `open` the request that holds the database's write lock, `rows` the best row per type that `_alert_recent` can find; `Begins` is all that `send_all` does before its first await |
| `CommandChannels` | one command over SMS, push and poll | `handler` is where `issue_command` is between its INSERT, the send, the re-stamping and the push; `sms`, `push`, `replies`, `acks` are messages in the air; `tracker` is asked by the poll loop and the SMS receiver and not by the push, `edits` as in `CommandRelay`; `accepted`, `started`, `carried`, `finished`, `dropped` are histories |
| `TheftMode` | scores, theft mode, automatic commands | `job` is where each location handler is (`Persist`, `CheckMode`, `Activate`, `CheckUnlock`, `QueueCapture`, `CheckFence`, `Cross`), `scores` what `compute_score` reads back, `streak` a history |
| `EvidenceChain` | uploads, deletions, purge | `upload` and `delete` are where requests are between file, row, chain and counter; a chain is the sequence of hashes it was computed over; `raced` and `drifted` name the disturbances the properties excuse |
| `BroadcastHub` | live updates | per worker `conns`, `cache`, `inbox` and a delivery `feeds` whose loop awaits each send; `tasks` are the announcements nobody waits for |
| `DeviceAccess` | owners and shares | `Look...` reads and decides, `Write...` writes what was decided; `late` names what an overtaken request wrote |
| `Accounts` | links, tokens, second factor | the same two halves; `uses`, `accepted`, `proved` are histories |
| `RateLimits` | both limiters | `Check` is one transaction on SQLite; `Delete`, `Count`, `Insert` are statements of their own on PostgreSQL |
| `Circles` | one circle | the two halves again; the deletion of an account as its statements, and what the foreign keys make of them |
| `Startup` | workers coming up | `worker` walks through the lifespan handler; `tables` and `columns` are the database they share |
| `Flags`, `Releases` | the flag file and its copies; the release's digests | `Truncate` and `Write` are the two calls of a save; `Stat`, `Hash`, `Store` those of a digest |
| `SqlFacade` | one statement on its way to PostgreSQL | a text is a sequence of tokens, a placeholder carries the type its place wants; `Execute` is the whole conversion |
| `PgPool` | the pool of a worker | `thread` is where each thread is between finding `_pg_db` missing and running a statement; `orphans` are connects nobody waits for |
| `Selections` | a list less some of its elements, in the order kept | used by `AlertRouting` and `BroadcastHub`, whose code filters lists |
| `ServerStatements` | what the server executes | the statements `SqlFacade` is checked on |
| `CommandRelayProofs`, `OfflineMonitorProofs`, `AlertChannelsProofs` | theorems about the modules of these names | |
| `CommandChannelsProofs`, `TelemetryStoreProofs` | theorems about the modules of these names, and about the composed runs of `MCDevices` and `MCServer` that extend them | |
| `RelayPairProofs` | theorems about the composed run of `MCRelaySafe` | |
| `ServerProofs` | theorems about `TheftMode`, `EvidenceChain`, `PgPool`, `DeviceAccess`, `Accounts`, `Flags`, `Releases`, `Startup`, `Circles`, `RateLimits` | each taken by INSTANCE |
| `DeliveryProofs` | theorems about `AlertRouting` and `BroadcastHub` | |
| `MCCommandRelay`, `MCOfflineMonitor`, `MCAlertChannels`, `MCTelemetryStore`, `MCTheftMode`, `MCRateLimits` | constants for TLC, each for the module of its name | |
| `MCRelaySafe`, `MCDevices`, `MCServer` | constants for TLC, and the composed runs | |

`CommandRelay` implements `CommandPromise` for each command (`KeepsPromise`, checked,
and proved where `WindowFits`): `shown` is computed from the row, the histories `runs`
and `forgot` are shared. `OfflineMonitor` implements `LeaderLock`'s `LockSpec` (`UsesTheLock`,
proved), so that what is proved of the lock holds for the monitor.

A definition that nothing in `Next` uses and that stands beside a similar one
(`StatusOfEarly` beside `StatusOf`, `StopAtOnce` beside `Stop`, ...) is that
definition with a plausible bug. With it in place of the right one, TLC finds
the property named in "mutants" violated: it shows what each property is able
to notice.

### Composed runs

`MCRelaySafe`, `MCDevices` and `MCServer` each check several modules in one run.
The parts of such a run share no variable in the code either (a circle and a
rate limit meet in no row), so a behaviour of the run is a behaviour of one part,
chosen at the start; interleaving the parts would only multiply their states.
The first module keeps its variables, the others live in registers `r1, r2...`
through `INSTANCE ... WITH`, and the properties say for each part what it must
keep. Where parts do meet, they meet inside a module: the monitor with its lock,
the relay with outbox and tracker, the upload with deletion and purge, the
channels with each other, circles with accounts, theft mode with zones.

### Decisions that need a reason

*Commands.* Server and phone share one clock: expiry is judged by the server
alone, retention by the phone alone, and only differences matter. Eight kinds of
command stand for the ways the code treats them (ordinary, refused at once,
captured by another service, wiped after the ack, with its three lifetimes). An
undelivered capture intent is started before time goes on. A poll response is
worked on for `MaxBatch` at most. `SaveTracker` happens only while a crash may
still follow: without one the disk is never read.

`remember` is two steps, as in the code: `Note` reads the string that holds all
records, `WriteBack` writes it with the new record and without what is older than
twice the retention. The command loop and the capture service update it without
a lock, so a record that one of them makes between the two steps of the other is
lost. The file says so itself (`app/RecentCommandTracker.kt:43-47`): the command is
"executed one extra time". `KeptApart` is checked with two commands that do just
that; `MaxLost` bounds how often a command may lose its record. Not modelled is
the third user of the same string, `P2pOfflineService`. An update made for a
capture that the phone refused is over before the next poll (`Poll`), as is
the start of the capture service, for the reason the code gives for the latter:
the poll interval is far longer.

`forgot` counts how often the memory of a command was erased, by a death, by the
end of a capture's service, or by such an overwriting update. `AtMostOnce` and the
promise excuse one more run for each of them, and `OutcomeFinal` speaks of commands
that were never forgotten. So the properties do not say that a command runs once;
they say that nothing else makes it run again: no lost, late or repeated ack, no
flush, no slow batch, no re-delivery. A wipe is acknowledged before it erases
anything, so `HonestExecuted` and the promise leave it out.

*Offline monitor.* Time is relative (how long a device has been silent), which
keeps the state space finite. The interval between sweeps is left open. A send
on a channel is one await. `told` counts alerts in the present silence and
`lapses` the events that excuse another one; both are counted as far as
`MaxLapses`.

*Telemetry.* A transaction is one step at its commit, but the check of its first
new write is made before, as in the code; `raced` names the pings that were
stored in between, which `OneRow` excuses and says so. `Window` is the longest
time from the first write of a batch to its commit. Pings carry a sequence
number: without one the server has nothing to recognise a duplicate by.
The docstring of `_persist_location` says of a duplicate that the caller still
refreshes last_seen; the code returns before, and the model follows the code.

`/api/device/location/simple` stores a row and refreshes last_seen but does not
un-archive (`server/routes/devices.py:855-895`): `HiddenIsSilent` claims that no row
of it is fresh when a device gets hidden, and nothing of rows it stores after.
A report whose coordinates are rejected is answered 'ok' and changes nothing
(`server/routes/devices.py:633-647`): pings stand for those that pass.

*Alerts.* Channels share no state, so one of any kind is modelled. Timers are
ages that stop growing where the code does not tell values apart. A call begun
while the provider works fails only if it goes down meanwhile (`doomed`).

*Routing.* SMS and push stand for the four channels: e-mail and WhatsApp find
their recipients as SMS does. One report may raise several alerts in turn. Two
reports that both find no row while the first alert is being sent, and rows that
are lost, excuse a second alert (`excused`), since the code looks for rows only.

*Channels.* The poll channel's own losses are `CommandRelay`'s subject: here its
acknowledgement arrives in the end, so that what goes wrong is due to the other
channels. A USSD row waits on channel 'sms', for which nothing is sent
(`server/routes/ussd.py:56`), until it expires; no property is claimed of it.

The tracker is updated in two steps here too, by the SMS receiver and the poll
loop; `dropped` names the commands whose record another one's update overwrote,
and the poll may start those again. The part *pair* has two locks at once, pushed in
vain and answered by no text message: what those add is in the part with one.

*Theft mode.* A ping is one of three kinds (harmless, high, critical by itself),
built from the weights of the code; what speed or distance raises a signal is
left out. The chain of reads and writes of `post_location` is kept.

*Hub.* A worker's coroutine runs until its next await (`Runs`); a worker's
listener and its request handler deliver side by side. Announcements of owners
are tasks with no order among them.

*Ownership, accounts, circles.* A request is a look and a write. What a request
does after another one wrote what it had looked at is marked (`late`, `raced`,
`overtaken`): the code has no lock there, and the properties claim nothing of
what it wrote. They claim all the rest, including that every other request
stays right beside it. On PostgreSQL each statement commits by itself, which
`Circles` and `RateLimits` distinguish.

*Start-up.* A table or column stands for all that the check treats alike:
created first, altered, created later by the script, or not in its lists. On
SQLite the users table is created without its columns of the second factor, which
the ALTERs of the same start add; on PostgreSQL each table has all its columns.

## 3. The runs

| run | bounds | what it shows |
|---|---|---|
| `relay_safe` | one command of four kinds from two sources, both flushers, one late ack, one death, four units of time; or two commands in one batch, a capture among them, with two updates of the tracker at once and one record lost of each | type, `AtMostOnce`, `HonestExecuted`, `OutcomeFinal`, `RunsInsideWindow`, `KeepsPromise`; for two commands `KeptApart` |
| `relay_live` | a capture or wipe, with or without expiry, both flushers, one death, one late ack, fair | `UnexpiringSettles` |
| `relay_lost_mode` | one lost_mode command | **violated**: `AtMostOnce` |
| `offline` | two workers, one fault, fair | type, `OneLeader`, `KeyIsOwn`, `OncePerIncident`, `SilenceReported`, `NeverStuck` |
| `offline_masked` | one worker, no faults, fair | **violated**: `SilenceTold` |
| `alerts` | two tasks, each kind of channel; a dead push token after the live one | type, `BackInTime`, `JudgedByProbes`, `Resumes` |
| `alerts_dead_token` | the dead push token first | **violated**: `Resumes` |
| `devices` | one command on every channel, or two locks whose records overwrite each other; two handlers, scores or a zone; two uploads, two deletions and the purge | types, `NotStranded`, `OneChannel`, `HonestAcross`, `OnceInTime`; `CaseMatchesMode`, `Activation`, `OnePerExit`; `InCustody`, `CountsRows`, `OpenCaseKept` |
| `theft_siren` | two handlers, a zone with the siren | **violated**: `ExitSounds` |
| `server` | two workers, two of whatever can meet (below) | types; `OneRow`, `Accounted`, `SeenHoldsOn`, `HiddenIsSilent`; `NoForeignFeed`, `ToldOnce`; `OwnerKept`; `SignInGuarded`; `StoreServes`; `OneVersion` |
| `rate_limits` | two limiters with windows of one and three minutes | **violated**: `EveryLimitHolds` |
| `telemetry_stop` | one worker, two pings | **violated**: `StopLosesNothing` |

The parts of `server`: *telemetry* (two workers, two pings, one of them sent
twice, with and without batching), *watch* (the offline monitor with a worker
that has no Redis), *feed* (an update, two connections, one fault), *owners* (a
change of owner with and without Redis), *plans* and *grants* (two devices and two
plans; one device and its shares), *links* and *codes* (credentials; the second
factor over four time steps), *rows* and *memory* (the two limiters), *circle* (two
users, one device), *start* and *alone* (two workers; one that dies or meets a
lock), *flags*, *release*, *routes* (two reports on both paths, one change of
settings, one fault), *sql*, *pool* (three threads).

### Why the bounds are enough

*Relay.* `Short = Medium = Retention = MaxBatch = 1` is the tightest case in which
`WindowFits` holds (`Lifetime + MaxBatch <= Retention + 1`), so any unit lost on the
way is noticed; `Long = 3` is beyond it, as 24 h is beyond 60 min. Four units let
a command be issued late, expire, and its record lapse. One late ack, one death
and two flushers are enough for every pair of overtaking acks. Two commands are
the least with which one can be taken for the other, or one's record overwritten by
the other's update; `MaxLost = 1` lets each lose one, and is 0 where there is one
command, which no update can take the record of.

*Offline.* `MaxTask` reaches beyond the `TTL`, so a sweep outlives its key and a
successor takes it; a token is reused only when no one holds it. One device:
sweeps treat devices independently but for the time they take, which is open.
A worker without Redis is in the part *watch*: it leads by itself, and the
properties of the lock claim nothing of it.

*Telemetry.* Two workers are what a race takes; a ping sent twice
gives duplicates in one batch, across batches and across workers, the other ping
a neighbour in the batch; `MaxTime = 4` leaves
room for two windows and an archiving threshold of two.

*Alerts.* `MaxFailures = 3` and `Threshold = 2` keep the order of the code's 5 and 3,
`Cooldown = 3` and `Recovery = 2` that of 300 s and 60 s, `Timeout = Backoff = 1` are
shorter than both.

*Devices.* One command is enough for the channels, which race for each command by
itself, two for the tracker, which they share;
the windows 1, 2, 3 keep the order of 5 min, 30 min and 24 h. Two handlers are
what a race takes, and three stored scores what the gate looks at. Two photos
are the least of which one can be missing in a chain.

*Server.* Every race in these parts is one of two requests; a third one adds an
overtaking of the same kind. The clock runs one window beyond the longest one.
Workers and accounts are symmetric: no definition chooses among them or names one,
and all of the run's properties are safety properties.

### Fairness, and why the code justifies it

*Relay.* The loops are `while (isActive)` coroutines that always take their next
step, and StartLoop stands for the sticky service and the alarms that restart
it: weak fairness. Polls, acks and flushes are tried again without end, and the
network is not down for ever: strong fairness for their success, none for the
moment. Nothing is assumed of deaths, of the owner, or of the capture's outcome.

*Offline.* Time passes; a sweep's sends return since they have timeouts; a query
or an INSERT that is tried again and again succeeds in the end (strong). No
particular worker is promised the key.

*Alerts.* asyncio runs ready callbacks in FIFO order, so no task is passed over
for ever, and alerts keep being raised. The provider owes nothing: `Resumes` says
what follows when it stays up.

### Where the documentation and the code disagree

1. **lost_mode outlives the memory of it** (`relay_lost_mode`).
   `server/routes/dashboard.py:1406` lets a lost_mode command wait for 24 h;
   `app/RecentCommandTracker.kt:31` calls its 60 minutes longer than any expiry.
   While the acks do not get through, the phone runs the command again.
2. **A row may hide the next silence** (`offline_masked`). `server/alerts.py:613`
   stamps the row when the send returns. A device that reports after the
   snapshot gets a row newer than that report, and when it then goes silent for
   good no sweep selects it; `server/offline_monitor.py:9-11` promises another alert.
3. **A clean shutdown loses an accepted write** (`telemetry_stop`).
   `server/write_queue.py:71` cancels the writer, which in the middle of a window
   holds the first write in a local variable; `server/main.py:361` says that pending
   writes are flushed.
4. **A dead push token keeps the channel closed** (`alerts_dead_token`).
   `server/alerts.py:183` counts a refused token against the whole channel. Once an
   outage has opened the circuit, each probe goes to the first token; if that one
   is dead, the circuit opens again before a live one is tried, although
   `server/alerts.py:126-127` says that outages do not disable a channel for good.

5. **An expired siren silences the next** (`theft_siren`).
   `server/routes/devices.py:517` looks for a pending row and not at its expiry: an
   alarm that nobody fetched in its 5 minutes keeps later exits silent until
   someone opens the command history. The comment above it promises the guard
   "until the first one expired".
6. **A short window forgets the long ones** (`rate_limits`). Each check deletes
   what is older than its own window, of every limiter
   (`server/database.py:998`): a check with a window of a minute forgets the failed
   sign-ins of the last fifteen, which `server/user_security.py:400` limits to five.

Read, and not made a run:

* `server/archive_monitor.py:11` says "Any telemetry un-archives". A hidden device that
  reports to `/api/device/location/simple` stays hidden, with a fresh row and a fresh
  last_seen: `server/routes/devices.py:890` refreshes the one and nothing there clears
  archived_at. `PostSimple` models it, and `HiddenIsSilent` leaves these rows out.
* The PostgreSQL purge (`server/database_postgres.py:594-611`) deletes the media of
  open cases too and leaves the files, unlike `server/database.py:1042-1044`. The
  purge runs once per start, in every worker, and lowers no counter.
* A code of the next time step is accepted early and may serve again one step
  later; an enabling that overtakes a disabling leaves the factor on with no
  secret; a reset uses up its link before it finds the password too weak
  (`server/user_security.py:514`).
* Ending an account that is in a circle fails on a foreign key; on PostgreSQL its
  devices are gone by then (`server/user_auth.py:324`).
* `ensure_initialized` does not look for the tables payments, tracking_consents,
  abuse_reports, privacy_consents, data_export_requests, nor for
  recovery_sightings.hop_count and relayed. It passes over every
  OperationalError of an ALTER, a lock's too. PostgreSQL has no upgrade of
  columns at all, and after a failed set-up the store goes on with it.
* `server/main.py:826-832` says that size and hash are always of one version of a
  file; a file replaced between the stat and the hash has them of two. The next
  request, with the new stat, hashes again.
* `server/storage.py`: `RETURNING id` is added to upserts of tables that have no id;
  geofences.last_inside is not listed as BOOLEAN; INSERT OR IGNORE
  (`server/auth.py:131`) is not rewritten; a text that looks like a date is
  converted whatever its column. A connect given up after 60 s leaves a pool
  nobody uses.
* The alert of a device without a push token goes to every registered token. The
  id 'broadcast', under which a token may be registered without a device, is no
  device, so the foreign key refuses it (`server/routes/devices.py:1321`,
  `server/database.py:676`).
* `failed_unlock_attempts` is called an always-deliver alert
  (`server/routes/devices.py:740`), but is in neither of the lists in
  `server/alerts.py:29-40`: quiet hours and any choice of types silence it.

## 4. What is proved

TLAPS proves, for all values of the constants that satisfy their assumptions, every
safety property that the passing runs check, but for those listed at the end of
this section. A theorem of a module that is taken by INSTANCE is about that
module's own `Spec`, with the assumptions on its constants as hypotheses. The
composed runs are instances of it, with some constants fixed; the theorems named
`...InRun` carry the result over to their `PartSpec`. The last column names the
run's property.

| module | theorem | says | in the runs |
|---|---|---|---|
| `CommandRelayProofs` | `TypeCorrect` | `[]TypeOK` | `TypeOK` |
| | `AtMostOnceInvHolds`, `AtMostOnceHolds` (*) | carried out once, and once more per lapse of memory | `AtMostOnce` |
| | `RelayInvHolds`, `HonestExecutedHolds` | EXECUTED only of what was carried out | `HonestExecuted` |
| | `RunsInsideWindowHolds` | nothing starts later than a batch after its window | `RunsInsideWindow` |
| | `OutcomeInvHolds`, `OutcomeFinalHolds` (*) | an outcome shown stays | `OutcomeFinal` |
| | `KeepsPromiseHolds` (*) | the relay implements `CommandPromise` | `KeepsPromise` |
| `TelemetryStoreProofs` | `TypeCorrect`, `StoreInvHolds` | the invariant below | the types in `AllTypes` |
| | `OneRowHolds`, `AccountedHolds`, `HiddenIsSilentHolds`, `SeenHoldsOnHolds` | | the properties of these names |
| | `TelemetryInRun` | in every part of `MCServer` telemetry behaves as specified | |
| | `NoForeignFeedInRun`, `ToldOnceInRun`, `SignInGuardedInRun`, `OwnerKeptInRun`, `OneVersionInRun`, `AllTypesInRun` | the run `server` | the properties of these names |
| | `StoreServesInRun` | the run `server`, in every part but *sql* | `StoreServes` |
| `OfflineMonitorProofs` | `LockInvHolds`, `OneLeaderHolds`, `KeyIsOwnHolds` | one leader per ttl; no key is taken away | `OneLeader`, `KeyIsOwn` |
| | `UsesTheLock`, `OneSweep` | the monitor implements `LockSpec` | |
| | `MonitorTypeCorrect`, `MonitorInvHolds`, `OncePerIncidentHolds` | one alert per silence and lapse | `TypeOK`, `OncePerIncident` |
| `AlertChannelsProofs` | `AlertsTypeCorrect`, `AlertInvHolds`, `JudgedByProbesHolds` | probes alone judge a half-open breaker | `TypeOK`, `JudgedByProbes` |
| | `BackInTimeHolds` | both breakers admit messages within `Aftermath` of an outage | `BackInTime` |
| `CommandChannelsProofs` | `ChannelInvHolds`, `NotStrandedHolds`, `OneChannelHolds`, `HonestAcrossHolds` | | the properties of these names |
| | `PollOnceInTimeHolds` | for any number of commands, the poll repeats nothing whose record is not overwritten, and starts nothing late | `OnceInTime`, each of its parts |
| | `ChannelsInRun` | in every part of `MCDevices` the channels behave as specified | |
| | `CaseMatchesModeInRun`, `OnePerExitInRun`, `ActivationInRun`, `InCustodyInRun`, `CountsRowsInRun`, `OpenCaseKeptInRun`, `AllTypesInRun` | the run `devices` | the properties of these names |
| `RelayPairProofs` | `RelayInRun`, `KeptApartHolds` | two commands in one batch: `AtMostOnceHolds` and `HonestExecutedHolds` for that part of the run | `KeptApart` |
| `ServerProofs` | `EvidenceInvHolds`, `EvidenceTypeCorrect`, `InCustodyHolds`, `CountsRowsHolds`, `OpenCaseKeptHolds` | evidence | `InCustody`, `CountsRows`, `OpenCaseKept` |
| | `CaseMatchesModeHolds`, `OnePerExitHolds`, `ActivationHolds` | theft mode | `CaseMatchesMode`, `OnePerExit`, `Activation` |
| | `AccessInvHolds`, `OwnerKeptHolds`, `SharersAreMembersHolds` | owners, plans, shares, circles | `OwnerKept` |
| | `SignInGuardedHolds`, `LimitsKept` | credentials, and the limits on guessing them | `SignInGuarded` |
| | `ServesSchemaHolds`, `StartupTyped`, `OnePoolHolds` | start-up and the pool | `StoreServes`, but for the part *sql* |
| | `FlagsSettleHolds`, `DigestTrueHolds` | flags and digests | `OneVersion` |
| `DeliveryProofs` | `HubInvHolds`, `FeedsHold` | who receives an update, and how often | `NoForeignFeed`, `ToldOnce` |
| | `OneAlertHolds` | one alert per incident, none kept back | `ToldOnce` |
| | `ReportsTyped`, `FeedsTyped` | every variable has its type | the types in `AllTypes` |

(*) with `WindowFits` as a hypothesis; for the two commands of `KeptApartHolds` it is
proved (`PairConstants`). Most theorems of `ServerProofs` include the types of their
modules, `ServesSchemaHolds` with `StartupTyped`.

### From the parts to the composed runs

`MCRelaySafe`, `MCDevices` and `MCServer` choose one part at the start and leave it at
that. What a theorem `...InRun` says of `PartSpec` follows in four steps:

1. *The part's specification.* A lemma per part (`FeedInRun`, `PairInRun`, ...): the
   part is the chosen one never, or for ever, and then the registers behave as its
   module specifies. For the module that is extended it holds without a case
   (`TelemetryInRun`, `ChannelsInRun`, `RelayInRun`): it rests while another part moves.
2. *The copy that the proofs speak of.* The proofs about a part are in another module
   that takes it by INSTANCE, so an instance of the proofs holds a copy of it under
   another name. Two operators with different names are not one for the prover, even
   with the same definition; the lemmas `Same...` expand both down to the variables
   and find initial states, steps and hence behaviours the same.
3. *The constants.* `ServerBounds` and its like: the assumptions of the MC module give
   the hypotheses of the cited theorems, for the values the run fixes.
4. *The property* is the conjunction over the parts.

What stays a parameter is all that the cfg gives values to: the workers, accounts,
devices, connections, links, tokens, requests and threads of `MCServer`; the handlers,
commands, forms of number and kinds of build, items and deleters of `MCDevices`, with
its score bars, its confirming streak, its windows and its size limits. What the MC module fixes, such as the number of set-ups or the windows of the limiters, is arbitrary in the
theorems about the parts.

### What the proofs assume

Most assumptions only say that a constant is a number or a set of the right kind, or
that a value like `None` is none of a set. These say more:

* `WindowFits` (commands): each lifetime plus the time a response is worked on fits
  into the retention. It holds for the owner's, the zones' and WhatsApp's commands in
  the code's own numbers, except lost_mode (the first disagreement above), and not
  for a theft escalation's commands, which have no expiry: those are run again after
  an hour of lost acks. It is a hypothesis of the theorems that need it and of no
  other.
* `TelemetryConstants`: the archive's threshold is longer than a batch is held (days
  against a fraction of a second).
* `AlertConstants`: a call is given up (15 s) before SendGrid's breaker recovers
  (60 s). `JudgedByProbes` rests on it.
* `ChannelConstants`: the windows of a lock (5 min), of the other commands (30 min)
  and of a text message (24 h) are in this order.
* `TheftConstants`: the bars of the score are ordered as in the code
  (`HighBar <= Capped < Threshold <= CapScore`). `GateConstants`: the gate looks at three
  pings or more, and a sum of weights is a number. With two pings `NoSingleShot` is
  false. The sum is a fold; that it stays a number is induction over data, which TLC
  does for the weights of the code.
* `RateConstants`: `Keep`, the seven days of the clean-up, is no shorter than any window.
* The sets `Worker`, `Item` or `Device` are finite where a proof counts members
  (`OfflineMonitor`, `EvidenceChain`, `DeviceAccess`, `BroadcastHub`).
* `FreshToken` (in `LeaderLock`, a guard): `token_hex(8)` does not repeat a token in use.
* `BackInTimeHolds` has for push the hypothesis that every token is live. With
  refused tokens of as many concurrent alerts as `MaxFailures` the bound is missed:
  each refusal counts as a failure of the channel and may come after the last
  success. The two tasks of the run `alerts` are fewer than that.

### The inductive invariants

Hardly a property above is inductive by itself. TLC checked each strengthening on
the constants of a run before it was proved.

**At most once** (`AtMostOnceInv`). `AtMostOnce` does not say why a command that looks
new has not been run. Added are that rows expire early enough (`RowsExpire`), that a
record outlives every response that can still bring its command, also one that an
update has read and will write back (`RecordsOutlive`), that what the loop holds had
not expired when it was fetched (`LoopInTime`), that an update belongs to an outcome
about to be acknowledged (`EditsStand`), and that what is not known and not under way
has no run but the forgotten ones (`NoSecondRun`). Known is what has a record or is
about to get one (`Known`): a command run just now has none before its update is
written back. The heart of it is `FreshHasNoRun`: if the tracker has no unexpired
record of a command of the batch, there is none at all, since a lapsed one would be
too old for the response the command came in. An update that writes back a string
without another command's record makes that one unknown, and adds to `forgot` what
the command then may run again (`UnrunYet` says so of a wipe whose ack is on its way).

**What is reported** (`RelayInv`, `OutcomeInv`). The outcome of a command exists in many
copies: the tracker in memory and on disk, the updates of it under way, both
flushers' hands, the outbox, late acks, the row. `RelayInv` says of each that it
reports a run that took place,
`OutcomeInv` that all of them agree and that there is none of a command that can
still be run; without the second, a late ack could replace what the row shows. The
refinement follows from both: `Shown` changes once, and to what was carried out.

**One leader** (`LockInv`). The key names the leader and has exactly the rest of the
ttl left (`LeaderHoldsKey`), and no two acquisitions share a token (`TokensDiffer`),
which is what makes compare-and-delete safe.

**One alert per silence** (`MonitorInv`). The sweeps under way and the alerts told or
still to come of one silence are counted against the lapses: whoever sweeps
without being entitled to it, because its key ran out or a row was lost, is one of
them. The bound in `OncePerIncident` is that count with no sweep left.

**Rows and last_seen** (`StoreInv`). A check made before a batch commits still holds
at the commit unless the ping was stored in between (`ChecksHold`); what is queued or
held belongs to a worker that runs (`QueuesInUse`); nothing waits longer than a window
(`InTime`); so last_seen lags behind the newest row by a window at most (`NewestSeen`),
which is why the archive hides no reporting device.

**Breakers** (`AlertInv`). A call that began before the breaker opened has been given
up before it is half open (`Waits`, `OpenAdmitsNone`), and a call that began while the
provider was down ends soon after it is up again (`DoomedEnd`); the two counters of
failures start again from what such calls leave (`BreakerCounts`, `EngineCounts`).

**Channels** (`ChannelInv`). What a row's channel says of the text message sent for it:
a row off the poll is the SMS relay's business or a provider's (`OffThePoll`,
`Relayed`), every report of an execution comes from one, and what is finished has a
record unless another command's update overwrote it (`Reported`).

**Evidence** (`EvidenceInv`). Where each upload and each deletion is tells what of its
item exists (`RowsFollow`, `DeletesFollow`, `FileBehindRow`); the chain holds what its
last computation read, and what has come since is about to compute one (`Chains`,
`ReadsHold`); the counter is the rows plus the steps still to be taken (`Counts`).

**Theft mode** (`TheftInv`, `ScoreInv`). Case and mode change in one step, so
`CaseMatchesMode` needs its types only; `OneLive` says `OnePerExit` for each kind of
reaction, without counting: no two of its rows can still be fetched. For the gate, the stored scores
begin with the streak that the history variable claims (`StreakStored`), and a score
was lowered only to what the gate allows (`Judged`).

**Look and write** (`AccessInv`, `AccountsInv`, `CirclesInv`, `RateInv`). What a request
read still holds when it writes, unless it is marked as overtaken; each write has to
mark all requests whose reading it spoils. In `RateInv` this is `RoomLeft`. Beside it
`StillThere` says that what was let through within the narrowest window is still in
the table: a deletion takes away only what is older than some window, and none is
narrower. That is where a wider limiter's count goes wrong (`rate_limits`).

**Hub and routing** (`HubInv`, `RoutingInv`). An update is in one place per worker, be
it the way to Redis, an inbox or a delivery under way, until each connection has it;
a worker whose copy of the owner is wrong has yet to hear of the right one. What was
told of an incident has a row, or a channel that is still to be logged (`RowPending`);
a channel that is due was tried or its turn is to come (`DuePending`); the write lock
is held from a request's first write to its commit and not outside
(`LockedToWrite`).

**Start-up, pool, files** (`StartupInv`, `PoolInv`, `FlagsInv`, `ReleasesInv`). What a
worker knows of the database at each step of the lifespan handler (`Knows`); that who
finds the pool missing or connects holds the lock; that a copy which differs from the
file was taken no later than the file was last touched (`StaleIsOld`); which stamps
were given out, and which of them requests and digests hold (`StampsGiven`,
`StampsHeld`).

### What is only model-checked

* Liveness: `UnexpiringSettles`, `SilenceReported`, `NeverStuck`, `Resumes`. Fairness and
  ENABLED are out of the prover's reach.
* `ParametersFit` of `SqlFacade` (the part *sql* of `StoreServes`): the conversion goes
  through a text token by token, in a recursive function and in folds. What those yield
  is induction over data, be it for the eleven statements of `ServerStatements` alone.
  The types of this part are proved.
* `OnceInTime` for the part *pair* of `devices`: `PollOnceInTimeHolds` covers two commands
  as it does any number, but is not carried over to the registers of that part, and
  neither are their types.
* The symmetry and the bounds of the runs are TLC's and have no part in the theorems.

## 5. What is not modelled

* Geometry and scoring of positions, location filtering: arithmetic on floats.
  Which coordinates are rejected; what follows from it is under *Telemetry* above.
* Message templates, Termii beside Twilio, the dialogue texts of USSD and WhatsApp;
  alerts raised elsewhere than by reports and the monitor.
* Pings without a sequence number, for which the server has no way to recognise a
  duplicate; tags, settings, cell-tower look-ups.
* Roles of shares, developer API keys (nothing creates one), the admin socket
  (no client opens it), ping and pong.
* Payments and consent: they import a function that does not exist. Mesh: switched
  off in the released build. `db_pool.py`, `database_adapter.py`, `migrations.py`,
  `cdn_storage.py`, `e2e_encryption.py`, `device_attestation.py`, `hardware_tags.py`,
  `email_service.py`, `data_export.py`, `data_retention.py` and `routes/admin.py`:
  nothing imports them. The caches (`cache.py`, `cache_redis.py`): the functions that
  would fill or empty them have no caller.
* The iOS phone, whose poller remembers nothing of what it ran; peer-to-peer
  commands (which share the tracker with the others); the phone's own services;
  screens, web application, deployment.

"components" gives the reason part by part.

## 6. Plan

Modelled and proved is what this directory set out for. What could follow:

1. `ParametersFit` for the statements of `ServerStatements`, each by a chain of lemmas
   about what the loops over its tokens have yielded after each of them.
2. The parts of the device API and of the dashboard that are so far left out (section 5),
   where they come to share state with what is modelled.

## Running it

```
tlc -workers 2 -config MCRelaySafe.cfg MCRelaySafe.tla
tlc -workers 2 -config MCServer.cfg MCServer.tla
for m in *Proofs.tla; do tlapm $m; done
```

The longest run, `server`, takes about three minutes on two cores. The proofs take
about thirteen minutes for `TelemetryStoreProofs`, nine for `ServerProofs`, five for
`DeliveryProofs`, four for `CommandChannelsProofs`, and less than two for each of the
others.
