--------------------------- MODULE TelemetryStore ---------------------------
(***************************************************************************)
(* How a device's reports reach the database: POST /api/device/location      *)
(* with its two ways of writing (on the request's connection, or through     *)
(* the worker's SQLiteWriteQueue), POST /api/device/location/simple, the     *)
(* upload of the device's offline queue, the heartbeat, and the archive      *)
(* monitor that hides devices by last_seen.                                  *)
(* Several uvicorn workers share one SQLite file; one device is modelled,    *)
(* and its pings carry a sequence number and coordinates that                *)
(* validate_location_report lets pass: the others are answered 'ok' and      *)
(* change nothing.                                                           *)
(*                                                                         *)
(* A write is skipped when its ping is already stored.  sqlite3 begins a     *)
(* transaction at its first INSERT, so the check of the first ping that is   *)
(* not skipped is made before BEGIN, where another process can still write.  *)
(***************************************************************************)
EXTENDS Integers, Sequences, FiniteSets

CONSTANTS
    Worker,
    Ping,           \* pings of the device (ping_sequence and device_timestamp)
    Window,         \* longest time from a batch's first write to its commit
    ArchiveAfter,   \* MT_ARCHIVE_AFTER_DAYS, at least 7 days
    MaxSends,       \* ping -> bound on how often the device sends it
    MaxTime         \* bound on the clock

ASSUME TelemetryConstants ==
    /\ Window \in Nat /\ ArchiveAfter \in Nat
    /\ Window < ArchiveAfter
    /\ MaxSends \in [Ping -> Nat] /\ MaxTime \in Nat

VARIABLES
    now,
    batched,    \* MT_WRITE_BATCH_MS > 0
    rows,       \* location rows of each ping
    newest,     \* server_timestamp of the newest of them
    simple,     \* that of the newest row of /location/simple while not hidden
    lastSeen,   \* devices.last_seen
    archived,   \* devices.archived_at is set
    queue,      \* asyncio.Queue of each worker
    writer,     \* its writer task waits for a write, or for the window to end
    held,       \* the write it holds meanwhile
    opened,     \* when the window, or the transaction in hand, began
    tx,         \* the transaction each worker has in hand
    sent,       \* how often each ping was sent
    accepted,   \* history: pings the server answered 'ok' to
    lost,       \* history: pings of which a write was dropped
    raced       \* history: pings stored by another process after the check

table   == <<rows, newest, simple, lastSeen, archived>>
writers == <<queue, writer, held, opened, tx>>
history == <<accepted, lost, raced>>
vars == <<now, batched, table, writers, sent, history>>

Write == [ping: Ping, at: Nat]

\* first is the place of the first write that was not found stored.
Tx == [of: {"none", "post", "upload", "flush", "final"}, writes: Seq(Write), first: Nat]

NoTx == [of |-> "none", writes |-> <<>>, first |-> 0]

TypeOK ==
    /\ now \in Nat
    /\ batched \in BOOLEAN
    /\ rows \in [Ping -> Nat] /\ newest \in [Ping -> Nat] /\ simple \in Nat
    /\ lastSeen \in Nat
    /\ archived \in BOOLEAN
    /\ queue \in [Worker -> Seq(Write)]
    /\ writer \in [Worker -> {"waiting", "window", "stopped"}]
    /\ held \in [Worker -> Seq(Write)]
    /\ opened \in [Worker -> Nat]
    /\ tx \in [Worker -> Tx]
    /\ sent \in [Ping -> Nat]
    /\ accepted \subseteq Ping /\ lost \subseteq Ping /\ raced \subseteq Ping
    /\ \A w \in Worker : (held[w] # <<>>) = (writer[w] = "window")

Pings(s) == {s[i].ping : i \in DOMAIN s}

Stored(p) == rows[p] > 0

\* The writes of the worker's queue that are not committed yet.
InHand(w) ==
    queue[w] \o held[w] \o (IF tx[w].of \in {"flush", "final"} THEN tx[w].writes ELSE <<>>)

\* A transaction blocks the event loop until it ends.
Serving(w) == writer[w] # "stopped" /\ tx[w] = NoTx

\* The writes of a transaction are checked up to the first that is not stored.
Begin(w, of, s) ==
    LET fresh == {i \in DOMAIN s : ~Stored(s[i].ping)} IN
    tx' = [tx EXCEPT ![w] =
        [of |-> of, writes |-> s,
         first |-> IF fresh = {} THEN Len(s) + 1
                   ELSE CHOOSE i \in fresh : \A j \in fresh : i <= j]]

-----------------------------------------------------------------------------
(* Requests *)

Send(w, p) ==
    /\ Serving(w)
    /\ sent[p] < MaxSends[p]
    /\ sent' = [sent EXCEPT ![p] = @ + 1]

\* post_location through the write queue: answered at once, and un-archived
\* on the request's own connection.
PostQueued(w, p) ==
    /\ batched
    /\ Send(w, p)
    /\ queue' = [queue EXCEPT ![w] = Append(@, [ping |-> p, at |-> now])]
    /\ archived' = FALSE
    /\ accepted' = accepted \cup {p}
    /\ UNCHANGED <<now, batched, rows, newest, simple, lastSeen, writer, held, opened, tx, lost, raced>>

\* post_location on the request's connection.
PostDirect(w, p) ==
    /\ ~batched
    /\ Send(w, p)
    /\ Begin(w, "post", <<[ping |-> p, at |-> now]>>)
    /\ opened' = [opened EXCEPT ![w] = now]
    /\ UNCHANGED <<now, batched, table, queue, writer, held, history>>

\* upload_offline_queue: always on the request's connection.
Upload(w, p, q) ==
    /\ Send(w, p)
    /\ Begin(w, "upload", <<[ping |-> p, at |-> now], [ping |-> q, at |-> now]>>)
    /\ opened' = [opened EXCEPT ![w] = IF writer[w] = "window" THEN @ ELSE now]
    /\ UNCHANGED <<now, batched, table, queue, writer, held, history>>

\* post_heartbeat: always on the request's connection.
Heartbeat(w) ==
    /\ Serving(w)
    /\ lastSeen' = now
    /\ archived' = FALSE
    /\ UNCHANGED <<now, batched, rows, newest, simple, writers, sent, history>>

\* post_location_simple: a row that belongs to no ping, and nothing un-archives.
PostSimple(w) ==
    /\ Serving(w)
    /\ lastSeen' = now
    /\ simple' = IF archived THEN simple ELSE now
    /\ UNCHANGED <<now, batched, rows, newest, archived, writers, sent, history>>

-----------------------------------------------------------------------------
(* SQLiteWriteQueue *)

OpenWindow(w) ==
    /\ Serving(w) /\ writer[w] = "waiting"
    /\ queue[w] # <<>>
    /\ held' = [held EXCEPT ![w] = <<Head(queue[w])>>]
    /\ queue' = [queue EXCEPT ![w] = Tail(@)]
    /\ opened' = [opened EXCEPT ![w] = now]
    /\ writer' = [writer EXCEPT ![w] = "window"]
    /\ UNCHANGED <<now, batched, table, tx, sent, history>>

\* Mutant of CloseWindow: what was queued meanwhile waits for the next window.
CloseWindowAlone(w) ==
    /\ Serving(w) /\ writer[w] = "window"
    /\ Begin(w, "flush", held[w])
    /\ held' = [held EXCEPT ![w] = <<>>]
    /\ writer' = [writer EXCEPT ![w] = "waiting"]
    /\ UNCHANGED <<now, batched, table, queue, opened, sent, history>>

\* Mutant of CloseWindow: the batch is not a new list in the next round.
CloseWindowHolding(w) ==
    /\ Serving(w) /\ writer[w] = "window"
    /\ Begin(w, "flush", held[w] \o queue[w])
    /\ queue' = [queue EXCEPT ![w] = <<>>]
    /\ writer' = [writer EXCEPT ![w] = "waiting"]
    /\ UNCHANGED <<now, batched, table, held, opened, sent, history>>

\* The sleep ends: everything that was queued meanwhile joins the batch.
CloseWindow(w) ==
    /\ Serving(w) /\ writer[w] = "window"
    /\ Begin(w, "flush", held[w] \o queue[w])
    /\ held' = [held EXCEPT ![w] = <<>>]
    /\ queue' = [queue EXCEPT ![w] = <<>>]
    /\ writer' = [writer EXCEPT ![w] = "waiting"]
    /\ UNCHANGED <<now, batched, table, opened, sent, history>>

\* Mutant of Inserted: a write looks at the table as it was before the batch.
InsertedBlind(t, i) == i >= t.first /\ (i = t.first \/ ~Stored(t.writes[i].ping))

\* _persist_location, and the upload's loop, store the i-th ping or skip it.
Inserted(t, i) ==
    \/ i = t.first
    \/ /\ i > t.first
       /\ ~Stored(t.writes[i].ping)
       /\ \A j \in t.first..(i - 1) : t.writes[j].ping # t.writes[i].ping

\* The transaction commits.  A posted ping that is already stored does not
\* refresh last_seen; an upload always does.  The requests answer and
\* un-archive here.
Commit(w) ==
    LET t == tx[w]
        new == {i \in DOMAIN t.writes : Inserted(t, i)}
        touching == IF t.of = "upload" THEN DOMAIN t.writes ELSE new
        request == t.of \in {"post", "upload"}
    IN  /\ t.of # "none"
        /\ rows' = [p \in Ping |-> rows[p] + Cardinality({i \in new : t.writes[i].ping = p})]
        /\ newest' = [p \in Ping |-> IF \E i \in new : t.writes[i].ping = p
                                     THEN t.writes[CHOOSE i \in new : t.writes[i].ping = p].at
                                     ELSE newest[p]]
        /\ lastSeen' = IF touching = {} THEN lastSeen
                       ELSE t.writes[CHOOSE i \in touching : \A j \in touching : j <= i].at
        /\ raced' = raced \cup {t.writes[i].ping : i \in {j \in new : Stored(t.writes[j].ping)}}
        /\ archived' = (archived /\ ~request)
        /\ accepted' = IF request THEN accepted \cup Pings(t.writes) ELSE accepted
        /\ tx' = [tx EXCEPT ![w] = NoTx]
        /\ UNCHANGED <<now, batched, simple, queue, writer, held, opened, sent, lost>>

\* The transaction fails: a batch is dropped; a request answers 500 and the
\* device keeps its pings.
Rollback(w) ==
    /\ tx[w].of # "none"
    /\ lost' = IF tx[w].of \in {"flush", "final"} THEN lost \cup Pings(tx[w].writes) ELSE lost
    /\ tx' = [tx EXCEPT ![w] = NoTx]
    /\ UNCHANGED <<now, batched, table, queue, writer, held, opened, sent, accepted, raced>>

\* Mutant of Stop: what is still queued is forgotten.
StopAtOnce(w) ==
    /\ batched /\ Serving(w)
    /\ lost' = lost \cup Pings(held[w])
    /\ held' = [held EXCEPT ![w] = <<>>]
    /\ queue' = [queue EXCEPT ![w] = <<>>]
    /\ writer' = [writer EXCEPT ![w] = "stopped"]
    /\ UNCHANGED <<now, batched, table, opened, tx, sent, accepted, raced>>

\* stop(): the task is cancelled, and in mid-window takes the write it holds
\* along; what is still queued gets a last transaction.
Stop(w) ==
    /\ batched /\ Serving(w)
    /\ lost' = lost \cup Pings(held[w])
    /\ held' = [held EXCEPT ![w] = <<>>]
    /\ queue' = [queue EXCEPT ![w] = <<>>]
    /\ IF queue[w] = <<>> THEN UNCHANGED tx ELSE Begin(w, "final", queue[w])
    /\ opened' = [opened EXCEPT ![w] = IF writer[w] = "window" THEN @ ELSE now]
    /\ writer' = [writer EXCEPT ![w] = "stopped"]
    /\ UNCHANGED <<now, batched, table, sent, accepted, raced>>

Start(w) ==
    /\ writer[w] = "stopped" /\ tx[w] = NoTx
    /\ writer' = [writer EXCEPT ![w] = "waiting"]
    /\ UNCHANGED <<now, batched, table, queue, held, opened, tx, sent, history>>

\* The process is killed and started again.
Kill(w) ==
    /\ InHand(w) # <<>> \/ tx[w] # NoTx
    /\ lost' = lost \cup Pings(InHand(w))
    /\ queue' = [queue EXCEPT ![w] = <<>>]
    /\ held' = [held EXCEPT ![w] = <<>>]
    /\ tx' = [tx EXCEPT ![w] = NoTx]
    /\ writer' = [writer EXCEPT ![w] = "waiting"]
    /\ UNCHANGED <<now, batched, table, opened, sent, accepted, raced>>

-----------------------------------------------------------------------------
(* archive_monitor, and time *)

\* Mutant of Archive: the threshold's floor is forgotten.
ArchiveEarly ==
    /\ lastSeen < now
    /\ archived' = TRUE
    /\ UNCHANGED <<now, batched, rows, newest, simple, lastSeen, writers, sent, history>>

\* archive_stale_devices, under its leader lock: one UPDATE.
Archive ==
    /\ lastSeen + ArchiveAfter < now
    /\ archived' = TRUE
    /\ UNCHANGED <<now, batched, rows, newest, simple, lastSeen, writers, sent, history>>

\* Neither a window nor the transaction after it lasts longer than Window.
Tick ==
    /\ now < MaxTime
    /\ \A w \in Worker :
        /\ writer[w] = "window" \/ tx[w] # NoTx => now < opened[w] + Window
        /\ writer[w] = "waiting" => queue[w] = <<>>
    /\ now' = now + 1
    /\ UNCHANGED <<batched, table, writers, sent, history>>

-----------------------------------------------------------------------------
\* The device has registered at time 0.
Init ==
    /\ now = 0
    /\ batched \in BOOLEAN
    /\ rows = [p \in Ping |-> 0] /\ newest = [p \in Ping |-> 0] /\ simple = 0
    /\ lastSeen = 0 /\ archived = FALSE
    /\ queue = [w \in Worker |-> <<>>] /\ held = [w \in Worker |-> <<>>]
    /\ writer = [w \in Worker |-> "waiting"]
    /\ opened = [w \in Worker |-> 0]
    /\ tx = [w \in Worker |-> NoTx]
    /\ sent = [p \in Ping |-> 0]
    /\ accepted = {} /\ lost = {} /\ raced = {}

Next ==
    \/ \E w \in Worker, p \in Ping :
        PostQueued(w, p) \/ PostDirect(w, p) \/ \E q \in Ping : Upload(w, p, q)
    \/ \E w \in Worker :
        \/ Heartbeat(w) \/ PostSimple(w) \/ OpenWindow(w) \/ CloseWindow(w) \/ Commit(w) \/ Rollback(w)
        \/ Stop(w) \/ Start(w) \/ Kill(w)
    \/ Archive
    \/ Tick

Spec == Init /\ [][Next]_vars

-----------------------------------------------------------------------------
(* Properties *)

\* "At-most-once: a retried/duplicate ping is skipped" (_persist_location):
\* however often the device sends a ping, to whichever workers, by whichever
\* endpoint and however they batch it, it has one row; unless another process
\* stored it between the check before BEGIN and the INSERT.
OneRow == \A p \in Ping : rows[p] <= 1 \/ p \in raced

\* "A write is never silently dropped" (post_location): a ping the server
\* answered 'ok' to is stored, or on its way, or was lost to a failed
\* transaction, a killed process or a write held by a cancelled writer.
Accounted ==
    \A p \in accepted :
        Stored(p) \/ p \in lost \/ \E w \in Worker : p \in Pings(InHand(w))

\* "last_seen lands within one flush window": queued writes and direct ones
\* overtake one another, but last_seen never goes back by more than a window.
SeenHoldsOn == [][lastSeen' + Window >= lastSeen]_vars

\* Without the write queue, the sweep hides no device that has a row newer than
\* the threshold (up to one window), and a row stored of a hidden one brings it
\* back (post_location, post_heartbeat and upload_offline_queue un-archive),
\* whatever interleaves.  Not so a row that /location/simple stores of a device
\* already hidden: nothing un-archives there.  With the queue, the sweep can
\* hide a device whose report is still queued.
HiddenIsSilent ==
    archived /\ ~batched =>
        /\ \A p \in Ping : Stored(p) => newest[p] + ArchiveAfter < now + Window
        /\ simple + ArchiveAfter < now + Window

\* "Flush any pending batched telemetry writes before the DB goes away"
\* (main.py, at shutdown): stopping the writer loses nothing that was accepted.
StopLosesNothing ==
    [][\A w \in Worker : writer[w] # "stopped" /\ writer'[w] = "stopped" => lost' = lost]_vars

-----------------------------------------------------------------------------
(* The inductive strengthening of the invariants *)

\* Only a worker that batches uses its queue, and a stopped writer has none.
QueuesInUse ==
    \A w \in Worker :
        /\ ~batched => queue[w] = <<>> /\ writer[w] = "waiting" /\ tx[w].of \notin {"flush", "final"}
        /\ writer[w] = "stopped" => queue[w] = <<>>
        /\ tx[w].of = "none" => tx[w] = NoTx

\* The writes of s are from the time between a and b.
From(s, a, b) == \A i \in DOMAIN s : a <= s[i].at /\ s[i].at <= b

\* What a worker has in hand is no older than its window, which is not over; a
\* write for which no window is open yet came this very moment.
WorkerInTime(w) ==
    /\ opened[w] <= now
    /\ writer[w] = "window" \/ tx[w] # NoTx => now <= opened[w] + Window
    /\ writer[w] = "waiting" => From(queue[w], now, now)
    /\ writer[w] = "window" => From(queue[w], opened[w], now)
    /\ From(held[w], opened[w], now)
    /\ From(tx[w].writes, opened[w], now)

InTime == lastSeen <= now /\ \A w \in Worker : WorkerInTime(w)

\* The writes that Begin found stored are stored.
WorkerChecked(w) ==
    /\ tx[w].of # "none" => tx[w].first > 0
    /\ \A i \in DOMAIN tx[w].writes : i < tx[w].first => Stored(tx[w].writes[i].ping)

ChecksHold == \A w \in Worker : WorkerChecked(w)

\* last_seen is at most a window behind the newest row.
NewestSeen ==
    /\ \A p \in Ping : newest[p] <= now /\ newest[p] <= lastSeen + Window
    /\ simple <= now /\ simple <= lastSeen + Window

StoreInv ==
    /\ TypeOK /\ QueuesInUse /\ InTime /\ ChecksHold /\ NewestSeen
    /\ OneRow /\ Accounted /\ HiddenIsSilent
=============================================================================
