---------------------------- MODULE CommandRelay ----------------------------
(***************************************************************************)
(* The poll channel of Magneetar's remote commands, end to end: the rows   *)
(* of the server's commands table, the endpoints that read and write them, *)
(* and the phone: TrackingService's command loop, the capture service, the *)
(* RecentCommandTracker, the OfflineOutbox and the two coroutines that     *)
(* flush it.                                                               *)
(*                                                                         *)
(* The protocol is poll-until-ack.  The server hands out every pending row *)
(* until an acknowledgement closes it; the phone remembers what it already *)
(* ran and answers a repeated command with the recorded outcome.  Requests *)
(* fail, answers get lost, requests land after the phone gave up on them,  *)
(* and the phone's process dies at any step.  The memory of the phone is   *)
(* one string that the loop and every capture read, change and write back  *)
(* without a lock: an update is two steps here, and one may undo another.  *)
(*                                                                         *)
(* One device is modelled.  Cmd is the set of ids the table's             *)
(* AUTOINCREMENT key may hand out: an id is never used twice.              *)
(***************************************************************************)
EXTENDS Integers, FiniteSets

CONSTANTS
    Cmd,           \* command ids
    Kind,          \* the kinds of command issued, a subset of Kinds
    Source,        \* who issues them, a subset of Sources
    Short,         \* expiry of wipe, lock and alarm                (5 min)
    Medium,        \* expiry of every other command                (30 min)
    Long,          \* expiry of lost_mode                            (24 h)
    Retention,     \* RecentCommandTracker.DEFAULT_RETENTION_MS    (60 min)
    MaxBatch,      \* longest time one poll response is worked on
    Flushers,      \* the coroutines that flush the outbox, a subset of Flusher
    MaxLate,       \* bound on the acks under way after their timeout
    MaxTime,       \* bound on the clock
    MaxCrashes,    \* bound on process deaths and aborted captures
    MaxLost        \* no update erases a command forgotten this often already

Kinds    == {"ping", "lock", "unlock", "alarm", "wipe", "lost_mode", "capture", "burst"}
Sources  == {"owner", "zone", "sentinel", "whatsapp"}
Flusher  == {"commands", "heartbeat"}
Outcome  == {"executed", "failed"}
None     == "none"
NoExpiry == -1

ASSUME RelayConstants ==
    /\ Kind \subseteq Kinds
    /\ Source \subseteq Sources
    /\ Short \in Nat /\ Medium \in Nat /\ Long \in Nat
    /\ Retention \in Nat
    /\ MaxBatch \in Nat
    /\ "commands" \in Flushers /\ Flushers \subseteq Flusher
    /\ MaxLate \in Nat
    /\ MaxTime \in Nat
    /\ MaxCrashes \in Nat
    /\ MaxLost \in Nat

VARIABLES
    now,         \* the time both sides measure expiry and retention by
    row,         \* the commands table
    wire,        \* acks that reach the server after the phone gave up on them
    pc,          \* where the command loop is
    batch,       \* commands of the poll response not looked at yet
    fetched,     \* when that response was produced
    cur,         \* the command being handled (inFlightCommands)
    out,         \* the outcome being acknowledged
    capture,     \* MediaCaptureService, per command
    taken,       \* acks a flusher took out of the outbox and has not delivered
    registered,  \* TrackingService.isRegistered
    tracker,     \* RecentCommandTracker as the process sees it
    saved,       \* RecentCommandTracker as it is on disk
    edits,       \* updates of the tracker under way
    outbox,      \* acks in the OfflineOutbox file
    runs,        \* history: how often a command was carried out
    forgot,      \* history: how often a death or a lost update erased the memory of it
    crashes      \* process deaths and aborted captures so far

server  == <<row, wire>>
loop    == <<pc, batch, fetched, cur, out>>
memory  == <<tracker, saved, edits>>
history == <<runs, forgot, crashes>>
vars == <<now, server, loop, capture, taken, registered, memory, outbox, history>>

-----------------------------------------------------------------------------
(* Types *)

Status   == {"unissued", "pending", "expired", "deleted"} \cup Outcome
Row      == [status: Status, kind: Kind \cup {None}, expires: Int, channel: {"poll", "sms"}]
Record   == [status: Outcome \cup {None}, at: Nat]
\* An update by the command loop or by a capture's coroutine: the records it
\* read, and the one it adds.
Edit     == [by: {"loop", "capture"}, cmd: Cmd, record: Record, read: [Cmd -> Record]]
NoRecord == [status |-> None, at |-> 0]
NoRow    == [status |-> "unissued", kind |-> None, expires |-> 0, channel |-> "poll"]
NoAcks   == [c \in Cmd |-> None]
PC == {"off", "idle", "flushing", "working", "running", "acking", "ackingWipe", "erasing"}
CaptureState == {None, "starting", "active", "refused"} \cup Outcome

TypeOK ==
    /\ now \in Nat
    /\ row \in [Cmd -> Row]
    /\ wire \subseteq Cmd \X Outcome
    /\ pc \in PC
    /\ batch \subseteq Cmd
    /\ fetched \in Nat
    /\ cur \in Cmd \cup {None}
    /\ pc \in {"running", "acking", "ackingWipe", "erasing"} => cur \in Cmd
    /\ out \in Outcome \cup {None}
    /\ pc \in {"acking", "ackingWipe"} => out \in Outcome
    /\ capture \in [Cmd -> CaptureState]
    /\ taken \in [Flushers -> [Cmd -> Outcome \cup {None}]]
    /\ registered \in BOOLEAN
    /\ tracker \in [Cmd -> Record]
    /\ saved \in [Cmd -> Record]
    /\ edits \subseteq Edit
    /\ outbox \in [Cmd -> Outcome \cup {None}]
    /\ runs \in [Cmd -> Nat]
    /\ forgot \in [Cmd -> Nat]
    /\ crashes \in Nat

-----------------------------------------------------------------------------
(* The server *)

PollExpires(k) ==
    CASE k \in {"wipe", "lock", "alarm"} -> Short
      [] k = "lost_mode"                 -> Long
      [] OTHER                           -> Medium

\* The lifetime a source gives a command; a theft escalation gives none.
Lifetime(k, s) ==
    CASE s = "sentinel" -> NoExpiry
      [] s = "whatsapp" -> Short
      [] OTHER          -> PollExpires(k)

\* The kinds each source queues.
Queues(s) ==
    CASE s = "owner"    -> Kinds
      [] s = "zone"     -> {"alarm", "capture"}
      [] s = "sentinel" -> {"capture", "burst"}
      [] s = "whatsapp" -> {"alarm", "lock", "unlock", "capture"}

Deadline(life) == IF life = NoExpiry THEN NoExpiry ELSE now + life

Unexpired(r) == r.expires = NoExpiry \/ r.expires > now

\* Mutant of Deliverable: the poll forgets the expiry.
DeliverableForEver(c) == row[c].status = "pending" /\ row[c].channel # "sms"

\* What GET /api/device/commands returns.
Deliverable(c) ==
    /\ row[c].status = "pending"
    /\ row[c].channel # "sms"
    /\ Unexpired(row[c])

InTable(c) == row[c].status \notin {"unissued", "deleted"}

\* Mutant of Acked: the UPDATE without its WHERE id.
AckedAll(c, s) == [d \in Cmd |-> IF InTable(d) THEN [row[d] EXCEPT !.status = s] ELSE row[d]]

\* The UPDATE of ack_command: it has no condition on the row's status.
Acked(c, s) == IF InTable(c) THEN [row EXCEPT ![c].status = s] ELSE row

\* issue_command, _queue_auto_action, auto_activate_theft_mode, the WhatsApp
\* bot.  Only a zone's automatic action looks for a pending row of its kind.
Issue(c, k, s) ==
    /\ row[c].status = "unissued"
    /\ k \in Queues(s)
    /\ s = "zone" => \A d \in Cmd : ~(row[d].kind = k /\ row[d].status = "pending")
    /\ row' = [row EXCEPT ![c] = [status |-> "pending", kind |-> k,
                                  expires |-> Deadline(Lifetime(k, s)),
                                  channel |-> "poll"]]
    /\ UNCHANGED <<now, wire, loop, capture, taken, registered, memory, outbox, history>>

\* get_command_history: reading the history is what marks rows expired.
ReadHistory ==
    /\ row' = [c \in Cmd |-> IF row[c].status = "pending" /\ ~Unexpired(row[c])
                             THEN [row[c] EXCEPT !.status = "expired"] ELSE row[c]]
    /\ UNCHANGED <<now, wire, loop, capture, taken, registered, memory, outbox, history>>

\* delete_command, and clear_command_history with and without only_finished.
Delete(D) ==
    /\ row' = [c \in Cmd |-> IF c \in D THEN [row[c] EXCEPT !.status = "deleted"] ELSE row[c]]
    /\ UNCHANGED <<now, wire, loop, capture, taken, registered, memory, outbox, history>>

DeleteCommand(c) == InTable(c) /\ Delete({c})

ClearHistory(onlyFinished) ==
    Delete({c \in Cmd : InTable(c) /\ (onlyFinished => row[c].status # "pending")})

\* An ack the phone had already given up on reaches the server, or never does.
LateAck(m) ==
    /\ m \in wire
    /\ wire' = wire \ {m}
    /\ \/ row' = Acked(m[1], m[2])
       \/ row' = row
    /\ UNCHANGED <<now, loop, capture, taken, registered, memory, outbox, history>>

-----------------------------------------------------------------------------
(* The phone: memory and network *)

\* Mutant of StatusOf: off by one at the end of the retention window.
StatusOfEarly(c) == IF now - tracker[c].at < Retention THEN tracker[c].status ELSE None

\* RecentCommandTracker.statusOf
StatusOf(c) == IF now - tracker[c].at <= Retention THEN tracker[c].status ELSE None

\* RecentCommandTracker.remember reads the string that holds every record ...
Note(w, c, s) ==
    edits' = edits \cup {[by |-> w, cmd |-> c, record |-> [status |-> s, at |-> now],
                          read |-> tracker]}

\* Mutant of Put: the string is written with the new record alone.
PutAlone(e) == [d \in Cmd |-> IF d = e.cmd THEN e.record ELSE NoRecord]

\* ... puts its own record into what it read ...
Put(e) == [e.read EXCEPT ![e.cmd] = e.record]

\* ... drops what is older than twice the retention ...
Pruned(seen) == [d \in Cmd |-> IF seen[d].at < now - 2 * Retention THEN NoRecord ELSE seen[d]]

\* What is remembered by now, and was not when the update read the records.
Unseen(e) == {d \in Cmd \ {e.cmd} : StatusOf(d) # None /\ e.read[d] = NoRecord}

\* ... and writes the string back, over whatever others wrote in the meantime:
\* their records are lost.
WriteBack(e) ==
    /\ e \in edits
    /\ edits' = edits \ {e}
    /\ tracker' = Pruned(Put(e))
    /\ \A d \in Unseen(e) : forgot[d] < MaxLost
    /\ forgot' = [d \in Cmd |-> IF d \in Unseen(e) THEN forgot[d] + 1 ELSE forgot[d]]
    /\ UNCHANGED <<now, server, loop, capture, taken, registered, saved, outbox, runs,
                   crashes>>

Remembering(w, c) == \E e \in edits : e.by = w /\ e.cmd = c

\* An outcome of the command is about to be recorded.
Noting(c) == \E e \in edits : e.cmd = c

\* What becomes of one POST of an ack: the server applies it, it lands later
\* (the phone sees a timeout), it is lost, the server refuses it (429, 500),
\* or both tokens are dead.
Reply == {"ok", "late", "lost", "rejected", "unauthorised"}

Posted(c, s, r) ==
    /\ r = "late" => Cardinality(wire) < MaxLate
    /\ row' = IF r = "ok" THEN Acked(c, s) ELSE row
    /\ wire' = IF r = "late" THEN wire \cup {<<c, s>>} ELSE wire
    /\ registered' = (registered /\ r # "unauthorised")

\* ackCommand queues the ack on a network error or a 401, not on a refusal.
Undelivered(r) == r \in {"late", "lost", "unauthorised"}

\* onAuthFailed starts registerDevice, which retries until it succeeds.  So
\* does onCreate, and only then starts the command loop.
Register ==
    /\ ~registered
    /\ registered' = TRUE
    /\ pc' = IF pc = "off" THEN "idle" ELSE pc
    /\ UNCHANGED <<now, server, batch, fetched, cur, out, capture, taken, memory, outbox, history>>

\* SharedPreferences.apply() writes the file some time after remember returns.
\* Only the restart after a process death reads the file.
SaveTracker ==
    /\ crashes < MaxCrashes
    /\ saved # tracker
    /\ saved' = tracker
    /\ UNCHANGED <<now, server, loop, capture, taken, registered, tracker, edits, outbox, history>>

-----------------------------------------------------------------------------
(* The phone: OfflineOutbox and flushOutbox *)

\* OfflineOutbox.take: the entries leave the file before they are posted.
Take(f) ==
    IF registered
    THEN /\ taken' = [taken EXCEPT ![f] = outbox]
         /\ outbox' = NoAcks
    ELSE UNCHANGED <<taken, outbox>>

HeartbeatFlush ==
    /\ "heartbeat" \in Flushers
    /\ taken["heartbeat"] = NoAcks
    /\ outbox # NoAcks
    /\ Take("heartbeat")
    /\ UNCHANGED <<now, server, loop, capture, registered, memory, history>>

\* One iteration of flushOutbox.  Any answer but a 2xx puts the ack and all
\* the ones after it back in the file.
FlushPost(f, c, r) ==
    /\ taken[f][c] # None
    /\ Posted(c, taken[f][c], r)
    /\ IF r = "ok"
       THEN /\ taken' = [taken EXCEPT ![f][c] = None]
            /\ outbox' = outbox
       ELSE /\ taken' = [taken EXCEPT ![f] = NoAcks]
            /\ outbox' = [d \in Cmd |-> IF taken[f][d] # None THEN taken[f][d] ELSE outbox[d]]
    /\ UNCHANGED <<now, loop, capture, memory, history>>

-----------------------------------------------------------------------------
(* The phone: commandLoop and handleCommand *)

\* Top of commandLoop: flush the outbox before polling.
StartLoop ==
    /\ pc = "idle"
    /\ pc' = "flushing"
    /\ Take("commands")
    /\ UNCHANGED <<now, server, batch, fetched, cur, out, capture, registered, memory, history>>

\* The GET and its answer.  A capture intent sent by an earlier iteration has
\* been delivered by now: startCaptureService counts on the poll interval
\* being far longer than a service start.
Poll ==
    /\ pc = "flushing"
    /\ taken["commands"] = NoAcks
    /\ \A c \in Cmd : capture[c] # "starting" /\ ~(capture[c] = "refused" /\ Noting(c))
    /\ batch' = {c \in Cmd : Deliverable(c)}
    /\ fetched' = now
    /\ pc' = "working"
    /\ UNCHANGED <<now, server, cur, out, capture, taken, registered, memory, outbox, history>>

\* The GET fails, perhaps because both tokens are dead: the loop sleeps and
\* starts over.
PollFails ==
    /\ pc = "flushing"
    /\ taken["commands"] = NoAcks
    /\ pc' = "idle"
    /\ registered' \in {registered, FALSE}
    /\ UNCHANGED <<now, server, batch, fetched, cur, out, capture, taken, memory, outbox, history>>

\* The response lists the commands by priority, which the caller may choose:
\* they come in any order.
NextInBatch(c) ==
    /\ pc = "working"
    /\ c \in batch

\* Mutant of Busy: the poll looks at inFlightCommands only.
BusyLoopOnly(c) == cur = c

\* inFlightCommands is the loop's own and empty here; activeCaptureIds is not.
Busy(c) == capture[c] \in {"active"} \cup Outcome

SkipBusy(c) ==
    /\ NextInBatch(c)
    /\ Busy(c)
    /\ batch' = batch \ {c}
    /\ UNCHANGED <<now, server, pc, fetched, cur, out, capture, taken, registered, memory,
                   outbox, history>>

\* Mutants of ReAck: a repeated command is taken for executed, or just skipped.
ReAckExecuted(c) ==
    /\ NextInBatch(c) /\ ~Busy(c) /\ StatusOf(c) # None
    /\ batch' = batch \ {c} /\ pc' = "acking" /\ cur' = c /\ out' = "executed"
    /\ Note("loop", c, "executed")
    /\ UNCHANGED <<now, server, fetched, capture, taken, registered, tracker, saved, outbox,
                   history>>

ReAckSkipped(c) ==
    /\ NextInBatch(c) /\ ~Busy(c) /\ StatusOf(c) # None
    /\ batch' = batch \ {c}
    /\ UNCHANGED <<now, server, pc, fetched, cur, out, capture, taken, registered, memory,
                   outbox, history>>

\* Handled within the retention window: send the recorded outcome again.
\* ackCommand records it again before the POST, which renews its timestamp.
ReAck(c) ==
    /\ NextInBatch(c)
    /\ ~Busy(c)
    /\ StatusOf(c) # None
    /\ batch' = batch \ {c}
    /\ pc' = "acking"
    /\ cur' = c
    /\ out' = StatusOf(c)
    /\ Note("loop", c, StatusOf(c))
    /\ UNCHANGED <<now, server, fetched, capture, taken, registered, tracker, saved, outbox,
                   history>>

Fresh(c) == NextInBatch(c) /\ ~Busy(c) /\ StatusOf(c) = None

\* ping, lock, alarm, lost_mode, location_burst, and capture_audio while the
\* audio watch holds the microphone: the effect, acknowledged afterwards.
RunInline(c) ==
    /\ Fresh(c)
    /\ row[c].kind \notin {"wipe", "unlock"}
    /\ batch' = batch \ {c}
    /\ pc' = "running"
    /\ cur' = c
    /\ runs' = [runs EXCEPT ![c] = @ + 1]
    /\ UNCHANGED <<now, server, fetched, out, capture, taken, registered, memory, outbox,
                   forgot, crashes>>

FinishInline(s) ==
    /\ pc = "running"
    /\ pc' = "acking"
    /\ out' = s
    /\ Note("loop", cur, s)
    /\ UNCHANGED <<now, server, batch, fetched, cur, capture, taken, registered, tracker, saved,
                   outbox, history>>

\* Mutant of Refuse: what was not run is acknowledged like what was.
RefuseAsExecuted(c) ==
    /\ Fresh(c) /\ row[c].kind \in {"capture", "unlock"}
    /\ batch' = batch \ {c} /\ pc' = "acking" /\ cur' = c /\ out' = "executed"
    /\ Note("loop", c, "executed")
    /\ UNCHANGED <<now, server, fetched, capture, taken, registered, tracker, saved, outbox,
                   history>>

\* A capture that is disabled, not armed or of an unknown kind, and any
\* command handleCommand does not know, is acknowledged 'failed' unrun.
Refuse(c) ==
    /\ Fresh(c)
    /\ row[c].kind \in {"capture", "unlock"}
    /\ batch' = batch \ {c}
    /\ pc' = "acking"
    /\ cur' = c
    /\ out' = "failed"
    /\ Note("loop", c, "failed")
    /\ UNCHANGED <<now, server, fetched, capture, taken, registered, tracker, saved, outbox,
                   history>>

\* startCaptureService: the intent is sent and the loop moves on.
StartCapture(c) ==
    /\ Fresh(c)
    /\ row[c].kind = "capture"
    /\ batch' = batch \ {c}
    /\ capture' = [capture EXCEPT ![c] = "starting"]
    /\ UNCHANGED <<now, server, pc, fetched, cur, out, taken, registered, memory, outbox, history>>

\* wipe is acknowledged before anything is erased.
StartWipe(c) ==
    /\ Fresh(c)
    /\ row[c].kind = "wipe"
    /\ batch' = batch \ {c}
    /\ pc' = "ackingWipe"
    /\ cur' = c
    /\ out' = "executed"
    /\ Note("loop", c, "executed")
    /\ UNCHANGED <<now, server, fetched, capture, taken, registered, tracker, saved, outbox,
                   history>>

\* The POST of ackCommand, after remember.
PostAck(r) ==
    /\ pc \in {"acking", "ackingWipe"}
    /\ ~Remembering("loop", cur)
    /\ Posted(cur, out, r)
    /\ outbox' = IF Undelivered(r) THEN [outbox EXCEPT ![cur] = out] ELSE outbox
    /\ IF pc = "acking" THEN pc' = "working" /\ cur' = None ELSE pc' = "erasing" /\ cur' = cur
    /\ out' = None
    /\ UNCHANGED <<now, batch, fetched, capture, taken, memory, history>>

\* Mutant of Erase: the 'failed' ack no longer knows whose it is.
EraseUnnamed ==
    /\ pc = "erasing"
    /\ runs' = [runs EXCEPT ![cur] = @ + 1]
    /\ outbox' = NoAcks
    /\ cur' = None
    /\ \/ pc' = "working" /\ out' = out
       \/ pc' = "acking" /\ out' = "failed"
    /\ UNCHANGED <<now, server, batch, fetched, capture, taken, registered, memory,
                   forgot, crashes>>

\* protectData deletes the app's files, the outbox among them; entering lost
\* mode afterwards may throw, and handleCommand then acknowledges 'failed'.
Erase ==
    /\ pc = "erasing"
    /\ runs' = [runs EXCEPT ![cur] = @ + 1]
    /\ outbox' = NoAcks
    /\ \/ /\ pc' = "working"
          /\ cur' = None
          /\ UNCHANGED <<out, edits>>
       \/ /\ pc' = "acking"
          /\ cur' = cur
          /\ out' = "failed"
          /\ Note("loop", cur, "failed")
    /\ UNCHANGED <<now, server, batch, fetched, capture, taken, registered, tracker, saved,
                   forgot, crashes>>

EndBatch ==
    /\ pc = "working"
    /\ batch = {}
    /\ pc' = "idle"
    /\ fetched' = 0
    /\ UNCHANGED <<now, server, batch, cur, out, capture, taken, registered, memory,
                   outbox, history>>

-----------------------------------------------------------------------------
(* The phone: MediaCaptureService *)

\* onStartCommand: the id enters activeCaptureIds and the capture starts.
CaptureStarts(c) ==
    /\ capture[c] = "starting"
    /\ capture' = [capture EXCEPT ![c] = "active"]
    /\ runs' = [runs EXCEPT ![c] = @ + 1]
    /\ UNCHANGED <<now, server, loop, taken, registered, memory, outbox, forgot, crashes>>

\* Mutant of CaptureRefused: the ack says the capture was made.
CaptureRefusedAsDone(c) ==
    /\ capture[c] = "starting"
    /\ capture' = [capture EXCEPT ![c] = "executed"]
    /\ Note("capture", c, "executed")
    /\ UNCHANGED <<now, server, loop, taken, registered, tracker, saved, outbox,
                   history>>

\* The service cannot become a foreground service: 'failed', without a
\* capture and without an entry in activeCaptureIds.
CaptureRefused(c) ==
    /\ capture[c] = "starting"
    /\ capture' = [capture EXCEPT ![c] = "refused"]
    /\ Note("capture", c, "failed")
    /\ UNCHANGED <<now, server, loop, taken, registered, tracker, saved, outbox,
                   history>>

\* Mutant of CaptureEnds: the outcome is posted, and never recorded.
CaptureEndsUnrecorded(c, s) ==
    /\ capture[c] = "active"
    /\ capture' = [capture EXCEPT ![c] = s]
    /\ UNCHANGED <<now, server, loop, taken, registered, memory, outbox, history>>

\* runCapture ends: the outcome is recorded first ...
CaptureEnds(c, s) ==
    /\ capture[c] = "active"
    /\ capture' = [capture EXCEPT ![c] = s]
    /\ Note("capture", c, s)
    /\ UNCHANGED <<now, server, loop, taken, registered, tracker, saved, outbox,
                   history>>

\* ... then posted, once and never queued, and the id released.  This service
\* does not re-register on a 401: to it that is one more lost ack.
CapturePost(c, r) ==
    /\ capture[c] \in Outcome \cup {"refused"}
    /\ ~Remembering("capture", c)
    /\ r # "unauthorised"
    /\ Posted(c, IF capture[c] = "refused" THEN "failed" ELSE capture[c], r)
    /\ capture' = [capture EXCEPT ![c] = None]
    /\ UNCHANGED <<now, loop, taken, memory, outbox, history>>

\* The service is stopped in mid-capture: the coroutine is cancelled, the id
\* released, and nothing recorded or acknowledged.
CaptureAborted(c) ==
    /\ crashes < MaxCrashes
    /\ crashes' = crashes + 1
    /\ capture[c] = "active"
    /\ capture' = [capture EXCEPT ![c] = None]
    /\ forgot' = [forgot EXCEPT ![c] = @ + 1]
    /\ UNCHANGED <<now, server, loop, taken, registered, memory, outbox, runs>>

-----------------------------------------------------------------------------
(* Time and process death *)

\* No capture intent stays undelivered and no poll response is worked on for
\* longer than MaxBatch.
Tick ==
    /\ now < MaxTime
    /\ \A c \in Cmd : capture[c] # "starting"
    /\ pc \notin {"off", "idle", "flushing"} => now < fetched + MaxBatch
    /\ now' = now + 1
    /\ UNCHANGED <<server, loop, capture, taken, registered, memory, outbox, history>>

\* The commands of which nothing is left when the process dies: the one being
\* run, a capture in progress, an outcome recorded but not yet on disk.
Amnesia(c) ==
    /\ saved[c] = NoRecord
    /\ \/ pc \in {"running", "erasing"} /\ cur = c
       \/ capture[c] = "active"
       \/ Noting(c)
       \/ tracker[c] # NoRecord

Crash ==
    /\ crashes < MaxCrashes
    /\ crashes' = crashes + 1
    /\ pc' = "off" /\ batch' = {} /\ fetched' = 0 /\ cur' = None /\ out' = None
    /\ capture' = [c \in Cmd |-> None]
    /\ taken' = [f \in Flushers |-> NoAcks]
    /\ registered' = FALSE
    /\ tracker' = saved
    /\ edits' = {}
    /\ forgot' = [c \in Cmd |-> IF Amnesia(c) THEN forgot[c] + 1 ELSE forgot[c]]
    /\ UNCHANGED <<now, server, saved, outbox, runs>>

-----------------------------------------------------------------------------
Init ==
    /\ now = 0
    /\ row = [c \in Cmd |-> NoRow]
    /\ wire = {}
    /\ pc = "idle" /\ batch = {} /\ fetched = 0 /\ cur = None /\ out = None
    /\ capture = [c \in Cmd |-> None]
    /\ taken = [f \in Flushers |-> NoAcks]
    /\ registered = TRUE
    /\ tracker = [c \in Cmd |-> NoRecord]
    /\ saved = [c \in Cmd |-> NoRecord]
    /\ edits = {}
    /\ outbox = NoAcks
    /\ runs = [c \in Cmd |-> 0]
    /\ forgot = [c \in Cmd |-> 0]
    /\ crashes = 0

ServerStep ==
    \/ \E c \in Cmd, k \in Kind, s \in Source : Issue(c, k, s)
    \/ ReadHistory
    \/ \E c \in Cmd : DeleteCommand(c)
    \/ \E onlyFinished \in BOOLEAN : ClearHistory(onlyFinished)
    \/ \E m \in wire : LateAck(m)

LoopStep ==
    \/ StartLoop \/ Poll \/ PollFails \/ EndBatch \/ Erase
    \/ \E c \in Cmd : SkipBusy(c) \/ ReAck(c) \/ RunInline(c) \/ Refuse(c)
                      \/ StartCapture(c) \/ StartWipe(c)
    \/ \E s \in Outcome : FinishInline(s)
    \/ \E r \in Reply : PostAck(r)

OtherPhoneStep ==
    \/ Register \/ SaveTracker \/ HeartbeatFlush
    \/ \E e \in edits : WriteBack(e)
    \/ \E f \in Flushers, c \in Cmd, r \in Reply : FlushPost(f, c, r)
    \/ \E c \in Cmd : CaptureStarts(c) \/ CaptureRefused(c) \/ CaptureAborted(c)
    \/ \E c \in Cmd, s \in Outcome : CaptureEnds(c, s)
    \/ \E c \in Cmd, r \in Reply : CapturePost(c, r)

Next == ServerStep \/ LoopStep \/ OtherPhoneStep \/ Tick \/ Crash

Spec == Init /\ [][Next]_vars

\* The loops and the services run for as long as the process lives, and the
\* network is not down for ever: a request that is sent again and again gets
\* through in the end.
Fairness ==
    /\ WF_vars(StartLoop) /\ SF_vars(Poll) /\ WF_vars(EndBatch) /\ WF_vars(Erase)
    /\ WF_vars(\E s \in Outcome : FinishInline(s))
    /\ WF_vars(Register)
    /\ \A c \in Cmd :
        /\ WF_vars(SkipBusy(c) \/ ReAck(c) \/ RunInline(c) \/ Refuse(c)
                   \/ StartCapture(c) \/ StartWipe(c))
        /\ \A w \in {"loop", "capture"} :
               WF_vars(\E e \in edits : e.by = w /\ e.cmd = c /\ WriteBack(e))
        /\ SF_vars(cur = c /\ PostAck("ok"))
        /\ WF_vars(\E r \in Reply : PostAck(r))
        /\ \A f \in Flushers : SF_vars(FlushPost(f, c, "ok"))
        /\ WF_vars(CaptureStarts(c) \/ CaptureRefused(c))
        /\ WF_vars(\E s \in Outcome : CaptureEnds(c, s))
        /\ WF_vars(\E r \in Reply : CapturePost(c, r))

FairSpec == Spec /\ Fairness

-----------------------------------------------------------------------------
(* Properties *)

\* "A command recorded within the retention window is NEVER executed twice"
\* (RecentCommandTracker): polls, lost, late and refused acks, outbox
\* flushes and renewed records never make the phone carry a command out again.
\* Only a process death that takes the memory of it along, a capture cut short
\* by the end of its service, or an update that overwrites its record excuses
\* one more run: "a lost update here degrades to the command being executed one
\* extra time - never a loop".
AtMostOnce == \A c \in Cmd : runs[c] <= forgot[c] + 1

\* The dashboard shows EXECUTED only for a command the phone did carry out,
\* however many copies of the ack travelled through the outbox, the capture
\* service and late requests.  A wipe is acknowledged first, so not for it.
HonestExecuted ==
    \A c \in Cmd : row[c].status = "executed" /\ row[c].kind # "wipe" => runs[c] > 0

\* ack_command overwrites whatever status it finds; still, an outcome once
\* shown is never replaced by the other one while neither a process death nor a
\* lost update made the phone forget the command: every copy of an ack carries
\* the first outcome.
OutcomeFinal ==
    [][\A c \in Cmd :
        /\ row[c].status \in Outcome /\ row'[c].status \in Outcome
        /\ row[c].kind # "wipe" /\ forgot[c] = 0
        => row'[c].status = row[c].status]_vars

\* "A stale PENDING must never ... execute long after the operator gave up on
\* it" (issue_command): the poll channel starts a run at most MaxBatch after
\* the command expired, however old the response it came in.
RunsInsideWindow ==
    [][\A c \in Cmd :
        runs'[c] # runs[c] => row[c].expires = NoExpiry \/ now <= row[c].expires + MaxBatch]_vars

\* A theft escalation's commands have no expiry to close them: each of them is
\* answered in the end, through process deaths and every kind of lost ack.
UnexpiringSettles ==
    \A c \in Cmd :
        (row[c].status = "pending" /\ row[c].expires = NoExpiry) ~> (row[c].status # "pending")

\* What the dashboard shows of a command.
Shown(c) ==
    CASE row[c].status \in Outcome -> row[c].status
      [] row[c].status = "deleted" -> "gone"
      [] OTHER                     -> "open"

Promise(c) ==
    INSTANCE CommandPromise WITH runs <- runs[c], forgot <- forgot[c], shown <- Shown(c)

\* Server, network and phone together implement the promise made about each
\* single command that is acknowledged after it is carried out, which wipe is
\* not.  (\A c \in Cmd : Promise(c)!Spec, with the quantifier moved inside.)
KeepsPromise ==
    /\ \A c \in Cmd : Promise(c)!Init
    /\ [][\A c \in Cmd :
            row'[c].kind # "wipe" => [Promise(c)!Next]_(Promise(c)!vars)]_vars

-----------------------------------------------------------------------------
(* The inductive strengthening of AtMostOnce *)

\* Every command issued expires, early enough for the phone's record of it to
\* outlive the last poll response that can still bring it.
WindowFits ==
    \A k \in Kind, s \in Source : k \in Queues(s) =>
        /\ Lifetime(k, s) # NoExpiry
        /\ Lifetime(k, s) + MaxBatch <= Retention + 1

Issued(c) == row[c].status # "unissued"

\* No poll response holding the command can still be worked on.
TooLate(c) == now >= row[c].expires + MaxBatch

InProgress(c) == (pc = "running" /\ cur = c) \/ capture[c] = "active"

\* Rows expire within the retention of any record made from now on.
RowsExpire ==
    \A c \in Cmd : Issued(c) =>
        /\ row[c].expires \in Nat
        /\ row[c].expires + MaxBatch <= now + Retention + 1

\* A record outlives every response that can bring its command.
GoodRecord(c, r) ==
    r # NoRecord =>
        /\ Issued(c)
        /\ r.status # None
        /\ r.at <= now
        /\ row[c].expires + MaxBatch <= r.at + Retention + 1

RecordsOutlive ==
    \A c \in Cmd :
        /\ GoodRecord(c, tracker[c]) /\ GoodRecord(c, saved[c])
        /\ \A e \in edits : GoodRecord(c, Put(e)[c])

\* What the loop holds was issued, and had not expired when it was fetched.
LoopInTime ==
    /\ pc \notin {"off", "idle", "flushing"} => now <= fetched + MaxBatch
    /\ pc \in {"off", "idle", "flushing"} => batch = {}
    /\ \A c \in batch : Issued(c) /\ fetched < row[c].expires /\ capture[c] # "starting"
    /\ pc \in {"running", "acking", "ackingWipe", "erasing"} => Issued(cur)
    /\ \A c \in Cmd : capture[c] # None => Issued(c) /\ row[c].kind = "capture"
    /\ pc \in {"ackingWipe", "erasing"} => row[cur].kind = "wipe"

\* An update is made for an outcome about to be acknowledged; one of a capture
\* that was refused is over before the next poll.
EditsStand ==
    \A e \in edits :
        /\ e.record.status # None
        /\ e.by = "loop" => pc \in {"acking", "ackingWipe"} /\ cur = e.cmd
        /\ e.by = "capture" => \/ capture[e.cmd] \in Outcome
                               \/ capture[e.cmd] = "refused" /\ e.cmd \notin batch

\* The phone remembers the command, or is about to.
Known(c) == tracker[c] # NoRecord \/ Noting(c)

\* The command has no run to its name but the forgotten ones, and has been
\* forgotten once more if nothing is known of it although it was handled.
UnrunYet(c) ==
    \/ runs[c] <= forgot[c] /\ (Known(c) \/ TooLate(c))
    \/ runs[c] + 1 <= forgot[c]

\* A command about to be run, or that can still come as a new one, has no run
\* to its name but the forgotten ones.
NoSecondRun ==
    \A c \in Cmd :
        /\ runs[c] <= forgot[c] + 1
        /\ ~Issued(c) => runs[c] <= forgot[c]
        /\ ~Known(c) /\ ~InProgress(c) /\ ~TooLate(c) => runs[c] <= forgot[c]
        /\ capture[c] = "starting" => runs[c] <= forgot[c]
        /\ pc \in {"ackingWipe", "erasing"} /\ cur = c => UnrunYet(c)

AtMostOnceInv ==
    TypeOK /\ RowsExpire /\ RecordsOutlive /\ LoopInTime /\ EditsStand /\ NoSecondRun

-----------------------------------------------------------------------------
(* The inductive invariants of the other properties *)

\* Where an outcome of a command may be: in the table, in the phone's memory,
\* in an update of it or on its disk, on the wire, in the hands of the loop, of
\* a flusher or of the capture service.
Carries(c, s) ==
    \/ row[c].status = s \/ tracker[c].status = s \/ saved[c].status = s
    \/ \E e \in edits : Put(e)[c].status = s
    \/ outbox[c] = s \/ <<c, s>> \in wire
    \/ \E f \in Flushers : taken[f][c] = s
    \/ pc \in {"acking", "ackingWipe"} /\ cur = c /\ out = s
    \/ capture[c] = s \/ (capture[c] = "refused" /\ s = "failed")

Held(c) ==
    \/ c \in batch \/ capture[c] # None
    \/ pc \in {"running", "acking", "ackingWipe", "erasing"} /\ cur = c
    \/ \E s \in Outcome : Carries(c, s)

\* Nothing is known of a command before it is issued.
HeldWereIssued == \A c \in Cmd : Held(c) => Issued(c)

\* A copy that says 'executed' exists only of what was carried out.
HonestCopies ==
    /\ pc \in {"ackingWipe", "erasing"} => row[cur].kind = "wipe"
    /\ \A c \in Cmd :
        InProgress(c) \/ (Carries(c, "executed") /\ row[c].kind # "wipe") => runs[c] > 0

\* What waits to be run had not expired when the response was produced.
InWindow(c, t) == row[c].expires = NoExpiry \/ t <= row[c].expires

WaitsInWindow ==
    /\ pc \notin {"off", "idle", "flushing"} => now <= fetched + MaxBatch
    /\ \A c \in batch : InWindow(c, fetched)
    /\ pc \in {"ackingWipe", "erasing"} => InWindow(cur, fetched)
    /\ \A c \in Cmd : capture[c] = "starting" => InWindow(c, now - MaxBatch)

RelayInv == TypeOK /\ HeldWereIssued /\ HonestCopies /\ WaitsInWindow

\* All copies of a command's outcome agree, and there is none of a command
\* that can still be run, while the phone has forgotten nothing.
Undecided(c) ==
    \/ InProgress(c) \/ capture[c] = "starting"
    \/ ~Known(c) /\ ~TooLate(c)

OneOutcome ==
    /\ pc = "running" => capture[cur] \notin {"starting", "active"}
    /\ \A c \in Cmd : forgot[c] = 0 /\ row[c].kind # "wipe" =>
        /\ \A s, t \in Outcome : Carries(c, s) /\ Carries(c, t) => s = t
        /\ Undecided(c) => \A s \in Outcome : ~Carries(c, s)

OutcomeInv == AtMostOnceInv /\ RelayInv /\ OneOutcome
=============================================================================
