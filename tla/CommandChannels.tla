--------------------------- MODULE CommandChannels ---------------------------
(***************************************************************************)
(* The ways a command reaches the phone beside the poll, side by side with   *)
(* it: the SMS relay with its fallback to the poll (dashboard.py,            *)
(* sms_relay.py), the FCM push that is always attempted (fcm_command.py),    *)
(* the USSD menu (ussd.py), the WhatsApp webhook (whatsapp.py), and on the   *)
(* phone the SMS receiver, the messaging service and the poll loop, which    *)
(* share the tracker of recent commands or do not.  What the poll channel    *)
(* does in detail is CommandRelay's subject; here it is a response, a run,   *)
(* an update of the tracker and an acknowledgement that arrives in the end.  *)
(* The update is made without a lock: one may overwrite what another, for a  *)
(* command of the other channel, has recorded in the meantime.               *)
(*                                                                         *)
(* Windows are counted in ticks since the command was issued.                *)
(***************************************************************************)
EXTENDS Integers, FiniteSets

CONSTANTS
    Cmd,            \* command ids
    Lock,           \* poll window of lock and alarm, USSD and WhatsApp (5 min)
    Long,           \* poll window of everything else (30 min)
    SmsWindow,      \* window of a command sent by SMS (24 h)
    SmsBuild,       \* values of FeatureFlags.SMS_COMMANDS_ENABLED
    Phones,         \* forms of devices.sms_phone: with its "+" or without
    None

ASSUME ChannelConstants ==
    /\ Lock \in Nat \ {0} /\ Long \in Nat /\ SmsWindow \in Nat
    /\ Lock < Long /\ Long < SmsWindow
    /\ SmsBuild \subseteq BOOLEAN /\ Phones \subseteq {"plus", "bare"}

VARIABLES
    setup,      \* the phone's build and the number it is registered under
    row,        \* commands table
    age,        \* time since issued_at
    handler,    \* where issue_command is
    ussd,       \* _sessions: one caller's state
    sms,        \* text messages in the air
    push,       \* FCM messages in the air
    todo,       \* what is left of the poll's response
    running,    \* commands the phone is carrying out
    tracker,    \* RecentCommandTracker
    edits,      \* updates of it under way
    replies,    \* SMS replies in the air
    acks,       \* acknowledgements posted or in the outbox
    accepted,   \* history: commands a provider said it took
    started,    \* history: over which channels a command was started
    carried,    \* history: commands that had their effect
    finished,   \* history: commands handleCommand has finished
    dropped     \* history: commands whose record another one's update overwrote

vars == <<setup, row, age, handler, ussd, sms, push, todo, running, tracker, edits,
          replies, acks, accepted, started, carried, finished, dropped>>

phoneVars == <<todo, running, tracker, edits, acks, started, carried, finished, dropped>>

Kinds == {"lock", "alarm", "photo"}
Via == {"poll", "sms", "push"}

Outcome == {"executed", "failed"}
Records == [Cmd -> Outcome \cup {"none"}]
\* An update of the tracker: the records it read, and the one it adds.
Edit == [cmd: Cmd, via: {"poll", "sms"}, outcome: Outcome, read: Records]

Absent == [status |-> "none", channel |-> "poll", by |-> "owner", kind |-> "lock", window |-> 0]

TypeOK ==
    /\ setup \in [smsBuild: SmsBuild, phone: Phones]
    /\ row \in [Cmd -> [status: {"none", "pending", "executed", "failed", "expired"},
                        channel: {"poll", "sms"}, by: {"owner", "ussd", "whatsapp"},
                        kind: Kinds, window: {0, Lock, Long, SmsWindow}]]
    /\ age \in [Cmd -> 0..SmsWindow]
    /\ handler \in [Cmd -> {"none", "send", "restamp", "push", "done", "dead"}]
    /\ ussd \in {"main_menu", "lock_phone", "trigger_siren"}
    /\ sms \in [Cmd -> 0..2] /\ push \in [Cmd -> 0..1]
    /\ todo \subseteq Cmd /\ running \subseteq [cmd: Cmd, via: {"poll", "sms"}]
    /\ tracker \in Records /\ edits \subseteq Edit
    /\ replies \subseteq [cmd: Cmd, word: Kinds \cup {"executed", "failed"}]
    /\ acks \subseteq [cmd: Cmd, status: Outcome]
    /\ accepted \subseteq Cmd /\ carried \subseteq Cmd
    /\ finished \subseteq Cmd /\ dropped \subseteq Cmd
    /\ started \in [Cmd -> SUBSET Via]

\* Mutant of PollWindow: the poll's window is added to that of the SMS.
PollWindowAdded(kind) == SmsWindow + (IF kind = "photo" THEN Long ELSE Lock)

PollWindow(kind) == IF kind = "photo" THEN Long ELSE Lock

-----------------------------------------------------------------------------
(* issue_command *)

Insert(c, channel, by, kind, window) ==
    /\ row[c].status = "none"
    /\ row' = [row EXCEPT ![c] = [status |-> "pending", channel |-> channel, by |-> by,
                                  kind |-> kind, window |-> window]]

\* The owner's command goes by SMS if the relay is on and the phone was not
\* seen for five minutes.
Issue(c, kind, offline) ==
    /\ Insert(c, IF offline THEN "sms" ELSE "poll", "owner", kind,
              IF offline THEN SmsWindow ELSE PollWindow(kind))
    /\ handler' = [handler EXCEPT ![c] = IF offline THEN "send" ELSE "push"]
    /\ UNCHANGED <<setup, age, ussd, sms, push, replies, accepted, phoneVars>>

\* A provider takes the message, refuses it, or takes it without its answer
\* arriving in time.
Answers == {"taken", "refused", "unanswered"}

\* Mutant of SmsFailed: an answer that does not come counts as success.
SmsFailedIfRefused(answers) == \A i \in 1..2 : answers[i] = "refused"

SmsFailed(answers) == \A i \in 1..2 : answers[i] # "taken"

\* send_command_sms tries Termii when Twilio has not said yes.
SendSms(c) ==
    \E answers \in Answers \X Answers :
        LET tried == IF answers[1] = "taken" THEN {1} ELSE {1, 2}
            copies == Cardinality({i \in tried : answers[i] # "refused"})
        IN  /\ handler[c] = "send"
            /\ sms' = [sms EXCEPT ![c] = copies]
            /\ handler' = [handler EXCEPT ![c] = IF SmsFailed(answers) THEN "restamp" ELSE "push"]
            /\ accepted' = IF \E i \in tried : answers[i] = "taken" THEN accepted \cup {c} ELSE accepted
            /\ UNCHANGED <<setup, row, age, ussd, push, replies, phoneVars>>

\* Mutant of Restamped: the window of the SMS channel is kept.
RestampedChannel(r) == [r EXCEPT !.channel = "poll"]

Restamped(r) == [r EXCEPT !.channel = "poll", !.window = PollWindow(r.kind)]

Restamp(c) ==
    /\ handler[c] = "restamp"
    /\ row' = [row EXCEPT ![c] = Restamped(@)]
    /\ handler' = [handler EXCEPT ![c] = "push"]
    /\ UNCHANGED <<setup, age, ussd, sms, push, replies, accepted, phoneVars>>

\* push_command_to_device: whatever the row's status is by now.
SendPush(c) ==
    /\ handler[c] = "push"
    /\ \E n \in 0..1 : push' = [push EXCEPT ![c] = n]
    /\ handler' = [handler EXCEPT ![c] = "done"]
    /\ UNCHANGED <<setup, row, age, ussd, sms, replies, accepted, phoneVars>>

\* The worker is killed inside the handler.
Die(c) ==
    /\ handler[c] \in {"send", "restamp", "push"}
    /\ handler' = [handler EXCEPT ![c] = "dead"]
    /\ UNCHANGED <<setup, row, age, ussd, sms, push, replies, accepted, phoneVars>>

ReadHistory ==
    /\ row' = [c \in Cmd |-> IF row[c].status = "pending" /\ age[c] >= row[c].window
                             THEN [row[c] EXCEPT !.status = "expired"] ELSE row[c]]
    /\ row' # row
    /\ UNCHANGED <<setup, age, handler, ussd, sms, push, replies, accepted, phoneVars>>

-----------------------------------------------------------------------------
(* USSD and WhatsApp *)

UssdMenu(state) ==
    /\ ussd = "main_menu"
    /\ ussd' = state
    /\ UNCHANGED <<setup, row, age, handler, sms, push, replies, accepted, phoneVars>>

\* The number typed names no device.
UssdUnknown ==
    /\ ussd # "main_menu"
    /\ ussd' = "main_menu"
    /\ UNCHANGED <<setup, row, age, handler, sms, push, replies, accepted, phoneVars>>

\* The command is stored for the SMS channel; no message is sent.
UssdIssue(c) ==
    /\ ussd # "main_menu"
    /\ Insert(c, "sms", "ussd", IF ussd = "lock_phone" THEN "lock" ELSE "alarm", Lock)
    /\ ussd' = "main_menu"
    /\ UNCHANGED <<setup, age, handler, sms, push, replies, accepted, phoneVars>>

\* The webhook keeps the digits of a number only, so it finds the devices
\* registered without a "+".
WhatsAppIssue(c, kind) ==
    /\ setup.phone = "bare"
    /\ Insert(c, "poll", "whatsapp", kind, Lock)
    /\ UNCHANGED <<setup, age, handler, ussd, sms, push, replies, accepted, phoneVars>>

-----------------------------------------------------------------------------
(* The phone *)

Start(c, via) == started' = [started EXCEPT ![c] = @ \cup {via}]

\* What handleCommand can make of a command: the capture is refused in this
\* build, the alarm may find no audio.
Outcomes(kind) ==
    CASE kind = "lock" -> {"executed"}
      [] kind = "alarm" -> {"executed", "failed"}
      [] kind = "photo" -> {"failed"}

\* Mutant of Deliverable: the channel is not looked at.
DeliverableByAny(c) == row[c].status = "pending" /\ age[c] < row[c].window

\* get_device_commands
Deliverable(c) ==
    /\ row[c].status = "pending" /\ row[c].channel # "sms"
    /\ age[c] < row[c].window

\* The poll loop is running a command, or recording the outcome of one.
PollBusy == (\E r \in running : r.via = "poll") \/ (\E e \in edits : e.via = "poll")

\* The poll loop is done with its last response and asks again.
Poll ==
    /\ todo = {} /\ ~PollBusy
    /\ todo' = {c \in Cmd : Deliverable(c)}
    /\ todo' # {}
    /\ UNCHANGED <<setup, row, age, handler, ussd, sms, push, running, tracker, edits, replies,
                   acks, accepted, started, carried, finished, dropped>>

\* RecentCommandTracker.remember, which ackCommand calls with every outcome,
\* reads the string that holds all the records ...
Note(c, via, outcome) ==
    edits' = edits \cup {[cmd |-> c, via |-> via, outcome |-> outcome, read |-> tracker]}

\* A command the tracker knows is acknowledged again, not run.
ReAck(c) ==
    /\ c \in todo /\ ~PollBusy
    /\ tracker[c] # "none"
    /\ todo' = todo \ {c}
    /\ Note(c, "poll", tracker[c])
    /\ UNCHANGED <<setup, row, age, handler, ussd, sms, push, running, tracker, replies, acks,
                   accepted, started, carried, finished, dropped>>

RunPolled(c) ==
    /\ c \in todo /\ ~PollBusy
    /\ tracker[c] = "none"
    /\ todo' = todo \ {c}
    /\ running' = running \cup {[cmd |-> c, via |-> "poll"]}
    /\ Start(c, "poll")
    /\ UNCHANGED <<setup, row, age, handler, ussd, sms, push, tracker, edits, replies, acks,
                   accepted, carried, finished, dropped>>

\* The SMS receiver checks sender and pairing code and hands the command to
\* the tracking service, which starts it without asking the tracker.
ReceiveSms(c) ==
    /\ sms[c] > 0
    /\ sms' = [sms EXCEPT ![c] = @ - 1]
    /\ \E taken \in BOOLEAN :   \* FALSE: relay off in the app, cooldown, or lost on the way
        IF setup.smsBuild /\ taken
        THEN running' = running \cup {[cmd |-> c, via |-> "sms"]} /\ Start(c, "sms")
        ELSE UNCHANGED <<running, started>>
    /\ UNCHANGED <<setup, row, age, handler, ussd, push, todo, tracker, edits, replies, acks,
                   accepted, carried, finished, dropped>>

\* The effect of a command; its outcome is recorded next ...
Finish(r) ==
    /\ r \in running
    /\ running' = running \ {r}
    /\ \E outcome \in Outcomes(row[r.cmd].kind) :
        /\ Note(r.cmd, r.via, outcome)
        /\ carried' = IF outcome = "executed" THEN carried \cup {r.cmd} ELSE carried
    /\ UNCHANGED <<setup, row, age, handler, ussd, sms, push, todo, tracker, replies, acks,
                   accepted, started, finished, dropped>>

\* Mutant of Put: only what the poll loop ran is remembered.
PutPolled(e) == IF e.via = "poll" THEN [e.read EXCEPT ![e.cmd] = e.outcome] ELSE e.read

\* Mutant of Put: the string is written with the new record alone.
PutAlone(e) == [d \in Cmd |-> IF d = e.cmd THEN e.outcome ELSE "none"]

\* ... put into what was read ...
Put(e) == [e.read EXCEPT ![e.cmd] = e.outcome]

\* What was recorded by another command's update since this one read the records.
Unseen(e) == {d \in Cmd \ {e.cmd} : tracker[d] # "none" /\ e.read[d] = "none"}

\* replyViaSms names the command, not its outcome.
Reply(c) == [cmd |-> c, word |-> row[c].kind]

\* ... which writes the string back, over what was recorded meanwhile.  Then the
\* outcome is posted, and a text message answered if that is permitted.
WriteBack(e) ==
    /\ e \in edits
    /\ edits' = edits \ {e}
    /\ tracker' = Put(e)
    /\ dropped' = dropped \cup Unseen(e)
    /\ acks' = acks \cup {[cmd |-> e.cmd, status |-> e.outcome]}
    /\ \E permitted \in BOOLEAN :
        replies' = IF e.via = "sms" /\ permitted THEN replies \cup {Reply(e.cmd)} ELSE replies
    /\ finished' = finished \cup {e.cmd}
    /\ UNCHANGED <<setup, row, age, handler, ussd, sms, push, todo, running, accepted, started,
                   carried>>

\* Mutant of PushAck: the acknowledgement goes to the path the server serves.
PushAckLands(c) == acks' = acks \cup {[cmd |-> c, status |-> "executed"]}

\* acknowledgeCommand posts to /api/device/command/, which no route serves:
\* the answer is 404.
PushAck(c) == UNCHANGED acks

\* The messaging service carries a push out and tells neither the tracker nor
\* the poll loop.  A lock needs the device administrator, a capture is
\* started without saying which, and both end in "executed".
ReceivePush(c) ==
    /\ push[c] > 0
    /\ push' = [push EXCEPT ![c] = @ - 1]
    /\ Start(c, "push")
    /\ \E works \in BOOLEAN :
        carried' = IF works /\ row[c].kind # "photo" THEN carried \cup {c} ELSE carried
    /\ PushAck(c)
    /\ UNCHANGED <<setup, row, age, handler, ussd, sms, todo, running, tracker, edits, replies,
                   accepted, finished, dropped>>

-----------------------------------------------------------------------------
(* Acknowledgements *)

\* ack_command overwrites whatever the row says.
Ack(a) ==
    /\ a \in acks
    /\ acks' = acks \ {a}
    /\ row' = [row EXCEPT ![a.cmd].status = a.status]
    /\ UNCHANGED <<setup, age, handler, ussd, sms, push, todo, running, tracker, edits, replies,
                   accepted, started, carried, finished, dropped>>

\* parse_ack_sms knows two words.
ParseAck(word) == IF word \in {"executed", "failed"} THEN word ELSE None

\* sms_inbound_webhook applies a reply it can parse to a command that was sent
\* by SMS and is still pending.
SmsInbound(m) ==
    /\ m \in replies
    /\ replies' = replies \ {m}
    /\ row' = IF /\ ParseAck(m.word) # None
                 /\ row[m.cmd].channel = "sms" /\ row[m.cmd].status = "pending"
              THEN [row EXCEPT ![m.cmd].status = ParseAck(m.word)] ELSE row
    /\ UNCHANGED <<setup, age, handler, ussd, sms, push, accepted, phoneVars>>

Tick ==
    /\ age' = [c \in Cmd |-> IF row[c].status # "none" /\ age[c] < SmsWindow
                             THEN age[c] + 1 ELSE age[c]]
    /\ age' # age
    /\ UNCHANGED <<setup, row, handler, ussd, sms, push, replies, accepted, phoneVars>>

-----------------------------------------------------------------------------
Init ==
    /\ setup \in [smsBuild: SmsBuild, phone: Phones]
    /\ row = [c \in Cmd |-> Absent]
    /\ age = [c \in Cmd |-> 0]
    /\ handler = [c \in Cmd |-> "none"]
    /\ ussd = "main_menu"
    /\ sms = [c \in Cmd |-> 0] /\ push = [c \in Cmd |-> 0]
    /\ todo = {} /\ running = {} /\ replies = {} /\ acks = {}
    /\ tracker = [c \in Cmd |-> "none"] /\ edits = {}
    /\ accepted = {} /\ carried = {} /\ finished = {} /\ dropped = {}
    /\ started = [c \in Cmd |-> {}]

Next ==
    \/ \E c \in Cmd, kind \in Kinds, offline \in BOOLEAN : Issue(c, kind, offline)
    \/ \E c \in Cmd : SendSms(c) \/ Restamp(c) \/ SendPush(c) \/ Die(c)
    \/ ReadHistory
    \/ \E state \in {"lock_phone", "trigger_siren"} : UssdMenu(state)
    \/ UssdUnknown
    \/ \E c \in Cmd : UssdIssue(c)
    \/ \E c \in Cmd, kind \in Kinds : WhatsAppIssue(c, kind)
    \/ Poll
    \/ \E c \in Cmd : ReAck(c) \/ RunPolled(c) \/ ReceiveSms(c) \/ ReceivePush(c)
    \/ \E r \in running : Finish(r)
    \/ \E e \in edits : WriteBack(e)
    \/ \E a \in acks : Ack(a)
    \/ \E m \in replies : SmsInbound(m)
    \/ Tick

Spec == Init /\ [][Next]_vars

-----------------------------------------------------------------------------
(* Properties *)

\* A pending row that the poll leaves out was taken by a provider, unless the
\* worker is still about to send or re-stamp it, or was killed before.  (A USSD
\* row is always left out: no property holds of it.)  issue_command's fallback.
NotStranded ==
    \A c \in Cmd :
        row[c].status = "pending" /\ row[c].channel = "sms" /\ row[c].by = "owner" =>
            c \in accepted \/ handler[c] \in {"send", "restamp", "dead"}

\* A command whose text message a provider acknowledged is not run by the poll
\* loop too: only an answer that never came, or the push, makes it run twice.
\* "an offline phone that comes back online later does NOT double-execute a
\* command it already ran from the SMS" (issue_command).
OneChannel == \A c \in Cmd : c \in accepted => "poll" \notin started[c]

\* The server shows "executed" only for a command that had its effect on the
\* phone, over whichever channels it was tried and whichever replies came back.
HonestAcross == \A c \in Cmd : row[c].status = "executed" => c \in carried

\* The poll loop never starts a command the phone has finished before, even
\* when that was the run of a text message the server thought lost; only an
\* update that another command made at the same time makes it forget ...
NotAgain ==
    \A c \in finished \ dropped : [cmd |-> c, via |-> "poll"] \in running' =>
        [cmd |-> c, via |-> "poll"] \in running

\* ... and hands out a command only within the window of its kind, though it was
\* sent by SMS first: a lock or alarm the operator has given up must not run
\* hours later.
WithinWindow == \A c \in todo' \ todo : age[c] < PollWindow(row[c].kind)

\* Every step of the poll keeps to both (issue_command's fallback to the poll,
\* RecentCommandTracker).
PollOnceInTime == [][NotAgain /\ WithinWindow]_vars

-----------------------------------------------------------------------------
(* The inductive strengthening of the properties *)

\* What is not issued is nowhere yet.
Unissued(c) ==
    row[c].status = "none" =>
        c \notin todo /\ "poll" \notin started[c] /\ handler[c] = "none" /\ c \notin accepted

\* The poll loop has not seen a row of the SMS channel: a row enters that
\* channel when it is issued and leaves it for good.
OffThePoll(c) == row[c].channel = "sms" => c \notin todo /\ "poll" \notin started[c]

\* A command a provider took stays in the SMS channel: only one that no provider
\* took is re-stamped.
Relayed(c) ==
    /\ c \in accepted => row[c].channel = "sms" /\ handler[c] \notin {"send", "restamp"}
    /\ handler[c] \in {"send", "restamp"} => row[c].channel = "sms"

\* Whatever reports "executed" of a command is about a run that had its effect.
Reported(c) ==
    /\ \/ tracker[c] = "executed" \/ \E e \in edits : Put(e)[c] = "executed"
       \/ [cmd |-> c, status |-> "executed"] \in acks
       => c \in carried
    /\ c \in finished \ dropped => tracker[c] # "none"

ChannelInv ==
    /\ TypeOK
    /\ \A c \in Cmd :
        /\ Unissued(c) /\ OffThePoll(c) /\ Relayed(c) /\ Reported(c)
        /\ row[c].channel = "poll" => row[c].window <= PollWindow(row[c].kind)
    /\ \A m \in replies : m.word \in Kinds
    /\ NotStranded /\ OneChannel /\ HonestAcross
=============================================================================
