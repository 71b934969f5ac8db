------------------------------ MODULE TheftMode ------------------------------
(***************************************************************************)
(* One device from its pings to theft mode (sentinel.py, post_location in    *)
(* routes/devices.py): the score of a ping, the gate that asks for repeated  *)
(* anomalies, the activation with its case and its commands, recovery, a     *)
(* report's case, and the two reactions of the location handler that queue   *)
(* commands: to failed unlocks and to leaving a zone.                        *)
(*                                                                         *)
(* Handlers run in several worker processes; what is one step here is one    *)
(* statement or one transaction of the code.  "capture" stands for the pair  *)
(* of photo and audio, which are queued and looked for together.             *)
(***************************************************************************)
EXTENDS Integers, Sequences, FiniteSets, FiniteSetsExt

CONSTANTS
    Handler,        \* requests being served
    Pings,          \* pings to choose from: [signals, moving, night, inside]
    Weight,         \* THEFT_SIGNALS
    Threshold,      \* THEFT_SCORE_THRESHOLD (80)
    HighBar,        \* HIGH_BAR (60)
    CapScore,       \* CAP_SCORE (100)
    Capped,         \* CAP_AFTER_CONFIRMATION (79)
    Confirm,        \* ANOMALY_CONFIRMATION_COUNT (3)
    Policies,       \* geofences.auto_action
    MaxCases,       \* bound on cases active at once
    MaxSame         \* bound on equal commands of a zone pending at once

TheftConstants ==
    /\ HighBar \in Nat /\ Capped \in Nat /\ Threshold \in Nat /\ CapScore \in Nat
    /\ HighBar <= Capped /\ Capped < Threshold /\ Threshold <= CapScore
    /\ Confirm \in Nat \ {0}
    /\ \A p \in Pings : p.signals \subseteq DOMAIN Weight /\ p.inside \in BOOLEAN
    /\ MaxCases \in Nat \ {0} /\ MaxSame \in Nat \ {0}

Kinds == {"capture", "alarm"}
Slot == [kind: {"capture"}, origin: {"theft", "unlock"}, n: {1}]
        \cup [kind: Kinds, origin: {"fence"}, n: 1..MaxSame]

VARIABLES
    mode,       \* devices.operating_mode
    scores,     \* stored scores of the last pings, newest first
    cases,      \* evidence_cases: by what each active one was opened; a closed
                \* one is not looked at again and leaves its place
    commands,   \* commands queued by the server itself
    recent,     \* a capture was queued in the last five minutes
    policy,     \* auto_action of the device's zone
    lastInside, \* geofences.last_inside
    job,        \* where each handler is, and what it still needs to know
    streak      \* history: how long the last stored pings were calm or critical

vars == <<mode, scores, cases, commands, recent, policy, lastInside, job, streak>>

Idle == [pc |-> "idle", score |-> 0, raw |-> 0, unlocks |-> FALSE, inside |-> FALSE,
         crossed |-> "none"]

Steps == {"idle", "persist", "check", "activate", "unlock", "queue", "fence", "cross", "report"}
Jobs == [pc: Steps, score: 0..CapScore, raw: 0..CapScore, unlocks: BOOLEAN, inside: BOOLEAN,
         crossed: {"none", "entered", "exited"}]

TypeOK ==
    /\ mode \in {"normal", "stolen"}
    /\ scores \in Seq(0..CapScore) /\ Len(scores) <= Confirm
    /\ streak \in [level: {"calm", "high", "critical"}, n: 0..(Confirm - 1)]
    /\ cases \in [1..MaxCases -> {"none", "theft", "report"}]
    /\ commands \in [Slot -> {"none", "live", "late"}]
    /\ recent \in BOOLEAN /\ lastInside \in BOOLEAN /\ policy \in Policies
    /\ job \in [Handler -> Jobs]

Lesser(a, b) == IF a < b THEN a ELSE b
Newest(x, s) == SubSeq(<<x>> \o s, 1, Lesser(Len(s) + 1, Confirm))
Level(raw) == IF raw >= Threshold THEN "critical" ELSE IF raw >= HighBar THEN "high" ELSE "calm"
Elevated(s) == Cardinality({i \in DOMAIN s : s[i] >= HighBar})

-----------------------------------------------------------------------------
(* compute_score *)

\* Mutant of Ceiling: the sum is not capped.
NoCeiling(sum) == sum

Ceiling(sum) == Lesser(sum, CapScore)

WeightOf(raised) == MapThenSumSet(LAMBDA s : Weight[s], raised)

\* The weights of the signals a ping raises; a jump needs a fix before it, and
\* the hour of the night counts only beside movement or another signal.
RawScore(p, history) ==
    LET raised == p.signals \ (IF history = <<>> THEN {"jump"} ELSE {})
        sum == WeightOf(raised)
        late == IF p.night /\ (p.moving \/ sum > 0) THEN Weight["unusual_time"] ELSE 0
    IN  Ceiling(sum + late)

\* Mutant of Confirmed: the ping being judged counts as one of the streak.
ConfirmedByItself(history) ==
    history = <<>> \/ Elevated(history) + 1 >= Confirm - 1

\* Mutant of Confirmed: only scores over the threshold count, as capped scores
\* never are.
ConfirmedByCritical(history) ==
    history = <<>> \/ Cardinality({i \in DOMAIN history : history[i] >= Threshold}) >= Confirm - 1

\* The gate asks for elevated pings among the last ones, if there are any.
Confirmed(history) == history = <<>> \/ Elevated(history) >= Confirm - 1

Score(raw, history) ==
    IF raw >= Threshold /\ ~Confirmed(history) THEN Lesser(raw, Capped) ELSE raw

-----------------------------------------------------------------------------
(* Commands *)

Pending(kind) == \E s \in Slot : s.kind = kind /\ commands[s] # "none"

Free(kind, origin) ==
    {s \in Slot : s.kind = kind /\ s.origin = origin /\ commands[s] = "none"}

\* The commands table with one more command, in the first free slot.
Queued(kind, origin) ==
    [commands EXCEPT ![CHOOSE s \in Free(kind, origin) :
                          \A t \in Free(kind, origin) : s.n <= t.n] = "live"]

-----------------------------------------------------------------------------
(* post_location *)

Receive(h, p) ==
    LET raw == RawScore(p, scores) IN
    /\ job[h].pc = "idle"
    /\ job' = [job EXCEPT ![h] =
          [Idle EXCEPT !.pc = "persist", !.raw = raw, !.score = Score(raw, scores),
                       !.unlocks = "failed_unlocks" \in p.signals, !.inside = p.inside]]
    /\ UNCHANGED <<mode, scores, cases, commands, recent, policy, lastInside, streak>>

Persist(h) ==
    /\ job[h].pc = "persist"
    /\ scores' = Newest(job[h].score, scores)
    /\ streak' = LET level == Level(job[h].raw) IN
                 [level |-> level, n |-> IF level = streak.level
                                         THEN Lesser(streak.n + 1, Confirm - 1) ELSE 1]
    /\ job' = [job EXCEPT ![h] =
          [@ EXCEPT !.pc = IF job[h].score >= Threshold THEN "check" ELSE "unlock",
                    !.score = 0, !.raw = 0]]
    /\ UNCHANGED <<mode, cases, commands, recent, policy, lastInside>>

\* auto_activate_theft_mode reads the mode before its transaction begins ...
CheckMode(h) ==
    /\ job[h].pc = "check"
    /\ job' = [job EXCEPT ![h].pc = IF mode = "stolen" THEN "unlock" ELSE "activate"]
    /\ UNCHANGED <<mode, scores, cases, commands, recent, policy, lastInside, streak>>

Active == {i \in 1..MaxCases : cases[i] # "none"}

Opened(by) == [cases EXCEPT ![Min(1..MaxCases \ Active)] = by]

\* ... and then sets it, opens a case and queues captures that never expire.
Activate(h) ==
    /\ job[h].pc = "activate"
    /\ Free("capture", "theft") # {}                    \* bound
    /\ mode' = "stolen"
    /\ Active # 1..MaxCases                             \* bound
    /\ cases' = Opened("theft")
    /\ commands' = Queued("capture", "theft")
    /\ recent' = TRUE
    /\ job' = [job EXCEPT ![h].pc = "unlock"]
    /\ UNCHANGED <<scores, policy, lastInside, streak>>

\* _queue_failed_unlock_reaction looks for a recent capture and a pending one.
CheckUnlock(h) ==
    /\ job[h].pc = "unlock"
    /\ job' = [job EXCEPT ![h] =
          [@ EXCEPT !.pc = IF job[h].unlocks /\ ~recent /\ ~Pending("capture")
                           THEN "queue" ELSE "fence",
                    !.unlocks = FALSE]]
    /\ UNCHANGED <<mode, scores, cases, commands, recent, policy, lastInside, streak>>

QueueCapture(h) ==
    /\ job[h].pc = "queue"
    /\ Free("capture", "unlock") # {}                   \* bound
    /\ commands' = Queued("capture", "unlock")
    /\ recent' = TRUE
    /\ job' = [job EXCEPT ![h].pc = "fence"]
    /\ UNCHANGED <<mode, scores, cases, policy, lastInside, streak>>

\* check_geofences compares the ping with the state read from the zone's row.
CheckFence(h) ==
    /\ job[h].pc = "fence"
    /\ job' = [job EXCEPT ![h] =
          IF @.inside = lastInside THEN Idle
          ELSE [Idle EXCEPT !.pc = "cross",
                            !.crossed = IF job[h].inside THEN "entered" ELSE "exited"]]
    /\ UNCHANGED <<mode, scores, cases, commands, recent, policy, lastInside, streak>>

Action(kind) ==
    CASE policy = "capture" -> kind = "capture"
      [] policy = "siren" -> kind = "alarm"
      [] policy = "none" -> FALSE

\* Mutant of Suppressed: only a capture of the last five minutes counts.
SuppressedIfRecent(kind) == Pending(kind) /\ recent

\* _queue_auto_action leaves out a command of which one is pending, expired or
\* not.
Suppressed(kind) == Pending(kind)

\* One transaction stores the zone's state and queues the owner's reaction.
Cross(h) ==
    LET reacts == {k \in Kinds : job[h].crossed = "exited" /\ Action(k) /\ ~Suppressed(k)} IN
    /\ job[h].pc = "cross"
    /\ lastInside' = (job[h].crossed = "entered")
    /\ IF reacts = {}
       THEN UNCHANGED <<commands, recent>>
       ELSE \E k \in reacts :
                /\ Free(k, "fence") # {}                \* bound
                /\ commands' = Queued(k, "fence")
                /\ recent' = (recent \/ k = "capture")
    /\ job' = [job EXCEPT ![h] = Idle]
    /\ UNCHANGED <<mode, scores, cases, policy, streak>>

-----------------------------------------------------------------------------
(* The owner *)

\* Mutant of Closing: only the newest case is closed.
ClosingNewest == IF Active = {} THEN cases ELSE [cases EXCEPT ![Max(Active)] = "none"]

Closing == [i \in 1..MaxCases |-> "none"]

\* mark_device_recovered leaves commands and stored scores as they are.
Recover ==
    /\ mode' = "normal"
    /\ cases' = Closing
    /\ <<mode, cases>>' # <<mode, cases>>
    /\ UNCHANGED <<scores, commands, recent, policy, lastInside, job, streak>>

\* generate_evidence_pdf reads the active case ...
Report(h) ==
    /\ job[h].pc = "idle"
    /\ Active = {}
    /\ job' = [job EXCEPT ![h].pc = "report"]
    /\ UNCHANGED <<mode, scores, cases, commands, recent, policy, lastInside, streak>>

\* ... and opens one if it found none.
OpenForReport(h) ==
    /\ job[h].pc = "report"
    /\ Active # 1..MaxCases                             \* bound
    /\ cases' = Opened("report")
    /\ job' = [job EXCEPT ![h] = Idle]
    /\ UNCHANGED <<mode, scores, commands, recent, policy, lastInside, streak>>

\* get_command_history shows commands past their time as expired.
ReadHistory ==
    /\ commands' = [s \in Slot |-> IF commands[s] = "late" THEN "none" ELSE commands[s]]
    /\ commands' # commands
    /\ UNCHANGED <<mode, scores, cases, recent, policy, lastInside, job, streak>>

-----------------------------------------------------------------------------
(* The phone and the clock *)

Acknowledge(s) ==
    /\ commands[s] = "live"
    /\ commands' = [commands EXCEPT ![s] = "none"]
    /\ UNCHANGED <<mode, scores, cases, recent, policy, lastInside, job, streak>>

FiveMinutes ==
    /\ recent' = FALSE
    /\ commands' = [s \in Slot |-> IF s.kind = "alarm" /\ commands[s] = "live"
                                   THEN "late" ELSE commands[s]]
    /\ <<recent, commands>>' # <<recent, commands>>
    /\ UNCHANGED <<mode, scores, cases, policy, lastInside, job, streak>>

\* Only the commands of theft mode have no expiry.
ThirtyMinutes ==
    /\ recent' = FALSE
    /\ commands' = [s \in Slot |-> IF s.origin # "theft" /\ commands[s] = "live"
                                   THEN "late" ELSE commands[s]]
    /\ <<recent, commands>>' # <<recent, commands>>
    /\ UNCHANGED <<mode, scores, cases, policy, lastInside, job, streak>>

-----------------------------------------------------------------------------
Init ==
    /\ mode = "normal" /\ scores = <<>> /\ streak = [level |-> "calm", n |-> 0]
    /\ cases = [i \in 1..MaxCases |-> "none"]
    /\ commands = [s \in Slot |-> "none"]
    /\ recent = FALSE /\ lastInside = FALSE
    /\ policy \in Policies
    /\ job = [h \in Handler |-> Idle]

Next ==
    \/ \E h \in Handler, p \in Pings : Receive(h, p)
    \/ \E h \in Handler : Persist(h) \/ CheckMode(h) \/ Activate(h) \/ CheckUnlock(h)
                          \/ QueueCapture(h) \/ CheckFence(h) \/ Cross(h)
                          \/ Report(h) \/ OpenForReport(h)
    \/ \E s \in Slot : Acknowledge(s)
    \/ Recover \/ ReadHistory \/ FiveMinutes \/ ThirtyMinutes

Spec == Init /\ [][Next]_vars

-----------------------------------------------------------------------------
(* Properties *)

\* The device is stolen exactly while a case opened by an activation is
\* active, though two workers may activate at once and open two: recovery
\* leaves none of them behind.
CaseMatchesMode ==
    (mode = "stolen") <=> \E i \in 1..MaxCases : cases[i] = "theft"

\* One critical ping does not set off theft mode: after a streak of calm pings
\* it is capped, whatever came before them.
NoSingleShotStep ==
    \A h \in Handler :
        /\ job[h].pc = "idle" /\ job'[h].pc = "persist"
        /\ streak = [level |-> "calm", n |-> Confirm - 1]
        => job'[h].score < Threshold

NoSingleShot == [][NoSingleShotStep]_vars

\* "theft mode was unreachable for devices with history (stuck at 79)": after a
\* streak of pings that are critical by themselves, one more is not capped.
NotStuckStep ==
    \A h \in Handler :
        /\ job[h].pc = "idle" /\ job'[h].pc = "persist" /\ job'[h].raw >= Threshold
        /\ streak = [level |-> "critical", n |-> Confirm - 1]
        => job'[h].score >= Threshold

NotStuck == [][NotStuckStep]_vars

\* However pings interleave, leaving zones never piles up a second siren or a
\* second capture beside one the phone can still fetch.
OnePerExit ==
    \A kind \in Kinds :
        Cardinality({s \in Slot : s.kind = kind /\ s.origin = "fence" /\ commands[s] = "live"}) <= 1

\* "react on the device itself": leaving a zone whose owner asked for the siren
\* leaves an alarm the phone can still fetch.
ExitSounds ==
    [][\A h \in Handler :
          job[h].pc = "cross" /\ job[h].crossed = "exited" /\ job'[h] = Idle /\ policy = "siren"
          => \E s \in Slot : s.kind = "alarm" /\ commands'[s] = "live"]_vars

-----------------------------------------------------------------------------
(* The inductive invariant of the mode and of the reactions to a zone *)

\* OnePerExit, without counting.
OneLive ==
    \A s, t \in Slot :
        /\ s.kind = t.kind /\ s.origin = "fence" /\ t.origin = "fence"
        /\ commands[s] = "live" /\ commands[t] = "live"
        => s = t

TheftInv ==
    /\ cases \in [1..MaxCases -> {"none", "theft", "report"}]
    /\ commands \in [Slot -> {"none", "live", "late"}]
    /\ CaseMatchesMode /\ OneLive

-----------------------------------------------------------------------------
(* The inductive invariant of the gate *)

\* Weights are numbers, and so are their sums; the gate looks at three pings.
GateConstants ==
    /\ Weight["unusual_time"] \in Nat /\ \A S \in SUBSET DOMAIN Weight : WeightOf(S) \in Nat
    /\ Confirm \in Nat /\ Confirm >= 3

\* The gate lowers a score, but an elevated one stays elevated.
Judged(raw, score) == IF raw < HighBar THEN score = raw ELSE score >= HighBar

\* The streak is that of the newest scores there are.
StreakStored ==
    /\ streak.n <= Len(scores)
    /\ \A i \in 1..streak.n : scores[i] < HighBar <=> streak.level = "calm"

ScoreInv ==
    /\ TypeOK /\ StreakStored
    /\ \A h \in Handler : job[h].pc = "persist" => Judged(job[h].raw, job[h].score)
=============================================================================
