---------------------------- MODULE AlertChannels ----------------------------
(***************************************************************************)
(* One channel of the alert engine (alerts.py) in one server process: the    *)
(* engine's light circuit breaker around every send, the retry, the loop     *)
(* over push tokens and, for email, the CircuitBreaker of SendGrid inside    *)
(* it (circuit_breaker.py).  Alerts are raised by several asyncio tasks;     *)
(* channels share no state, so one is modelled, of any kind.                 *)
(*                                                                         *)
(* Every timer is an age, which stops growing where the code no longer       *)
(* tells values apart; so do the counters.                                   *)
(***************************************************************************)
EXTENDS Integers, Sequences, FiniteSets

CONSTANTS
    Task,           \* handlers and sweeps that raise alerts
    TargetLists,    \* what the channel may send to; TRUE is a live address
    MaxFailures,    \* MAX_CONSECUTIVE_FAILURES (5)
    Cooldown,       \* CIRCUIT_BREAKER_COOLDOWN (300 s)
    Threshold,      \* failure_threshold of the SendGrid breaker (3)
    Recovery,       \* recovery_timeout (60 s)
    Successes,      \* success_threshold (3)
    Timeout,        \* of a call to the provider (10 s)
    Backoff,        \* longest wait before the retry (2 s)
    None

\* An outage is over for the channel when the last call of it has failed, the
\* breaker has recovered, the alert it rejected has failed too, and the
\* engine has cooled down.
Aftermath == Timeout + Recovery + Backoff + Cooldown

ASSUME AlertConstants ==
    /\ MaxFailures \in Nat \ {0} /\ Threshold \in Nat \ {0} /\ Successes \in Nat \ {0}
    /\ Cooldown \in Nat /\ Timeout \in Nat /\ Backoff \in Nat
    /\ Recovery \in Nat /\ Timeout < Recovery
    /\ TargetLists \subseteq Seq(BOOLEAN) \ {<<>>}
    /\ None \notin Task

VARIABLES
    channel,    \* "email", "phone" (sms, whatsapp) or "push"
    targets,    \* addresses in the order they are tried
    up,         \* the provider works
    upFor,      \* since when
    failures,   \* _channel_failures
    disabled,   \* age of _channel_disabled_at
    breaker,    \* SendGrid's CircuitBreaker
    running,    \* the task that runs until its next await
    task,       \* where each task is in send_all
    okAge       \* history: age of the last delivery

vars == <<channel, targets, up, upFor, failures, disabled, breaker, running, task, okAge>>

Idle == [pc |-> "idle", target |-> 1, attempt |-> 0, age |-> 0, doomed |-> FALSE, stale |-> FALSE]

TypeOK ==
    /\ channel \in {"email", "phone", "push"}
    /\ targets \in TargetLists
    /\ up \in BOOLEAN /\ upFor \in 0..(Aftermath + 1)
    /\ failures \in 0..MaxFailures
    /\ disabled \in 0..(Cooldown + 1)
    /\ breaker \in [state: {"closed", "open", "half"}, failures: 0..Threshold,
                    successes: 0..Successes, last: 0..Recovery]
    /\ running \in Task \cup {None}
    /\ task \in [Task -> [pc: {"idle", "start", "try", "posting", "backoff"},
                          target: 1..Len(targets), attempt: 0..1,
                          age: 0..(Timeout + Backoff), doomed: BOOLEAN, stale: BOOLEAN]]
    /\ okAge \in 0..1
    /\ \A t \in Task : (running = t) = (task[t].pc \in {"start", "try"})

Lesser(a, b) == IF a < b THEN a ELSE b

-----------------------------------------------------------------------------
(* circuit_breaker.py *)

\* Mutant of Recovered: the recovery timeout is forgotten.
RecoveredAtOnce(b) == b.state = "open"

Recovered(b) == b.state = "open" /\ b.last >= Recovery

CanExecute(b) == b.state # "open" \/ Recovered(b)

Executing(b) == IF Recovered(b) THEN [b EXCEPT !.state = "half", !.successes = 0] ELSE b

BreakerSuccess(b) ==
    CASE b.state = "half" /\ b.successes + 1 >= Successes ->
            [b EXCEPT !.state = "closed", !.failures = 0, !.successes = 0]
      [] b.state = "half" /\ b.successes + 1 < Successes -> [b EXCEPT !.successes = @ + 1]
      [] b.state = "closed" -> [b EXCEPT !.failures = 0]
      [] b.state = "open" -> b

BreakerFailure(b) ==
    LET n == Lesser(b.failures + 1, Threshold) IN
    [b EXCEPT !.failures = n, !.last = 0,
              !.state = IF @ = "half" \/ (@ = "closed" /\ n >= Threshold) THEN "open" ELSE @]

\* Calls that were under way when the breaker changed its state.
Outdated(b) == [t \in Task |-> [task[t] EXCEPT !.stale = @ \/ breaker.state # b.state]]

-----------------------------------------------------------------------------
(* The engine's own breaker *)

\* Mutant of Skipping: an open channel stays open.
SkippingForGood == failures >= MaxFailures

\* _should_skip_channel
Skipping == failures >= MaxFailures /\ disabled <= Cooldown

EngineSuccess ==
    /\ failures' = 0
    /\ disabled' = Cooldown + 1
    /\ okAge' = 0

EngineFailure ==
    LET n == Lesser(failures + 1, MaxFailures) IN
    /\ failures' = n
    /\ disabled' = IF n >= MaxFailures THEN 0 ELSE disabled
    /\ UNCHANGED okAge

-----------------------------------------------------------------------------
(* send_all and _send_with_retry *)

\* send_all turns to the next address, or is done.
NextTarget(t, tasks) ==
    /\ task' = [tasks EXCEPT ![t] =
                   IF @.target < Len(targets)
                   THEN [Idle EXCEPT !.pc = "start", !.target = task[t].target + 1]
                   ELSE Idle]
    /\ running' = IF task[t].target < Len(targets) THEN t ELSE None

Alert(t) ==
    /\ running = None /\ task[t].pc = "idle"
    /\ task' = [task EXCEPT ![t].pc = "start"]
    /\ running' = t
    /\ UNCHANGED <<channel, targets, up, upFor, failures, disabled, breaker, okAge>>

\* Mutant of Skip: a skipped send counts as a failure.
SkipCounts(t) ==
    /\ task[t].pc = "start" /\ Skipping
    /\ NextTarget(t, task)
    /\ EngineFailure
    /\ UNCHANGED <<channel, targets, up, upFor, breaker>>

Skip(t) ==
    /\ task[t].pc = "start" /\ Skipping
    /\ NextTarget(t, task)
    /\ UNCHANGED <<channel, targets, up, upFor, failures, disabled, breaker, okAge>>

Admit(t) ==
    /\ task[t].pc = "start" /\ ~Skipping
    /\ task' = [task EXCEPT ![t].pc = "try"]
    /\ UNCHANGED <<channel, targets, up, upFor, failures, disabled, breaker, running, okAge>>

Post(t) ==
    LET b == IF channel = "email" THEN Executing(breaker) ELSE breaker IN
    /\ task[t].pc = "try"
    /\ channel = "email" => CanExecute(breaker)
    /\ breaker' = b
    /\ task' = [Outdated(b) EXCEPT ![t] =
                   [@ EXCEPT !.pc = "posting", !.age = 0, !.doomed = ~up, !.stale = FALSE]]
    /\ running' = None
    /\ UNCHANGED <<channel, targets, up, upFor, failures, disabled, okAge>>

\* Mutant of Failed: one attempt too many.
FailedLate(t, tasks) ==
    \/ /\ task[t].attempt <= 1
       /\ task' = [tasks EXCEPT ![t] = [@ EXCEPT !.pc = "backoff", !.age = 0, !.stale = FALSE]]
       /\ running' = None
       /\ UNCHANGED <<failures, disabled, okAge>>
    \/ /\ task[t].attempt = 2
       /\ NextTarget(t, tasks)
       /\ EngineFailure

\* The send returned False: one retry, and then it counts.
Failed(t, tasks) ==
    \/ /\ task[t].attempt = 0
       /\ task' = [tasks EXCEPT ![t] = [@ EXCEPT !.pc = "backoff", !.age = 0, !.stale = FALSE]]
       /\ running' = None
       /\ UNCHANGED <<failures, disabled, okAge>>
    \/ /\ task[t].attempt = 1
       /\ NextTarget(t, tasks)
       /\ EngineFailure

\* send_email: the breaker is open.
Reject(t) ==
    /\ task[t].pc = "try"
    /\ channel = "email" /\ ~CanExecute(breaker)
    /\ Failed(t, task)
    /\ UNCHANGED <<channel, targets, up, upFor, breaker>>

Returned(t) == running = None /\ task[t].pc = "posting"

Delivered(t) ==
    LET b == IF channel = "email" THEN BreakerSuccess(breaker) ELSE breaker IN
    /\ Returned(t)
    /\ up /\ targets[task[t].target]
    /\ breaker' = b
    /\ NextTarget(t, Outdated(b))
    /\ EngineSuccess
    /\ UNCHANGED <<channel, targets, up, upFor>>

Broken(t) ==
    LET b == IF channel = "email" THEN BreakerFailure(breaker) ELSE breaker IN
    /\ Returned(t)
    /\ ~up \/ task[t].doomed
    /\ breaker' = b
    /\ Failed(t, Outdated(b))
    /\ UNCHANGED <<channel, targets, up, upFor>>

\* ChannelPermanentError: credentials are rejected, or the token is not
\* registered any more.
Refused(t) ==
    LET b == IF channel = "email" THEN BreakerFailure(breaker) ELSE breaker IN
    /\ Returned(t)
    /\ IF channel = "push" THEN up /\ ~targets[task[t].target] ELSE ~up \/ task[t].doomed
    /\ breaker' = b
    /\ NextTarget(t, Outdated(b))
    /\ EngineFailure
    /\ UNCHANGED <<channel, targets, up, upFor>>

Retry(t) ==
    /\ running = None /\ task[t].pc = "backoff"
    /\ task' = [task EXCEPT ![t].pc = "try", ![t].attempt = @ + 1]
    /\ running' = t
    /\ UNCHANGED <<channel, targets, up, upFor, failures, disabled, breaker, okAge>>

-----------------------------------------------------------------------------
(* The provider, and time *)

GoDown ==
    /\ up /\ up' = FALSE /\ upFor' = 0
    /\ task' = [t \in Task |-> [task[t] EXCEPT !.doomed = @ \/ task[t].pc = "posting"]]
    /\ UNCHANGED <<channel, targets, failures, disabled, breaker, running, okAge>>

GoUp ==
    /\ ~up /\ up' = TRUE
    /\ UNCHANGED <<channel, targets, upFor, failures, disabled, breaker, running, task, okAge>>

Tick ==
    /\ running = None
    /\ \A t \in Task :
        /\ task[t].pc = "posting" => task[t].age < Timeout
        /\ task[t].pc = "backoff" => task[t].age < Backoff
    /\ task' = [t \in Task |-> IF task[t].pc = "idle" THEN task[t] ELSE [task[t] EXCEPT !.age = @ + 1]]
    /\ upFor' = IF up THEN Lesser(upFor + 1, Aftermath + 1) ELSE 0
    /\ disabled' = Lesser(disabled + 1, Cooldown + 1)
    /\ breaker' = [breaker EXCEPT !.last = Lesser(@ + 1, Recovery)]
    /\ okAge' = 1
    /\ UNCHANGED <<channel, targets, up, failures, running>>

-----------------------------------------------------------------------------
Init ==
    /\ channel \in {"email", "phone", "push"}
    /\ targets \in TargetLists
    /\ channel # "push" => targets = <<TRUE>>
    /\ up = TRUE /\ upFor = Aftermath + 1
    /\ failures = 0 /\ disabled = Cooldown + 1
    /\ breaker = [state |-> "closed", failures |-> 0, successes |-> 0, last |-> Recovery]
    /\ running = None
    /\ task = [t \in Task |-> Idle]
    /\ okAge = 1

Run(t) ==
    \/ Skip(t) \/ Admit(t) \/ Post(t) \/ Reject(t)
    \/ Delivered(t) \/ Broken(t) \/ Refused(t) \/ Retry(t)

Next ==
    \/ \E t \in Task : Alert(t) \/ Run(t)
    \/ GoDown \/ GoUp \/ Tick

Spec == Init /\ [][Next]_vars

\* The event loop takes its ready callbacks in turn, so no task that is ready
\* again and again is passed over for ever; a call to a provider returns or
\* times out, time goes on, and alerts keep being raised.  The provider owes
\* nothing.
Fairness == SF_vars(Tick) /\ \A t \in Task : SF_vars(Alert(t)) /\ SF_vars(Run(t))

FairSpec == Spec /\ Fairness

-----------------------------------------------------------------------------
(* Properties *)

\* "Transient provider outages don't permanently disable alerts"
\* (_should_skip_channel): once a provider has worked for Aftermath, neither
\* of the two breakers turns a message away, although a rejection by the
\* inner one counts as a failure of the outer one, probes are not limited to
\* one task, and refused push tokens count against the whole channel.
BackInTime ==
    upFor > Aftermath =>
        /\ ~Skipping
        /\ channel = "email" => CanExecute(breaker)

\* "HALF_OPEN: testing if service has recovered" (circuit_breaker.py): only
\* calls begun in the half-open state decide it, no answer that was under way
\* since before the breaker opened closes or reopens it.
JudgedByProbes ==
    breaker.state = "half" => \A t \in Task : task[t].pc = "posting" => ~task[t].stale

\* When the provider stays up, messages keep being delivered.
Resumes == <>[]up => []<>(okAge = 0)

-----------------------------------------------------------------------------
(* The inductive invariant *)

\* A call is given up after Timeout, and the one retry comes within Backoff.
Waits ==
    \A t \in Task :
        /\ task[t].pc = "posting" => task[t].age <= Timeout
        /\ task[t].pc = "backoff" => task[t].age <= Backoff /\ task[t].attempt = 0

\* Only email has the inner breaker, and while it is open no call is younger
\* than its last failure: by the time it has recovered, none is under way.
OpenAdmitsNone ==
    /\ channel # "email" => breaker.state = "closed"
    /\ breaker.state = "open" =>
          \A t \in Task : task[t].pc = "posting" => task[t].age >= breaker.last

\* A call that the outage broke ends within Timeout of the outage.
DoomedEnd ==
    /\ ~up => upFor = 0
    /\ \A t \in Task : task[t].pc = "posting" /\ task[t].doomed => upFor <= task[t].age

\* So the inner breaker counts from there, and the engine's from the last
\* message that the inner one rejected.
BreakerCounts == breaker.state = "open" /\ breaker.last < Recovery => upFor <= Timeout + breaker.last

EngineCounts == Skipping => upFor <= Timeout + Recovery + disabled

\* Every address is live; only push tokens can be otherwise.
AllLive == \A i \in 1..Len(targets) : targets[i]

AlertInv ==
    /\ TypeOK /\ Waits /\ OpenAdmitsNone /\ JudgedByProbes /\ DoomedEnd /\ BreakerCounts
    /\ (channel = "push" => AllLive) => EngineCounts
=============================================================================
