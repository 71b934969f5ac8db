------------------------- MODULE AlertChannelsProofs -------------------------
(***************************************************************************)
(* What holds of a channel of the alert engine and its two circuit breakers  *)
(* for any number of tasks and addresses, any thresholds and timers.         *)
(***************************************************************************)
EXTENDS AlertChannels, TLAPS

Places == [pc: {"idle", "start", "try", "posting", "backoff"},
           target: 1..Len(targets), attempt: 0..1,
           age: 0..(Timeout + Backoff), doomed: BOOLEAN, stale: BOOLEAN]

Breakers == [state: {"closed", "open", "half"}, failures: 0..Threshold,
             successes: 0..Successes, last: 0..Recovery]

\* In a step of t the others stay where they are; a change of the breaker's
\* state makes their calls outdated.
OthersStay(t) ==
    \A u \in Task \ {t} :
        /\ task'[u].pc = task[u].pc /\ task'[u].age = task[u].age
        /\ task'[u].attempt = task[u].attempt /\ task'[u].doomed = task[u].doomed
        /\ task'[u].stale = (task[u].stale \/ breaker'.state # breaker.state)

\* t is done with the attempt: with an address, or waiting for the retry.
Leaves(t) ==
    \/ task'[t].pc \in {"idle", "start"}
    \/ /\ task'[t].pc = "backoff" /\ task'[t].age = 0 /\ task'[t].attempt = 0
       /\ running' = None /\ UNCHANGED <<failures, disabled, okAge>>

-----------------------------------------------------------------------------
(* The operators of the model *)

\* What the assumptions say of the numbers.
LEMMA Numbers ==
    /\ MaxFailures \in Nat \ {0} /\ Threshold \in Nat \ {0} /\ Successes \in Nat \ {0}
    /\ Cooldown \in Nat /\ Timeout \in Nat /\ Backoff \in Nat /\ Recovery \in Nat
    /\ 0 \in 0..(Timeout + Backoff)
BY AlertConstants

\* What a task of the model is.
LEMMA PlacesOf ==
    ASSUME NEW r \in Places
    PROVE  /\ r.pc \in {"idle", "start", "try", "posting", "backoff"}
           /\ r.target \in 1..Len(targets) /\ r.attempt \in 0..1
           /\ r.age \in 0..(Timeout + Backoff) /\ r.doomed \in BOOLEAN /\ r.stale \in BOOLEAN
BY DEF Places

\* Marking calls as outdated changes nothing else of a task.
LEMMA OutdatedMarks ==
    ASSUME TypeOK, NEW b
    PROVE  /\ Outdated(b) \in [Task -> Places]
           /\ \A u \in Task :
                /\ Outdated(b)[u].pc = task[u].pc /\ Outdated(b)[u].target = task[u].target
                /\ Outdated(b)[u].age = task[u].age /\ Outdated(b)[u].attempt = task[u].attempt
                /\ Outdated(b)[u].doomed = task[u].doomed
                /\ Outdated(b)[u].stale = (task[u].stale \/ breaker.state # b.state)
<1>1. \A u \in Task : task[u] \in Places
  BY DEF TypeOK, Places
<1>2. ASSUME NEW r \in Places, NEW x \in BOOLEAN
      PROVE  [r EXCEPT !.stale = @ \/ x] \in Places
  BY <1>2 DEF Places
<1>3. ASSUME NEW u \in Task
      PROVE  /\ Outdated(b)[u] = [task[u] EXCEPT !.stale = @ \/ breaker.state # b.state]
             /\ Outdated(b)[u] \in Places
  BY <1>1, <1>2, <1>3 DEF Outdated
<1>4. Outdated(b) \in [Task -> Places]
  BY <1>3 DEF Outdated
<1>5. ASSUME NEW u \in Task
      PROVE  /\ Outdated(b)[u].pc = task[u].pc /\ Outdated(b)[u].target = task[u].target
             /\ Outdated(b)[u].age = task[u].age /\ Outdated(b)[u].attempt = task[u].attempt
             /\ Outdated(b)[u].doomed = task[u].doomed
             /\ Outdated(b)[u].stale = (task[u].stale \/ breaker.state # b.state)
  <2>1. task[u] \in Places
    BY <1>1, <1>5
  <2>2. QED
    BY <1>3, <1>5, <2>1 DEF Places
<1>6. QED
  BY <1>4, <1>5

\* The task turns to another address of the list, or is idle.
LEMMA NextTargetMoves ==
    ASSUME TypeOK, NEW t \in Task, NEW tasks \in [Task -> Places], NextTarget(t, tasks),
           tasks[t].target = task[t].target
    PROVE  /\ task' \in [Task -> Places]
           /\ task'[t].pc \in {"idle", "start"}
           /\ \A u \in Task \ {t} : task'[u] = tasks[u]
           /\ running' \in {t, None}
           /\ (running' = t) <=> (task'[t].pc = "start")
<1>1. Len(targets) \in Nat \ {0} /\ None \notin Task
  BY AlertConstants DEF TypeOK
<1>2. task[t].target \in 1..Len(targets)
  BY DEF TypeOK
<1>3. Timeout + Backoff \in Nat
  BY AlertConstants
<1>4. CASE task[t].target < Len(targets)
  <2>0. task[t].target + 1 \in 1..Len(targets)
    BY <1>1, <1>2, <1>4
  <2>1. [Idle EXCEPT !.pc = "start", !.target = task[t].target + 1] \in Places
    <3>1. Idle \in Places
      BY <1>1, Numbers DEF Idle, Places
    <3>2. ASSUME NEW r \in Places, NEW k \in 1..Len(targets)
          PROVE  [r EXCEPT !.pc = "start", !.target = k] \in Places
      BY <3>2 DEF Places
    <3>3. QED
      BY <2>0, <3>1, <3>2
  <2>2. task' = [tasks EXCEPT ![t] = [Idle EXCEPT !.pc = "start", !.target = task[t].target + 1]]
    BY <1>4 DEF NextTarget
  <2>3. QED
    BY <1>1, <1>4, <2>1, <2>2 DEF NextTarget, Idle
<1>5. CASE ~(task[t].target < Len(targets))
  <2>1. Idle \in Places
    BY <1>1, <1>3 DEF Idle, Places
  <2>2. task' = [tasks EXCEPT ![t] = Idle] /\ running' = None
    BY <1>5 DEF NextTarget
  <2>3. QED
    BY <1>1, <2>1, <2>2 DEF Idle
<1>6. QED
  BY <1>4, <1>5

\* A failed attempt is followed by the wait for the retry, or it counts.
LEMMA FailedMoves ==
    ASSUME TypeOK, NEW t \in Task, NEW tasks \in [Task -> Places], Failed(t, tasks),
           tasks[t].target = task[t].target, tasks[t].attempt = task[t].attempt
    PROVE  /\ task' \in [Task -> Places]
           /\ \A u \in Task \ {t} : task'[u] = tasks[u]
           /\ running' \in {t, None}
           /\ (running' = t) <=> (task'[t].pc = "start")
           /\ Leaves(t)
           /\ (UNCHANGED <<failures, disabled, okAge>>) \/ EngineFailure
<1>1. CASE /\ task[t].attempt = 0
           /\ task' = [tasks EXCEPT ![t] = [@ EXCEPT !.pc = "backoff", !.age = 0, !.stale = FALSE]]
           /\ running' = None
           /\ UNCHANGED <<failures, disabled, okAge>>
  <2>1. [tasks[t] EXCEPT !.pc = "backoff", !.age = 0, !.stale = FALSE] \in Places
    BY Numbers DEF Places
  <2>2. tasks[t] \in Places /\ None # t
    BY AlertConstants
  <2>3. QED
    BY <1>1, <2>1, <2>2 DEF Leaves, Places
<1>2. CASE task[t].attempt = 1 /\ NextTarget(t, tasks) /\ EngineFailure
  BY <1>2, NextTargetMoves DEF Leaves
<1>3. QED
  BY <1>1, <1>2 DEF Failed

\* Both breakers stay within their types.
LEMMA BreakerTypes ==
    ASSUME NEW b \in Breakers
    PROVE  /\ Executing(b) \in Breakers /\ BreakerSuccess(b) \in Breakers
           /\ BreakerFailure(b) \in Breakers
<1>1. /\ b.failures \in 0..Threshold /\ b.successes \in 0..Successes /\ b.last \in 0..Recovery
      /\ b.state \in {"closed", "open", "half"}
  BY DEF Breakers
<1>2. /\ 0 \in 0..Threshold /\ 0 \in 0..Successes /\ 0 \in 0..Recovery
      /\ b.successes + 1 < Successes => b.successes + 1 \in 0..Successes
      /\ Lesser(b.failures + 1, Threshold) \in 0..Threshold
  BY <1>1, Numbers DEF Lesser
<1>3. Executing(b) \in Breakers
  BY <1>2 DEF Executing, Breakers
<1>4. BreakerSuccess(b) \in Breakers
  <2>1. [b EXCEPT !.state = "closed", !.failures = 0, !.successes = 0] \in Breakers
    BY <1>2 DEF Breakers
  <2>2. b.successes + 1 < Successes => [b EXCEPT !.successes = @ + 1] \in Breakers
    BY <1>2 DEF Breakers
  <2>3. [b EXCEPT !.failures = 0] \in Breakers
    BY <1>2 DEF Breakers
  <2>4. b.successes + 1 >= Successes \/ b.successes + 1 < Successes
    BY <1>1, Numbers
  <2>5. QED
    BY <1>1, <2>1, <2>2, <2>3, <2>4 DEF BreakerSuccess
<1>5. BreakerFailure(b) \in Breakers
  <2> DEFINE n == Lesser(b.failures + 1, Threshold)
             s == IF b.state = "half" \/ (b.state = "closed" /\ n >= Threshold)
                  THEN "open" ELSE b.state
  <2>1. BreakerFailure(b) = [b EXCEPT !.failures = n, !.last = 0, !.state = s]
    BY DEF BreakerFailure, Breakers
  <2>2. s \in {"closed", "open", "half"} /\ n \in 0..Threshold
    BY <1>1, <1>2
  <2> HIDE DEF n, s
  <2>3. QED
    BY <1>2, <2>1, <2>2 DEF Breakers
<1>6. QED
  BY <1>3, <1>4, <1>5

\* A failure counts in the engine up to its limit, and disables the channel
\* there.
LEMMA EngineTypes ==
    ASSUME TypeOK, EngineFailure \/ EngineSuccess
    PROVE  failures' \in 0..MaxFailures /\ disabled' \in 0..(Cooldown + 1) /\ okAge' \in 0..1
BY AlertConstants DEF TypeOK, EngineFailure, EngineSuccess, Lesser

\* What each breaker operation does to the state and the timer.
LEMMA BreakerMoves ==
    ASSUME NEW b \in Breakers
    PROVE  /\ BreakerSuccess(b).last = b.last
           /\ BreakerSuccess(b).state = b.state \/ BreakerSuccess(b).state = "closed"
           /\ BreakerSuccess(b).state = "open" <=> b.state = "open"
           /\ BreakerFailure(b).last = 0 /\ BreakerFailure(b).state # "half"
           /\ Executing(b).last = b.last
           /\ Recovered(b) => Executing(b).state = "half"
           /\ ~Recovered(b) => Executing(b) = b
<1>1. /\ b.failures \in 0..Threshold /\ b.successes \in 0..Successes /\ b.last \in 0..Recovery
      /\ b.state \in {"closed", "open", "half"}
  BY DEF Breakers
<1>2. /\ [b EXCEPT !.state = "closed", !.failures = 0, !.successes = 0].last = b.last
      /\ [b EXCEPT !.state = "closed", !.failures = 0, !.successes = 0].state = "closed"
      /\ \A n : /\ [b EXCEPT !.successes = n].last = b.last
                /\ [b EXCEPT !.successes = n].state = b.state
                /\ [b EXCEPT !.failures = n].last = b.last
                /\ [b EXCEPT !.failures = n].state = b.state
  BY DEF Breakers
<1>3. b.successes + 1 >= Successes \/ b.successes + 1 < Successes
  BY <1>1, Numbers
<1>4. /\ BreakerSuccess(b).last = b.last
      /\ BreakerSuccess(b).state = b.state \/ BreakerSuccess(b).state = "closed"
      /\ BreakerSuccess(b).state = "open" <=> b.state = "open"
  BY <1>1, <1>2, <1>3 DEF BreakerSuccess
<1>5. BreakerFailure(b).last = 0 /\ BreakerFailure(b).state # "half"
  BY <1>1 DEF BreakerFailure, Breakers
<1>6. /\ Executing(b).last = b.last
      /\ Recovered(b) => Executing(b).state = "half"
      /\ ~Recovered(b) => Executing(b) = b
  BY DEF Executing, Breakers
<1>7. QED
  BY <1>4, <1>5, <1>6

-----------------------------------------------------------------------------
(* One attempt at an address is over *)

\* The end of an attempt, whatever the outcome.
Ends(t) ==
    /\ task' \in [Task -> Places] /\ OthersStay(t) /\ Leaves(t)
    /\ running \in {t, None} /\ running' \in {t, None}
    /\ (running' = t) <=> (task'[t].pc = "start")
    /\ UNCHANGED <<channel, targets, up, upFor>>

\* The breaker of email hears of it, or of nothing.
Judges ==
    \/ breaker' = breaker
    \/ channel = "email" /\ breaker' = BreakerSuccess(breaker)
    \/ channel = "email" /\ breaker' = BreakerFailure(breaker) /\ upFor <= Timeout

\* The engine counts a failure only near an outage.
Counts ==
    \/ UNCHANGED <<failures, disabled, okAge>>
    \/ EngineSuccess
    \/ EngineFailure /\ ((channel = "push" => AllLive) => upFor <= Timeout + Recovery)

\* Types and waits survive the end of an attempt.
LEMMA EndsTyped ==
    ASSUME AlertInv, NEW t \in Task, Ends(t), Judges, Counts
    PROVE  TypeOK' /\ Waits' /\ DoomedEnd'
<1> USE DEF AlertInv
<1>1. breaker' \in Breakers
  BY BreakerTypes DEF Judges, TypeOK, Breakers
<1>2. failures' \in 0..MaxFailures /\ disabled' \in 0..(Cooldown + 1) /\ okAge' \in 0..1
  BY EngineTypes DEF Counts, TypeOK
<1>3. running' \in Task \cup {None} /\ None \notin Task
  BY AlertConstants DEF Ends
<1>4. ASSUME NEW u \in Task PROVE (running' = u) = (task'[u].pc \in {"start", "try"})
  <2>1. CASE u = t
    BY <2>1 DEF Ends, Leaves
  <2>2. CASE u # t
    <3>1. running # u /\ running' # u
      BY <1>3, <1>4, <2>2 DEF Ends
    <3>2. QED
      BY <1>4, <2>2, <3>1 DEF Ends, OthersStay, TypeOK
  <2>3. QED
    BY <2>1, <2>2
<1>5. TypeOK'
  BY <1>1, <1>2, <1>3, <1>4 DEF TypeOK, Ends, Breakers, Places
<1>6. Waits'
  BY Numbers DEF Waits, Ends, OthersStay, Leaves
<1>7. DoomedEnd'
  BY DEF DoomedEnd, Ends, OthersStay, Leaves
<1>8. QED
  BY <1>5, <1>6, <1>7

\* No call that was under way since before the breaker opened is left when it
\* is half open.
LEMMA EndsJudged ==
    ASSUME AlertInv, NEW t \in Task, Ends(t), Judges
    PROVE  OpenAdmitsNone' /\ JudgedByProbes' /\ BreakerCounts'
<1> USE DEF AlertInv
<1>1. breaker \in Breakers
  BY DEF TypeOK, Breakers
<1>2. /\ breaker'.state = "half" => breaker.state = "half"
      /\ breaker'.state = "open" =>
            \/ breaker.state = "open" /\ breaker'.last = breaker.last
            \/ breaker'.last = 0 /\ upFor <= Timeout
      /\ channel # "email" => breaker' = breaker
  BY <1>1, BreakerMoves DEF Judges
<1>3. breaker.last \in Nat /\ \A u \in Task : task[u].age \in Nat
  BY DEF TypeOK
<1>4. ASSUME NEW u \in Task, task'[u].pc = "posting"
      PROVE  /\ breaker'.state = "open" => task'[u].age >= breaker'.last
             /\ breaker'.state = "half" => ~task'[u].stale
  <2>1. u # t
    BY <1>4 DEF Ends, Leaves
  <2>2. /\ task[u].pc = "posting" /\ task'[u].age = task[u].age
        /\ task'[u].stale = (task[u].stale \/ breaker'.state # breaker.state)
    BY <1>4, <2>1 DEF Ends, OthersStay
  <2>3. breaker'.state = "half" => ~task'[u].stale
    BY <1>2, <2>2 DEF JudgedByProbes
  <2>4. breaker'.state = "open" => task[u].age >= breaker'.last
    BY <1>2, <1>3, <2>2 DEF OpenAdmitsNone
  <2>5. QED
    BY <2>2, <2>3, <2>4
<1>5. BreakerCounts'
  <2>1. upFor' = upFor /\ upFor \in Nat
    BY DEF Ends, TypeOK
  <2>2. QED
    BY <1>2, <1>3, <2>1, Numbers DEF BreakerCounts
<1>6. QED
  BY <1>2, <1>4, <1>5 DEF OpenAdmitsNone, JudgedByProbes, Ends

\* The engine's cooldown counts from the end of an outage, give or take the
\* time the inner breaker takes.
LEMMA EndsCounted ==
    ASSUME AlertInv, NEW t \in Task, Ends(t), Counts, channel = "push" => AllLive
    PROVE  EngineCounts'
<1> USE DEF AlertInv
<1>1. UNCHANGED <<failures, disabled>> => EngineCounts'
  BY DEF EngineCounts, Skipping, Ends
<1>2. ASSUME EngineSuccess PROVE EngineCounts'
  BY <1>2, Numbers DEF EngineSuccess, EngineCounts, Skipping
<1>3. ASSUME EngineFailure, upFor <= Timeout + Recovery PROVE EngineCounts'
  <2>1. upFor \in Nat /\ failures \in 0..MaxFailures
    BY DEF TypeOK
  <2>2. failures' >= MaxFailures => disabled' = 0
    BY <1>3, <2>1, Numbers DEF EngineFailure, Lesser
  <2>3. QED
    BY <1>3, <2>1, <2>2, Numbers DEF EngineCounts, Skipping, Ends
<1>4. QED
  BY <1>1, <1>2, <1>3 DEF Counts

\* The end of an attempt preserves the invariant.
LEMMA EndsStep ==
    ASSUME AlertInv, NEW t \in Task, Ends(t), Judges, Counts
    PROVE  AlertInv'
<1>1. TypeOK' /\ Waits' /\ DoomedEnd' /\ OpenAdmitsNone' /\ JudgedByProbes' /\ BreakerCounts'
  BY EndsTyped, EndsJudged
<1>2. ((channel = "push" => AllLive)' => EngineCounts')
  BY EndsCounted DEF Ends, AllLive
<1>3. QED
  BY <1>1, <1>2 DEF AlertInv

\* send_all: an address is skipped while the channel is disabled.
LEMMA SkipStep ==
    ASSUME AlertInv, NEW t \in Task, Skip(t)
    PROVE  AlertInv'
<1>1. TypeOK /\ task \in [Task -> Places] /\ task[t].pc = "start"
  BY DEF AlertInv, TypeOK, Places, Skip
<1>2. Ends(t)
  <2>1. /\ NextTarget(t, task) /\ breaker' = breaker
        /\ UNCHANGED <<channel, targets, up, upFor, failures, disabled, okAge>>
    BY DEF Skip
  <2>2. /\ task' \in [Task -> Places] /\ task'[t].pc \in {"idle", "start"}
        /\ \A u \in Task \ {t} : task'[u] = task[u]
        /\ running' \in {t, None} /\ ((running' = t) <=> (task'[t].pc = "start"))
    BY <1>1, <2>1, NextTargetMoves
  <2>3. OthersStay(t)
    BY <1>1, <2>1, <2>2 DEF OthersStay, Places
  <2>4. running \in {t, None}
    BY <1>1 DEF TypeOK
  <2>5. QED
    BY <2>1, <2>2, <2>3, <2>4 DEF Ends, Leaves
<1>3. Judges /\ Counts
  BY DEF Skip, Judges, Counts
<1>4. QED
  BY <1>2, <1>3, EndsStep

\* send_email: the inner breaker turns the message away.
LEMMA RejectStep ==
    ASSUME AlertInv, NEW t \in Task, Reject(t)
    PROVE  AlertInv'
<1>1. TypeOK /\ task \in [Task -> Places] /\ task[t].pc = "try"
  BY DEF AlertInv, TypeOK, Places, Reject
<1>2. Ends(t)
  <2>1. /\ Failed(t, task) /\ breaker' = breaker
        /\ UNCHANGED <<channel, targets, up, upFor>>
    BY DEF Reject
  <2>2. /\ task' \in [Task -> Places] /\ Leaves(t)
        /\ \A u \in Task \ {t} : task'[u] = task[u]
        /\ running' \in {t, None} /\ ((running' = t) <=> (task'[t].pc = "start"))
    BY <1>1, <2>1, FailedMoves
  <2>3. OthersStay(t)
    BY <1>1, <2>1, <2>2 DEF OthersStay, Places
  <2>4. running \in {t, None}
    BY <1>1 DEF TypeOK
  <2>5. QED
    BY <2>1, <2>2, <2>3, <2>4 DEF Ends
<1>3. upFor <= Timeout + Recovery
  <2>1. breaker.state = "open" /\ ~(breaker.last >= Recovery)
    BY DEF Reject, CanExecute, Recovered
  <2>2. breaker.last \in Nat /\ upFor \in Nat
    BY <1>1 DEF TypeOK
  <2>3. QED
    BY <2>1, <2>2, Numbers DEF AlertInv, BreakerCounts
<1>4. Judges /\ Counts
  BY <1>1, <1>3, FailedMoves DEF Reject, Judges, Counts
<1>5. QED
  BY <1>2, <1>4, EndsStep

\* A call of a task that has returned.
LEMMA ReturnedEnds ==
    ASSUME AlertInv, NEW t \in Task, Returned(t), NEW b, breaker' = b,
           NextTarget(t, Outdated(b)) \/ Failed(t, Outdated(b)),
           UNCHANGED <<channel, targets, up, upFor>>
    PROVE  Ends(t)
<1>1. TypeOK /\ running = None /\ Outdated(b) \in [Task -> Places]
  BY OutdatedMarks DEF AlertInv, Returned
<1>2. \A u \in Task :
        /\ Outdated(b)[u].pc = task[u].pc /\ Outdated(b)[u].target = task[u].target
        /\ Outdated(b)[u].age = task[u].age /\ Outdated(b)[u].attempt = task[u].attempt
        /\ Outdated(b)[u].doomed = task[u].doomed
        /\ Outdated(b)[u].stale = (task[u].stale \/ breaker.state # b.state)
  BY <1>1, OutdatedMarks
<1>3. /\ task' \in [Task -> Places]
      /\ \A u \in Task \ {t} : task'[u] = Outdated(b)[u]
      /\ running' \in {t, None}
      /\ (running' = t) <=> (task'[t].pc = "start")
      /\ Leaves(t)
  BY <1>1, <1>2, NextTargetMoves, FailedMoves DEF Leaves
<1>4. OthersStay(t)
  BY <1>2, <1>3 DEF OthersStay
<1>5. QED
  BY <1>1, <1>3, <1>4 DEF Ends

\* A call that the outage hit ends within Timeout of it.
LEMMA HitInTime ==
    ASSUME AlertInv, NEW t \in Task, task[t].pc = "posting", ~up \/ task[t].doomed
    PROVE  upFor <= Timeout
<1>1. task[t].age \in Nat /\ upFor \in Nat
  BY DEF AlertInv, TypeOK
<1>2. QED
  BY <1>1, Numbers DEF AlertInv, DoomedEnd, Waits

\* The provider took the message.
LEMMA DeliveredStep ==
    ASSUME AlertInv, NEW t \in Task, Delivered(t)
    PROVE  AlertInv'
<1>1. Ends(t)
  BY ReturnedEnds DEF Delivered
<1>2. Judges /\ Counts
  BY DEF Delivered, Judges, Counts
<1>3. QED
  BY <1>1, <1>2, EndsStep

\* The provider failed or did not answer.
LEMMA BrokenStep ==
    ASSUME AlertInv, NEW t \in Task, Broken(t)
    PROVE  AlertInv'
<1>1. Ends(t)
  BY ReturnedEnds DEF Broken
<1>2. upFor <= Timeout
  BY HitInTime DEF Broken, Returned
<1>3. Judges
  BY <1>2 DEF Broken, Judges
<1>4. (UNCHANGED <<failures, disabled, okAge>>) \/ EngineFailure
  BY DEF Broken, Failed
<1>5. upFor \in Nat
  BY DEF AlertInv, TypeOK
<1>6. Counts
  BY <1>2, <1>4, <1>5, Numbers DEF Counts
<1>7. QED
  BY <1>1, <1>3, <1>6, EndsStep

\* The provider refused the address or the credentials.
LEMMA RefusedStep ==
    ASSUME AlertInv, NEW t \in Task, Refused(t)
    PROVE  AlertInv'
<1>1. Ends(t)
  BY ReturnedEnds DEF Refused
<1>2. channel # "push" => upFor <= Timeout
  BY HitInTime DEF Refused, Returned
<1>3. Judges
  BY <1>2 DEF Refused, Judges
<1>4. task[t].target \in 1..Len(targets) /\ upFor \in Nat
  BY DEF AlertInv, TypeOK
<1>5. channel = "push" => ~AllLive
  BY <1>4 DEF Refused, AllLive
<1>6. Counts
  BY <1>2, <1>4, <1>5, Numbers DEF Counts, Refused
<1>7. QED
  BY <1>1, <1>3, <1>6, EndsStep

-----------------------------------------------------------------------------
(* The other steps *)

\* A task that only changes its place between two attempts.
LEMMA PlaceStep ==
    ASSUME AlertInv, NEW t \in Task, NEW p \in Places, task' = [task EXCEPT ![t] = p],
           p.pc \in {"start", "try"}, running \in {t, None}, running' = t,
           UNCHANGED <<channel, targets, up, upFor, failures, disabled, breaker, okAge>>
    PROVE  AlertInv'
<1> USE DEF AlertInv
<1>1. task \in [Task -> Places] /\ None \notin Task
  BY AlertConstants DEF TypeOK, Places
<1>2. task'[t] = p /\ \A u \in Task \ {t} : task'[u] = task[u]
  BY <1>1
<1>3. task' \in [Task -> Places]
  BY <1>1
<1>4. ASSUME NEW u \in Task PROVE (running' = u) = (task'[u].pc \in {"start", "try"})
  <2>1. CASE u = t
    BY <1>2, <2>1
  <2>2. CASE u # t
    <3>1. running # u
      BY <1>1, <1>4, <2>2
    <3>2. QED
      BY <1>2, <1>4, <2>2, <3>1 DEF TypeOK
  <2>3. QED
    BY <2>1, <2>2
<1>5. TypeOK'
  BY <1>3, <1>4 DEF TypeOK, Places
<1>6. Waits' /\ DoomedEnd' /\ JudgedByProbes' /\ OpenAdmitsNone' /\ BreakerCounts'
  BY <1>2 DEF Waits, DoomedEnd, JudgedByProbes, OpenAdmitsNone, BreakerCounts
<1>7. AllLive' = AllLive /\ EngineCounts' = EngineCounts
  BY DEF AllLive, EngineCounts, Skipping
<1>8. QED
  BY <1>5, <1>6, <1>7

\* An alert begins, is admitted, or is tried again.
LEMMA MoveStep ==
    ASSUME AlertInv, NEW t \in Task, Alert(t) \/ Admit(t) \/ Retry(t)
    PROVE  AlertInv'
<1>1. TypeOK /\ Waits /\ task \in [Task -> Places]
  BY DEF AlertInv, TypeOK, Places
<1>2. task[t] \in Places
  BY <1>1
<1>3. ASSUME NEW x \in {"start", "try"}
      PROVE  /\ [task[t] EXCEPT !.pc = x] \in Places
             /\ [task[t] EXCEPT !.pc = x].pc = x
  BY <1>2, <1>3 DEF Places
<1>4. ASSUME NEW n \in 0..1
      PROVE  /\ [task[t] EXCEPT !.pc = "try", !.attempt = n] \in Places
             /\ [task[t] EXCEPT !.pc = "try", !.attempt = n].pc = "try"
  BY <1>2, <1>4 DEF Places
<1>5. CASE Alert(t)
  BY <1>1, <1>3, <1>5, PlaceStep DEF Alert
<1>6. CASE Admit(t)
  <2>1. running = t
    BY <1>1, <1>6 DEF Admit, TypeOK
  <2>2. QED
    BY <1>1, <1>3, <1>6, <2>1, PlaceStep DEF Admit
<1>7. CASE Retry(t)
  <2> DEFINE n == task[t].attempt + 1
  <2>1. n \in 0..1
    BY <1>1, <1>7 DEF Retry, Waits
  <2>2. task' = [task EXCEPT ![t] = [task[t] EXCEPT !.pc = "try", !.attempt = n]]
    BY <1>7 DEF Retry
  <2> HIDE DEF n
  <2>3. QED
    BY <1>1, <1>4, <1>7, <2>1, <2>2, PlaceStep DEF Retry
<1>8. QED
  BY <1>5, <1>6, <1>7

\* The call to the provider begins; the first one after the recovery timeout
\* makes the breaker half open, and by then no other is under way.
LEMMA PostStep ==
    ASSUME AlertInv, NEW t \in Task, Post(t)
    PROVE  AlertInv'
<1> USE DEF AlertInv
<1> DEFINE b == IF channel = "email" THEN Executing(breaker) ELSE breaker
           q == [Outdated(b)[t] EXCEPT !.pc = "posting", !.age = 0, !.doomed = ~up, !.stale = FALSE]
<1>1. breaker' = b /\ task' = [Outdated(b) EXCEPT ![t] = q] /\ running' = None
      /\ UNCHANGED <<channel, targets, up, upFor, failures, disabled, okAge>>
      /\ task[t].pc = "try" /\ (channel = "email" => CanExecute(breaker))
  BY DEF Post
<1>2. breaker \in Breakers /\ task \in [Task -> Places] /\ running = t /\ None \notin Task
  BY <1>1, AlertConstants DEF TypeOK, Breakers, Places
<1>3. /\ Outdated(b) \in [Task -> Places]
      /\ \A u \in Task :
           /\ Outdated(b)[u].pc = task[u].pc /\ Outdated(b)[u].target = task[u].target
           /\ Outdated(b)[u].age = task[u].age /\ Outdated(b)[u].attempt = task[u].attempt
           /\ Outdated(b)[u].doomed = task[u].doomed
           /\ Outdated(b)[u].stale = (task[u].stale \/ breaker.state # b.state)
  BY OutdatedMarks
<1>4. /\ b \in Breakers /\ b.last = breaker.last
      /\ b = breaker \/ (channel = "email" /\ Recovered(breaker) /\ b.state = "half")
      /\ b.state # "open"
  BY <1>1, <1>2, BreakerTypes, BreakerMoves DEF CanExecute, OpenAdmitsNone
<1> HIDE DEF b
<1>5. /\ q \in Places /\ q.pc = "posting" /\ q.age = 0 /\ q.attempt = task[t].attempt
      /\ up => ~q.doomed
      /\ q.stale = FALSE
  <2>1. up \in BOOLEAN
    BY DEF TypeOK
  <2>2. Outdated(b)[t] \in Places
    BY <1>3
  <2>3. q \in Places /\ q.pc = "posting" /\ q.age = 0 /\ q.attempt = Outdated(b)[t].attempt
        /\ q.stale = FALSE /\ (up => ~q.doomed)
    BY <2>1, <2>2, Numbers DEF Places
  <2>4. QED
    BY <1>3, <2>3
<1> HIDE DEF q
<1>6. task' \in [Task -> Places] /\ task'[t] = q /\ \A u \in Task \ {t} : task'[u] = Outdated(b)[u]
  BY <1>1, <1>3, <1>5
<1>7. ASSUME NEW u \in Task PROVE (running' = u) = (task'[u].pc \in {"start", "try"})
  <2>1. CASE u = t
    BY <1>1, <1>2, <1>5, <1>6, <2>1
  <2>2. CASE u # t
    BY <1>1, <1>2, <1>3, <1>6, <1>7, <2>2 DEF TypeOK
  <2>3. QED
    BY <2>1, <2>2
<1>8. TypeOK'
  BY <1>1, <1>4, <1>6, <1>7 DEF TypeOK, Breakers, Places
<1>9. Waits'
  BY <1>3, <1>5, <1>6, Numbers DEF Waits
<1>10. DoomedEnd'
  <2>1. ~up => upFor = 0
    BY DEF DoomedEnd
  <2>2. q.doomed => upFor <= q.age
    BY <1>5, <2>1
  <2>3. \A u \in Task \ {t} : task'[u].pc = "posting" /\ task'[u].doomed => upFor <= task'[u].age
    BY <1>3, <1>6 DEF DoomedEnd
  <2>4. QED
    BY <1>1, <1>6, <2>1, <2>2, <2>3 DEF DoomedEnd
<1>11. OpenAdmitsNone' /\ BreakerCounts'
  BY <1>1, <1>4 DEF OpenAdmitsNone, BreakerCounts
<1>12. JudgedByProbes'
  <2> SUFFICES ASSUME b.state = "half", NEW u \in Task, task'[u].pc = "posting", u # t
               PROVE  ~task'[u].stale
    BY <1>1, <1>5, <1>6 DEF JudgedByProbes
  <2>1. task[u].pc = "posting" /\ task'[u].stale = (task[u].stale \/ breaker.state # b.state)
    BY <1>3, <1>6
  <2>2. CASE b = breaker
    BY <2>1, <2>2 DEF JudgedByProbes
  <2>3. CASE Recovered(breaker)
    <3>1. task[u].age >= breaker.last /\ breaker.last >= Recovery /\ task[u].age <= Timeout
      BY <2>1, <2>3 DEF Recovered, OpenAdmitsNone, Waits
    <3>2. task[u].age \in Nat /\ breaker.last \in Nat
      BY DEF TypeOK
    <3>3. Timeout < Recovery
      BY AlertConstants
    <3>4. QED
      BY <3>1, <3>2, <3>3, Numbers
  <2>4. QED
    BY <1>4, <2>2, <2>3
<1>13. AllLive' = AllLive /\ EngineCounts' = EngineCounts
  BY <1>1 DEF AllLive, EngineCounts, Skipping
<1>14. QED
  BY <1>1, <1>8, <1>9, <1>10, <1>11, <1>12, <1>13

\* The provider goes down or comes back.
LEMMA ProviderStep ==
    ASSUME AlertInv, GoDown \/ GoUp
    PROVE  AlertInv'
<1> USE DEF AlertInv
<1>1. CASE GoUp
  <2>1. TypeOK'
    BY <1>1 DEF GoUp, TypeOK
  <2>2. Waits' /\ DoomedEnd' /\ JudgedByProbes' /\ OpenAdmitsNone' /\ BreakerCounts'
    BY <1>1 DEF GoUp, Waits, DoomedEnd, JudgedByProbes, OpenAdmitsNone, BreakerCounts
  <2>3. AllLive' = AllLive /\ EngineCounts' = EngineCounts
    BY <1>1 DEF GoUp, AllLive, EngineCounts, Skipping
  <2>4. QED
    BY <1>1, <2>1, <2>2, <2>3 DEF GoUp
<1>2. CASE GoDown
  <2>1. \A u \in Task : task[u] \in Places
    BY DEF TypeOK, Places
  <2>2. ASSUME NEW u \in Task
        PROVE  /\ task'[u] \in Places /\ task'[u].pc = task[u].pc
               /\ task'[u].age = task[u].age /\ task'[u].attempt = task[u].attempt
               /\ task'[u].stale = task[u].stale
    <3>1. task'[u] = [task[u] EXCEPT !.doomed = @ \/ task[u].pc = "posting"]
      BY <1>2, <2>2 DEF GoDown
    <3>2. QED
      BY <2>1, <2>2, <3>1 DEF Places
  <2>3. task' \in [Task -> Places]
    BY <1>2, <2>2 DEF GoDown
  <2>4. upFor' = 0 /\ up' = FALSE
        /\ UNCHANGED <<channel, targets, failures, disabled, breaker, running, okAge>>
    BY <1>2 DEF GoDown
  <2>5. Aftermath + 1 \in Nat /\ 0 \in 0..(Aftermath + 1)
    BY Numbers DEF Aftermath
  <2>6. TypeOK'
    <3>1. \A u \in Task : (running' = u) = (task'[u].pc \in {"start", "try"})
      BY <2>2, <2>4 DEF TypeOK
    <3>2. up' \in BOOLEAN /\ upFor' \in (0..(Aftermath + 1))' /\ task' \in [Task -> Places]'
      BY <2>3, <2>4, <2>5 DEF Places, Aftermath
    <3>3. QED
      BY <2>4, <3>1, <3>2 DEF TypeOK, Places
  <2>7. Waits' /\ JudgedByProbes' /\ OpenAdmitsNone'
    BY <2>2, <2>4 DEF Waits, JudgedByProbes, OpenAdmitsNone
  <2>8. \A u \in Task : task'[u].age \in Nat
    BY <2>1, <2>2, Numbers DEF Places
  <2>9. DoomedEnd'
    BY <2>4, <2>8 DEF DoomedEnd
  <2>10. breaker.last \in Nat /\ disabled \in Nat
    BY Numbers DEF TypeOK
  <2>11. BreakerCounts' /\ EngineCounts'
    BY <2>4, <2>10, Numbers DEF BreakerCounts, EngineCounts
  <2>12. QED
    BY <2>6, <2>7, <2>9, <2>11
<1>3. QED
  BY <1>1, <1>2

\* Time goes on for every timer at once.
LEMMA ClockStep ==
    ASSUME AlertInv, Tick
    PROVE  AlertInv'
<1> USE DEF AlertInv
<1>1. /\ \A u \in Task : task[u] \in Places /\ task[u].pc \notin {"start", "try"}
      /\ running = None /\ None \notin Task
  BY AlertConstants DEF TypeOK, Places, Tick
<1>2. /\ upFor \in 0..(Aftermath + 1) /\ disabled \in 0..(Cooldown + 1) /\ up \in BOOLEAN
      /\ breaker \in Breakers
      /\ breaker.last \in 0..Recovery
  BY DEF TypeOK, Breakers
<1>3. Aftermath = Timeout + Recovery + Backoff + Cooldown /\ Aftermath \in Nat
  BY Numbers DEF Aftermath
<1>4. ASSUME NEW u \in Task, task[u].pc \in {"posting", "backoff"}
      PROVE  /\ task'[u] = [task[u] EXCEPT !.age = @ + 1]
             /\ task[u].age + 1 \in 0..(Timeout + Backoff)
             /\ task[u].pc = "posting" => task[u].age + 1 <= Timeout
             /\ task[u].pc = "backoff" => task[u].age + 1 <= Backoff
  <2>1. task'[u] = [task[u] EXCEPT !.age = @ + 1]
    BY <1>4 DEF Tick
  <2>2. task[u].age \in Nat
    BY <1>1 DEF Places
  <2>3. /\ task[u].pc = "posting" => task[u].age < Timeout
        /\ task[u].pc = "backoff" => task[u].age < Backoff
    BY DEF Tick
  <2>4. QED
    BY <1>4, <2>1, <2>2, <2>3, Numbers
<1>5. ASSUME NEW u \in Task
      PROVE  /\ task'[u] \in Places /\ task'[u].pc = task[u].pc
             /\ task'[u].attempt = task[u].attempt /\ task'[u].doomed = task[u].doomed
             /\ task'[u].stale = task[u].stale
             /\ task[u].pc \in {"posting", "backoff"} => task'[u].age = task[u].age + 1
  <2>1. CASE task[u].pc \in {"posting", "backoff"}
    <3> DEFINE k == task[u].age + 1
    <3>1. ASSUME NEW n \in 0..(Timeout + Backoff)
          PROVE  LET p == [task[u] EXCEPT !.age = n] IN
                 /\ p \in Places /\ p.pc = task[u].pc /\ p.attempt = task[u].attempt
                 /\ p.doomed = task[u].doomed /\ p.stale = task[u].stale /\ p.age = n
      BY <1>1, <3>1 DEF Places
    <3>2. k \in 0..(Timeout + Backoff) /\ task'[u] = [task[u] EXCEPT !.age = k]
      BY <1>4, <2>1
    <3> HIDE DEF k
    <3>3. /\ task'[u] \in Places /\ task'[u].pc = task[u].pc
          /\ task'[u].attempt = task[u].attempt /\ task'[u].doomed = task[u].doomed
          /\ task'[u].stale = task[u].stale /\ task'[u].age = k
      BY <3>1, <3>2
    <3>4. QED
      BY <3>3 DEF k
  <2>2. CASE task[u].pc = "idle"
    BY <1>1, <2>2 DEF Tick
  <2>3. QED
    BY <1>1, <2>1, <2>2 DEF Places
<1>6. task' \in [Task -> Places]
  BY <1>5 DEF Tick
<1>7. /\ breaker' \in Breakers /\ breaker'.state = breaker.state
      /\ breaker'.last = Lesser(breaker.last + 1, Recovery)
  <2>1. Lesser(breaker.last + 1, Recovery) \in 0..Recovery
    BY <1>2, Numbers DEF Lesser
  <2>2. breaker' = [breaker EXCEPT !.last = Lesser(breaker.last + 1, Recovery)]
    BY DEF Tick
  <2>3. QED
    BY <1>2, <2>1, <2>2 DEF Breakers
<1>8. /\ upFor' \in 0..(Aftermath + 1) /\ upFor' <= upFor + 1
      /\ disabled' \in 0..(Cooldown + 1) /\ disabled' \in {disabled + 1, Cooldown + 1}
      /\ ~up => upFor' = 0
  BY <1>2, <1>3, Numbers DEF Tick, Lesser
<1>9. UNCHANGED <<channel, targets, up, failures, running>> /\ okAge' = 1
  BY DEF Tick
<1>10. TypeOK'
  BY <1>5, <1>6, <1>7, <1>8, <1>9 DEF TypeOK, Places, Breakers
<1>11. Waits' /\ JudgedByProbes'
  BY <1>4, <1>5, <1>7 DEF Waits, JudgedByProbes
<1>12. OpenAdmitsNone'
  <2>1. ASSUME NEW u \in Task, task[u].pc = "posting", task[u].age >= breaker.last
        PROVE  task'[u].age >= breaker'.last
    <3>1. task[u].age \in Nat /\ task'[u].age = task[u].age + 1
      BY <1>1, <1>5, <2>1 DEF Places
    <3>2. QED
      BY <1>2, <1>7, <2>1, <3>1, Numbers DEF Lesser
  <2>2. QED
    BY <1>5, <1>7, <1>9, <2>1 DEF OpenAdmitsNone
<1>13. DoomedEnd'
  <2>1. ASSUME NEW u \in Task, task[u].pc = "posting", upFor <= task[u].age
        PROVE  upFor' <= task'[u].age
    <3>1. task[u].age \in Nat /\ task'[u].age = task[u].age + 1
      BY <1>1, <1>5, <2>1 DEF Places
    <3>2. QED
      BY <1>2, <1>8, <2>1, <3>1
  <2>2. QED
    BY <1>5, <1>8, <1>9, <2>1 DEF DoomedEnd
<1>14. BreakerCounts'
  BY <1>2, <1>7, <1>8, Numbers DEF BreakerCounts, Lesser
<1>15. EngineCounts => EngineCounts'
  <2> SUFFICES ASSUME EngineCounts, failures >= MaxFailures, disabled' <= Cooldown
               PROVE  upFor' <= Timeout + Recovery + disabled'
    BY <1>9 DEF EngineCounts, Skipping
  <2>1. disabled' = disabled + 1 /\ disabled <= Cooldown
    BY <1>2, <1>8, Numbers
  <2>2. upFor <= Timeout + Recovery + disabled
    BY <2>1 DEF EngineCounts, Skipping
  <2>3. upFor' \in Nat /\ upFor \in Nat
    BY <1>2, <1>8
  <2>4. QED
    BY <1>2, <1>8, <2>1, <2>2, <2>3, Numbers
<1>16. AllLive' = AllLive
  BY <1>9 DEF AllLive
<1>17. QED
  BY <1>9, <1>10, <1>11, <1>12, <1>13, <1>14, <1>15, <1>16

-----------------------------------------------------------------------------
(* The theorems *)

\* The invariant of a channel: the two breakers, the calls under way and the
\* time since the last outage fit together.
THEOREM AlertInvHolds == Spec => []AlertInv
<1>1. Init => AlertInv
  <2> SUFFICES ASSUME Init PROVE AlertInv
    OBVIOUS
  <2>1. TargetLists \subseteq Seq(BOOLEAN) \ {<<>>} /\ None \notin Task
    BY AlertConstants
  <2>2. Len(targets) \in Nat \ {0}
    BY <2>1 DEF Init
  <2>3. Idle \in Places
    BY <2>2, Numbers DEF Idle, Places
  <2>4. task \in [Task -> Places] /\ \A t \in Task : task[t].pc = "idle"
    BY <2>3 DEF Init, Idle
  <2>5. breaker \in Breakers /\ breaker.state = "closed"
    BY Numbers DEF Init, Breakers
  <2>6. /\ Aftermath + 1 \in 0..(Aftermath + 1) /\ 0 \in 0..MaxFailures
        /\ Cooldown + 1 \in 0..(Cooldown + 1)
    BY Numbers DEF Aftermath
  <2>7. TypeOK
    BY <2>1, <2>4, <2>5, <2>6 DEF Init, TypeOK, Places, Breakers
  <2>8. Waits /\ OpenAdmitsNone /\ JudgedByProbes /\ DoomedEnd /\ BreakerCounts
    BY <2>4, <2>5 DEF Init, Waits, OpenAdmitsNone, JudgedByProbes, DoomedEnd, BreakerCounts
  <2>9. EngineCounts
    BY Numbers DEF Init, EngineCounts, Skipping
  <2>10. QED
    BY <2>7, <2>8, <2>9 DEF AlertInv
<1>2. AlertInv /\ [Next]_vars => AlertInv'
  <2> SUFFICES ASSUME AlertInv, [Next]_vars PROVE AlertInv'
    OBVIOUS
  <2>1. ASSUME NEW t \in Task, Alert(t) \/ Run(t) PROVE AlertInv'
    BY <2>1, MoveStep, SkipStep, PostStep, RejectStep, DeliveredStep, BrokenStep, RefusedStep
    DEF Run
  <2>2. CASE UNCHANGED vars
    BY <2>2 DEF vars, AlertInv, TypeOK, Waits, OpenAdmitsNone, JudgedByProbes, DoomedEnd,
                BreakerCounts, EngineCounts, Skipping, AllLive
  <2>3. QED
    BY <2>1, <2>2, ProviderStep, ClockStep DEF Next
<1>3. QED
  BY <1>1, <1>2, PTL DEF Spec

\* Every variable of the channel keeps its type, and only the task that runs
\* is between two awaits.
THEOREM AlertsTypeCorrect == Spec => []TypeOK
<1>1. AlertInv => TypeOK
  BY DEF AlertInv
<1>2. QED
  BY <1>1, AlertInvHolds, PTL

\* CircuitBreaker: only calls begun in the half-open state decide it, for any
\* number of calls under way, because a call is given up before the breaker
\* recovers.
THEOREM JudgedByProbesHolds == Spec => []JudgedByProbes
<1>1. AlertInv => JudgedByProbes
  BY DEF AlertInv
<1>2. QED
  BY <1>1, AlertInvHolds, PTL

\* _should_skip_channel: after an outage both breakers let messages through
\* again within Aftermath, on every channel, for push as long as every token
\* is live: refused tokens count against the channel whatever the provider does.
THEOREM BackInTimeHolds == Spec => []((channel = "push" => AllLive) => BackInTime)
<1>1. AlertInv => ((channel = "push" => AllLive) => BackInTime)
  <2> SUFFICES ASSUME AlertInv, channel = "push" => AllLive, upFor > Aftermath
               PROVE  ~Skipping /\ CanExecute(breaker)
    BY DEF BackInTime
  <2>1. /\ upFor \in Nat /\ disabled \in Nat /\ breaker.last \in Nat
        /\ Aftermath = Timeout + Recovery + Backoff + Cooldown
    BY Numbers DEF AlertInv, TypeOK, Aftermath
  <2>2. ~Skipping
    BY <2>1, Numbers DEF AlertInv, EngineCounts, Skipping
  <2>3. CanExecute(breaker)
    BY <2>1, Numbers DEF AlertInv, BreakerCounts, CanExecute, Recovered
  <2>4. QED
    BY <2>2, <2>3
<1>2. QED
  BY <1>1, AlertInvHolds, PTL
=============================================================================
