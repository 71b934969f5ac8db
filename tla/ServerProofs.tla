---------------------------- MODULE ServerProofs -----------------------------
(***************************************************************************)
(* Proofs about smaller parts of the server, each taken by INSTANCE as the   *)
(* modules that check them take them: theft mode (TheftMode), the pool of    *)
(* connections to PostgreSQL (PgPool), the ownership and the shares of       *)
(* devices (DeviceAccess), links, refresh tokens and the second factor       *)
(* (Accounts), feature flags (Flags), the digests of releases (Releases),    *)
(* the schema at start-up (Startup), family circles (Circles), the rate      *)
(* limiters (RateLimits) and the evidence chain (EvidenceChain).             *)
(***************************************************************************)
EXTENDS Integers, Sequences, FiniteSets, TLAPS, FiniteSetTheorems, SequenceTheorems,
        WellFoundedInduction

CONSTANTS
    \* TheftMode
    Handler, Positions, Weight, Threshold, HighBar, CapScore, Capped, Confirm, Policies, MaxCases,
    MaxSame,
    \* EvidenceChain
    Item, Deleter, Payloads, MaxLoad, MaxText,
    \* PgPool
    Thread, MaxPools,
    \* DeviceAccess
    Worker, User, Operator, Device, Phone, Allowances, MaxUnowned, MaxGrants, None,
    \* Accounts
    ResetLink, VerifyLink, Token, MaxSecrets, MaxPeriod, MaxLogins,
    \* Flags
    Flag, Keep, MaxEdits,
    \* Releases
    Query, MaxDeploys,
    \* Startup
    MaxFaults,
    \* Circles
    MaxCodes, MaxChanges,
    \* RateLimits
    Limiter, Most, Window, KeepRows, MemoryMost, MaxTime

VARIABLES
    mode, scores, cases, commands, recent, policy, lastInside, job, streak,     \* TheftMode
    media, listed, case, chain, count, upload, delete, old, purge, rushed, drifted, \* EvidenceChain
    db, open, made, lock, thread, orphans, closing,                             \* PgPool
    account, allowance, row, share, grants, req, best, late,                    \* DeviceAccess
    cred, verified, period, secret, setups, enabled, last, challenge, asked, uses,
    accepted, proved, raced,                                                    \* Accounts
    file, cache, age, quiet, edits,                                             \* Flags
    files, digests, hashing, deploys,                                           \* Releases
    postgres, tables, columns, worker, faults,                                  \* Startup
    circle, owner, code, members, shared, living, holder, admins, changes, posed,
    overtaken,                                                                  \* Circles
    now, rows, checking, bucket, granted, passed, beaten                        \* RateLimits

Theft == INSTANCE TheftMode WITH Pings <- Positions
Media == INSTANCE EvidenceChain WITH files <- media, rows <- listed, raced <- rushed
Pool == INSTANCE PgPool
Access == INSTANCE DeviceAccess
SignIn == INSTANCE Accounts WITH req <- asked
Flagged == INSTANCE Flags
Boot == INSTANCE Startup
Circle == INSTANCE Circles WITH account <- living, req <- posed
Limits == INSTANCE RateLimits WITH Keep <- KeepRows, req <- checking, raced <- beaten
Release == INSTANCE Releases WITH Request <- Query, cache <- digests, job <- hashing

-----------------------------------------------------------------------------
(* Smallest numbers *)

Below == {pair \in Nat \X Nat : pair[1] < pair[2]}

\* A set of numbers that is not empty has a smallest one.
LEMMA Smallest ==
    ASSUME NEW T \in SUBSET Nat, T # {}
    PROVE  \E x \in T : \A y \in T : x <= y
<1>1. IsWellFoundedOn(Below, Nat)
    BY NatLessThanWellFounded DEF OpToRel, Below
<1>2. PICK x \in T : \A y \in T : ~(<<y, x>> \in Below)
    BY <1>1, WFMin, Zenon
<1>3. ASSUME NEW y \in T, y < x PROVE <<y, x>> \in Below
  <2> DEFINE pair == <<y, x>>
  <2>1. pair \in Nat \X Nat /\ pair[1] = y /\ pair[2] = x
    OBVIOUS
  <2> HIDE DEF pair
  <2>2. pair \in Below
    BY <1>3, <2>1 DEF Below
  <2>3. QED
    BY <2>2 DEF pair
<1>4. \A y \in T : ~(y < x)
    BY <1>2, <1>3, Zenon
<1>5. QED
    BY <1>4

\* The parts count and bound sets as this module does.
LEMMA SameSets ==
    /\ \A S : Theft!Cardinality(S) = Cardinality(S)
    /\ \A S : Access!Cardinality(S) = Cardinality(S)
    /\ \A S : Access!IsFiniteSet(S) = IsFiniteSet(S)
    /\ \A S : Media!Cardinality(S) = Cardinality(S)
    /\ \A S : Media!IsFiniteSet(S) = IsFiniteSet(S)
<1>1. ASSUME NEW S PROVE Theft!Cardinality(S) = Cardinality(S)
    BY DEF Theft!Cardinality, Cardinality
<1>2. ASSUME NEW S PROVE Access!Cardinality(S) = Cardinality(S)
    BY DEF Access!Cardinality, Cardinality
<1>3. ASSUME NEW S PROVE Access!IsFiniteSet(S) = IsFiniteSet(S)
    BY DEF Access!IsFiniteSet, IsFiniteSet
<1>4. ASSUME NEW S
      PROVE  Media!Cardinality(S) = Cardinality(S) /\ Media!IsFiniteSet(S) = IsFiniteSet(S)
    BY DEF Media!Cardinality, Cardinality, Media!IsFiniteSet, IsFiniteSet
<1>5. QED
    BY <1>1, <1>2, <1>3, <1>4

-----------------------------------------------------------------------------
(* PgPool: one pool *)

\* Who looks for the second time or connects holds the lock, and until shutdown a
\* pool in hand is an open one; every step keeps that.
LEMMA PoolInvHolds == ASSUME Pool!PoolConstants PROVE Pool!Spec => []Pool!PoolInv
<1> USE DEF Pool!PoolInv, Pool!TypeOK, Pool!OnePool, Pool!PoolConstants, Pool!At, Pool!To,
        Pool!Free, Pool!Shutdown, Pool!Pool, Pool!Idle
<1>1. Pool!Init => Pool!PoolInv
    BY Pool!PoolConstants DEF Pool!Init
<1>2. Pool!PoolInv /\ [Pool!Next]_Pool!vars => Pool!PoolInv'
  <2> SUFFICES ASSUME Pool!PoolInv, [Pool!Next]_Pool!vars PROVE Pool!PoolInv'
    OBVIOUS
  <2>1. ASSUME NEW t \in Thread, Pool!Look(t) PROVE Pool!PoolInv'
    BY <2>1 DEF Pool!Look
  <2>2. ASSUME NEW t \in Thread, Pool!Lock(t) PROVE Pool!PoolInv'
    BY <2>2, Pool!PoolConstants DEF Pool!Lock
  <2>3. ASSUME NEW t \in Thread, Pool!Check(t) PROVE Pool!PoolInv'
    BY <2>3, Pool!PoolConstants DEF Pool!Check, Pool!Missing
  <2>4. ASSUME NEW t \in Thread, Pool!Connect(t) PROVE Pool!PoolInv'
    BY <2>4, Pool!PoolConstants DEF Pool!Connect
  <2>5. ASSUME NEW t \in Thread, Pool!ConnectFails(t) PROVE Pool!PoolInv'
    BY <2>5, Pool!PoolConstants DEF Pool!ConnectFails
  <2>6. ASSUME NEW t \in Thread, Pool!GivesUp(t) PROVE Pool!PoolInv'
    BY <2>6, Pool!PoolConstants DEF Pool!GivesUp
  <2>7. ASSUME NEW t \in Thread, Pool!Return(t) PROVE Pool!PoolInv'
    BY <2>7, Pool!PoolConstants DEF Pool!Return
  <2>8. ASSUME NEW t \in Thread, Pool!Execute(t) PROVE Pool!PoolInv'
    BY <2>8, Pool!PoolConstants DEF Pool!Execute
  <2>9. CASE Pool!LateConnect
    BY <2>9, Pool!PoolConstants DEF Pool!LateConnect
  <2>10. CASE Pool!BeginClose
    BY <2>10, Pool!PoolConstants DEF Pool!BeginClose
  <2>11. CASE Pool!Close
    BY <2>11, Pool!PoolConstants DEF Pool!Close
  <2>12. CASE UNCHANGED Pool!vars
    BY <2>12 DEF Pool!vars
  <2>13. QED
    BY <2>1, <2>2, <2>3, <2>4, <2>5, <2>6, <2>7, <2>8, <2>9, <2>10, <2>11, <2>12
    DEF Pool!Next
<1>3. QED
    BY <1>1, <1>2, PTL DEF Pool!Spec

\* Concurrent first uses connect one pool: besides it only one is open whose
\* connecting outlived the thread that waited, and until shutdown every
\* statement runs on an open pool (_get_pg_db, _ensure_started).
THEOREM OnePoolHolds ==
    ASSUME Pool!PoolConstants PROVE Pool!Spec => [](Pool!TypeOK /\ Pool!OnePool)
<1>1. Pool!PoolInv => Pool!TypeOK /\ Pool!OnePool
    BY DEF Pool!PoolInv
<1>2. QED
    BY <1>1, PoolInvHolds, Pool!PoolConstants, PTL

-----------------------------------------------------------------------------
(* TheftMode: the mode and its case, and one reaction to an exit *)

\* The command goes into a free slot.
LEMMA FirstFree ==
    ASSUME Theft!TheftConstants, NEW kind, NEW origin, Theft!Free(kind, origin) # {}
    PROVE  \E s \in Theft!Free(kind, origin) :
              Theft!Queued(kind, origin) = [commands EXCEPT ![s] = "live"]
<1> DEFINE F == Theft!Free(kind, origin)
           T == {s.n : s \in F}
<1>1. \A s \in F : s.n \in Nat
    BY Theft!TheftConstants DEF Theft!Free, Theft!Slot, Theft!TheftConstants
<1>2. T \in SUBSET Nat /\ T # {}
    BY <1>1
<1>3. PICK n \in T : \A m \in T : n <= m
    BY <1>2, Smallest
<1>4. \E s \in F : \A t \in F : s.n <= t.n
    BY <1>3
<1> HIDE DEF F
<1>5. (CHOOSE s \in F : \A t \in F : s.n <= t.n) \in F
    BY <1>4
<1>6. QED
    BY <1>5 DEF F, Theft!Queued

\* An opened case takes a free place.
LEMMA FreePlace ==
    ASSUME Theft!TheftConstants, NEW by, Theft!Active # 1..MaxCases
    PROVE  \E i \in (1..MaxCases) \ Theft!Active : Theft!Opened(by) = [cases EXCEPT ![i] = by]
<1> DEFINE T == (1..MaxCases) \ Theft!Active
<1>1. T \in SUBSET Nat /\ T # {}
    BY DEF Theft!Active
<1> HIDE DEF T
<1>2. \E x \in T : \A y \in T : x <= y
    BY <1>1, Smallest
<1>3. Theft!Min(T) \in T
    BY <1>2 DEF Theft!Min
<1>4. QED
    BY <1>3 DEF T, Theft!Opened

\* The mode and the theft case change together, in one transaction each.
LEMMA ModeStep ==
    ASSUME Theft!TheftConstants, Theft!TheftInv, [Theft!Next]_Theft!vars
    PROVE  /\ (cases \in [1..MaxCases -> {"none", "theft", "report"}])'
           /\ Theft!CaseMatchesMode'
<1> USE DEF Theft!TheftInv, Theft!CaseMatchesMode
<1>1. ASSUME NEW h \in Handler, Theft!Activate(h)
      PROVE  /\ (cases \in [1..MaxCases -> {"none", "theft", "report"}])'
             /\ Theft!CaseMatchesMode'
  <2>1. PICK i \in (1..MaxCases) \ Theft!Active : cases' = [cases EXCEPT ![i] = "theft"]
    BY <1>1, FreePlace, Theft!TheftConstants DEF Theft!Activate
  <2>2. QED
    BY <1>1, <2>1 DEF Theft!Activate
<1>2. ASSUME NEW h \in Handler, Theft!OpenForReport(h)
      PROVE  /\ (cases \in [1..MaxCases -> {"none", "theft", "report"}])'
             /\ Theft!CaseMatchesMode'
  <2>1. PICK i \in (1..MaxCases) \ Theft!Active : cases' = [cases EXCEPT ![i] = "report"]
    BY <1>2, FreePlace, Theft!TheftConstants DEF Theft!OpenForReport
  <2>2. i \in 1..MaxCases /\ cases[i] = "none" /\ mode' = mode
    BY <1>2, <2>1 DEF Theft!OpenForReport, Theft!Active
  <2>3. QED
    BY <2>1, <2>2
<1>3. ASSUME Theft!Recover
      PROVE  /\ (cases \in [1..MaxCases -> {"none", "theft", "report"}])'
             /\ Theft!CaseMatchesMode'
    BY <1>3 DEF Theft!Recover, Theft!Closing
<1>4. ASSUME UNCHANGED <<mode, cases>>
      PROVE  /\ (cases \in [1..MaxCases -> {"none", "theft", "report"}])'
             /\ Theft!CaseMatchesMode'
    BY <1>4
<1>5. QED
    BY <1>1, <1>2, <1>3, <1>4
    DEF Theft!Next, Theft!vars, Theft!Receive, Theft!Persist, Theft!CheckMode,
        Theft!CheckUnlock, Theft!QueueCapture, Theft!CheckFence, Theft!Cross, Theft!Report,
        Theft!Acknowledge, Theft!ReadHistory, Theft!FiveMinutes, Theft!ThirtyMinutes

\* A command is queued into a slot of its origin; that of a zone only when none
\* of its kind is pending.
LEMMA QueueStep ==
    ASSUME Theft!TheftConstants, Theft!TheftInv, NEW kind, NEW origin,
           Theft!Free(kind, origin) # {}, commands' = Theft!Queued(kind, origin),
           origin = "fence" => ~Theft!Pending(kind)
    PROVE  /\ (commands \in [Theft!Slot -> {"none", "live", "late"}])'
           /\ Theft!OneLive'
<1>1. PICK s \in Theft!Free(kind, origin) : commands' = [commands EXCEPT ![s] = "live"]
    BY FirstFree, Theft!TheftConstants
<1>2. /\ s \in Theft!Slot /\ s.kind = kind /\ s.origin = origin
      /\ commands \in [Theft!Slot -> {"none", "live", "late"}]
    BY DEF Theft!Free, Theft!TheftInv
<1>3. ASSUME NEW t \in Theft!Slot, NEW u \in Theft!Slot, t.kind = u.kind,
             t.origin = "fence", u.origin = "fence", commands'[t] = "live", commands'[u] = "live",
             t # u
      PROVE  FALSE
  <2>1. CASE t = s \/ u = s
    <3>1. origin = "fence" /\ kind = t.kind /\ kind = u.kind
      BY <1>2, <1>3, <2>1
    <3>2. commands[t] = "none" /\ commands[u] = "none"
      BY <1>2, <3>1 DEF Theft!Pending
    <3>3. QED
      BY <1>1, <1>2, <1>3, <3>2
  <2>2. CASE t # s /\ u # s
    BY <1>1, <1>2, <1>3, <2>2 DEF Theft!TheftInv, Theft!OneLive
  <2>3. QED
    BY <2>1, <2>2
<1>4. QED
    BY <1>1, <1>2, <1>3 DEF Theft!OneLive

\* Nothing else makes a command live.
LEMMA CommandsStep ==
    ASSUME Theft!TheftConstants, Theft!TheftInv, [Theft!Next]_Theft!vars
    PROVE  /\ (commands \in [Theft!Slot -> {"none", "live", "late"}])'
           /\ Theft!OneLive'
<1> DEFINE Goal == /\ (commands \in [Theft!Slot -> {"none", "live", "late"}])'
                   /\ Theft!OneLive'
<1>a. ASSUME commands' \in [Theft!Slot -> {"none", "live", "late"}],
             \A s \in Theft!Slot : commands'[s] = "live" => commands[s] = "live"
      PROVE  Goal
    BY <1>a DEF Theft!TheftInv, Theft!OneLive
<1> USE DEF Theft!TheftInv
<1>1. ASSUME NEW h \in Handler, Theft!Activate(h) PROVE Goal
    BY <1>1, QueueStep, Theft!TheftConstants DEF Theft!Activate
<1>2. ASSUME NEW h \in Handler, Theft!QueueCapture(h) PROVE Goal
    BY <1>2, QueueStep, Theft!TheftConstants DEF Theft!QueueCapture
<1>3. ASSUME NEW h \in Handler, Theft!Cross(h) PROVE Goal
  <2>1. CASE UNCHANGED commands
    BY <1>a, <2>1
  <2>2. ASSUME NEW k, ~Theft!Suppressed(k), Theft!Free(k, "fence") # {},
               commands' = Theft!Queued(k, "fence")
        PROVE  Goal
    BY <2>2, QueueStep, Theft!TheftConstants DEF Theft!Suppressed
  <2>3. QED
    BY <1>3, <2>1, <2>2 DEF Theft!Cross
<1>4. ASSUME NEW s \in Theft!Slot, Theft!Acknowledge(s) PROVE Goal
    BY <1>4, <1>a DEF Theft!Acknowledge
<1>5. ASSUME Theft!ReadHistory PROVE Goal
    BY <1>5, <1>a DEF Theft!ReadHistory
<1>6. ASSUME Theft!FiveMinutes PROVE Goal
    BY <1>6, <1>a DEF Theft!FiveMinutes
<1>7. ASSUME Theft!ThirtyMinutes PROVE Goal
    BY <1>7, <1>a DEF Theft!ThirtyMinutes
<1>8. ASSUME UNCHANGED commands PROVE Goal
    BY <1>8, <1>a
<1>9. ASSUME NEW h \in Handler,
             \/ \E p \in Positions : Theft!Receive(h, p)
             \/ Theft!Persist(h) \/ Theft!CheckMode(h) \/ Theft!CheckUnlock(h)
             \/ Theft!CheckFence(h) \/ Theft!Report(h) \/ Theft!OpenForReport(h)
      PROVE  UNCHANGED commands
    BY <1>9 DEF Theft!Receive, Theft!Persist, Theft!CheckMode, Theft!CheckUnlock,
       Theft!CheckFence, Theft!Report, Theft!OpenForReport
<1>10. ASSUME Theft!Recover \/ UNCHANGED Theft!vars PROVE UNCHANGED commands
    BY <1>10 DEF Theft!Recover, Theft!vars
<1> HIDE DEF Goal
<1>11. Goal
    BY <1>1, <1>2, <1>3, <1>4, <1>5, <1>6, <1>7, <1>8, <1>9, <1>10 DEF Theft!Next
<1>12. QED
    BY <1>11 DEF Goal

\* The mode, the case and the queue keep the invariant, whatever the pings and
\* the weights.
LEMMA TheftInvHolds == ASSUME Theft!TheftConstants PROVE Theft!Spec => []Theft!TheftInv
<1>1. Theft!Init => Theft!TheftInv
    BY DEF Theft!Init, Theft!TheftInv, Theft!CaseMatchesMode, Theft!OneLive
<1>2. Theft!TheftInv /\ [Theft!Next]_Theft!vars => Theft!TheftInv'
    BY ModeStep, CommandsStep, Theft!TheftConstants DEF Theft!TheftInv
<1>3. QED
    BY <1>1, <1>2, PTL DEF Theft!Spec

\* The device is stolen exactly while a case opened by an activation is active,
\* however activations, reports and recoveries interleave
\* (auto_activate_theft_mode, mark_device_recovered).
THEOREM CaseMatchesModeHolds ==
    ASSUME Theft!TheftConstants PROVE Theft!Spec => []Theft!CaseMatchesMode
<1>1. Theft!TheftInv => Theft!CaseMatchesMode
    BY DEF Theft!TheftInv
<1>2. QED
    BY <1>1, TheftInvHolds, Theft!TheftConstants, PTL

\* Leaving a zone piles up no second siren or capture beside one the phone can
\* still fetch (_queue_auto_action).
THEOREM OnePerExitHolds == ASSUME Theft!TheftConstants PROVE Theft!Spec => []Theft!OnePerExit
<1>1. Theft!TheftInv => Theft!OnePerExit
  <2> SUFFICES ASSUME Theft!TheftInv PROVE Theft!OnePerExit
    OBVIOUS
  <2>1. ASSUME NEW kind \in Theft!Kinds,
               NEW S, S = {s \in Theft!Slot : s.kind = kind /\ s.origin = "fence"
                                              /\ commands[s] = "live"}
        PROVE  Theft!Cardinality(S) <= 1
    <3>1. CASE S = {}
      BY <3>1, FS_EmptySet, SameSets
    <3>2. ASSUME NEW s \in S PROVE Cardinality(S) = 1
      <4>1. S = {s}
        BY <2>1 DEF Theft!TheftInv, Theft!OneLive
      <4>2. QED
        BY <4>1, FS_Singleton
    <3>3. QED
      BY <3>1, <3>2, SameSets
  <2>2. QED
    BY <2>1 DEF Theft!OnePerExit
<1>2. QED
    BY <1>1, TheftInvHolds, Theft!TheftConstants, PTL

-----------------------------------------------------------------------------
(* TheftMode: what the gate lets through *)

\* The score of a ping is a number within the cap, and elevated with its raw score.
LEMMA ScoreOf ==
    ASSUME Theft!TheftConstants, Theft!GateConstants, NEW p \in Positions, NEW history
    PROVE  /\ Theft!RawScore(p, history) \in 0..CapScore
           /\ \A raw \in 0..CapScore :
                 /\ Theft!Score(raw, history) \in 0..CapScore
                 /\ Theft!Judged(raw, Theft!Score(raw, history))
<1> USE Theft!TheftConstants, Theft!GateConstants DEF Theft!TheftConstants, Theft!GateConstants
<1>1. ASSUME NEW n \in Nat PROVE Theft!Ceiling(n) \in 0..CapScore
    BY <1>1 DEF Theft!Ceiling, Theft!Lesser
<1>2. Theft!RawScore(p, history) \in 0..CapScore
  <2> DEFINE raised == p.signals \ (IF history = <<>> THEN {"jump"} ELSE {})
             sum == Theft!WeightOf(raised)
             extra == IF p.night /\ (p.moving \/ sum > 0) THEN Weight["unusual_time"] ELSE 0
  <2>1. raised \in SUBSET DOMAIN Weight
    OBVIOUS
  <2>2. sum \in Nat
    BY <2>1
  <2>3. extra \in Nat
    OBVIOUS
  <2>4. sum + extra \in Nat
    BY <2>2, <2>3
  <2>5. Theft!RawScore(p, history) = Theft!Ceiling(sum + extra)
    BY DEF Theft!RawScore
  <2> HIDE DEF sum, extra
  <2>6. QED
    BY <1>1, <2>4, <2>5
<1>3. ASSUME NEW raw \in 0..CapScore
      PROVE  /\ Theft!Score(raw, history) \in 0..CapScore
             /\ Theft!Judged(raw, Theft!Score(raw, history))
    BY DEF Theft!Score, Theft!Lesser, Theft!Judged
<1>4. QED
    BY <1>2, <1>3

\* The new score comes first, and what is no longer among the last ones is dropped.
LEMMA NewestIs ==
    ASSUME Theft!GateConstants, NEW T, NEW x \in T, NEW s \in Seq(T), Len(s) <= Confirm
    PROVE  /\ Theft!Newest(x, s) \in Seq(T)
           /\ Len(Theft!Newest(x, s)) = Theft!Lesser(Len(s) + 1, Confirm)
           /\ \A i \in 1..Len(Theft!Newest(x, s)) :
                 Theft!Newest(x, s)[i] = IF i = 1 THEN x ELSE s[i - 1]
<1> DEFINE n == Theft!Lesser(Len(s) + 1, Confirm)
           t == <<x>> \o s
<1>1. n \in Nat /\ n >= 1 /\ n <= Len(s) + 1 /\ Len(s) \in Nat
    BY DEF Theft!GateConstants, Theft!Lesser
<1>2. /\ t \in Seq(T) /\ Len(t) = Len(s) + 1
      /\ \A i \in 1..(Len(s) + 1) : t[i] = IF i = 1 THEN x ELSE s[i - 1]
    OBVIOUS
<1> HIDE DEF n, t
<1>3. /\ SubSeq(t, 1, n) \in Seq(T) /\ Len(SubSeq(t, 1, n)) = n
      /\ \A i \in 1..n : SubSeq(t, 1, n)[i] = t[i]
    BY <1>1, <1>2, SubSeqProperties
<1>4. Theft!Newest(x, s) = SubSeq(t, 1, n)
    BY DEF Theft!Newest, n, t
<1>5. QED
    BY <1>1, <1>2, <1>3, <1>4 DEF n

\* A ping that is stored goes on with the streak or begins another one.
LEMMA StreakStep ==
    ASSUME Theft!TheftConstants, Theft!GateConstants, Theft!ScoreInv,
           NEW h \in Handler, Theft!Persist(h)
    PROVE  /\ scores' \in Seq(0..CapScore) /\ Len(scores') <= Confirm
           /\ streak' \in [level: {"calm", "high", "critical"}, n: 0..(Confirm - 1)]
           /\ Theft!StreakStored'
<1>0. /\ HighBar \in Nat /\ Threshold \in Nat /\ HighBar < Threshold /\ CapScore \in Nat
      /\ Confirm \in Nat /\ Confirm >= 3
    BY Theft!TheftConstants, Theft!GateConstants DEF Theft!TheftConstants, Theft!GateConstants
<1>1. PICK raw \in 0..CapScore, score \in 0..CapScore :
        /\ job[h].raw = raw /\ job[h].score = score /\ Theft!Judged(raw, score)
    BY DEF Theft!ScoreInv, Theft!TypeOK, Theft!Persist, Theft!Jobs
<1>2. PICK level \in {"calm", "high", "critical"}, n \in 0..(Confirm - 1) :
        streak = [level |-> level, n |-> n]
    BY DEF Theft!ScoreInv, Theft!TypeOK
<1>3. /\ scores \in Seq(0..CapScore) /\ Len(scores) <= Confirm /\ Len(scores) \in Nat
      /\ n <= Len(scores) /\ \A i \in 1..n : scores[i] < HighBar <=> level = "calm"
    BY <1>2 DEF Theft!ScoreInv, Theft!TypeOK, Theft!StreakStored
<1>4. PICK new \in {"calm", "high", "critical"} :
        new = Theft!Level(raw) /\ (score < HighBar <=> new = "calm")
    BY <1>0, <1>1 DEF Theft!Level, Theft!Judged
<1>5. PICK m \in 1..(Confirm - 1) :
        /\ m = IF new = level THEN Theft!Lesser(n + 1, Confirm - 1) ELSE 1
        /\ m <= n + 1 /\ (new # level => m = 1)
    BY <1>0, <1>2 DEF Theft!Lesser
<1>6. streak' = [level |-> new, n |-> m]
    BY <1>1, <1>2, <1>4, <1>5 DEF Theft!Persist
<1> DEFINE T == 0..CapScore
           q == Theft!Newest(score, scores)
<1>7. scores' = q
    BY <1>1 DEF Theft!Persist
<1>8. /\ q \in Seq(T) /\ Len(q) = Theft!Lesser(Len(scores) + 1, Confirm)
      /\ \A i \in 1..Len(q) : q[i] = IF i = 1 THEN score ELSE scores[i - 1]
  <2>1. scores \in Seq(T) /\ score \in T /\ Len(scores) <= Confirm
    BY <1>3
  <2> HIDE DEF T
  <2>2. QED
    BY <2>1, NewestIs, Theft!GateConstants
<1> HIDE DEF q
<1>9. Len(q) \in Nat /\ Len(q) <= Confirm /\ m <= Len(q)
  <2>1. Len(q) = IF Len(scores) + 1 < Confirm THEN Len(scores) + 1 ELSE Confirm
    BY <1>8 DEF Theft!Lesser
  <2>2. m <= n + 1 /\ m \in Nat /\ m < Confirm
    BY <1>0, <1>5
  <2>3. n <= Len(scores) /\ Len(scores) \in Nat /\ n \in Nat
    BY <1>0, <1>3
  <2>4. QED
    BY <1>0, <2>1, <2>2, <2>3
<1>10. ASSUME NEW i \in 1..m PROVE q[i] < HighBar <=> new = "calm"
  <2>1. CASE i = 1
    BY <1>4, <1>8, <1>9, <2>1
  <2>2. CASE i # 1
    <3>1. i - 1 \in 1..n /\ new = level /\ i \in 1..Len(q)
      BY <1>5, <1>9, <2>2
    <3>2. QED
      BY <1>3, <1>8, <2>2, <3>1
  <2>3. QED
    BY <2>1, <2>2
<1>11. QED
    BY <1>6, <1>7, <1>8, <1>9, <1>10 DEF Theft!StreakStored

\* What else the steps write has its type.
LEMMA RestStep ==
    ASSUME Theft!TheftConstants, Theft!TypeOK, [Theft!Next]_Theft!vars
    PROVE  /\ mode' \in {"normal", "stolen"}
           /\ cases' \in [1..MaxCases -> {"none", "theft", "report"}]
           /\ commands' \in [Theft!Slot -> {"none", "live", "late"}]
           /\ recent' \in BOOLEAN /\ lastInside' \in BOOLEAN /\ policy' \in Policies
<1> USE DEF Theft!TypeOK
<1> DEFINE Others == /\ mode' \in {"normal", "stolen"}
                   /\ cases' \in [1..MaxCases -> {"none", "theft", "report"}]
                   /\ commands' \in [Theft!Slot -> {"none", "live", "late"}]
                   /\ recent' \in BOOLEAN /\ lastInside' \in BOOLEAN /\ policy' \in Policies
<1>1. ASSUME NEW kind, NEW origin, Theft!Free(kind, origin) # {},
             commands' = Theft!Queued(kind, origin)
      PROVE  commands' \in [Theft!Slot -> {"none", "live", "late"}]
  <2>1. PICK s \in Theft!Free(kind, origin) : commands' = [commands EXCEPT ![s] = "live"]
    BY <1>1, FirstFree, Theft!TheftConstants
  <2>2. QED
    BY <2>1
<1>2. ASSUME NEW by \in {"theft", "report"}, Theft!Active # 1..MaxCases, cases' = Theft!Opened(by)
      PROVE  cases' \in [1..MaxCases -> {"none", "theft", "report"}]
  <2>1. PICK i \in (1..MaxCases) \ Theft!Active : cases' = [cases EXCEPT ![i] = by]
    BY <1>2, FreePlace, Theft!TheftConstants
  <2>2. QED
    BY <2>1
<1>3. ASSUME NEW h \in Handler, Theft!Activate(h) PROVE Others
    BY <1>1, <1>2, <1>3 DEF Theft!Activate
<1>4. ASSUME NEW h \in Handler, Theft!QueueCapture(h) PROVE Others
    BY <1>1, <1>4 DEF Theft!QueueCapture
<1>5. ASSUME NEW h \in Handler, Theft!Cross(h) PROVE Others
  <2>1. /\ lastInside' \in BOOLEAN /\ mode' = mode /\ cases' = cases /\ policy' = policy
    BY <1>5 DEF Theft!Cross
  <2>2. CASE UNCHANGED <<commands, recent>>
    BY <2>1, <2>2
  <2>3. ASSUME NEW k \in Theft!Kinds, Theft!Free(k, "fence") # {},
               commands' = Theft!Queued(k, "fence"), recent' = (recent \/ k = "capture")
        PROVE  Others
    <3>1. commands' \in [Theft!Slot -> {"none", "live", "late"}]
      BY <1>1, <2>3
    <3>2. recent' \in BOOLEAN
      BY <2>3, Zenon
    <3>3. QED
      BY <2>1, <3>1, <3>2
  <2>4. QED
    BY <1>5, <2>2, <2>3 DEF Theft!Cross
<1>6. ASSUME NEW h \in Handler, Theft!OpenForReport(h) PROVE Others
    BY <1>2, <1>6 DEF Theft!OpenForReport
<1>7. ASSUME Theft!Recover PROVE Others
    BY <1>7 DEF Theft!Recover, Theft!Closing
<1>8. ASSUME NEW s \in Theft!Slot, Theft!Acknowledge(s) PROVE Others
    BY <1>8 DEF Theft!Acknowledge
<1>9. ASSUME Theft!ReadHistory PROVE Others
    BY <1>9 DEF Theft!ReadHistory
<1>10. ASSUME Theft!FiveMinutes PROVE Others
    BY <1>10 DEF Theft!FiveMinutes
<1>11. ASSUME Theft!ThirtyMinutes PROVE Others
    BY <1>11 DEF Theft!ThirtyMinutes
<1>12. ASSUME UNCHANGED <<mode, cases, commands, recent, lastInside, policy>> PROVE Others
    BY <1>12
<1>13. ASSUME NEW h \in Handler,
              \/ \E p \in Positions : Theft!Receive(h, p)
              \/ Theft!Persist(h) \/ Theft!CheckMode(h) \/ Theft!CheckUnlock(h)
              \/ Theft!CheckFence(h) \/ Theft!Report(h)
       PROVE  UNCHANGED <<mode, cases, commands, recent, lastInside, policy>>
    BY <1>13 DEF Theft!Receive, Theft!Persist, Theft!CheckMode, Theft!CheckUnlock,
       Theft!CheckFence, Theft!Report
<1>14. UNCHANGED Theft!vars => UNCHANGED <<mode, cases, commands, recent, lastInside, policy>>
    BY DEF Theft!vars
<1> HIDE DEF Others
<1>15. Others
    BY <1>3, <1>4, <1>5, <1>6, <1>7, <1>8, <1>9, <1>10, <1>11, <1>12, <1>13, <1>14
    DEF Theft!Next
<1>16. QED
    BY <1>15 DEF Others

\* A handler that goes on has a job of its type, and one about to store a judged score.
LEMMA JobStep ==
    ASSUME Theft!ScoreInv, NEW h \in Handler, NEW j \in Theft!Jobs,
           job' = [job EXCEPT ![h] = j],
           j.pc = "persist" => Theft!Judged(j.raw, j.score)
    PROVE  /\ job' \in [Handler -> Theft!Jobs]
           /\ \A g \in Handler : job'[g].pc = "persist" => Theft!Judged(job'[g].raw, job'[g].score)
    BY DEF Theft!ScoreInv, Theft!TypeOK

\* The gate's invariant.
LEMMA ScoreStep ==
    ASSUME Theft!TheftConstants, Theft!GateConstants, Theft!ScoreInv, [Theft!Next]_Theft!vars
    PROVE  Theft!ScoreInv'
<1> DEFINE Stored == /\ scores' \in Seq(0..CapScore) /\ Len(scores') <= Confirm
                     /\ streak' \in [level: {"calm", "high", "critical"}, n: 0..(Confirm - 1)]
                     /\ Theft!StreakStored'
           Goes == /\ job' \in [Handler -> Theft!Jobs]
                   /\ \A g \in Handler :
                        job'[g].pc = "persist" => Theft!Judged(job'[g].raw, job'[g].score)
<1>a. ASSUME UNCHANGED <<scores, streak>> PROVE Stored
    BY <1>a DEF Theft!ScoreInv, Theft!TypeOK, Theft!StreakStored
<1>b. ASSUME UNCHANGED job PROVE Goes
    BY <1>b DEF Theft!ScoreInv, Theft!TypeOK
<1>c. ASSUME NEW h \in Handler, NEW j \in Theft!Jobs, job' = [job EXCEPT ![h] = j],
             j.pc = "persist" => Theft!Judged(j.raw, j.score)
      PROVE  Goes
    BY <1>c, JobStep
<1>d. ASSUME NEW h \in Handler, NEW step \in Theft!Steps \ {"persist"},
             job' = [job EXCEPT ![h].pc = step]
      PROVE  Goes
  <2>1. ASSUME NEW r \in Theft!Jobs
        PROVE  [r EXCEPT !.pc = step] \in Theft!Jobs /\ [r EXCEPT !.pc = step].pc = step
    BY DEF Theft!Jobs
  <2>2. job[h] \in Theft!Jobs
    BY DEF Theft!ScoreInv, Theft!TypeOK
  <2>3. job' = [job EXCEPT ![h] = [job[h] EXCEPT !.pc = step]]
    BY <1>d
  <2>4. QED
    BY <1>c, <2>1, <2>2, <2>3
<1>z. 0 \in 0..CapScore
    BY Theft!TheftConstants DEF Theft!TheftConstants
<1>e. Theft!Idle \in Theft!Jobs /\ Theft!Idle.pc = "idle"
    BY <1>z DEF Theft!Idle, Theft!Jobs, Theft!Steps
<1> HIDE DEF Stored, Goes
<1>1. ASSUME NEW h \in Handler, NEW p \in Positions, Theft!Receive(h, p) PROVE Stored /\ Goes
  <2> DEFINE raw == Theft!RawScore(p, scores)
             score == Theft!Score(raw, scores)
             j == [Theft!Idle EXCEPT !.pc = "persist", !.raw = raw, !.score = score,
                      !.unlocks = "failed_unlocks" \in p.signals, !.inside = p.inside]
  <2>1. raw \in 0..CapScore /\ score \in 0..CapScore /\ Theft!Judged(raw, score)
    BY ScoreOf, Theft!TheftConstants, Theft!GateConstants
  <2>2. UNCHANGED <<scores, streak>> /\ job' = [job EXCEPT ![h] = j]
    BY <1>1 DEF Theft!Receive
  <2> HIDE DEF raw, score
  <2>3. p.inside \in BOOLEAN /\ ("failed_unlocks" \in p.signals) \in BOOLEAN
    BY Theft!TheftConstants DEF Theft!TheftConstants
  <2>4. j.raw = raw /\ j.score = score
    BY DEF Theft!Idle
  <2>5. j \in Theft!Jobs
    BY <1>z, <2>1, <2>3 DEF Theft!Idle, Theft!Jobs, Theft!Steps
  <2> HIDE DEF j
  <2>6. QED
    BY <1>a, <1>c, <2>1, <2>2, <2>4, <2>5
<1>2. ASSUME NEW h \in Handler, Theft!Persist(h) PROVE Stored /\ Goes
  <2>1. Stored
    BY <1>2, StreakStep, Theft!TheftConstants, Theft!GateConstants DEF Stored
  <2>2. PICK step \in {"check", "unlock"} :
          job' = [job EXCEPT ![h] = [@ EXCEPT !.pc = step, !.score = 0, !.raw = 0]]
    BY <1>2 DEF Theft!Persist
  <2>3. ASSUME NEW r \in Theft!Jobs
        PROVE  /\ [r EXCEPT !.pc = step, !.score = 0, !.raw = 0] \in Theft!Jobs
               /\ [r EXCEPT !.pc = step, !.score = 0, !.raw = 0].pc = step
    BY <1>z DEF Theft!Jobs, Theft!Steps
  <2>4. job[h] \in Theft!Jobs
    BY DEF Theft!ScoreInv, Theft!TypeOK
  <2>5. Goes
    BY <1>c, <2>2, <2>3, <2>4
  <2>6. QED
    BY <2>1, <2>5
<1>3. ASSUME NEW h \in Handler, Theft!CheckMode(h) PROVE Stored /\ Goes
  <2>1. PICK step \in {"unlock", "activate"} : job' = [job EXCEPT ![h].pc = step]
    BY <1>3 DEF Theft!CheckMode
  <2>2. UNCHANGED <<scores, streak>> /\ step \in Theft!Steps \ {"persist"}
    BY <1>3 DEF Theft!CheckMode, Theft!Steps
  <2>3. QED
    BY <1>a, <1>d, <2>1, <2>2
<1>4. ASSUME NEW h \in Handler, Theft!Activate(h) PROVE Stored /\ Goes
    BY <1>4, <1>a, <1>d DEF Theft!Activate, Theft!Steps
<1>5. ASSUME NEW h \in Handler, Theft!CheckUnlock(h) PROVE Stored /\ Goes
  <2>1. PICK step \in {"queue", "fence"} :
          job' = [job EXCEPT ![h] = [@ EXCEPT !.pc = step, !.unlocks = FALSE]]
    BY <1>5 DEF Theft!CheckUnlock
  <2>2. ASSUME NEW r \in Theft!Jobs
        PROVE  /\ [r EXCEPT !.pc = step, !.unlocks = FALSE] \in Theft!Jobs
               /\ [r EXCEPT !.pc = step, !.unlocks = FALSE].pc = step
    BY DEF Theft!Jobs, Theft!Steps
  <2>3. job[h] \in Theft!Jobs
    BY DEF Theft!ScoreInv, Theft!TypeOK
  <2>4. Goes
    BY <1>c, <2>1, <2>2, <2>3
  <2>5. QED
    BY <1>5, <1>a, <2>4 DEF Theft!CheckUnlock
<1>6. ASSUME NEW h \in Handler, Theft!QueueCapture(h) PROVE Stored /\ Goes
    BY <1>6, <1>a, <1>d DEF Theft!QueueCapture, Theft!Steps
<1>7. ASSUME NEW h \in Handler, Theft!CheckFence(h) PROVE Stored /\ Goes
  <2>1. PICK crossed \in {"entered", "exited"} :
          \/ job' = [job EXCEPT ![h] = Theft!Idle]
          \/ job' = [job EXCEPT ![h] = [Theft!Idle EXCEPT !.pc = "cross", !.crossed = crossed]]
    BY <1>7 DEF Theft!CheckFence
  <2>2. /\ [Theft!Idle EXCEPT !.pc = "cross", !.crossed = crossed] \in Theft!Jobs
        /\ [Theft!Idle EXCEPT !.pc = "cross", !.crossed = crossed].pc = "cross"
    BY <1>z DEF Theft!Idle, Theft!Jobs, Theft!Steps
  <2>3. Goes
    BY <1>c, <1>e, <2>1, <2>2
  <2>4. QED
    BY <1>7, <1>a, <2>3 DEF Theft!CheckFence
<1>8. ASSUME NEW h \in Handler, Theft!Cross(h) PROVE Stored /\ Goes
    BY <1>8, <1>a, <1>c, <1>e DEF Theft!Cross
<1>9. ASSUME NEW h \in Handler, Theft!Report(h) PROVE Stored /\ Goes
    BY <1>9, <1>a, <1>d DEF Theft!Report, Theft!Steps
<1>10. ASSUME NEW h \in Handler, Theft!OpenForReport(h) PROVE Stored /\ Goes
    BY <1>10, <1>a, <1>c, <1>e DEF Theft!OpenForReport
<1>11. ASSUME \/ Theft!Recover \/ Theft!ReadHistory \/ Theft!FiveMinutes \/ Theft!ThirtyMinutes
              \/ \E s \in Theft!Slot : Theft!Acknowledge(s)
              \/ UNCHANGED Theft!vars
       PROVE  UNCHANGED <<scores, streak, job>>
    BY <1>11 DEF Theft!Recover, Theft!ReadHistory, Theft!FiveMinutes, Theft!ThirtyMinutes,
       Theft!Acknowledge, Theft!vars
<1>12. UNCHANGED <<scores, streak, job>> => Stored /\ Goes
    BY <1>a, <1>b
<1>13. Stored /\ Goes
    BY <1>1, <1>2, <1>3, <1>4, <1>5, <1>6, <1>7, <1>8, <1>9, <1>10, <1>11, <1>12
    DEF Theft!Next
<1>14. QED
    BY <1>13, RestStep, Theft!TheftConstants DEF Stored, Goes, Theft!ScoreInv, Theft!TypeOK

\* Every state of the gate is well typed, and the streak is that of the stored scores.
LEMMA ScoreInvHolds ==
    ASSUME Theft!TheftConstants, Theft!GateConstants PROVE Theft!Spec => []Theft!ScoreInv
<1>1. Theft!Init => Theft!ScoreInv
  <2> SUFFICES ASSUME Theft!Init PROVE Theft!ScoreInv
    OBVIOUS
  <2> USE Theft!TheftConstants, Theft!GateConstants
      DEF Theft!Init, Theft!TheftConstants, Theft!GateConstants
  <2>1. Theft!Idle \in Theft!Jobs /\ Theft!Idle.pc = "idle"
    BY DEF Theft!Idle, Theft!Jobs, Theft!Steps
  <2>2. scores \in Seq(0..CapScore) /\ Len(scores) = 0
    OBVIOUS
  <2>3. /\ Len(scores) <= Confirm /\ 0 \in 0..(Confirm - 1)
        /\ job \in [Handler -> Theft!Jobs]
    BY <2>1, <2>2
  <2>4. Theft!TypeOK
    BY <2>2, <2>3 DEF Theft!TypeOK
  <2>5. QED
    BY <2>1, <2>2, <2>4 DEF Theft!ScoreInv, Theft!StreakStored
<1>2. Theft!ScoreInv /\ [Theft!Next]_Theft!vars => Theft!ScoreInv'
    BY ScoreStep, Theft!TheftConstants, Theft!GateConstants
<1>3. QED
    BY <1>1, <1>2, PTL DEF Theft!Spec

\* A handler that has judged a ping did so by the gate, from the stored scores.
LEMMA JudgedHere ==
    ASSUME Theft!TheftConstants, Theft!GateConstants, Theft!ScoreInv, Theft!Next,
           NEW h \in Handler, job[h].pc = "idle", job'[h].pc = "persist"
    PROVE  \E raw \in 0..CapScore :
               job'[h].raw = raw /\ job'[h].score = Theft!Score(raw, scores)
<1> USE DEF Theft!ScoreInv, Theft!TypeOK
<1>1. ASSUME NEW p \in Positions, Theft!Receive(h, p)
      PROVE  \E raw \in 0..CapScore :
                 job'[h].raw = raw /\ job'[h].score = Theft!Score(raw, scores)
  <2> DEFINE raw == Theft!RawScore(p, scores)
             score == Theft!Score(raw, scores)
  <2>1. raw \in 0..CapScore
    BY ScoreOf, Theft!TheftConstants, Theft!GateConstants
  <2>2. job'[h] = [Theft!Idle EXCEPT !.pc = "persist", !.raw = raw, !.score = score,
                      !.unlocks = "failed_unlocks" \in p.signals, !.inside = p.inside]
    BY <1>1 DEF Theft!Receive
  <2> HIDE DEF raw, score
  <2>3. job'[h].raw = raw /\ job'[h].score = score
    BY <2>2 DEF Theft!Idle
  <2>4. QED
    BY <2>1, <2>3 DEF score
<1>2. ASSUME NEW g \in Handler, job[g].pc # "idle", \A f \in Handler \ {g} : job'[f] = job[f]
      PROVE  FALSE
    BY <1>2
<1>3. ASSUME NEW g \in Handler, NEW p \in Positions, Theft!Receive(g, p) PROVE g = h
    BY <1>3 DEF Theft!Receive
<1>4. ASSUME NEW g \in Handler, Theft!Report(g) PROVE FALSE
  <2>1. ASSUME NEW r \in Theft!Jobs PROVE [r EXCEPT !.pc = "report"].pc = "report"
    BY DEF Theft!Jobs
  <2>2. job'[g] = [job[g] EXCEPT !.pc = "report"] /\ \A f \in Handler \ {g} : job'[f] = job[f]
    BY <1>4 DEF Theft!Report
  <2>3. QED
    BY <2>1, <2>2
<1>5. ASSUME NEW g \in Handler,
             \/ Theft!Persist(g) \/ Theft!CheckMode(g) \/ Theft!Activate(g)
             \/ Theft!CheckUnlock(g) \/ Theft!QueueCapture(g) \/ Theft!CheckFence(g)
             \/ Theft!Cross(g) \/ Theft!OpenForReport(g)
      PROVE  job[g].pc # "idle" /\ \A f \in Handler \ {g} : job'[f] = job[f]
    BY <1>5 DEF Theft!Persist, Theft!CheckMode, Theft!Activate, Theft!CheckUnlock,
       Theft!QueueCapture, Theft!CheckFence, Theft!Cross, Theft!OpenForReport
<1>6. ASSUME \/ Theft!Recover \/ Theft!ReadHistory \/ Theft!FiveMinutes \/ Theft!ThirtyMinutes
             \/ \E s \in Theft!Slot : Theft!Acknowledge(s)
      PROVE  FALSE
    BY <1>6 DEF Theft!Recover, Theft!ReadHistory, Theft!FiveMinutes, Theft!ThirtyMinutes,
       Theft!Acknowledge
<1>7. QED
    BY <1>1, <1>2, <1>3, <1>4, <1>5, <1>6 DEF Theft!Next

\* What the gate counts: nothing but the oldest score after a calm streak, and all of a
\* streak of elevated ones.
LEMMA Counted ==
    ASSUME Theft!TheftConstants, Theft!GateConstants, Theft!ScoreInv,
           streak.n = Confirm - 1
    PROVE  /\ scores # <<>>
           /\ streak.level = "calm" => ~Theft!Confirmed(scores)
           /\ streak.level # "calm" => Theft!Confirmed(scores)
<1> DEFINE E == {i \in DOMAIN scores : scores[i] >= HighBar}
           n == Confirm - 1
<1>0. /\ HighBar \in Nat /\ Confirm \in Nat /\ Confirm >= 3 /\ CapScore \in Nat
    BY Theft!TheftConstants, Theft!GateConstants DEF Theft!TheftConstants, Theft!GateConstants
<1>a. /\ scores \in Seq(0..CapScore) /\ Len(scores) <= Confirm /\ n <= Len(scores)
      /\ \A i \in 1..n : scores[i] < HighBar <=> streak.level = "calm"
    BY DEF Theft!ScoreInv, Theft!TypeOK, Theft!StreakStored
<1>b. /\ Len(scores) \in Nat /\ DOMAIN scores = 1..Len(scores)
      /\ \A i \in DOMAIN scores : scores[i] \in Int
    BY <1>0, <1>a
<1>1. /\ n \in Nat /\ n >= 2 /\ Len(scores) \in n..(n + 1) /\ DOMAIN scores = 1..Len(scores)
      /\ \A i \in 1..n : scores[i] < HighBar <=> streak.level = "calm"
      /\ \A i \in DOMAIN scores : scores[i] \in Int
      /\ HighBar \in Int
    BY <1>0, <1>a, <1>b
<1>2. scores # <<>>
    BY <1>1
<1>3. IsFiniteSet(E)
  <2>1. E \in SUBSET (1..Len(scores)) /\ IsFiniteSet(1..Len(scores))
    BY <1>1, FS_Interval
  <2>2. QED
    BY <2>1, FS_Subset
<1>4. Theft!Elevated(scores) = Cardinality(E)
    BY DEF Theft!Elevated, Theft!Cardinality, Cardinality
<1> HIDE DEF n
<1>5. ASSUME streak.level = "calm" PROVE ~Theft!Confirmed(scores)
  <2>1. E \subseteq {n + 1}
    BY <1>1, <1>5
  <2>2. IsFiniteSet({n + 1}) /\ Cardinality({n + 1}) = 1
    BY FS_Singleton
  <2>3. Cardinality(E) <= 1 /\ Cardinality(E) \in Nat
    BY <1>3, <2>1, <2>2, FS_Subset, FS_CardinalityType
  <2>4. QED
    BY <1>1, <1>2, <1>4, <2>3 DEF Theft!Confirmed, n
<1>6. ASSUME streak.level # "calm" PROVE Theft!Confirmed(scores)
  <2>1. 1..n \subseteq E
    BY <1>1, <1>6
  <2>2. Cardinality(1..n) = n
    BY <1>1, FS_Interval
  <2> HIDE DEF E
  <2>3. Cardinality(1..n) <= Cardinality(E) /\ Cardinality(E) \in Nat
    BY <1>3, <2>1, FS_Subset, FS_CardinalityType
  <2>4. QED
    BY <1>1, <1>4, <2>2, <2>3 DEF Theft!Confirmed, n
<1>7. QED
    BY <1>2, <1>5, <1>6

\* One critical ping after a streak of calm ones does not set off theft mode, and after a
\* streak of critical ones another is not held back, for any number from three up of
\* pings that the gate looks at and however handlers interleave (compute_score).
THEOREM ActivationHolds ==
    ASSUME Theft!TheftConstants, Theft!GateConstants
    PROVE  Theft!Spec => []Theft!TypeOK /\ Theft!NoSingleShot /\ Theft!NotStuck
<1> DEFINE Gate == Theft!NoSingleShotStep /\ Theft!NotStuckStep
<1>1. ASSUME Theft!ScoreInv, Theft!Next PROVE Gate
  <2>1. ASSUME NEW h \in Handler, job[h].pc = "idle", job'[h].pc = "persist",
               streak = [level |-> "calm", n |-> Confirm - 1]
        PROVE  job'[h].score < Threshold
    <3>1. PICK raw \in 0..CapScore :
            job'[h].raw = raw /\ job'[h].score = Theft!Score(raw, scores)
      BY <1>1, <2>1, JudgedHere, Theft!TheftConstants, Theft!GateConstants
    <3>2. ~Theft!Confirmed(scores)
      BY <1>1, <2>1, Counted, Theft!TheftConstants, Theft!GateConstants
    <3>3. QED
      BY <3>1, <3>2, Theft!TheftConstants DEF Theft!Score, Theft!Lesser, Theft!TheftConstants
  <2>2. ASSUME NEW h \in Handler, job[h].pc = "idle", job'[h].pc = "persist",
               job'[h].raw >= Threshold, streak = [level |-> "critical", n |-> Confirm - 1]
        PROVE  job'[h].score >= Threshold
    <3>1. PICK raw \in 0..CapScore :
            job'[h].raw = raw /\ job'[h].score = Theft!Score(raw, scores)
      BY <1>1, <2>2, JudgedHere, Theft!TheftConstants, Theft!GateConstants
    <3>2. Theft!Confirmed(scores)
      BY <1>1, <2>2, Counted, Theft!TheftConstants, Theft!GateConstants
    <3>3. QED
      BY <2>2, <3>1, <3>2 DEF Theft!Score
  <2>3. QED
    BY <2>1, <2>2 DEF Theft!NoSingleShotStep, Theft!NotStuckStep
<1>2. Theft!ScoreInv /\ [Theft!Next]_Theft!vars
        => [Theft!NoSingleShotStep]_Theft!vars /\ [Theft!NotStuckStep]_Theft!vars
    BY <1>1
<1>3. Theft!ScoreInv => Theft!TypeOK
    BY DEF Theft!ScoreInv
<1>4. QED
    BY <1>2, <1>3, ScoreInvHolds, Theft!TheftConstants, Theft!GateConstants, PTL
    DEF Theft!Spec, Theft!NoSingleShot, Theft!NotStuck

-----------------------------------------------------------------------------
(* DeviceAccess: what the requests keep *)

Row == [owner: User \cup {None}, present: BOOLEAN, silent: BOOLEAN, archived: BOOLEAN]
Request == [kind: {"none", "claim", "update", "insert", "delete", "delete account", "grant",
                   "revoke"},
            user: User \cup {Operator, None}, on: SUBSET Device, to: User \cup {None},
            share: Nat, stale: BOOLEAN]

\* The requests keep their type when one of them commits: it is over, and the
\* others are as they were, but overtaken.
LEMMA Committed ==
    ASSUME Access!Shapes, NEW w \in Worker, Access!Commits(w)
    PROVE  /\ req' \in [Worker -> Request]
           /\ \A v \in Worker :
                \/ req'[v] = Access!NoRequest
                \/ /\ v # w /\ req'[v].stale
                   /\ req'[v].kind = req[v].kind /\ req'[v].user = req[v].user
                   /\ req'[v].to = req[v].to
           /\ late' = IF req[w].stale THEN late \cup req[w].on \cup {req[w].user} ELSE late
<1>1. req \in [Worker -> Request]
    BY DEF Access!Shapes, Request
<1>2. Access!NoRequest \in Request
    BY DEF Access!NoRequest, Request
<1>3. ASSUME NEW r \in Request
      PROVE  /\ [r EXCEPT !.stale = TRUE] \in Request
             /\ [r EXCEPT !.stale = TRUE].stale
             /\ [r EXCEPT !.stale = TRUE].kind = r.kind
             /\ [r EXCEPT !.stale = TRUE].user = r.user
             /\ [r EXCEPT !.stale = TRUE].to = r.to
    BY DEF Request
<1>4. /\ late' = IF req[w].stale THEN late \cup req[w].on \cup {req[w].user} ELSE late
      /\ req' = [v \in Worker |-> IF v = w THEN Access!NoRequest
                                  ELSE IF req[v] = Access!NoRequest THEN Access!NoRequest
                                  ELSE [req[v] EXCEPT !.stale = TRUE]]
    BY DEF Access!Commits
<1>5. ASSUME NEW v \in Worker
      PROVE  /\ req'[v] \in Request
             /\ \/ req'[v] = Access!NoRequest
                \/ /\ v # w /\ req'[v].stale
                   /\ req'[v].kind = req[v].kind /\ req'[v].user = req[v].user
                   /\ req'[v].to = req[v].to
  <2>1. CASE v = w \/ req[v] = Access!NoRequest
    BY <1>2, <1>4, <2>1
  <2>2. CASE v # w /\ req[v] # Access!NoRequest
    BY <1>1, <1>3, <1>4, <2>2
  <2>3. QED
    BY <2>1, <2>2
<1>6. QED
    BY <1>4, <1>5

\* A request that has decided is there beside the others.
LEMMA Decided ==
    ASSUME Access!Shapes, NEW w \in Worker, NEW kind, NEW u, NEW ds, NEW to, NEW id,
           [kind |-> kind, user |-> u, on |-> ds, to |-> to, share |-> id, stale |-> FALSE]
                \in Request,
           Access!Decides(w, kind, u, ds, to, id)
    PROVE  /\ req' \in [Worker -> Request]
           /\ req'[w].kind = kind /\ req'[w].user = u /\ req'[w].on = ds /\ req'[w].to = to
           /\ ~req'[w].stale
           /\ \A v \in Worker \ {w} : req'[v] = req[v]
           /\ UNCHANGED <<account, allowance, row, share, grants, best, late>>
    BY DEF Access!Shapes, Access!Decides, Request

\* Whatever a request decides, it is one.
LEMMA Requests ==
    /\ \A o \in User \cup {None}, t \in Device, kind \in {"claim", "update", "insert"} :
        [kind |-> kind, user |-> o, on |-> {t}, to |-> o, share |-> 0, stale |-> FALSE] \in Request
    /\ \A u \in User \cup {Operator}, ds \in SUBSET Device,
          kind \in {"delete", "delete account"} :
        [kind |-> kind, user |-> u, on |-> ds, to |-> None, share |-> 0, stale |-> FALSE]
            \in Request
    /\ \A u, to \in User, d \in Device, id \in Nat, kind \in {"grant", "revoke"} :
        [kind |-> kind, user |-> u, on |-> {d}, to |-> to, share |-> id, stale |-> FALSE]
            \in Request
    BY DEF Request

\* What the request r says of its accounts (RequestsFit).
Fits(r) ==
    /\ r.kind \in {"claim", "grant", "delete account"} => r.user \in User
    /\ r.kind \in {"update", "insert"} => r.user \in User \cup {None}
    /\ r.kind \in {"grant", "revoke"} => r.to \in User

\* The request of worker w has decided: it fits, what it read is true, and
\* nothing else has changed.
Decision(w) ==
    /\ req' \in [Worker -> Request]
    /\ \A v \in Worker \ {w} : req'[v] = req[v]
    /\ Fits(req'[w]) /\ Access!StillTrue(req'[w])
    /\ UNCHANGED <<account, allowance, row, share, grants, best, late>>

\* An account that has room by its plan has room by the best plan it had.
LEMMA Room ==
    ASSUME Access!DeviceAccessConstants, Access!AccessInv, NEW u \in User,
           Access!WithinAllowance(u)
    PROVE  Cardinality(Access!Owned(u)) < best[u]
<1>1. allowance[u] \in Nat /\ best[u] \in Nat /\ allowance[u] <= best[u]
    BY Access!DeviceAccessConstants DEF Access!DeviceAccessConstants, Access!AccessInv,
       Access!TypeOK
<1>2. IsFiniteSet(Device) /\ Access!Owned(u) \in SUBSET Device
    BY Access!DeviceAccessConstants, SameSets
    DEF Access!DeviceAccessConstants, Access!Owned, Access!Present
<1>3. Cardinality(Access!Owned(u)) \in Nat
    BY <1>2, FS_Subset, FS_CardinalityType
<1>4. Cardinality(Access!Owned(u)) < allowance[u]
    BY SameSets DEF Access!WithinAllowance
<1>5. QED
    BY <1>1, <1>3, <1>4

\* Every handler that reads and decides makes such a decision (the Look actions).
LEMMA Looks ==
    ASSUME Access!DeviceAccessConstants, Access!AccessInv, NEW w \in Worker,
           \/ \E u \in User, d \in Device : Access!LookClaim(w, u, d)
           \/ \E u \in User \cup {None}, d \in Device : Access!LookRegister(w, u, d)
           \/ \E u \in User \cup {Operator}, d \in Device : Access!LookDelete(w, u, d)
           \/ \E u \in User \cup {Operator} : Access!LookDeleteArchived(w, u)
           \/ \E u \in User : Access!LookDeleteAccount(w, u)
           \/ \E u, to \in User, d \in Device :
                Access!LookGrant(w, u, d, to) \/ Access!LookRevoke(w, u, d, to)
    PROVE  Decision(w)
<1>0. Access!Shapes /\ Access!AccessInv /\ Access!TypeOK
    BY DEF Access!AccessInv
<1>1. ASSUME NEW u \in User, NEW d \in Device, Access!LookClaim(w, u, d) PROVE Decision(w)
  <2>1. d \in Access!Present /\ Access!MayLink(d, u)
    BY <1>0, <1>1, Room, Access!DeviceAccessConstants, SameSets
    DEF Access!LookClaim, Access!MayLink, Access!Present
  <2>2. Access!Decides(w, "claim", u, {d}, u, 0)
    BY <1>1 DEF Access!LookClaim
  <2>3. /\ req' \in [Worker -> Request]
        /\ req'[w].kind = "claim" /\ req'[w].user = u /\ req'[w].on = {d} /\ req'[w].to = u
        /\ ~req'[w].stale
        /\ \A v \in Worker \ {w} : req'[v] = req[v]
        /\ UNCHANGED <<account, allowance, row, share, grants, best, late>>
    BY <1>0, <2>2, Decided, Requests
  <2>4. QED
    BY <2>1, <2>3 DEF Decision, Fits, Access!StillTrue
<1>2. ASSUME NEW u \in User \cup {None}, NEW d \in Device, Access!LookRegister(w, u, d)
      PROVE  Decision(w)
  <2> DEFINE o == IF u \in account THEN u ELSE None
  <2>1. PICK t \in Access!Targets(d, o) :
          /\ o # None /\ t \in Access!Present => Access!Takeable(t, o)
          /\ o # None /\ (t \notin Access!Present \/ row[t].owner \notin account) =>
                Access!WithinAllowance(o)
          /\ Access!Decides(w, IF t \in Access!Present THEN "update" ELSE "insert", o, {t}, o, 0)
    BY <1>2 DEF Access!LookRegister
  <2>2. t \in Device
    BY DEF Access!Targets, Access!Candidates, Access!Present
  <2>3. o \in User \cup {None} /\ (o # None => o \in account /\ o \in User)
    BY <1>0 DEF Access!TypeOK
  <2> HIDE DEF o
  <2>4. ASSUME o # None PROVE Access!MayLink(t, o)
    <3>1. ~row[t].present => row[t].owner = None
      BY <1>0, <2>2 DEF Access!AccessInv, Access!AbsentIsBare
    <3>2. None \notin account
      BY <1>0, Access!DeviceAccessConstants DEF Access!TypeOK, Access!DeviceAccessConstants
    <3>3. Access!Takeable(t, o)
      BY <2>1, <2>2, <2>4, <3>1, <3>2 DEF Access!Takeable, Access!Present
    <3>4. ASSUME row[t].owner # o \/ ~row[t].present PROVE Access!WithinAllowance(o)
      BY <2>1, <2>2, <2>4, <3>3, <3>4 DEF Access!Takeable, Access!Present
    <3>5. QED
      BY <1>0, <2>3, <2>4, <3>3, <3>4, Room, Access!DeviceAccessConstants, SameSets
      DEF Access!MayLink
  <2>5. /\ req' \in [Worker -> Request]
        /\ req'[w].kind = (IF t \in Access!Present THEN "update" ELSE "insert")
        /\ req'[w].user = o /\ req'[w].on = {t}
        /\ ~req'[w].stale
        /\ \A v \in Worker \ {w} : req'[v] = req[v]
        /\ UNCHANGED <<account, allowance, row, share, grants, best, late>>
    <3> DEFINE kind == IF t \in Access!Present THEN "update" ELSE "insert"
    <3>1. kind \in {"update", "insert"}
      OBVIOUS
    <3>2. Access!Decides(w, kind, o, {t}, o, 0)
      BY <2>1
    <3> HIDE DEF kind
    <3>3. [kind |-> kind, user |-> o, on |-> {t}, to |-> o, share |-> 0, stale |-> FALSE]
            \in Request
      BY <2>2, <2>3, <3>1, Requests
    <3>4. /\ req' \in [Worker -> Request]
          /\ req'[w].kind = kind /\ req'[w].user = o /\ req'[w].on = {t}
          /\ ~req'[w].stale
          /\ \A v \in Worker \ {w} : req'[v] = req[v]
          /\ UNCHANGED <<account, allowance, row, share, grants, best, late>>
      BY <1>0, <3>2, <3>3, Decided
    <3>5. QED
      BY <3>4 DEF kind
  <2>6. QED
    BY <2>2, <2>3, <2>4, <2>5 DEF Decision, Fits, Access!StillTrue
<1>3. ASSUME NEW u \in User \cup {Operator}, NEW ds \in SUBSET Device,
             NEW kind \in {"delete", "delete account"}, Access!Decides(w, kind, u, ds, None, 0),
             kind = "delete account" => u \in User /\ ds = Access!Owned(u)
      PROVE  Decision(w)
  <2>1. /\ req' \in [Worker -> Request]
        /\ req'[w].kind = kind /\ req'[w].user = u /\ req'[w].on = ds
        /\ ~req'[w].stale
        /\ \A v \in Worker \ {w} : req'[v] = req[v]
        /\ UNCHANGED <<account, allowance, row, share, grants, best, late>>
    BY <1>0, <1>3, Decided, Requests
  <2>2. QED
    BY <1>3, <2>1 DEF Decision, Fits, Access!StillTrue
<1>4. ASSUME NEW u \in User \cup {Operator}, NEW d \in Device, Access!LookDelete(w, u, d)
      PROVE  Decision(w)
    BY <1>3, <1>4 DEF Access!LookDelete
<1>5. ASSUME NEW u \in User \cup {Operator}, Access!LookDeleteArchived(w, u)
      PROVE  Decision(w)
  <2>1. \E ds \in SUBSET Device : Access!Decides(w, "delete", u, ds, None, 0)
    BY <1>5 DEF Access!LookDeleteArchived, Access!Present
  <2>2. QED
    BY <1>3, <2>1
<1>6. ASSUME NEW u \in User, Access!LookDeleteAccount(w, u) PROVE Decision(w)
    BY <1>3, <1>6 DEF Access!LookDeleteAccount, Access!Owned, Access!Present
<1>7. ASSUME NEW u \in User, NEW to \in User, NEW d \in Device, NEW id \in Nat,
             NEW kind \in {"grant", "revoke"}, Access!Decides(w, kind, u, {d}, to, id),
             row[d].owner = u
      PROVE  Decision(w)
  <2>1. /\ req' \in [Worker -> Request]
        /\ req'[w].kind = kind /\ req'[w].user = u /\ req'[w].on = {d} /\ req'[w].to = to
        /\ ~req'[w].stale
        /\ \A v \in Worker \ {w} : req'[v] = req[v]
        /\ UNCHANGED <<account, allowance, row, share, grants, best, late>>
    <3>1. [kind |-> kind, user |-> u, on |-> {d}, to |-> to, share |-> id, stale |-> FALSE]
            \in Request
      BY Requests
    <3>2. QED
      BY <1>0, <1>7, <3>1, Decided
  <2>2. QED
    BY <1>7, <2>1 DEF Decision, Fits, Access!StillTrue
<1>8. ASSUME NEW u \in User, NEW to \in User, NEW d \in Device,
             Access!LookGrant(w, u, d, to) \/ Access!LookRevoke(w, u, d, to)
      PROVE  Decision(w)
  <2>1. row[d].owner = u
    BY <1>8 DEF Access!LookGrant, Access!LookRevoke, Access!Role
  <2>2. share[d][to].id \in Nat
    BY <1>0 DEF Access!Shapes
  <2>3. \/ Access!Decides(w, "grant", u, {d}, to, 0)
        \/ Access!Decides(w, "revoke", u, {d}, to, share[d][to].id)
    BY <1>8 DEF Access!LookGrant, Access!LookRevoke
  <2>4. QED
    BY <1>7, <2>1, <2>2, <2>3
<1>9. QED
    BY <1>1, <1>2, <1>4, <1>5, <1>6, <1>8

\* Rows and shares keep their types.
LEMMA AccessTypes ==
    ASSUME Access!DeviceAccessConstants, Access!AccessInv, [Access!Next]_Access!vars
    PROVE  Access!TypeOK' /\ Access!Shapes'
<1> DEFINE Share == [by: User \cup {None}, id: Nat]
           Goal == Access!TypeOK' /\ Access!Shapes'
<1>0. /\ Access!TypeOK /\ Access!Shapes /\ Access!RequestsFit
      /\ row \in [Device -> Row] /\ share \in [Device -> [User -> Share]] /\ grants \in Nat
      /\ req \in [Worker -> Request]
      /\ Access!Absent \in Row /\ \A o \in User \cup {None} : Access!Fresh(o) \in Row
      /\ Access!NoShare \in Share
    BY DEF Access!AccessInv, Access!Shapes, Row, Request, Access!Absent, Access!Fresh,
       Access!NoShare
<1>a. ASSUME row' \in [Device -> Row], share' \in [Device -> [User -> Share]], grants' \in Nat,
             req' \in [Worker -> Request],
             account' \subseteq User, allowance' \in [User -> Allowances],
             best' \in [User -> Allowances], late' \subseteq User \cup Device \cup {Operator, None},
             \A d \in Device : row'[d].archived => row'[d].silent
      PROVE  Goal
  <2>1. Access!Shapes'
    BY <1>a DEF Access!Shapes, Row, Request
  <2>2. \A d \in Device : row'[d].owner \in User \cup {None} /\ DOMAIN share'[d] = User
    BY <1>a DEF Row
  <2>3. QED
    BY <1>a, <2>1, <2>2, Access!DeviceAccessConstants
    DEF Access!TypeOK, Access!DeviceAccessConstants
<1> HIDE DEF Goal
<1>b. ASSUME NEW w \in Worker, Access!Commits(w)
      PROVE  /\ req' \in [Worker -> Request]
             /\ late' \subseteq User \cup Device \cup {Operator, None}
  <2>1. /\ req' \in [Worker -> Request]
        /\ late' = IF req[w].stale THEN late \cup req[w].on \cup {req[w].user} ELSE late
    BY <1>0, <1>b, Committed
  <2>2. req[w].on \subseteq Device /\ req[w].user \in User \cup {Operator, None}
        /\ late \subseteq User \cup Device \cup {Operator, None}
    BY <1>0 DEF Request, Access!TypeOK
  <2>3. QED
    BY <2>1, <2>2
<1>c. /\ account \subseteq User /\ allowance \in [User -> Allowances]
      /\ best \in [User -> Allowances]
      /\ late \subseteq User \cup Device \cup {Operator, None}
      /\ \A d \in Device : row[d].archived => row[d].silent
    BY <1>0 DEF Access!TypeOK
<1>1. ASSUME NEW w \in Worker, Access!WriteClaim(w) PROVE Goal
  <2>1. req[w].user \in User
    BY <1>0, <1>1 DEF Access!RequestsFit, Access!WriteClaim
  <2>2. \A r \in Row : [r EXCEPT !.owner = req[w].user] \in Row
                       /\ [r EXCEPT !.owner = req[w].user].silent = r.silent
                       /\ [r EXCEPT !.owner = req[w].user].archived = r.archived
    BY <2>1 DEF Row
  <2>3. row' = [d \in Device |-> IF d \in req[w].on /\ row[d].present
                                 THEN [row[d] EXCEPT !.owner = req[w].user] ELSE row[d]]
    BY <1>1 DEF Access!WriteClaim
  <2>4. ASSUME NEW d \in Device PROVE row'[d] \in Row /\ (row'[d].archived => row'[d].silent)
    BY <1>0, <1>c, <2>2, <2>3
  <2>5. row' \in [Device -> Row]
    BY <2>3, <2>4
  <2>6. Access!Commits(w) /\ UNCHANGED <<account, allowance, share, grants, best>>
    BY <1>1 DEF Access!WriteClaim
  <2>7. QED
    BY <1>0, <1>a, <1>b, <1>c, <2>4, <2>5, <2>6
<1>2. ASSUME NEW w \in Worker, Access!WriteRegister(w) PROVE Goal
  <2>1. req[w].user \in User \cup {None}
    BY <1>0, <1>2 DEF Access!RequestsFit, Access!WriteRegister
  <2>2. row' = [d \in Device |->
           IF d \in req[w].on /\ row[d].present = (req[w].kind = "update")
           THEN Access!Registered(d, req[w].user) ELSE row[d]]
    BY <1>2 DEF Access!WriteRegister
  <2>3. \A o \in User \cup {None} : ~Access!Fresh(o).archived
    BY DEF Access!Fresh
  <2>4. ASSUME NEW d \in Device
        PROVE  /\ Access!Registered(d, req[w].user) \in Row
               /\ ~Access!Registered(d, req[w].user).archived
    <3>1. row[d].owner \in User \cup {None}
      BY <1>0 DEF Row
    <3>2. QED
      BY <1>0, <2>1, <2>3, <3>1 DEF Access!Registered
  <2>5. ASSUME NEW d \in Device PROVE row'[d] \in Row /\ (row'[d].archived => row'[d].silent)
    BY <1>0, <1>c, <2>2, <2>4
  <2>6. row' \in [Device -> Row]
    BY <2>2, <2>5
  <2>7. Access!Commits(w) /\ UNCHANGED <<account, allowance, share, grants, best>>
    BY <1>2 DEF Access!WriteRegister
  <2>8. QED
    BY <1>0, <1>a, <1>b, <1>c, <2>5, <2>6, <2>7
<1>3. ASSUME NEW w \in Worker, NEW ds \in SUBSET Device, Access!Cascade(ds), Access!Commits(w),
             account' \subseteq account, UNCHANGED <<allowance, grants, best>>
      PROVE  Goal
  <2>1. row' = [d \in Device |-> IF d \in ds THEN Access!Absent ELSE row[d]]
    BY <1>3 DEF Access!Cascade
  <2>2. ~Access!Absent.archived
    BY DEF Access!Absent
  <2>3. row' \in [Device -> Row] /\ \A d \in Device : row'[d].archived => row'[d].silent
    BY <1>0, <1>c, <2>1, <2>2
  <2>4. share' \in [Device -> [User -> Share]]
    BY <1>0, <1>3 DEF Access!Cascade
  <2>5. QED
    BY <1>0, <1>3, <1>a, <1>b, <1>c, <2>3, <2>4
<1>4. ASSUME NEW w \in Worker, Access!WriteDelete(w) PROVE Goal
  <2>1. req[w].on \in SUBSET Device
    BY <1>0 DEF Request
  <2>2. QED
    BY <1>3, <1>4, <2>1 DEF Access!WriteDelete
<1>5. ASSUME NEW w \in Worker, Access!WriteDeleteAccount(w) PROVE Goal
  <2>1. req[w].on \in SUBSET Device
    BY <1>0 DEF Request
  <2>2. QED
    BY <1>3, <1>5, <2>1 DEF Access!WriteDeleteAccount, Access!Closes
<1>6. ASSUME NEW w \in Worker, Access!WriteGrant(w) PROVE Goal
  <2>1. req[w].user \in User /\ req[w].to \in User
    BY <1>0, <1>6 DEF Access!RequestsFit, Access!WriteGrant
  <2>2. grants' \in Nat /\ [by |-> req[w].user, id |-> grants'] \in Share
    BY <1>0, <1>6, <2>1 DEF Access!WriteGrant
  <2>3. share' \in [Device -> [User -> Share]]
    <3>1. share' = [d \in Device |-> IF d \in req[w].on /\ row[d].present
              THEN [share[d] EXCEPT ![req[w].to] = [by |-> req[w].user, id |-> grants']]
              ELSE share[d]]
      BY <1>6 DEF Access!WriteGrant
    <3>2. ASSUME NEW x \in Share, NEW f \in [User -> Share]
          PROVE  [f EXCEPT ![req[w].to] = x] \in [User -> Share]
      OBVIOUS
    <3> HIDE DEF Share
    <3>3. QED
      BY <1>0, <2>2, <3>1, <3>2
  <2>4. Access!Commits(w) /\ UNCHANGED <<account, allowance, row, best>>
    BY <1>6 DEF Access!WriteGrant
  <2>5. QED
    BY <1>0, <1>a, <1>b, <1>c, <2>2, <2>3, <2>4
<1>7. ASSUME NEW w \in Worker, Access!WriteRevoke(w) PROVE Goal
  <2>1. share' \in [Device -> [User -> Share]]
    <3>1. share' = [d \in Device |->
              IF d \in req[w].on /\ share[d][req[w].to].id = req[w].share
              THEN [share[d] EXCEPT ![req[w].to] = Access!NoShare] ELSE share[d]]
      BY <1>7 DEF Access!WriteRevoke
    <3>2. ASSUME NEW x \in Share, NEW f \in [User -> Share]
          PROVE  [f EXCEPT ![req[w].to] = x] \in [User -> Share]
      OBVIOUS
    <3> HIDE DEF Share
    <3>3. QED
      BY <1>0, <3>1, <3>2
  <2>2. Access!Commits(w) /\ UNCHANGED <<account, allowance, row, grants, best>>
    BY <1>7 DEF Access!WriteRevoke
  <2>3. QED
    BY <1>0, <1>a, <1>b, <1>c, <2>1, <2>2
<1>8. ASSUME NEW d \in Device, Access!Silence(d) \/ Access!Report(d) PROVE Goal
  <2>1. UNCHANGED <<account, allowance, share, grants, req, best, late>>
    BY <1>8 DEF Access!Silence, Access!Report
  <2>2. row' \in [Device -> Row] /\ \A e \in Device : row'[e].archived => row'[e].silent
    <3>1. CASE Access!Silence(d)
      <4>1. [row[d] EXCEPT !.silent = TRUE, !.archived = row[d].silent] \in Row
        BY <1>0 DEF Row
      <4>2. row' = [row EXCEPT ![d] = [row[d] EXCEPT !.silent = TRUE, !.archived = row[d].silent]]
        BY <1>0, <3>1 DEF Access!Silence, Row
      <4>3. [row[d] EXCEPT !.silent = TRUE, !.archived = row[d].silent].silent
        BY <1>0 DEF Row
      <4>4. QED
        BY <1>0, <1>c, <4>1, <4>2, <4>3
    <3>2. CASE Access!Report(d)
      <4>1. row[d].owner \in User \cup {None} /\ ~Access!Fresh(row[d].owner).archived
        BY <1>0 DEF Row, Access!Fresh
      <4>2. row' = [row EXCEPT ![d] = Access!Fresh(row[d].owner)]
        BY <3>2 DEF Access!Report
      <4>3. QED
        BY <1>0, <1>c, <4>1, <4>2
    <3>3. QED
      BY <1>8, <3>1, <3>2
  <2>3. QED
    BY <1>0, <1>a, <1>c, <2>1, <2>2
<1>9. ASSUME NEW u \in User, NEW n \in Allowances, Access!SetPlan(u, n) PROVE Goal
  <2>1. /\ allowance' \in [User -> Allowances] /\ best' \in [User -> Allowances]
        /\ UNCHANGED <<account, row, share, grants, req, late>>
    BY <1>9, <1>c DEF Access!SetPlan
  <2>2. QED
    BY <1>0, <1>a, <1>c, <2>1
<1>10. ASSUME NEW w \in Worker, Decision(w) PROVE Goal
    BY <1>0, <1>10, <1>a, <1>c DEF Decision
<1>11. ASSUME UNCHANGED Access!vars PROVE Goal
    BY <1>0, <1>11, <1>a, <1>c DEF Access!vars
<1>12. Goal
    BY <1>1, <1>2, <1>4, <1>5, <1>6, <1>7, <1>8, <1>9, <1>10, <1>11, Looks,
       Access!DeviceAccessConstants DEF Access!Next
<1>13. QED
    BY <1>12 DEF Goal

-----------------------------------------------------------------------------
(* DeviceAccess: owners, allowances and shares *)

\* Numbers of devices: a part is no larger than the whole, and one device more
\* is at most one more.
LEMMA DeviceNumbers ==
    ASSUME Access!DeviceAccessConstants, NEW T \in SUBSET Device, NEW S \in SUBSET Device
    PROVE  /\ Access!Cardinality(S) \in Nat
           /\ S \subseteq T => Access!Cardinality(S) <= Access!Cardinality(T)
           /\ \A d \in Device : S \subseteq T \cup {d} =>
                Access!Cardinality(S) <= Access!Cardinality(T) + 1
<1>1. IsFiniteSet(Device)
    BY Access!DeviceAccessConstants, SameSets DEF Access!DeviceAccessConstants
<1>2. IsFiniteSet(S) /\ IsFiniteSet(T)
    BY <1>1, FS_Subset
<1>3. Cardinality(S) \in Nat /\ Cardinality(T) \in Nat
    BY <1>2, FS_CardinalityType
<1>4. S \subseteq T => Cardinality(S) <= Cardinality(T)
    BY <1>2, FS_Subset
<1>5. ASSUME NEW d \in Device, S \subseteq T \cup {d}
      PROVE  Cardinality(S) <= Cardinality(T) + 1
  <2>1. IsFiniteSet(T \cup {d})
        /\ Cardinality(T \cup {d}) = IF d \in T THEN Cardinality(T) ELSE Cardinality(T) + 1
    BY <1>2, FS_AddElement, Zenon
  <2>2. Cardinality(S) <= Cardinality(T \cup {d})
    BY <1>5, <2>1, FS_Subset
  <2>3. QED
    BY <1>3, <2>1, <2>2
<1>6. QED
    BY <1>3, <1>4, <1>5, SameSets

\* After a commit every request that is left is overtaken.
LEMMA Overtaken ==
    ASSUME Access!AccessInv, NEW w \in Worker, Access!Commits(w)
    PROVE  Access!RequestsFit' /\ Access!Unovertaken'
<1>1. \A v \in Worker :
        \/ req'[v] = Access!NoRequest
        \/ /\ req'[v].stale
           /\ req'[v].kind = req[v].kind /\ req'[v].user = req[v].user /\ req'[v].to = req[v].to
    BY Committed DEF Access!AccessInv
<1>2. Access!NoRequest.kind = "none"
    BY DEF Access!NoRequest
<1>3. Access!RequestsFit'
    BY <1>1, <1>2 DEF Access!AccessInv, Access!RequestsFit
<1>4. ASSUME NEW v \in Worker, ~req'[v].stale PROVE Access!StillTrue(req[v])'
    BY <1>1, <1>2, <1>4 DEF Access!StillTrue
<1>5. QED
    BY <1>3, <1>4 DEF Access!Unovertaken

\* The parts of the invariant beside the types.
Rest ==
    /\ Access!AbsentIsBare /\ Access!SharesFit
    /\ \A u \in User : allowance[u] <= best[u]
    /\ Access!AllowanceHeld /\ Access!LinksAgree

\* A commit that takes devices from accounts, or leaves them, keeps allowances.
LEMMA NoneGained ==
    ASSUME Access!DeviceAccessConstants, Access!AccessInv,
           \A d \in Device : row'[d].present /\ row'[d].owner # None =>
                row[d].present /\ row[d].owner = row'[d].owner,
           late \subseteq late', best' = best
    PROVE  Access!AllowanceHeld'
<1> SUFFICES ASSUME NEW u \in User, u \notin late'
             PROVE  Access!Cardinality(Access!Owned(u)') <= best[u]
    BY DEF Access!AllowanceHeld
<1>1. Access!Owned(u)' \subseteq Access!Owned(u)
      /\ Access!Owned(u) \in SUBSET Device /\ Access!Owned(u)' \in SUBSET Device
  <2>1. u # None
    BY Access!DeviceAccessConstants DEF Access!DeviceAccessConstants
  <2>2. QED
    BY <2>1 DEF Access!Owned, Access!Present
<1>2. Access!Cardinality(Access!Owned(u)) <= best[u]
    BY DEF Access!AccessInv, Access!AllowanceHeld
<1>3. best[u] \in Nat
    BY Access!DeviceAccessConstants
    DEF Access!DeviceAccessConstants, Access!AccessInv, Access!TypeOK
<1>4. /\ Access!Cardinality(Access!Owned(u)) \in Nat
      /\ Access!Cardinality(Access!Owned(u)') \in Nat
      /\ Access!Cardinality(Access!Owned(u)') <= Access!Cardinality(Access!Owned(u))
    BY <1>1, DeviceNumbers, Access!DeviceAccessConstants
<1>5. QED
    BY <1>2, <1>3, <1>4

\* A commit that links a device to an account: unless the request was overtaken
\* the device was free for the account, and its plan had room.
LEMMA Linked ==
    ASSUME Access!DeviceAccessConstants, Access!AccessInv, NEW w \in Worker,
           req[w].user \in User,
           \A d \in Device :
                \/ row'[d].present = row[d].present /\ row'[d].owner = row[d].owner
                \/ d \in req[w].on /\ row'[d].present /\ row'[d].owner = req[w].user,
           ~req[w].stale => \E d \in Device :
                req[w].on = {d} /\ Access!MayLink(d, req[w].user),
           late' = IF req[w].stale THEN late \cup req[w].on \cup {req[w].user} ELSE late,
           UNCHANGED <<account, allowance, best, share>>
    PROVE  Rest'
<1> DEFINE r == req[w]
<1>0. /\ Access!AbsentIsBare /\ Access!SharesFit /\ Access!AllowanceHeld /\ Access!LinksAgree
      /\ \A u \in User : allowance[u] <= best[u]
      /\ None \notin User /\ account \subseteq User
    BY Access!DeviceAccessConstants
    DEF Access!AccessInv, Access!TypeOK, Access!DeviceAccessConstants
<1>1. Access!AbsentIsBare' /\ Access!SharesFit' /\ \A u \in User : (allowance[u] <= best[u])'
    BY <1>0 DEF Access!AbsentIsBare, Access!SharesFit, Access!NoShare
<1>2. Access!AllowanceHeld'
  <2> SUFFICES ASSUME NEW u \in User, u \notin late'
               PROVE  Access!Cardinality(Access!Owned(u)') <= best[u]
    BY DEF Access!AllowanceHeld
  <2>1. Access!Cardinality(Access!Owned(u)) <= best[u]
    BY <1>0 DEF Access!AllowanceHeld
  <2>2. best[u] \in Nat
    BY Access!DeviceAccessConstants
    DEF Access!DeviceAccessConstants, Access!AccessInv, Access!TypeOK
  <2>3. Access!Owned(u) \in SUBSET Device /\ Access!Owned(u)' \in SUBSET Device
    BY DEF Access!Owned, Access!Present
  <2>4. /\ Access!Cardinality(Access!Owned(u)) \in Nat
        /\ Access!Cardinality(Access!Owned(u)') \in Nat
        /\ Access!Owned(u)' \subseteq Access!Owned(u) =>
              Access!Cardinality(Access!Owned(u)') <= Access!Cardinality(Access!Owned(u))
        /\ \A d \in Device : Access!Owned(u)' \subseteq Access!Owned(u) \cup {d} =>
              Access!Cardinality(Access!Owned(u)') <= Access!Cardinality(Access!Owned(u)) + 1
    BY <2>3, DeviceNumbers, Access!DeviceAccessConstants
  <2>5. CASE u # r.user
    <3>1. Access!Owned(u)' \subseteq Access!Owned(u)
      BY <2>5 DEF Access!Owned, Access!Present
    <3>2. QED
      BY <2>1, <2>2, <2>4, <3>1
  <2>6. CASE u = r.user
    <3>1. ~r.stale
      BY <2>6
    <3>2. PICK d \in Device : r.on = {d} /\ Access!MayLink(d, u)
      BY <2>6, <3>1
    <3>3. CASE row[d].owner # u \/ ~row[d].present
      <4>1. Access!Owned(u)' \subseteq Access!Owned(u) \cup {d}
        BY <3>2 DEF Access!Owned, Access!Present
      <4>2. Access!Cardinality(Access!Owned(u)) < best[u]
        BY <3>2, <3>3 DEF Access!MayLink
      <4>3. QED
        BY <2>2, <2>4, <4>1, <4>2
    <3>4. CASE row[d].owner = u /\ row[d].present
      <4>1. Access!Owned(u)' \subseteq Access!Owned(u)
        BY <3>2, <3>4 DEF Access!Owned, Access!Present
      <4>2. QED
        BY <2>1, <2>2, <2>4, <4>1
    <3>5. QED
      BY <3>3, <3>4
  <2>7. QED
    BY <2>5, <2>6
<1>3. Access!LinksAgree'
  <2> SUFFICES ASSUME NEW d \in Device, row'[d].present, d \notin late'
               PROVE  /\ row'[d].owner \in account \cup late' \cup {None}
                      /\ \A u \in User : share[d][u] # Access!NoShare =>
                            share[d][u].by \in late' \cup {row'[d].owner}
    BY DEF Access!LinksAgree, Access!Present, Access!NoShare
  <2>1. late \subseteq late' /\ d \notin late
    OBVIOUS
  <2>2. row[d].present =>
            /\ row[d].owner \in account \cup late \cup {None}
            /\ \A u \in User : share[d][u] # Access!NoShare =>
                    share[d][u].by \in late \cup {row[d].owner}
    BY <1>0, <2>1 DEF Access!LinksAgree, Access!Present
  <2>3. CASE row'[d].present = row[d].present /\ row'[d].owner = row[d].owner
    BY <2>1, <2>2, <2>3
  <2>4. CASE d \in r.on /\ row'[d].owner = r.user
    <3>1. ~r.stale
      BY <2>4
    <3>2. Access!MayLink(d, r.user)
      BY <2>4, <3>1
    <3>3. r.user \in account /\ (row[d].owner = r.user \/ row[d].owner \notin account)
      BY <3>2 DEF Access!MayLink, Access!Takeable
    <3>4. ASSUME NEW u \in User, share[d][u] # Access!NoShare
          PROVE  share[d][u].by \in late' \cup {row'[d].owner}
      <4>1. share[d][u].by \in User
        BY <1>0, <3>4 DEF Access!SharesFit
      <4>2. row[d].present
        BY <1>0, <3>4 DEF Access!AbsentIsBare
      <4>3. QED
        BY <1>0, <2>1, <2>2, <2>4, <3>3, <3>4, <4>1, <4>2
    <3>5. QED
      BY <2>4, <3>3, <3>4
  <2>5. QED
    BY <2>3, <2>4
<1>4. QED
    BY <1>1, <1>2, <1>3 DEF Rest

\* A claim and a registration that write: what they had read was true unless
\* they were overtaken.
LEMMA LinksStep ==
    ASSUME Access!DeviceAccessConstants, Access!AccessInv, NEW w \in Worker,
           Access!WriteClaim(w) \/ Access!WriteRegister(w)
    PROVE  Rest' /\ Access!OwnerKeptStep
<1> DEFINE r == req[w]
<1>0. /\ Access!Shapes /\ Access!AbsentIsBare /\ Access!RequestsFit /\ Access!Unovertaken
      /\ row \in [Device -> Row] /\ None \notin User /\ account \subseteq User
    BY Access!DeviceAccessConstants
    DEF Access!AccessInv, Access!TypeOK, Access!DeviceAccessConstants, Access!Shapes, Row
<1>1. /\ Access!Commits(w) /\ UNCHANGED <<account, allowance, share, best>>
      /\ late' = IF r.stale THEN late \cup r.on \cup {r.user} ELSE late
    BY <1>0, Committed DEF Access!WriteClaim, Access!WriteRegister
<1>2. /\ r.kind \in {"claim", "update", "insert"} /\ r.user \in User \cup {None}
      /\ r.kind = "claim" => r.user \in User
    BY <1>0 DEF Access!WriteClaim, Access!WriteRegister, Access!RequestsFit
<1>3. ASSUME NEW d \in Device
      PROVE  \/ row'[d].present = row[d].present /\ row'[d].owner = row[d].owner
             \/ /\ d \in r.on /\ row'[d].present
                /\ row'[d].owner = IF r.user = None THEN row[d].owner ELSE r.user
  <2>1. CASE Access!WriteClaim(w)
    <3>1. row'[d] = IF d \in r.on /\ row[d].present THEN [row[d] EXCEPT !.owner = r.user]
                    ELSE row[d]
      BY <2>1 DEF Access!WriteClaim
    <3>2. r.user \in User
      BY <1>2, <2>1 DEF Access!WriteClaim
    <3>3. /\ [row[d] EXCEPT !.owner = r.user].owner = r.user
          /\ [row[d] EXCEPT !.owner = r.user].present = row[d].present
      BY <1>0 DEF Row
    <3>4. QED
      BY <1>0, <3>1, <3>2, <3>3
  <2>2. CASE Access!WriteRegister(w)
    <3>1. row'[d] = IF d \in r.on /\ row[d].present = (r.kind = "update")
                    THEN Access!Registered(d, r.user) ELSE row[d]
      BY <2>2 DEF Access!WriteRegister
    <3>2. /\ Access!Registered(d, r.user).present
          /\ Access!Registered(d, r.user).owner = IF r.user = None THEN row[d].owner ELSE r.user
      BY DEF Access!Registered, Access!Fresh
    <3>3. QED
      BY <3>1, <3>2
  <2>3. QED
    BY <2>1, <2>2
<1>4. ASSUME ~r.stale, r.user # None
      PROVE  \E d \in Device : r.on = {d} /\ Access!MayLink(d, r.user)
    BY <1>0, <1>2, <1>4 DEF Access!Unovertaken, Access!StillTrue, Access!Present
<1>5. Access!OwnerKeptStep
  <2> SUFFICES ASSUME NEW d \in Device, row[d].owner \in account,
                      row'[d].owner \notin {row[d].owner, None}
               PROVE  r.stale /\ d \in r.on
    BY DEF Access!OwnerKeptStep
  <2>1. d \in r.on /\ r.user # None /\ row'[d].owner = r.user
    BY <1>3
  <2>2. ASSUME ~r.stale PROVE FALSE
    <3>1. Access!MayLink(d, r.user)
      BY <1>4, <2>1, <2>2
    <3>2. QED
      BY <2>1, <3>1 DEF Access!MayLink, Access!Takeable
  <2>3. QED
    BY <2>1, <2>2
<1>6. CASE r.user = None
  <2>1. \A d \in Device : row'[d].owner = row[d].owner
                          /\ (row[d].present => row'[d].present)
    BY <1>3, <1>6
  <2>2. Access!AbsentIsBare' /\ Access!SharesFit' /\ \A u \in User : (allowance[u] <= best[u])'
    BY <1>0, <1>1, <2>1 DEF Access!AccessInv, Access!AbsentIsBare, Access!SharesFit, Access!NoShare
  <2>3. Access!AllowanceHeld'
    <3>1. \A d \in Device : row'[d].present /\ row'[d].owner # None =>
                row[d].present /\ row[d].owner = row'[d].owner
      BY <1>0, <2>1 DEF Access!AbsentIsBare
    <3>2. late \subseteq late' /\ best' = best
      BY <1>1
    <3>3. QED
      BY <3>1, <3>2, NoneGained, Access!DeviceAccessConstants
  <2>4. Access!LinksAgree'
    <3> SUFFICES ASSUME NEW d \in Device, row'[d].present, d \notin late'
                 PROVE  /\ row'[d].owner \in account \cup late' \cup {None}
                        /\ \A u \in User : share[d][u] # Access!NoShare =>
                              share[d][u].by \in late' \cup {row'[d].owner}
      BY <1>1 DEF Access!LinksAgree, Access!Present, Access!NoShare
    <3>1. late \subseteq late' /\ d \notin late
      BY <1>1
    <3>2. CASE row[d].present
      BY <2>1, <3>1, <3>2 DEF Access!AccessInv, Access!LinksAgree, Access!Present
    <3>3. CASE ~row[d].present
      BY <1>0, <2>1, <3>3 DEF Access!AbsentIsBare
    <3>4. QED
      BY <3>2, <3>3
  <2>5. QED
    BY <1>5, <2>2, <2>3, <2>4 DEF Rest
<1>7. CASE r.user # None
  <2>1. \A d \in Device :
            \/ row'[d].present = row[d].present /\ row'[d].owner = row[d].owner
            \/ d \in r.on /\ row'[d].present /\ row'[d].owner = r.user
    BY <1>3, <1>7
  <2>2. r.user \in User
    BY <1>2, <1>7
  <2>3. Rest'
    BY <1>1, <1>4, <1>7, <2>1, <2>2, Linked, Access!DeviceAccessConstants
  <2>4. QED
    BY <1>5, <2>3
<1>8. QED
    BY <1>6, <1>7

\* Deletions: the shares go with the device, and with an account its devices,
\* all of them unless the request was overtaken.
LEMMA DeletesStep ==
    ASSUME Access!DeviceAccessConstants, Access!AccessInv, NEW w \in Worker,
           Access!WriteDelete(w) \/ Access!WriteDeleteAccount(w)
    PROVE  Rest' /\ Access!OwnerKeptStep
<1> DEFINE r == req[w]
<1>0. /\ Access!AbsentIsBare /\ Access!RequestsFit /\ Access!Unovertaken /\ Access!LinksAgree
      /\ Access!SharesFit /\ \A u \in User : allowance[u] <= best[u]
      /\ None \notin User /\ account \subseteq User /\ Access!Shapes
    BY Access!DeviceAccessConstants
    DEF Access!AccessInv, Access!TypeOK, Access!DeviceAccessConstants
<1>1. /\ Access!Commits(w) /\ Access!Cascade(r.on) /\ UNCHANGED <<allowance, best>>
      /\ account' = IF r.kind = "delete" THEN account ELSE account \ {r.user}
      /\ r.kind \in {"delete", "delete account"}
    BY DEF Access!WriteDelete, Access!WriteDeleteAccount, Access!Closes
<1>2. late' = IF r.stale THEN late \cup r.on \cup {r.user} ELSE late
    BY <1>0, <1>1, Committed
<1>3. ASSUME NEW d \in Device
      PROVE  /\ d \in r.on => /\ ~row'[d].present /\ row'[d].owner = None
                              /\ share'[d] = [u \in User |-> Access!NoShare]
             /\ d \notin r.on => row'[d] = row[d] /\ share'[d] = share[d]
    BY <1>1 DEF Access!Cascade, Access!Absent
<1>4. Access!AbsentIsBare' /\ Access!SharesFit' /\ \A u \in User : (allowance[u] <= best[u])'
  <2>1. ASSUME NEW d \in Device, ~row'[d].present
        PROVE  row'[d].owner = None /\ share'[d] = [u \in User |-> Access!NoShare]
    <3>1. CASE d \in r.on
      BY <1>3, <3>1
    <3>2. CASE d \notin r.on
      BY <1>0, <1>3, <2>1, <3>2 DEF Access!AbsentIsBare
    <3>3. QED
      BY <3>1, <3>2
  <2>2. Access!AbsentIsBare'
    BY <2>1 DEF Access!AbsentIsBare, Access!NoShare
  <2>3. ASSUME NEW d \in Device, NEW u \in User, share'[d][u] # Access!NoShare
        PROVE  share'[d][u].by \in User
    <3>1. d \notin r.on
      BY <1>3, <2>3
    <3>2. QED
      BY <1>0, <1>3, <2>3, <3>1 DEF Access!SharesFit
  <2>4. Access!SharesFit'
    BY <2>3 DEF Access!SharesFit, Access!NoShare
  <2>5. \A u \in User : (allowance[u] <= best[u])'
    BY <1>0, <1>1
  <2>6. QED
    BY <2>2, <2>4, <2>5
<1>5. Access!AllowanceHeld'
    BY <1>1, <1>2, <1>3, NoneGained, Access!DeviceAccessConstants
<1>6. Access!LinksAgree'
  <2> SUFFICES ASSUME NEW d \in Device, row'[d].present, d \notin late'
               PROVE  /\ row'[d].owner \in account' \cup late' \cup {None}
                      /\ \A u \in User : share'[d][u] # Access!NoShare =>
                            share'[d][u].by \in late' \cup {row'[d].owner}
    BY DEF Access!LinksAgree, Access!Present, Access!NoShare
  <2>1. d \notin r.on /\ row'[d] = row[d] /\ share'[d] = share[d] /\ row[d].present
    BY <1>3
  <2>2. late \subseteq late' /\ d \notin late
    BY <1>2
  <2>3. /\ row[d].owner \in account \cup late \cup {None}
        /\ \A u \in User : share[d][u] # Access!NoShare =>
                share[d][u].by \in late \cup {row[d].owner}
    BY <1>0, <2>1, <2>2 DEF Access!LinksAgree, Access!Present
  <2>4. row[d].owner \in account' \cup late' \cup {None}
    <3>1. CASE r.kind = "delete" \/ row[d].owner # r.user
      BY <1>1, <2>2, <2>3, <3>1
    <3>2. CASE r.stale /\ row[d].owner = r.user
      BY <1>2, <3>2
    <3>3. ASSUME ~r.stale, r.kind = "delete account", row[d].owner = r.user PROVE FALSE
      <4>1. r.on = Access!Owned(r.user)
        BY <1>0, <3>3 DEF Access!Unovertaken, Access!StillTrue
      <4>2. QED
        BY <2>1, <3>3, <4>1 DEF Access!Owned, Access!Present
    <3>4. QED
      BY <1>1, <3>1, <3>2, <3>3
  <2>5. QED
    BY <2>1, <2>2, <2>3, <2>4
<1>7. Access!OwnerKeptStep
    BY <1>3 DEF Access!OwnerKeptStep
<1>8. QED
    BY <1>4, <1>5, <1>6, <1>7 DEF Rest

\* Grants and revocations: a share is its device's owner's, unless the grant
\* was overtaken.
LEMMA SharesStep ==
    ASSUME Access!DeviceAccessConstants, Access!AccessInv, NEW w \in Worker,
           Access!WriteGrant(w) \/ Access!WriteRevoke(w)
    PROVE  Rest' /\ Access!OwnerKeptStep
<1> DEFINE r == req[w]
<1>0. /\ Access!AbsentIsBare /\ Access!RequestsFit /\ Access!Unovertaken /\ Access!LinksAgree
      /\ Access!SharesFit /\ \A u \in User : allowance[u] <= best[u]
      /\ None \notin User /\ account \subseteq User /\ Access!Shapes
      /\ share \in [Device -> [User -> [by: User \cup {None}, id: Nat]]]
    BY Access!DeviceAccessConstants
    DEF Access!AccessInv, Access!TypeOK, Access!DeviceAccessConstants, Access!Shapes
<1>1. Access!Commits(w) /\ UNCHANGED <<account, allowance, row, best>>
      /\ r.kind \in {"grant", "revoke"} /\ r.to \in User
    BY <1>0 DEF Access!WriteGrant, Access!WriteRevoke, Access!RequestsFit
<1>2. late' = IF r.stale THEN late \cup r.on \cup {r.user} ELSE late
    BY <1>0, <1>1, Committed
<1>3. ASSUME NEW d \in Device, NEW u \in User
      PROVE  \/ share'[d][u] \in {share[d][u], Access!NoShare}
             \/ /\ r.kind = "grant" /\ d \in r.on /\ row[d].present
                /\ share'[d][u].by = r.user
  <2>1. CASE Access!WriteGrant(w)
    <3>1. share' = [e \in Device |-> IF e \in r.on /\ row[e].present
              THEN [share[e] EXCEPT ![r.to] = [by |-> r.user, id |-> grants']] ELSE share[e]]
      BY <2>1 DEF Access!WriteGrant
    <3>2. r.kind = "grant"
      BY <2>1 DEF Access!WriteGrant
    <3>3. QED
      BY <1>0, <3>1, <3>2
  <2>2. CASE Access!WriteRevoke(w)
    <3>1. share' = [e \in Device |-> IF e \in r.on /\ share[e][r.to].id = r.share
              THEN [share[e] EXCEPT ![r.to] = Access!NoShare] ELSE share[e]]
      BY <2>2 DEF Access!WriteRevoke
    <3>2. QED
      BY <1>0, <3>1
  <2>3. QED
    BY <2>1, <2>2
<1>4. ASSUME r.kind = "grant"
      PROVE  r.user \in User /\ (~r.stale => \A d \in r.on : row[d].owner = r.user)
    BY <1>0, <1>4 DEF Access!RequestsFit, Access!Unovertaken, Access!StillTrue
<1>5. Access!SharesFit'
    BY <1>0, <1>3, <1>4 DEF Access!SharesFit, Access!NoShare
<1>6. Access!AbsentIsBare'
  <2> SUFFICES ASSUME NEW d \in Device, ~row[d].present
               PROVE  share'[d] = [u \in User |-> Access!NoShare] /\ row[d].owner = None
    BY <1>1 DEF Access!AbsentIsBare, Access!NoShare
  <2>1. share[d] = [u \in User |-> Access!NoShare] /\ row[d].owner = None
    BY <1>0 DEF Access!AbsentIsBare
  <2>2. \A u \in User : share'[d][u] = Access!NoShare
    BY <1>3, <2>1
  <2>3. share' \in [Device -> [User -> [by: User \cup {None}, id: Nat]]]
    BY AccessTypes, Access!DeviceAccessConstants DEF Access!Next, Access!Shapes
  <2>4. QED
    BY <2>1, <2>2, <2>3
<1>7. Access!AllowanceHeld'
    BY <1>1, <1>2, NoneGained, Access!DeviceAccessConstants
<1>8. Access!LinksAgree'
  <2> SUFFICES ASSUME NEW d \in Device, row[d].present, d \notin late'
               PROVE  /\ row[d].owner \in account \cup late' \cup {None}
                      /\ \A u \in User : share'[d][u] # Access!NoShare =>
                            share'[d][u].by \in late' \cup {row[d].owner}
    BY <1>1 DEF Access!LinksAgree, Access!Present, Access!NoShare
  <2>1. late \subseteq late' /\ d \notin late /\ (r.stale => d \notin r.on)
    BY <1>2
  <2>2. /\ row[d].owner \in account \cup late \cup {None}
        /\ \A u \in User : share[d][u] # Access!NoShare =>
                share[d][u].by \in late \cup {row[d].owner}
    BY <1>0, <2>1 DEF Access!LinksAgree, Access!Present
  <2>3. QED
    BY <1>3, <1>4, <2>1, <2>2
<1>9. Access!OwnerKeptStep
    BY <1>1 DEF Access!OwnerKeptStep
<1>10. QED
    BY <1>0, <1>1, <1>5, <1>6, <1>7, <1>8, <1>9 DEF Rest

\* Everything else leaves owners, accounts, shares and requests as they are; a
\* plan only adds to the best one the account had.
LEMMA QuietStep ==
    ASSUME Access!DeviceAccessConstants, Access!AccessInv,
           \A d \in Device : row'[d].present = row[d].present /\ row'[d].owner = row[d].owner,
           \A u \in User : best[u] <= best'[u] /\ allowance'[u] <= best'[u],
           best' \in [User -> Allowances],
           UNCHANGED <<account, share, late>>
    PROVE  /\ Rest' /\ Access!OwnerKeptStep
           /\ \A u : Access!Owned(u)' = Access!Owned(u)
<1>1. \A u : Access!Owned(u)' = Access!Owned(u)
    BY DEF Access!Owned, Access!Present
<1>2. Access!AbsentIsBare' /\ Access!SharesFit' /\ Access!LinksAgree'
    BY DEF Access!AccessInv, Access!AbsentIsBare, Access!SharesFit, Access!LinksAgree,
       Access!Present, Access!NoShare
<1>3. Access!AllowanceHeld'
  <2> SUFFICES ASSUME NEW u \in User, u \notin late
               PROVE  Access!Cardinality(Access!Owned(u)') <= best'[u]
    BY DEF Access!AllowanceHeld
  <2>1. Access!Owned(u) \in SUBSET Device
    BY DEF Access!Owned, Access!Present
  <2>2. Access!Cardinality(Access!Owned(u)) <= best[u]
        /\ Access!Cardinality(Access!Owned(u)) \in Nat
    BY <2>1, DeviceNumbers, Access!DeviceAccessConstants DEF Access!AccessInv, Access!AllowanceHeld
  <2>3. best[u] \in Nat /\ best'[u] \in Nat /\ best[u] <= best'[u]
    BY Access!DeviceAccessConstants
    DEF Access!AccessInv, Access!TypeOK, Access!DeviceAccessConstants
  <2>4. QED
    BY <1>1, <2>2, <2>3
<1>4. QED
    BY <1>1, <1>2, <1>3 DEF Rest, Access!OwnerKeptStep

\* What a request has read stays true through a step that changes neither
\* owners nor accounts.
LEMMA StaysTrue ==
    ASSUME Access!DeviceAccessConstants, Access!AccessInv, NEW r \in Request,
           Access!StillTrue(r),
           \A d \in Device : row'[d].present = row[d].present /\ row'[d].owner = row[d].owner,
           \A u \in User : best[u] <= best'[u],
           best' \in [User -> Allowances],
           \A u : Access!Owned(u)' = Access!Owned(u),
           UNCHANGED account
    PROVE  Access!StillTrue(r)'
<1>1. Access!Present' = Access!Present
    BY DEF Access!Present
<1>2. ASSUME NEW d \in Device, Access!MayLink(d, r.user) PROVE Access!MayLink(d, r.user)'
  <2>1. r.user \in account /\ r.user \in User
    BY <1>2 DEF Access!MayLink, Access!AccessInv, Access!TypeOK
  <2>2. Access!Owned(r.user) \in SUBSET Device
    BY DEF Access!Owned, Access!Present
  <2>3. Access!Cardinality(Access!Owned(r.user)) \in Nat
    BY <2>2, DeviceNumbers, Access!DeviceAccessConstants
  <2>4. /\ best[r.user] \in Nat /\ best'[r.user] \in Nat
        /\ best[r.user] <= best'[r.user]
    BY <2>1, Access!DeviceAccessConstants
    DEF Access!AccessInv, Access!TypeOK, Access!DeviceAccessConstants
  <2>5. Access!Takeable(d, r.user) /\ Access!Takeable(d, r.user)'
    BY <1>2 DEF Access!MayLink, Access!Takeable
  <2>6. ASSUME row'[d].owner # r.user \/ ~row'[d].present
        PROVE  Access!Cardinality(Access!Owned(r.user)') < best'[r.user]
    <3>1. Access!Cardinality(Access!Owned(r.user)) < best[r.user]
      BY <1>2, <2>6 DEF Access!MayLink
    <3>2. QED
      BY <2>3, <2>4, <3>1
  <2>7. QED
    BY <2>1, <2>5, <2>6 DEF Access!MayLink
<1>3. r.kind = "claim" => \E d \in Access!Present' : r.on = {d} /\ Access!MayLink(d, r.user)'
    BY <1>1, <1>2 DEF Access!StillTrue, Access!Present
<1>4. r.kind = "update" /\ r.user # None =>
            \E d \in Access!Present' : r.on = {d} /\ Access!MayLink(d, r.user)'
    BY <1>1, <1>2 DEF Access!StillTrue, Access!Present
<1>5. r.kind = "insert" /\ r.user # None =>
            \E d \in Device \ Access!Present' : r.on = {d} /\ Access!MayLink(d, r.user)'
    BY <1>1, <1>2 DEF Access!StillTrue
<1>6. r.kind = "delete account" => r.on = Access!Owned(r.user)'
    BY DEF Access!StillTrue
<1>7. r.kind = "grant" => \A d \in r.on : row'[d].owner = r.user
  <2>1. r.on \subseteq Device
    BY DEF Request
  <2>2. r.kind = "grant" => \A d \in r.on : row[d].owner = r.user
    BY DEF Access!StillTrue
  <2>3. QED
    BY <2>1, <2>2
<1>8. QED
    BY <1>3, <1>4, <1>5, <1>6, <1>7 DEF Access!StillTrue

\* Every step keeps the invariant, and takes a device from an account that
\* exists only by a request that was overtaken.
LEMMA AccessStep ==
    ASSUME Access!DeviceAccessConstants, Access!AccessInv, [Access!Next]_Access!vars
    PROVE  Access!AccessInv' /\ Access!OwnerKeptStep
<1> DEFINE Goal == Rest' /\ Access!RequestsFit' /\ Access!Unovertaken' /\ Access!OwnerKeptStep
<1>0. /\ Access!TypeOK /\ Access!Shapes /\ Access!RequestsFit /\ Access!Unovertaken
      /\ req \in [Worker -> Request] /\ best \in [User -> Allowances]
      /\ row \in [Device -> Row] /\ \A u \in User : allowance[u] <= best[u]
    BY DEF Access!AccessInv, Access!Shapes, Access!TypeOK, Row, Request
<1>1. Access!TypeOK' /\ Access!Shapes'
    BY AccessTypes, Access!DeviceAccessConstants
<1>2. best' \in [User -> Allowances]
    BY <1>1 DEF Access!TypeOK
<1>3. \A u \in User : best[u] <= best[u]
  <2>1. \A u \in User : best[u] \in Nat
    BY <1>0, Access!DeviceAccessConstants DEF Access!DeviceAccessConstants
  <2>2. QED
    BY <2>1
<1> HIDE DEF Goal
<1>4. ASSUME NEW w \in Worker, Decision(w) PROVE Goal
  <2>1. /\ \A v \in Worker \ {w} : req'[v] = req[v]
        /\ Fits(req'[w]) /\ Access!StillTrue(req'[w])
        /\ UNCHANGED <<account, allowance, row, share, grants, best, late>>
    BY <1>4 DEF Decision
  <2>2. Rest' /\ Access!OwnerKeptStep /\ \A u : Access!Owned(u)' = Access!Owned(u)
    BY <1>0, <1>2, <1>3, <2>1, QuietStep, Access!DeviceAccessConstants
  <2>3. Access!RequestsFit'
    <3>1. ASSUME NEW v \in Worker PROVE Fits(req'[v])
      BY <1>0, <2>1 DEF Fits, Access!RequestsFit
    <3>2. QED
      BY <3>1 DEF Fits, Access!RequestsFit
  <2>4. ASSUME NEW v \in Worker, ~req'[v].stale PROVE Access!StillTrue(req'[v])
    BY <1>0, <2>1, <2>4 DEF Access!Unovertaken
  <2>5. req' \in [Worker -> Request]
    BY <1>4 DEF Decision
  <2>6. Access!Unovertaken'
    <3>1. ASSUME NEW r \in Request, Access!StillTrue(r) PROVE Access!StillTrue(r)'
      BY <1>2, <1>3, <2>1, <2>2, <3>1, StaysTrue, Access!DeviceAccessConstants
    <3>2. ASSUME NEW v \in Worker, ~req'[v].stale PROVE Access!StillTrue(req[v])'
      <4>1. PICK r \in Request : r = req'[v]
        BY <2>5
      <4>2. Access!StillTrue(r)'
        BY <2>4, <3>1, <3>2, <4>1
      <4>3. QED
        BY <4>1, <4>2 DEF Access!StillTrue
    <3>3. QED
      BY <3>2 DEF Access!Unovertaken
  <2>7. QED
    BY <2>2, <2>3, <2>6 DEF Goal
<1>5. ASSUME NEW w \in Worker, Access!Commits(w), Rest' /\ Access!OwnerKeptStep PROVE Goal
    BY <1>5, Overtaken DEF Goal
<1>6. ASSUME NEW w \in Worker, Access!WriteClaim(w) \/ Access!WriteRegister(w) PROVE Goal
    BY <1>5, <1>6, LinksStep, Access!DeviceAccessConstants
    DEF Access!WriteClaim, Access!WriteRegister
<1>7. ASSUME NEW w \in Worker, Access!WriteDelete(w) \/ Access!WriteDeleteAccount(w) PROVE Goal
    BY <1>5, <1>7, DeletesStep, Access!DeviceAccessConstants
    DEF Access!WriteDelete, Access!WriteDeleteAccount
<1>8. ASSUME NEW w \in Worker, Access!WriteGrant(w) \/ Access!WriteRevoke(w) PROVE Goal
    BY <1>5, <1>8, SharesStep, Access!DeviceAccessConstants
    DEF Access!WriteGrant, Access!WriteRevoke
<1>9. ASSUME \A d \in Device : row'[d].present = row[d].present /\ row'[d].owner = row[d].owner,
             \A u \in User : best[u] <= best'[u] /\ allowance'[u] <= best'[u],
             UNCHANGED <<account, share, req, late>>
      PROVE  Goal
  <2>1. Rest' /\ Access!OwnerKeptStep /\ \A u : Access!Owned(u)' = Access!Owned(u)
    BY <1>2, <1>9, QuietStep, Access!DeviceAccessConstants
  <2>2. Access!RequestsFit'
    BY <1>0, <1>9 DEF Access!RequestsFit
  <2>3. ASSUME NEW r \in Request, Access!StillTrue(r) PROVE Access!StillTrue(r)'
    BY <1>2, <1>9, <2>1, <2>3, StaysTrue, Access!DeviceAccessConstants
  <2>4. ASSUME NEW v \in Worker, ~req'[v].stale PROVE Access!StillTrue(req[v])'
    <3>1. PICK r \in Request : r = req[v]
      BY <1>0
    <3>2. Access!StillTrue(r)'
      BY <1>0, <1>9, <2>3, <2>4, <3>1 DEF Access!Unovertaken
    <3>3. QED
      BY <1>9, <3>1, <3>2 DEF Access!StillTrue
  <2>5. Access!Unovertaken'
    BY <2>4 DEF Access!Unovertaken
  <2>6. QED
    BY <2>1, <2>2, <2>5 DEF Goal
<1>10. ASSUME NEW d \in Device, Access!Silence(d) \/ Access!Report(d) PROVE Goal
  <2>1. UNCHANGED <<account, allowance, share, req, best, late>>
    BY <1>10 DEF Access!Silence, Access!Report
  <2>2. \A e \in Device : row'[e].present = row[e].present /\ row'[e].owner = row[e].owner
    <3>1. CASE Access!Silence(d)
      <4>1. row' = [row EXCEPT ![d] = [row[d] EXCEPT !.silent = TRUE, !.archived = row[d].silent]]
        BY <1>0, <3>1 DEF Access!Silence, Row
      <4>2. \A r \in Row, b \in BOOLEAN :
                [r EXCEPT !.silent = TRUE, !.archived = b].present = r.present
                /\ [r EXCEPT !.silent = TRUE, !.archived = b].owner = r.owner
        BY DEF Row
      <4>3. row[d] \in Row /\ row[d].silent \in BOOLEAN
        BY <1>0 DEF Row
      <4>4. QED
        BY <1>0, <4>1, <4>2, <4>3
    <3>2. CASE Access!Report(d)
      <4>1. row' = [row EXCEPT ![d] = Access!Fresh(row[d].owner)] /\ row[d].present
        BY <3>2 DEF Access!Report, Access!Present
      <4>2. Access!Fresh(row[d].owner).present /\ Access!Fresh(row[d].owner).owner = row[d].owner
        BY DEF Access!Fresh
      <4>3. row[d].present = TRUE
        BY <1>0, <4>1 DEF Row
      <4>4. QED
        BY <1>0, <4>1, <4>2, <4>3 DEF Access!Fresh
    <3>3. QED
      BY <1>10, <3>1, <3>2
  <2>3. QED
    BY <1>0, <1>3, <1>9, <2>1, <2>2
<1>11. ASSUME NEW u \in User, NEW n \in Allowances, Access!SetPlan(u, n) PROVE Goal
  <2>1. /\ allowance' = [allowance EXCEPT ![u] = n]
        /\ best' = [best EXCEPT ![u] = IF n > best[u] THEN n ELSE best[u]]
        /\ UNCHANGED <<account, row, share, req, late>>
    BY <1>11 DEF Access!SetPlan
  <2>2. \A v \in User : best[v] \in Nat /\ allowance[v] \in Nat /\ n \in Nat
    BY <1>0, Access!DeviceAccessConstants DEF Access!DeviceAccessConstants, Access!TypeOK
  <2>3. \A v \in User : best[v] <= best'[v] /\ allowance'[v] <= best'[v]
    BY <1>0, <2>1, <2>2 DEF Access!TypeOK
  <2>4. QED
    BY <1>9, <2>1, <2>3
<1>12. ASSUME UNCHANGED Access!vars PROVE Goal
  <2>1. UNCHANGED <<account, allowance, row, share, req, best, late>>
    BY <1>12 DEF Access!vars
  <2>2. QED
    BY <1>0, <1>3, <1>9, <2>1
<1>13. Goal
    BY <1>4, <1>6, <1>7, <1>8, <1>10, <1>11, <1>12, Looks, Access!DeviceAccessConstants
    DEF Access!Next
<1>14. QED
    BY <1>1, <1>13 DEF Goal, Rest, Access!AccessInv

\* The invariant of owners and shares holds.
LEMMA AccessInvHolds ==
    ASSUME Access!DeviceAccessConstants PROVE Access!Spec => []Access!AccessInv
<1>1. ASSUME Access!Init PROVE Access!AccessInv
  <2>0. /\ None \notin User /\ \A d \in Device : Phone[d] # None
        /\ Allowances \subseteq Nat /\ Access!IsFiniteSet(Device)
    BY Access!DeviceAccessConstants DEF Access!DeviceAccessConstants
  <2>1. /\ account = User /\ allowance \in [User -> Allowances] /\ best = allowance
        /\ row = [d \in Device |-> Access!Absent] /\ grants = 0 /\ late = {}
        /\ share = [d \in Device |-> [u \in User |-> Access!NoShare]]
        /\ req = [w \in Worker |-> Access!NoRequest]
    BY <1>1 DEF Access!Init
  <2>2. Access!Absent.owner = None /\ ~Access!Absent.present /\ ~Access!Absent.archived
    BY DEF Access!Absent
  <2>3. Access!TypeOK
    BY <2>0, <2>1, <2>2 DEF Access!TypeOK
  <2>4. Access!Shapes
    <3>1. row \in [Device -> [owner: User \cup {None}, present: BOOLEAN, silent: BOOLEAN,
                              archived: BOOLEAN]]
      BY <2>1 DEF Access!Absent
    <3>2. share \in [Device -> [User -> [by: User \cup {None}, id: Nat]]]
      BY <2>1 DEF Access!NoShare
    <3>3. req \in [Worker -> Request]
      BY <2>1 DEF Access!NoRequest, Request
    <3>4. QED
      BY <2>1, <3>1, <3>2, <3>3 DEF Access!Shapes, Request
  <2>5. Access!AbsentIsBare /\ Access!SharesFit
    BY <2>1, <2>2 DEF Access!AbsentIsBare, Access!SharesFit
  <2>6. Access!RequestsFit /\ Access!Unovertaken
    BY <2>1 DEF Access!RequestsFit, Access!Unovertaken, Access!StillTrue, Access!NoRequest
  <2>7. \A u \in User : allowance[u] \in Nat /\ best[u] = allowance[u] /\ allowance[u] <= best[u]
    <3>1. \A u \in User : allowance[u] \in Nat
      BY <2>0, <2>1
    <3>2. QED
      BY <2>1, <3>1
  <2>8. Access!Present = {}
    BY <2>1, <2>2 DEF Access!Present
  <2>9. Access!LinksAgree
    BY <2>8 DEF Access!LinksAgree
  <2>10. Access!AllowanceHeld
    <3>1. \A u \in User : Access!Owned(u) = {}
      BY <2>8 DEF Access!Owned
    <3>2. Access!Cardinality({}) = 0
      BY SameSets, FS_EmptySet
    <3>3. QED
      BY <2>7, <3>1, <3>2 DEF Access!AllowanceHeld
  <2>11. QED
    BY <2>3, <2>4, <2>5, <2>6, <2>7, <2>9, <2>10 DEF Access!AccessInv
<1>2. Access!AccessInv /\ [Access!Next]_Access!vars => Access!AccessInv'
    BY AccessStep, Access!DeviceAccessConstants
<1>3. QED
    BY <1>1, <1>2, PTL DEF Access!Spec

\* A device passes from an account that exists to another one only by a request
\* that was overtaken between its reading and its writing; an account that no
\* overtaken request wrote owns no more devices than its plans allowed; and the
\* shares of a device no overtaken request wrote are its present owner's.  For any
\* number of workers, accounts and devices (register_device, claim_device,
\* delete_device_cascade, _enforce_device_limit).
THEOREM OwnerKeptHolds ==
    ASSUME Access!DeviceAccessConstants
    PROVE  Access!Spec =>
             /\ Access!OwnerKept
             /\ [](Access!TypeOK /\ Access!AllowanceHeld /\ Access!LinksAgree)
<1>1. Access!Spec => []Access!AccessInv
    BY AccessInvHolds, Access!DeviceAccessConstants
<1>2. Access!AccessInv /\ [Access!Next]_Access!vars => [Access!OwnerKeptStep]_Access!vars
    BY AccessStep, Access!DeviceAccessConstants
<1>3. Access!AccessInv => Access!TypeOK /\ Access!AllowanceHeld /\ Access!LinksAgree
    BY DEF Access!AccessInv
<1>4. QED
    BY <1>1, <1>2, <1>3, PTL DEF Access!Spec, Access!OwnerKept

-----------------------------------------------------------------------------
(* Accounts: links and tokens that serve once, codes that are spaced *)

LinkKinds == {"reset", "verify", "refresh"}
States == {"none", "live", "used", "expired"}

\* The two halves of the invariant: what it says of links and of the second factor.
LinksPart == SignIn!HonouredOnce /\ SignIn!Marked /\ SignIn!LinksRead
FactorPart == SignIn!EnabledIsProved /\ SignIn!FactorRead /\ SignIn!CodesKept /\ SignIn!CodeSpaced

\* The request of worker v is as it was, gone, or overtaken.
Past(v) ==
    \/ asked'[v] = asked[v]
    \/ asked'[v] = SignIn!NoRequest
    \/ /\ asked'[v].stale /\ asked'[v].kind = asked[v].kind /\ asked'[v].on = asked[v].on

\* Credentials are not unsent, and a mark stays.
Onward(before, after) ==
    /\ after \in [SignIn!Credential -> States]
    /\ \A c \in SignIn!Credential : /\ before[c] # "none" => after[c] # "none"
                                    /\ before[c] = "used" => after[c] = "used"

\* A request that decides is well formed, and the others stay as they are.
LEMMA AskedDecided ==
    ASSUME SignIn!Shapes, NEW w \in Worker, NEW r \in SignIn!Requests, SignIn!Decides(w, r)
    PROVE  /\ asked' \in [Worker -> SignIn!Requests] /\ asked'[w] = r
           /\ \A v \in Worker \ {w} : asked'[v] = asked[v]
BY DEF SignIn!Shapes, SignIn!Decides

\* A commit leaves no request beside it that is not overtaken.
LEMMA AskedCommitted ==
    ASSUME SignIn!Shapes, NEW w \in Worker, NEW r \in SignIn!Requests, SignIn!CommitsAs(w, r)
    PROVE  /\ asked' \in [Worker -> SignIn!Requests] /\ asked'[w] = r
           /\ \A v \in Worker \ {w} :
                \/ asked'[v] = SignIn!NoRequest
                \/ /\ asked'[v].stale /\ asked'[v].kind = asked[v].kind
                   /\ asked'[v].on = asked[v].on
<1>1. asked' = [v \in Worker |-> IF v = w THEN r
                             ELSE IF asked[v] = SignIn!NoRequest THEN SignIn!NoRequest
                             ELSE [asked[v] EXCEPT !.stale = TRUE]]
    BY DEF SignIn!CommitsAs
<1>2. ASSUME NEW q \in SignIn!Requests
      PROVE  /\ [q EXCEPT !.stale = TRUE] \in SignIn!Requests
             /\ [q EXCEPT !.stale = TRUE].stale
             /\ [q EXCEPT !.stale = TRUE].kind = q.kind /\ [q EXCEPT !.stale = TRUE].on = q.on
    BY DEF SignIn!Requests, SignIn!Fields
<1>3. SignIn!NoRequest \in SignIn!Requests \/ \A v \in Worker : asked[v] # SignIn!NoRequest
    BY DEF SignIn!Shapes
<1>4. ASSUME NEW v \in Worker \ {w}
      PROVE  /\ asked'[v] \in SignIn!Requests
             /\ \/ asked'[v] = SignIn!NoRequest
                \/ /\ asked'[v].stale /\ asked'[v].kind = asked[v].kind
                   /\ asked'[v].on = asked[v].on
  <2>1. asked[v] \in SignIn!Requests
    BY DEF SignIn!Shapes
  <2>2. CASE asked[v] = SignIn!NoRequest
    BY <1>1, <1>3, <2>2
  <2>3. CASE asked[v] # SignIn!NoRequest
    BY <1>1, <1>2, <2>1, <2>3
  <2>4. QED
    BY <2>2, <2>3
<1>5. asked'[w] = r /\ DOMAIN asked' = Worker
    BY <1>1
<1>6. asked' \in [Worker -> SignIn!Requests]
    BY <1>1, <1>4, <1>5
<1>7. QED
    BY <1>4, <1>5, <1>6

\* A new refresh token takes nothing away.
LEMMA Issued ==
    ASSUME NEW before \in [SignIn!Credential -> States], SignIn!Issue(before)
    PROVE  Onward(before, cred')
<1>1. CASE cred' = before
    BY <1>1 DEF Onward
<1>2. ASSUME NEW t \in Token, before[t] = "none", cred' = [before EXCEPT ![t] = "live"]
      PROVE  Onward(before, cred')
    BY <1>2 DEF Onward, States
<1>3. QED
    BY <1>1, <1>2 DEF SignIn!Issue

\* Steps that honour nothing.
LEMMA LinksQuiet ==
    ASSUME SignIn!AccountsInv, Onward(cred, cred'), uses' = uses,
           \A v \in Worker :
                \/ Past(v) \/ asked'[v].kind \notin LinkKinds
                \/ /\ asked'[v].on \in SignIn!Credential /\ cred[asked'[v].on] = "live"
                   /\ asked'[v].kind = "verify" => asked'[v].on \in VerifyLink
    PROVE  LinksPart'
<1>0. /\ SignIn!HonouredOnce /\ SignIn!Marked /\ SignIn!LinksRead
      /\ uses \in [SignIn!Credential -> Nat]
    BY DEF SignIn!AccountsInv, SignIn!Shapes
<1>1. SignIn!HonouredOnce' /\ SignIn!Marked'
    BY <1>0 DEF SignIn!HonouredOnce, SignIn!Marked, Onward, SignIn!Credential
<1>2. ASSUME NEW v \in Worker, asked'[v].kind \in LinkKinds
      PROVE  /\ asked'[v].on \in SignIn!Credential /\ cred'[asked'[v].on] # "none"
             /\ asked'[v].kind = "verify" => asked'[v].on \in VerifyLink
             /\ ~asked'[v].stale => uses[asked'[v].on] = 0
  <2>1. CASE Past(v)
    <3>1. asked'[v] # SignIn!NoRequest
      BY <1>2 DEF SignIn!NoRequest, LinkKinds
    <3>2. /\ asked[v].kind = asked'[v].kind /\ asked[v].on = asked'[v].on
          /\ ~asked'[v].stale => ~asked[v].stale
      BY <2>1, <3>1 DEF Past
    <3>3. QED
      BY <1>0, <1>2, <3>2 DEF SignIn!LinksRead, LinkKinds, Onward
  <2>2. CASE asked'[v].on \in SignIn!Credential /\ cred[asked'[v].on] = "live"
             /\ (asked'[v].kind = "verify" => asked'[v].on \in VerifyLink)
    BY <1>0, <2>2 DEF SignIn!HonouredOnce, SignIn!Marked, Onward
  <2>3. QED
    BY <1>2, <2>1, <2>2
<1>3. SignIn!LinksRead'
    BY <1>2 DEF SignIn!LinksRead, LinkKinds, SignIn!Credential
<1>4. QED
    BY <1>1, <1>3 DEF LinksPart

\* A request that honours what it read of: it counts unless it was overtaken.
LEMMA LinksHonoured ==
    ASSUME SignIn!AccountsInv, NEW w \in Worker, asked[w].kind \in LinkKinds,
           Onward(cred, cred'), cred'[asked[w].on] = "used", SignIn!Counted(w, asked[w].on),
           asked'[w].kind \notin LinkKinds,
           \A v \in Worker \ {w} :
                \/ asked'[v] = SignIn!NoRequest
                \/ /\ asked'[v].stale /\ asked'[v].kind = asked[v].kind
                   /\ asked'[v].on = asked[v].on
    PROVE  LinksPart' /\ uses' \in [SignIn!Credential -> Nat]
<1>0. /\ SignIn!HonouredOnce /\ SignIn!Marked /\ SignIn!LinksRead
      /\ uses \in [SignIn!Credential -> Nat]
    BY DEF SignIn!AccountsInv, SignIn!Shapes
<1> DEFINE c == asked[w].on
<1>1. c \in SignIn!Credential /\ (~asked[w].stale => uses[c] = 0)
    BY <1>0 DEF SignIn!LinksRead, LinkKinds
<1>2. uses' = IF asked[w].stale THEN uses ELSE [uses EXCEPT ![c] = uses[c] + 1]
    BY DEF SignIn!Counted
<1>3. /\ uses' \in [SignIn!Credential -> Nat]
      /\ \A d \in SignIn!Credential : uses'[d] = uses[d] \/ (d = c /\ uses'[d] = 1)
    BY <1>0, <1>1, <1>2
<1>4. SignIn!HonouredOnce' /\ SignIn!Marked'
  <2>1. \A d \in SignIn!Credential : uses'[d] <= 1 /\ (uses'[d] = 1 => cred'[d] = "used")
    BY <1>0, <1>3 DEF SignIn!HonouredOnce, SignIn!Marked, Onward
  <2>2. QED
    BY <2>1 DEF SignIn!HonouredOnce, SignIn!Marked, SignIn!Credential
<1>5. ASSUME NEW v \in Worker, asked'[v].kind \in LinkKinds
      PROVE  /\ asked'[v].on \in SignIn!Credential /\ cred'[asked'[v].on] # "none"
             /\ asked'[v].kind = "verify" => asked'[v].on \in VerifyLink
             /\ asked'[v].stale
  <2>1. v # w /\ asked'[v] # SignIn!NoRequest
    BY <1>5 DEF SignIn!NoRequest, LinkKinds
  <2>2. /\ asked'[v].stale /\ asked'[v].kind = asked[v].kind
        /\ asked'[v].on = asked[v].on
    BY <2>1
  <2>3. QED
    BY <1>0, <1>5, <2>2 DEF SignIn!LinksRead, LinkKinds, Onward
<1>6. SignIn!LinksRead'
    BY <1>5 DEF SignIn!LinksRead, LinkKinds, SignIn!Credential
<1>7. QED
    BY <1>3, <1>4, <1>6 DEF LinksPart

\* Steps that leave the second factor alone, or only read it.
LEMMA FactorQuiet ==
    ASSUME SignIn!AccountsInv,
           UNCHANGED <<secret, setups, enabled, last, accepted, proved, raced>>,
           \A v \in Worker :
                \/ Past(v) \/ asked'[v].kind \notin {"enable", "code"}
                \/ /\ secret # 0 /\ asked'[v].secret = secret
                   /\ asked'[v].kind = "code" =>
                        asked'[v].at >= 1 /\ (last = 0 \/ last < asked'[v].at - 1)
    PROVE  FactorPart'
<1>0. SignIn!EnabledIsProved /\ SignIn!FactorRead /\ SignIn!CodesKept /\ SignIn!CodeSpaced
    BY DEF SignIn!AccountsInv
<1>1. SignIn!EnabledIsProved' /\ SignIn!CodesKept' /\ SignIn!CodeSpaced'
    BY <1>0 DEF SignIn!EnabledIsProved, SignIn!CodesKept, SignIn!CodeSpaced
<1>2. ASSUME NEW v \in Worker, ~asked'[v].stale
      PROVE  /\ asked'[v].kind \in {"enable", "code"} =>
                    secret # 0 /\ asked'[v].secret = secret
             /\ asked'[v].kind = "code" =>
                    asked'[v].at >= 1 /\ (last = 0 \/ last < asked'[v].at - 1)
  <2>1. CASE asked'[v] = asked[v]
    BY <1>0, <1>2, <2>1 DEF SignIn!FactorRead
  <2>2. CASE asked'[v].kind \notin {"enable", "code"}
    BY <2>2
  <2>3. SignIn!NoRequest.kind = "none"
    BY DEF SignIn!NoRequest
  <2>4. QED
    BY <1>2, <2>1, <2>2, <2>3 DEF Past
<1>3. SignIn!FactorRead'
    BY <1>2 DEF SignIn!FactorRead
<1>4. QED
    BY <1>1, <1>3 DEF FactorPart

\* Every step keeps both halves, and the types.
LEMMA AccountsStep ==
    ASSUME SignIn!AccountsConstants, SignIn!AccountsInv, [SignIn!Next]_SignIn!vars
    PROVE  SignIn!AccountsInv'
<1> DEFINE Typed == SignIn!TypeOK' /\ SignIn!Shapes'
           Goal == Typed /\ LinksPart' /\ FactorPart'
           FactorStays ==
               UNCHANGED <<period, secret, setups, enabled, last, accepted, proved, raced>>
<1>0. /\ SignIn!TypeOK /\ SignIn!Shapes
      /\ asked \in [Worker -> SignIn!Requests] /\ uses \in [SignIn!Credential -> Nat]
      /\ cred \in [SignIn!Credential -> States] /\ accepted \in Seq(SignIn!Requests)
      /\ period \in 1..MaxPeriod /\ last \in 0..MaxPeriod
      /\ secret \in 0..MaxSecrets /\ setups \in 0..MaxSecrets /\ proved \subseteq 1..MaxSecrets
      /\ MaxSecrets \in Nat /\ MaxPeriod \in Nat
      /\ \A i \in DOMAIN accepted : accepted[i].kind = "code"
      /\ SignIn!LinksRead /\ SignIn!FactorRead /\ SignIn!CodesKept /\ SignIn!CodeSpaced
      /\ SignIn!EnabledIsProved
    BY SignIn!AccountsConstants
    DEF SignIn!AccountsInv, SignIn!Shapes, SignIn!TypeOK, SignIn!AccountsConstants, States
<1>a. ASSUME cred' \in [SignIn!Credential -> States], uses' \in [SignIn!Credential -> Nat],
             asked' \in [Worker -> SignIn!Requests], accepted' \in Seq(SignIn!Requests),
             period' \in 1..MaxPeriod, last' \in 0..MaxPeriod,
             secret' \in 0..MaxSecrets, setups' \in 0..MaxSecrets, proved' \subseteq 1..MaxSecrets,
             \A i \in DOMAIN accepted' : accepted'[i].kind = "code"
      PROVE  Typed
  <2>1. SignIn!Shapes'
    BY <1>a DEF SignIn!Shapes, SignIn!Requests, SignIn!Fields, SignIn!Credential, SignIn!Kinds
  <2>2. SignIn!TypeOK'
    BY <1>a DEF SignIn!TypeOK, States, SignIn!Credential
  <2>3. QED
    BY <2>1, <2>2
<1>b. SignIn!NoRequest \in SignIn!Requests /\ SignIn!NoRequest.kind = "none"
    BY <1>0 DEF SignIn!NoRequest, SignIn!Requests, SignIn!Fields, SignIn!Kinds
<1>c. ASSUME NEW kind \in SignIn!Kinds, NEW on \in SignIn!Credential \cup {"none"},
             NEW k \in 0..MaxSecrets, NEW s \in Nat,
             kind \in {"enable", "code"} => k # 0
      PROVE  /\ SignIn!Request(kind, on, k, s) \in SignIn!Requests
             /\ SignIn!Request(kind, on, k, s).kind = kind
             /\ SignIn!Request(kind, on, k, s).on = on
             /\ SignIn!Request(kind, on, k, s).secret = k
             /\ SignIn!Request(kind, on, k, s).at = period
             /\ ~SignIn!Request(kind, on, k, s).stale
  <2> DEFINE r == SignIn!Request(kind, on, k, s)
  <2>1. /\ r.kind = kind /\ r.on = on /\ r.secret = k /\ r.at = period /\ ~r.stale
        /\ r \in SignIn!Fields
    BY <1>0 DEF SignIn!Request, SignIn!Fields
  <2>2. r \in SignIn!Requests
    BY <1>c, <2>1 DEF SignIn!Requests
  <2>3. QED
    BY <2>1, <2>2
<1>d. Onward(cred, cred)
    BY <1>0 DEF Onward
<1> HIDE DEF Goal, Typed
<1>1. ASSUME NEW c \in SignIn!Credential, SignIn!SendLink(c) \/ SignIn!Expire(c) PROVE Goal
  <2>1. FactorStays /\ asked' = asked /\ uses' = uses
    BY <1>1 DEF SignIn!SendLink, SignIn!Expire, SignIn!factor
  <2>2. Onward(cred, cred')
    BY <1>0, <1>1 DEF SignIn!SendLink, SignIn!Expire, Onward, States
  <2>3. LinksPart'
    BY <2>1, <2>2, LinksQuiet DEF Past
  <2>4. FactorPart'
    BY <2>1, FactorQuiet DEF Past
  <2>5. Typed
    BY <1>0, <1>a, <2>1, <2>2 DEF Onward
  <2>6. QED
    BY <2>3, <2>4, <2>5 DEF Goal
<1>2. ASSUME NEW w \in Worker, NEW r \in SignIn!Requests, SignIn!Decides(w, r),
             \/ /\ r.kind \in LinkKinds /\ r.on \in SignIn!Credential /\ cred[r.on] = "live"
                /\ r.kind = "verify" => r.on \in VerifyLink
             \/ /\ r.kind \in {"enable", "code"} /\ secret # 0 /\ r.secret = secret
                /\ r.kind = "code" => r.at >= 1 /\ (last = 0 \/ last < r.at - 1),
             FactorStays, UNCHANGED <<cred, uses>>
      PROVE  Goal
  <2>1. /\ asked' \in [Worker -> SignIn!Requests] /\ asked'[w] = r
        /\ \A v \in Worker \ {w} : asked'[v] = asked[v]
    BY <1>0, <1>2, AskedDecided
  <2>2. LinksPart'
    BY <1>2, <1>d, <2>1, LinksQuiet DEF Past, LinkKinds
  <2>3. FactorPart'
    BY <1>2, <2>1, FactorQuiet DEF Past, LinkKinds
  <2>4. Typed
    BY <1>0, <1>2, <1>a, <2>1
  <2>5. QED
    BY <2>2, <2>3, <2>4 DEF Goal
<1>3. ASSUME NEW w \in Worker, NEW l \in ResetLink, SignIn!LookReset(w, l) PROVE Goal
  <2>1. l \in SignIn!Credential /\ "reset" \in SignIn!Kinds /\ "reset" \in LinkKinds
        /\ 0 \in 0..MaxSecrets
    BY <1>0 DEF SignIn!Credential, SignIn!Kinds, LinkKinds
  <2>2. /\ SignIn!Decides(w, SignIn!Request("reset", l, 0, 0)) /\ cred[l] = "live"
        /\ FactorStays /\ UNCHANGED <<cred, uses>>
    BY <1>3 DEF SignIn!LookReset, SignIn!links, SignIn!factor
  <2>3. PICK r \in SignIn!Requests : /\ r = SignIn!Request("reset", l, 0, 0)
                                     /\ r.kind = "reset" /\ r.on = l
    BY <1>c, <2>1
  <2>4. QED
    BY <1>2, <2>1, <2>2, <2>3
<1>4. ASSUME NEW w \in Worker, NEW l \in VerifyLink, SignIn!LookVerify(w, l) PROVE Goal
  <2>1. l \in SignIn!Credential /\ "verify" \in SignIn!Kinds /\ "verify" \in LinkKinds
        /\ 0 \in 0..MaxSecrets
    BY <1>0 DEF SignIn!Credential, SignIn!Kinds, LinkKinds
  <2>2. /\ SignIn!Decides(w, SignIn!Request("verify", l, 0, 0)) /\ cred[l] = "live"
        /\ FactorStays /\ UNCHANGED <<cred, uses>>
    BY <1>4 DEF SignIn!LookVerify, SignIn!links, SignIn!factor
  <2>3. PICK r \in SignIn!Requests : /\ r = SignIn!Request("verify", l, 0, 0)
                                     /\ r.kind = "verify" /\ r.on = l
    BY <1>c, <2>1
  <2>4. QED
    BY <1>2, <2>1, <2>2, <2>3
<1>5. ASSUME NEW w \in Worker, NEW t \in Token, SignIn!LookRefresh(w, t) PROVE Goal
  <2>1. t \in SignIn!Credential /\ "refresh" \in SignIn!Kinds /\ "refresh" \in LinkKinds
        /\ 0 \in 0..MaxSecrets
    BY <1>0 DEF SignIn!Credential, SignIn!Kinds, LinkKinds
  <2>2. /\ SignIn!Decides(w, SignIn!Request("refresh", t, 0, 0)) /\ cred[t] = "live"
        /\ FactorStays /\ UNCHANGED <<cred, uses>>
    BY <1>5 DEF SignIn!LookRefresh, SignIn!links, SignIn!factor
  <2>3. PICK r \in SignIn!Requests : /\ r = SignIn!Request("refresh", t, 0, 0)
                                     /\ r.kind = "refresh" /\ r.on = t
    BY <1>c, <2>1
  <2>4. QED
    BY <1>2, <2>1, <2>2, <2>3
<1>6. ASSUME NEW w \in Worker, SignIn!LookEnable(w) PROVE Goal
  <2>1. /\ "enable" \in SignIn!Kinds /\ period \in Nat
        /\ "none" \in SignIn!Credential \cup {"none"} /\ secret \in 0..MaxSecrets
    BY <1>0 DEF SignIn!Kinds
  <2>2. /\ SignIn!Decides(w, SignIn!Request("enable", "none", secret, period)) /\ secret # 0
        /\ FactorStays /\ UNCHANGED <<cred, uses>>
    BY <1>6 DEF SignIn!LookEnable, SignIn!links, SignIn!factor
  <2>3. PICK r \in SignIn!Requests : /\ r = SignIn!Request("enable", "none", secret, period)
                                     /\ r.kind = "enable" /\ r.secret = secret
    BY <1>c, <2>1, <2>2
  <2>4. QED
    BY <1>2, <2>2, <2>3
<1>7. ASSUME NEW w \in Worker, NEW s \in 1..(MaxPeriod + 1), SignIn!LookCode(w, s) PROVE Goal
  <2>1. /\ "code" \in SignIn!Kinds /\ s \in Nat
        /\ "none" \in SignIn!Credential \cup {"none"} /\ secret \in 0..MaxSecrets
    BY <1>0 DEF SignIn!Kinds
  <2>2. /\ SignIn!Decides(w, SignIn!Request("code", "none", secret, s)) /\ secret # 0
        /\ (last = 0 \/ last < period - 1)
        /\ FactorStays /\ UNCHANGED <<cred, uses>>
    BY <1>7 DEF SignIn!LookCode, SignIn!Unused, SignIn!links, SignIn!factor
  <2>3. PICK r \in SignIn!Requests : /\ r = SignIn!Request("code", "none", secret, s)
                                     /\ r.kind = "code" /\ r.secret = secret /\ r.at = period
    BY <1>c, <2>1, <2>2
  <2>4. r.at >= 1 /\ (last = 0 \/ last < r.at - 1)
    BY <1>0, <2>2, <2>3
  <2>5. QED
    BY <1>2, <2>2, <2>3, <2>4
\* Commits that use nothing up and leave the second factor alone.
<1>8. ASSUME NEW w \in Worker, NEW r \in SignIn!Requests, SignIn!CommitsAs(w, r),
             r.kind \in {"none", "password"}
      PROVE  /\ asked' \in [Worker -> SignIn!Requests] /\ asked'[w] = r
             /\ \A v \in Worker : Past(v) \/ asked'[v].kind \notin LinkKinds \cup {"enable", "code"}
             /\ \A v \in Worker \ {w} :
                    \/ asked'[v] = SignIn!NoRequest
                    \/ /\ asked'[v].stale /\ asked'[v].kind = asked[v].kind
                       /\ asked'[v].on = asked[v].on
    BY <1>0, <1>8, AskedCommitted DEF Past, LinkKinds
<1>9. ASSUME NEW w \in Worker, SignIn!Commits(w)
      PROVE  /\ asked' \in [Worker -> SignIn!Requests] /\ asked'[w] = SignIn!NoRequest
             /\ \A v \in Worker : Past(v) \/ asked'[v].kind \notin LinkKinds \cup {"enable", "code"}
             /\ \A v \in Worker \ {w} :
                    \/ asked'[v] = SignIn!NoRequest
                    \/ /\ asked'[v].stale /\ asked'[v].kind = asked[v].kind
                       /\ asked'[v].on = asked[v].on
             /\ \A v \in Worker : ~asked'[v].stale => asked'[v].kind = "none"
    BY <1>8, <1>9, <1>b DEF SignIn!Commits
<1>10. ASSUME NEW w \in Worker, asked[w].kind \in LinkKinds, SignIn!Counted(w, asked[w].on),
              NEW r \in SignIn!Requests, SignIn!CommitsAs(w, r), r.kind \in {"none", "password"},
              Onward(cred, cred'), cred'[asked[w].on] = "used", FactorStays
       PROVE  Goal
  <2>1. /\ asked' \in [Worker -> SignIn!Requests] /\ asked'[w] = r
        /\ \A v \in Worker : Past(v) \/ asked'[v].kind \notin LinkKinds \cup {"enable", "code"}
        /\ \A v \in Worker \ {w} :
               \/ asked'[v] = SignIn!NoRequest
               \/ /\ asked'[v].stale /\ asked'[v].kind = asked[v].kind
                  /\ asked'[v].on = asked[v].on
    BY <1>8, <1>10
  <2>2. asked'[w].kind \notin LinkKinds
    BY <1>10, <2>1 DEF LinkKinds
  <2>3. LinksPart' /\ uses' \in [SignIn!Credential -> Nat]
    BY <1>10, <2>1, <2>2, LinksHonoured
  <2>4. FactorPart'
    BY <1>10, <2>1, FactorQuiet
  <2>5. Typed
    BY <1>0, <1>10, <1>a, <2>1, <2>3 DEF Onward
  <2>6. QED
    BY <2>3, <2>4, <2>5 DEF Goal
<1>11. ASSUME NEW w \in Worker, SignIn!ConsumeReset(w) PROVE Goal
  <2> DEFINE c == asked[w].on
             r == SignIn!Request("password", c, 0, 0)
  <2>1. asked[w].kind \in LinkKinds /\ c \in SignIn!Credential
    BY <1>0, <1>11 DEF SignIn!ConsumeReset, LinkKinds, SignIn!LinksRead
  <2>2. r \in SignIn!Requests /\ r.kind = "password"
    <3>1. /\ "password" \in SignIn!Kinds /\ "password" \notin {"enable", "code"}
          /\ c \in SignIn!Credential \cup {"none"} /\ 0 \in 0..MaxSecrets /\ 0 \in Nat
      BY <1>0, <2>1 DEF SignIn!Kinds
    <3>2. QED
      BY <1>c, <3>1
  <2>3. Onward(cred, cred') /\ cred'[c] = "used"
    BY <1>0, <1>11, <2>1 DEF SignIn!ConsumeReset, SignIn!Consumed, Onward, States
  <2>4. SignIn!Counted(w, c) /\ SignIn!CommitsAs(w, r) /\ FactorStays
    BY <1>11 DEF SignIn!ConsumeReset, SignIn!factor
  <2> HIDE DEF r
  <2>5. QED
    BY <1>10, <2>1, <2>2, <2>3, <2>4
<1>12. ASSUME NEW w \in Worker, SignIn!SetPassword(w) PROVE Goal
  <2>1. FactorStays /\ uses' = uses
    BY <1>12 DEF SignIn!SetPassword, SignIn!factor
  <2>2. Onward(cred, cred')
    BY <1>0, <1>12, <1>d, Issued DEF SignIn!SetPassword
  <2>3. /\ asked' \in [Worker -> SignIn!Requests]
        /\ \A v \in Worker : Past(v) \/ asked'[v].kind \notin LinkKinds \cup {"enable", "code"}
    <3>1. CASE SignIn!Commits(w)
      BY <1>9, <3>1
    <3>2. CASE asked' = [asked EXCEPT ![w] = SignIn!NoRequest]
      BY <1>0, <1>b, <3>2 DEF Past
    <3>3. QED
      BY <1>12, <3>1, <3>2 DEF SignIn!SetPassword
  <2>4. LinksPart'
    BY <2>1, <2>2, <2>3, LinksQuiet
  <2>5. FactorPart'
    BY <2>1, <2>3, FactorQuiet
  <2>6. Typed
    BY <1>0, <1>a, <2>1, <2>2, <2>3 DEF Onward
  <2>7. QED
    BY <2>4, <2>5, <2>6 DEF Goal
<1>13. ASSUME NEW w \in Worker, SignIn!WriteVerify(w) PROVE Goal
  <2>1. /\ asked[w].kind \in LinkKinds /\ asked[w].on \in VerifyLink
        /\ asked[w].on \in SignIn!Credential /\ cred[asked[w].on] # "none"
    BY <1>0, <1>13 DEF SignIn!WriteVerify, LinkKinds, SignIn!LinksRead
  <2>2. Onward(cred, cred') /\ cred'[asked[w].on] = "used"
    BY <1>0, <1>13, <2>1 DEF SignIn!WriteVerify, Onward, States
  <2>3. SignIn!Counted(w, asked[w].on) /\ SignIn!CommitsAs(w, SignIn!NoRequest) /\ FactorStays
    BY <1>13 DEF SignIn!WriteVerify, SignIn!Commits, SignIn!factor
  <2>4. QED
    BY <1>10, <1>b, <2>1, <2>2, <2>3
<1>14. ASSUME NEW w \in Worker, SignIn!WriteRefresh(w) PROVE Goal
  <2> DEFINE c == asked[w].on
             before == [cred EXCEPT ![c] = "used"]
  <2>1. asked[w].kind \in LinkKinds /\ c \in SignIn!Credential
    BY <1>0, <1>14 DEF SignIn!WriteRefresh, LinkKinds, SignIn!LinksRead
  <2>2. before \in [SignIn!Credential -> States] /\ before[c] = "used" /\ Onward(cred, before)
    BY <1>0, <2>1 DEF Onward, States
  <2>3. SignIn!Issue(before)
    BY <1>14 DEF SignIn!WriteRefresh, SignIn!Consumed
  <2> HIDE DEF before
  <2>4. Onward(before, cred')
    BY <2>2, <2>3, Issued
  <2>5. Onward(cred, cred') /\ cred'[c] = "used"
    BY <2>1, <2>2, <2>4 DEF Onward
  <2>6. SignIn!Counted(w, c) /\ SignIn!CommitsAs(w, SignIn!NoRequest) /\ FactorStays
    BY <1>14 DEF SignIn!WriteRefresh, SignIn!Commits, SignIn!factor
  <2>7. QED
    BY <1>10, <1>b, <2>1, <2>5, <2>6
<1>15. ASSUME NEW w \in Worker, SignIn!Login(w) PROVE Goal
  <2>1. FactorStays /\ uses' = uses /\ SignIn!Commits(w)
    BY <1>15 DEF SignIn!Login
  <2>2. Onward(cred, cred')
    BY <1>0, <1>15, <1>d, Issued DEF SignIn!Login
  <2>3. /\ asked' \in [Worker -> SignIn!Requests]
        /\ \A v \in Worker : Past(v) \/ asked'[v].kind \notin LinkKinds \cup {"enable", "code"}
    BY <1>9, <2>1
  <2>4. LinksPart'
    BY <2>1, <2>2, <2>3, LinksQuiet
  <2>5. FactorPart'
    BY <2>1, <2>3, FactorQuiet
  <2>6. Typed
    BY <1>0, <1>a, <2>1, <2>2, <2>3 DEF Onward
  <2>7. QED
    BY <2>4, <2>5, <2>6 DEF Goal
\* Commits that write the second factor.
<1>16. ASSUME NEW w \in Worker, SignIn!Commits(w), Onward(cred, cred'), uses' = uses,
              period' = period, accepted' \in Seq(SignIn!Requests), last' \in 0..MaxPeriod,
              secret' \in 0..MaxSecrets, setups' \in 0..MaxSecrets, proved' \subseteq 1..MaxSecrets,
              \A i \in DOMAIN accepted' : accepted'[i].kind = "code",
              SignIn!EnabledIsProved', SignIn!CodesKept', SignIn!CodeSpaced'
       PROVE  Goal
  <2>1. /\ asked' \in [Worker -> SignIn!Requests]
        /\ \A v \in Worker : Past(v) \/ asked'[v].kind \notin LinkKinds
        /\ \A v \in Worker : ~asked'[v].stale => asked'[v].kind = "none"
    BY <1>9, <1>16
  <2>2. LinksPart'
    BY <1>16, <2>1, LinksQuiet
  <2>3. SignIn!FactorRead'
    BY <2>1 DEF SignIn!FactorRead
  <2>4. Typed
    BY <1>0, <1>16, <1>a, <2>1 DEF Onward
  <2>5. QED
    BY <1>16, <2>2, <2>3, <2>4 DEF Goal, FactorPart
<1>17. ASSUME NEW w \in Worker, SignIn!Setup(w) PROVE Goal
  <2>1. /\ setups < MaxSecrets /\ setups' = setups + 1 /\ secret' = setups' /\ ~enabled'
        /\ SignIn!Commits(w) /\ UNCHANGED <<cred, uses, period, last, accepted, proved, raced>>
    BY <1>17 DEF SignIn!Setup, SignIn!Starts, SignIn!links
  <2>2. SignIn!EnabledIsProved' /\ SignIn!CodeSpaced'
    BY <1>0, <2>1 DEF SignIn!EnabledIsProved, SignIn!CodeSpaced
  <2>3. SignIn!CodesKept'
    BY <1>0, <2>1 DEF SignIn!CodesKept
  <2>4. secret' \in 0..MaxSecrets /\ setups' \in 0..MaxSecrets
    BY <1>0, <2>1
  <2>5. QED
    BY <1>0, <1>16, <1>d, <2>1, <2>2, <2>3, <2>4
<1>18. ASSUME NEW w \in Worker, SignIn!WriteEnable(w) PROVE Goal
  <2>1. /\ asked[w].kind = "enable" /\ proved' = proved \cup {asked[w].secret}
        /\ raced' = (raced \/ asked[w].stale)
        /\ SignIn!Commits(w) /\ UNCHANGED <<cred, uses, period, secret, setups, last, accepted>>
    BY <1>18 DEF SignIn!WriteEnable, SignIn!links
  <2>2. ~asked[w].stale => asked[w].secret = secret /\ secret # 0
    BY <1>0, <2>1 DEF SignIn!FactorRead
  <2>3. SignIn!EnabledIsProved'
    BY <2>1, <2>2 DEF SignIn!EnabledIsProved
  <2>4. SignIn!CodesKept' /\ SignIn!CodeSpaced'
    BY <1>0, <2>1 DEF SignIn!CodesKept, SignIn!CodeSpaced
  <2>5. proved' \subseteq 1..MaxSecrets
    <3>1. asked[w].secret \in 0..MaxSecrets /\ asked[w].secret # 0
      BY <1>0, <2>1 DEF SignIn!Requests, SignIn!Fields
    <3>2. asked[w].secret \in 1..MaxSecrets
      BY <1>0, <3>1
    <3>3. QED
      BY <1>0, <2>1, <3>2
  <2>6. QED
    BY <1>0, <1>16, <1>d, <2>1, <2>3, <2>4, <2>5
<1>19. ASSUME NEW w \in Worker, SignIn!Disable(w) PROVE Goal
  <2>1. /\ secret' = 0 /\ ~enabled' /\ last' = 0
        /\ SignIn!Commits(w) /\ UNCHANGED <<cred, uses, period, setups, accepted, proved, raced>>
    BY <1>19 DEF SignIn!Disable, SignIn!links
  <2>2. SignIn!EnabledIsProved' /\ SignIn!CodeSpaced'
    BY <1>0, <2>1 DEF SignIn!EnabledIsProved, SignIn!CodeSpaced
  <2>3. SignIn!CodesKept'
    BY <1>0, <2>1 DEF SignIn!CodesKept
  <2>4. QED
    BY <1>0, <1>16, <1>d, <2>1, <2>2, <2>3
<1>20. ASSUME NEW w \in Worker, SignIn!WriteCode(w) PROVE Goal
  <2> DEFINE r == asked[w]
  <2>1. /\ r.kind = "code" /\ last' = r.at
        /\ accepted' = IF r.stale THEN <<>> ELSE Append(accepted, r)
        /\ SignIn!Issue(cred) /\ SignIn!Commits(w)
        /\ UNCHANGED <<uses, period, secret, setups, enabled, proved, raced>>
    BY <1>20 DEF SignIn!WriteCode
  <2>2. r \in SignIn!Requests /\ r.at \in 0..MaxPeriod
    BY <1>0 DEF SignIn!Requests, SignIn!Fields
  <2>3. ~r.stale => /\ r.secret = secret /\ secret # 0 /\ r.at >= 1
                    /\ (last = 0 \/ last < r.at - 1)
    BY <1>0, <2>1 DEF SignIn!FactorRead
  <2>4. /\ accepted' \in Seq(SignIn!Requests)
        /\ \A i \in DOMAIN accepted' : accepted'[i].kind = "code"
    <3>1. CASE r.stale
      BY <2>1, <3>1
    <3>2. CASE ~r.stale
      BY <1>0, <2>1, <2>2, <3>2
    <3>3. QED
      BY <3>1, <3>2
  <2>5. \A i \in DOMAIN accepted' :
           \/ i \in DOMAIN accepted /\ accepted'[i] = accepted[i] /\ ~r.stale
           \/ accepted'[i] = r /\ i = Len(accepted) + 1 /\ ~r.stale
    <3>1. CASE r.stale
      BY <2>1, <3>1
    <3>2. CASE ~r.stale
      BY <1>0, <2>1, <2>2, <3>2
    <3>3. QED
      BY <3>1, <3>2
  <2>6. ASSUME NEW i \in DOMAIN accepted
        PROVE  i \in Int /\ i < Len(accepted) + 1 /\ accepted[i].at \in Nat
    <3>1. i \in 1..Len(accepted) /\ Len(accepted) \in Nat /\ accepted[i] \in SignIn!Requests
      BY <1>0
    <3>2. accepted[i].at \in 0..MaxPeriod
      BY <3>1 DEF SignIn!Requests, SignIn!Fields
    <3>3. QED
      BY <1>0, <3>1, <3>2
  <2> HIDE DEF r
  <2>7. SignIn!CodesKept'
    <3>1. ASSUME NEW i \in DOMAIN accepted'
          PROVE  /\ accepted'[i].secret \in 1..setups /\ accepted'[i].at >= 1
                 /\ accepted'[i].secret = secret => accepted'[i].at <= r.at
      <4>1. CASE i \in DOMAIN accepted /\ accepted'[i] = accepted[i] /\ ~r.stale
        BY <1>0, <2>2, <2>3, <2>6, <4>1 DEF SignIn!CodesKept
      <4>2. CASE accepted'[i] = r /\ ~r.stale
        BY <1>0, <2>2, <2>3, <4>2 DEF SignIn!CodesKept
      <4>3. QED
        BY <2>5, <4>1, <4>2
    <3>2. QED
      BY <1>0, <2>1, <3>1 DEF SignIn!CodesKept, r
  <2>8. SignIn!CodeSpaced'
    <3> SUFFICES ASSUME NEW i \in DOMAIN accepted', NEW j \in DOMAIN accepted', i < j,
                        accepted'[i].secret = accepted'[j].secret,
                        accepted'[i].step = accepted'[j].step
                 PROVE  accepted'[j].at >= accepted'[i].at + 2
      BY DEF SignIn!CodeSpaced
    <3>1. ~r.stale /\ i \in DOMAIN accepted /\ accepted'[i] = accepted[i]
      BY <2>5, <2>6
    <3>2. CASE j \in DOMAIN accepted /\ accepted'[j] = accepted[j]
      BY <1>0, <3>1, <3>2 DEF SignIn!CodeSpaced
    <3>3. CASE accepted'[j] = r
      BY <1>0, <2>2, <2>3, <2>6, <3>1, <3>3 DEF SignIn!CodesKept
    <3>4. QED
      BY <2>5, <3>2, <3>3
  <2>9. SignIn!EnabledIsProved'
    BY <1>0, <2>1 DEF SignIn!EnabledIsProved
  <2>10. Onward(cred, cred')
    BY <1>0, <2>1, Issued
  <2>11. last' \in 0..MaxPeriod
    BY <2>1, <2>2 DEF r
  <2>12. QED
    BY <1>0, <1>16, <2>1, <2>4, <2>7, <2>8, <2>9, <2>10, <2>11
<1>21. ASSUME SignIn!Tick PROVE Goal
  <2>1. /\ period' \in 1..MaxPeriod
        /\ UNCHANGED <<cred, uses, asked, secret, setups, enabled, last, accepted, proved, raced>>
    BY <1>0, <1>21 DEF SignIn!Tick, SignIn!links, SignIn!factor
  <2>2. LinksPart'
    BY <1>d, <2>1, LinksQuiet DEF Past
  <2>3. FactorPart'
    BY <2>1, FactorQuiet DEF Past
  <2>4. Typed
    BY <1>0, <1>a, <2>1
  <2>5. QED
    BY <2>2, <2>3, <2>4 DEF Goal
<1>22. ASSUME UNCHANGED SignIn!vars PROVE Goal
  <2>1. FactorStays /\ UNCHANGED <<cred, uses, asked>>
    BY <1>22 DEF SignIn!vars
  <2>2. LinksPart'
    BY <1>d, <2>1, LinksQuiet DEF Past
  <2>3. FactorPart'
    BY <2>1, FactorQuiet DEF Past
  <2>4. Typed
    BY <1>0, <1>a, <2>1
  <2>5. QED
    BY <2>2, <2>3, <2>4 DEF Goal
<1>23. Goal
    BY <1>1, <1>3, <1>4, <1>5, <1>6, <1>7, <1>11, <1>12, <1>13, <1>14, <1>15, <1>17, <1>18,
       <1>19, <1>20, <1>21, <1>22 DEF SignIn!Next
<1>24. QED
    BY <1>23 DEF Goal, Typed, LinksPart, FactorPart, SignIn!AccountsInv

\* A link or a refresh token is honoured once, a second factor is enabled only for
\* a secret a code was shown for, and a code is accepted again only two time steps
\* later, but for requests that were overtaken (_consume_email_token,
\* refresh_access_token, enable_2fa, login_with_two_factor).
THEOREM SignInGuardedHolds ==
    ASSUME SignIn!AccountsConstants
    PROVE  SignIn!Spec =>
             [](SignIn!TypeOK /\ SignIn!HonouredOnce /\ SignIn!EnabledIsProved /\ SignIn!CodeSpaced)
<1>1. ASSUME SignIn!Init PROVE SignIn!AccountsInv
  <2>0. MaxSecrets \in Nat /\ MaxPeriod \in Nat \ {0}
    BY SignIn!AccountsConstants DEF SignIn!AccountsConstants
  <2>1. /\ cred = [c \in SignIn!Credential |-> "none"] /\ period = 1
        /\ secret = 0 /\ setups = 0 /\ enabled = FALSE /\ last = 0
        /\ asked = [w \in Worker |-> SignIn!NoRequest]
        /\ uses = [c \in SignIn!Credential |-> 0]
        /\ accepted = <<>> /\ proved = {} /\ raced = FALSE
    BY <1>1 DEF SignIn!Init
  <2>2. SignIn!TypeOK
    BY <2>0, <2>1 DEF SignIn!TypeOK
  <2>3. SignIn!Shapes
    <3>1. SignIn!NoRequest \in SignIn!Requests
      BY <2>0 DEF SignIn!NoRequest, SignIn!Requests, SignIn!Fields, SignIn!Kinds
    <3>2. QED
      BY <2>1, <3>1 DEF SignIn!Shapes
  <2>4. SignIn!NoRequest.kind = "none"
    BY DEF SignIn!NoRequest
  <2>5. SignIn!LinksRead /\ SignIn!FactorRead
    BY <2>1, <2>4 DEF SignIn!LinksRead, SignIn!FactorRead
  <2>6. SignIn!HonouredOnce /\ SignIn!Marked
    BY <2>1 DEF SignIn!HonouredOnce, SignIn!Marked
  <2>7. SignIn!EnabledIsProved /\ SignIn!CodesKept /\ SignIn!CodeSpaced
    BY <2>1 DEF SignIn!EnabledIsProved, SignIn!CodesKept, SignIn!CodeSpaced
  <2>8. QED
    BY <2>2, <2>3, <2>5, <2>6, <2>7 DEF SignIn!AccountsInv
<1>2. SignIn!AccountsInv /\ [SignIn!Next]_SignIn!vars => SignIn!AccountsInv'
    BY AccountsStep, SignIn!AccountsConstants
<1>3. SignIn!AccountsInv =>
        SignIn!TypeOK /\ SignIn!HonouredOnce /\ SignIn!EnabledIsProved /\ SignIn!CodeSpaced
    BY DEF SignIn!AccountsInv
<1>4. QED
    BY <1>1, <1>2, <1>3, PTL DEF SignIn!Spec

-----------------------------------------------------------------------------
(* Flags: every worker comes to go by the file *)

\* A copy grows as old as the file's last change, step by step.
LEMMA FlagsStep ==
    ASSUME Flagged!FlagsConstants, Flagged!FlagsInv, [Flagged!Next]_Flagged!vars
    PROVE  Flagged!FlagsInv'
<1> USE Flagged!FlagsConstants
    DEF Flagged!FlagsInv, Flagged!TypeOK, Flagged!StaleIsOld, Flagged!FlagsConstants
<1>1. ASSUME NEW w \in Worker, Flagged!Request(w) PROVE Flagged!FlagsInv'
  <2>1. Flagged!Seen(w) \in Flagged!OnOff \cup {Flagged!Nothing}
    BY DEF Flagged!Seen
  <2>2. CASE Flagged!Good(w)
    BY <1>1, <2>2 DEF Flagged!Request, Flagged!Seen
  <2>3. CASE ~Flagged!Good(w)
    BY <1>1, <2>1, <2>3 DEF Flagged!Request, Flagged!Seen
  <2>4. QED
    BY <2>2, <2>3
<1>2. ASSUME NEW w \in Worker, Flagged!Restart(w) PROVE Flagged!FlagsInv'
    BY <1>2 DEF Flagged!Restart
<1>3. CASE Flagged!Truncate
    BY <1>3 DEF Flagged!Truncate
<1>4. ASSUME NEW flags \in Flagged!OnOff, Flagged!Write(flags) PROVE Flagged!FlagsInv'
    BY <1>4 DEF Flagged!Write
<1>5. CASE Flagged!Tick
  <2>1. ASSUME NEW m \in 0..Keep, NEW n \in 0..Keep
        PROVE  /\ Flagged!Older(n) \in 0..Keep
               /\ m <= n => Flagged!Older(m) <= Flagged!Older(n)
    BY DEF Flagged!Older
  <2>2. /\ quiet' = Flagged!Older(quiet) /\ UNCHANGED <<file, cache, edits>>
        /\ age' \in [Worker -> 0..Keep]
        /\ \A w \in Worker : age'[w] = Flagged!Older(age[w])
    BY <1>5, <2>1 DEF Flagged!Tick
  <2>3. Flagged!TypeOK'
    BY <2>1, <2>2
  <2>4. ASSUME NEW w \in Worker, cache[w] \notin {Flagged!Nothing, file}
        PROVE  quiet' <= age'[w]
    BY <2>1, <2>2, <2>4
  <2>5. QED
    BY <2>2, <2>3, <2>4
<1>6. CASE UNCHANGED Flagged!vars
    BY <1>6 DEF Flagged!vars
<1>7. QED
    BY <1>1, <1>2, <1>3, <1>4, <1>5, <1>6 DEF Flagged!Next

\* Once the file has not been touched for as long as a copy is good, every
\* worker goes by what it says, whatever it read of it while it was written
\* (_load, set_flag's "re-read by all workers within 5 seconds").
THEOREM FlagsSettleHolds ==
    ASSUME Flagged!FlagsConstants
    PROVE  Flagged!Spec => [](Flagged!TypeOK /\ Flagged!FlagsSettle)
<1>1. Flagged!Init => Flagged!FlagsInv
    BY Flagged!FlagsConstants
    DEF Flagged!Init, Flagged!FlagsInv, Flagged!TypeOK, Flagged!StaleIsOld, Flagged!FlagsConstants
<1>2. Flagged!FlagsInv /\ [Flagged!Next]_Flagged!vars => Flagged!FlagsInv'
    BY FlagsStep, Flagged!FlagsConstants
<1>3. Flagged!FlagsInv => Flagged!TypeOK /\ Flagged!FlagsSettle
    BY Flagged!FlagsConstants
    DEF Flagged!FlagsInv, Flagged!TypeOK, Flagged!StaleIsOld, Flagged!FlagsSettle, Flagged!Seen,
        Flagged!Good, Flagged!FlagsConstants
<1>4. QED
    BY <1>1, <1>2, <1>3, PTL DEF Flagged!Spec

-----------------------------------------------------------------------------
(* Releases: a digest is the one of the file in place *)

\* Every step keeps what the stamps say.
LEMMA ReleasesStep ==
    ASSUME Release!ReleasesConstants, Release!ReleasesInv, [Release!Next]_Release!vars
    PROVE  Release!ReleasesInv'
<1> DEFINE File == [version: Release!Version, stamp: Release!Version]
           Hashing == [pc: {"idle", "found", "stat", "hashed"}, path: Release!Path,
                       stamp: Release!Version, version: Release!Version, overtaken: BOOLEAN]
<1>0. /\ files \in [Release!Path -> File] /\ digests \in [Worker -> [Release!Path -> File]]
      /\ hashing \in [Release!Job -> Hashing]
      /\ deploys \in 0..MaxDeploys /\ MaxDeploys \in Nat
      /\ Release!StampsGiven /\ Release!StampsHeld /\ Release!DigestTrue
    BY Release!ReleasesConstants
    DEF Release!ReleasesInv, Release!TypeOK, Release!ReleasesConstants
<1>a. ASSUME files' \in [Release!Path -> File], digests' \in [Worker -> [Release!Path -> File]],
             hashing' \in [Release!Job -> Hashing], deploys' \in 0..MaxDeploys
      PROVE  Release!TypeOK'
    BY <1>a DEF Release!TypeOK
<1>b. /\ Release!None \in File /\ Release!None.stamp = 0
      /\ Release!NoJob.stamp = 0 /\ Release!NoJob.pc = "idle"
    BY <1>0 DEF Release!None, Release!NoJob, Release!Version
<1>c. \A p \in Release!Path : files[p] = Release!None => files[p].stamp = 0
    BY <1>b
\* What a request may find out, and what may become of the digests.
<1> DEFINE Sound(j) ==
               /\ j \in Hashing /\ j.stamp <= deploys + 1
               /\ j.pc \in {"stat", "hashed"} =>
                     IF j.overtaken THEN Release!Exists(j.path) => j.stamp # files[j.path].stamp
                     ELSE Release!Exists(j.path) /\ j.stamp = files[j.path].stamp
               /\ j.pc = "hashed" /\ ~j.overtaken => j.version = files[j.path].version
           True(p, k) ==
               /\ k.stamp <= deploys + 1
               /\ Release!Exists(p) /\ k.stamp = files[p].stamp => k.version = files[p].version
<1>d. ASSUME NEW r \in Release!Job, NEW j, Sound(j), hashing' = [hashing EXCEPT ![r] = j],
             UNCHANGED <<files, deploys>>, digests' \in [Worker -> [Release!Path -> File]],
             \A w \in Worker, p \in Release!Path :
                 digests'[w][p] = digests[w][p] \/ True(p, digests'[w][p])
      PROVE  Release!ReleasesInv'
  <2>1. /\ hashing' \in [Release!Job -> Hashing] /\ hashing'[r] = j
        /\ \A q \in Release!Job \ {r} : hashing'[q] = hashing[q]
    BY <1>0, <1>d
  <2>2. Release!TypeOK'
    BY <1>0, <1>a, <1>d, <2>1
  <2>3. \A q \in Release!Job : Sound(hashing'[q])
    <3>1. \A q \in Release!Job : Sound(hashing[q])
      BY <1>0 DEF Release!StampsGiven, Release!StampsHeld, Release!DigestTrue
    <3>2. QED
      BY <1>d, <2>1, <3>1
  <2>4. \A w \in Worker, p \in Release!Path : True(p, digests'[w][p])
    <3>1. \A w \in Worker, p \in Release!Path : True(p, digests[w][p])
      BY <1>0 DEF Release!StampsGiven, Release!DigestTrue
    <3>2. QED
      BY <1>d, <3>1
  <2>5. Release!StampsGiven'
    BY <1>0, <1>d, <2>3, <2>4 DEF Release!StampsGiven, Release!Exists
  <2>6. Release!StampsHeld'
    BY <1>d, <2>3 DEF Release!StampsHeld, Release!Exists
  <2>7. Release!DigestTrue'
    <3>1. ASSUME NEW w \in Worker, NEW p \in Release!Path, Release!Exists(p)',
                 digests'[w][p].stamp = files'[p].stamp
          PROVE  digests'[w][p].version = files'[p].version
      BY <1>d, <2>4, <3>1 DEF Release!Exists
    <3>2. ASSUME NEW q \in Release!Job, hashing'[q].pc = "hashed", ~hashing'[q].overtaken
          PROVE  hashing'[q].version = files'[hashing'[q].path].version
      BY <1>d, <2>3, <3>2
    <3>3. QED
      BY <3>1, <3>2 DEF Release!DigestTrue
  <2>8. QED
    BY <2>2, <2>5, <2>6, <2>7 DEF Release!ReleasesInv
<1>f. /\ \A q \in Release!Job : Sound(hashing[q])
      /\ Release!NoJob \in Hashing => Sound(Release!NoJob)
    BY <1>0, <1>b DEF Release!StampsGiven, Release!StampsHeld, Release!DigestTrue
<1>e. Release!NoJob \in Hashing \/ Release!Path = {}
  <2>1. 2 \in DOMAIN Release!Candidates /\ Release!Candidates[2] = "latest"
    BY DEF Release!Candidates
  <2>2. "latest" \in Release!Path
    BY <2>1 DEF Release!Path
  <2>3. QED
    BY <1>0, <2>2 DEF Release!NoJob, Release!Version
<1>1. ASSUME NEW r \in Release!Job, Release!Done(r), UNCHANGED <<files, digests, deploys>>
      PROVE  Release!ReleasesInv'
  <2>1. Release!NoJob \in Hashing
    BY <1>0, <1>e
  <2>2. hashing' = [hashing EXCEPT ![r] = Release!NoJob] /\ Sound(Release!NoJob)
    BY <1>1, <1>f, <2>1 DEF Release!Done
  <2> HIDE DEF Sound
  <2>3. QED
    BY <1>0, <1>1, <1>d, <2>2
<1>2. ASSUME NEW r \in Release!Job, Release!Resolve(r) PROVE Release!ReleasesInv'
  <2> DEFINE Found(j, p) == [j EXCEPT !.pc = "found", !.path = p]
  <2>1. PICK i \in DOMAIN Release!Candidates :
            hashing' = [hashing EXCEPT ![r] =
                           Found(Release!NoJob, Release!Candidates[i])]
    BY <1>2, Zenon DEF Release!Resolve
  <2> DEFINE p == Release!Candidates[i]
  <2>2. p \in Release!Path /\ UNCHANGED <<files, digests, deploys>>
    BY <1>2 DEF Release!Path, Release!Resolve
  <2>3. ASSUME NEW j \in Hashing
        PROVE  /\ Found(j, p) \in Hashing /\ Found(j, p).pc = "found"
               /\ Found(j, p).stamp = j.stamp
    BY <2>2
  <2> HIDE DEF Found, p
  <2>4. /\ Found(Release!NoJob, p) \in Hashing /\ Found(Release!NoJob, p).pc = "found"
        /\ Found(Release!NoJob, p).stamp = 0
    BY <1>b, <1>e, <2>2, <2>3
  <2>5. Sound(Found(Release!NoJob, p))
    BY <1>0, <2>4
  <2> HIDE DEF Sound
  <2>6. QED
    BY <1>0, <1>d, <2>1, <2>2, <2>5 DEF p
<1>3. ASSUME NEW r \in Release!Job, Release!Stat(r) PROVE Release!ReleasesInv'
  <2> DEFINE p == hashing[r].path
             j == [hashing[r] EXCEPT !.pc = "stat", !.stamp = files[p].stamp,
                                     !.overtaken = FALSE]
  <2>1. /\ UNCHANGED <<files, digests, deploys>>
        /\ \/ Release!Exists(p) /\ hashing' = [hashing EXCEPT ![r] = j]
           \/ Release!Done(r)
    BY <1>3 DEF Release!Stat
  <2>2. p \in Release!Path /\ files[p] \in File /\ files[p].stamp <= deploys + 1
    BY <1>0 DEF Release!StampsGiven
  <2>3. /\ j \in Hashing /\ j.pc = "stat" /\ j.stamp = files[p].stamp /\ ~j.overtaken
        /\ j.path = p
    BY <1>0, <2>2
  <2> HIDE DEF j
  <2>4. CASE Release!Exists(p) /\ hashing' = [hashing EXCEPT ![r] = j]
    <3>1. Sound(j)
      BY <2>2, <2>3, <2>4
    <3> HIDE DEF Sound
    <3>2. QED
      BY <1>0, <1>d, <2>1, <2>4, <3>1
  <2>5. QED
    BY <1>1, <2>1, <2>4
<1>4. ASSUME NEW r \in Release!Job, Release!Hash(r) PROVE Release!ReleasesInv'
  <2> DEFINE Hashed(i, n) == [i EXCEPT !.pc = "hashed", !.version = n]
             p == hashing[r].path
             j == Hashed(hashing[r], files[p].version)
  <2>1. /\ UNCHANGED <<files, digests, deploys>> /\ hashing[r].pc = "stat"
        /\ \/ hashing' = [hashing EXCEPT ![r] = j]
           \/ Release!Done(r)
    BY <1>4 DEF Release!Hash
  <2>2. p \in Release!Path /\ files[p].version \in Release!Version
    BY <1>0
  <2>3. /\ j \in Hashing /\ j.pc = "hashed" /\ j.stamp = hashing[r].stamp
        /\ j.overtaken = hashing[r].overtaken /\ j.path = p /\ j.version = files[p].version
    <3>1. ASSUME NEW i \in Hashing, NEW n \in Release!Version
          PROVE  /\ Hashed(i, n) \in Hashing /\ Hashed(i, n).pc = "hashed"
                 /\ Hashed(i, n).stamp = i.stamp /\ Hashed(i, n).path = i.path
                 /\ Hashed(i, n).overtaken = i.overtaken /\ Hashed(i, n).version = n
      OBVIOUS
    <3> HIDE DEF Hashed
    <3>2. QED
      BY <1>0, <2>2, <3>1
  <2>4. /\ hashing[r].stamp <= deploys + 1
        /\ IF hashing[r].overtaken THEN Release!Exists(p) => hashing[r].stamp # files[p].stamp
           ELSE Release!Exists(p) /\ hashing[r].stamp = files[p].stamp
    BY <1>0, <2>1 DEF Release!StampsGiven, Release!StampsHeld
  <2> HIDE DEF j, p
  <2>5. CASE hashing' = [hashing EXCEPT ![r] = j]
    <3>1. Sound(j)
      BY <2>3, <2>4
    <3> HIDE DEF Sound
    <3>2. QED
      BY <1>0, <1>d, <2>1, <2>5, <3>1
  <2>6. QED
    BY <1>1, <2>1, <2>5
<1>5. ASSUME NEW r \in Release!Job, Release!Store(r) PROVE Release!ReleasesInv'
  <2> DEFINE p == hashing[r].path
             k == [version |-> hashing[r].version, stamp |-> hashing[r].stamp]
             v == r[1]
  <2>1. /\ UNCHANGED <<files, deploys>> /\ hashing[r].pc = "hashed"
        /\ digests' = [digests EXCEPT ![v][p] = k]
        /\ hashing' = [hashing EXCEPT ![r] = Release!NoJob]
    BY <1>5 DEF Release!Store, Release!Done, Release!Key
  <2>2. p \in Release!Path /\ k \in File /\ v \in Worker
    BY <1>0 DEF Release!Job
  <2>3. digests' \in [Worker -> [Release!Path -> File]]
    BY <1>0, <2>1, <2>2
  <2>4. True(p, k)
    BY <1>0, <1>f, <2>1
  <2> HIDE DEF k, p
  <2>5. \A w \in Worker, q \in Release!Path :
            digests'[w][q] = digests[w][q] \/ (q = p /\ digests'[w][q] = k)
    BY <1>0, <2>1, <2>2
  <2>6. \A w \in Worker, q \in Release!Path :
            digests'[w][q] = digests[w][q] \/ True(q, digests'[w][q])
    BY <2>4, <2>5
  <2>7. Sound(Release!NoJob)
    BY <1>e, <1>f, <2>2
  <2> HIDE DEF Sound, True
  <2>8. QED
    BY <1>d, <2>1, <2>3, <2>6, <2>7
\* A file in place gets a stamp that nobody has.
<1>6. ASSUME NEW p \in Release!Path, NEW f \in File, Release!Deploy(p, f),
             f = Release!None \/ f.stamp = deploys + 2
      PROVE  Release!ReleasesInv'
  <2>1. /\ deploys < MaxDeploys /\ deploys' = deploys + 1 /\ digests' = digests
        /\ files' = [files EXCEPT ![p] = f]
        /\ hashing' = [r \in Release!Job |->
              IF hashing[r].path = p /\ hashing[r].pc \in {"stat", "hashed"}
              THEN [hashing[r] EXCEPT !.overtaken = TRUE] ELSE hashing[r]]
    BY <1>6 DEF Release!Deploy, Release!Change
  <2>2. ASSUME NEW j \in Hashing
        PROVE  LET k == [j EXCEPT !.overtaken = TRUE] IN
               /\ k \in Hashing /\ k.pc = j.pc /\ k.path = j.path /\ k.stamp = j.stamp
               /\ k.version = j.version /\ k.overtaken
    OBVIOUS
  <2>3. /\ hashing' \in [Release!Job -> Hashing]
        /\ \A r \in Release!Job :
              /\ hashing'[r].pc = hashing[r].pc /\ hashing'[r].path = hashing[r].path
              /\ hashing'[r].stamp = hashing[r].stamp /\ hashing'[r].version = hashing[r].version
              /\ IF hashing[r].path = p /\ hashing[r].pc \in {"stat", "hashed"}
                 THEN hashing'[r].overtaken
                 ELSE hashing'[r].overtaken = hashing[r].overtaken
    BY <1>0, <2>1, <2>2
  <2>4. /\ files' \in [Release!Path -> File] /\ files'[p] = f
        /\ \A q \in Release!Path \ {p} : files'[q] = files[q]
        /\ deploys \in Nat /\ deploys' \in 0..MaxDeploys /\ deploys' = deploys + 1
    BY <1>0, <2>1
  <2>5. Release!TypeOK'
    BY <1>0, <1>a, <2>1, <2>3, <2>4
  <2>6. /\ \A q \in Release!Path : files[q].stamp \in Nat /\ files[q].stamp <= deploys + 1
        /\ \A w \in Worker, q \in Release!Path :
               digests[w][q].stamp \in Nat /\ digests[w][q].stamp <= deploys + 1
        /\ \A r \in Release!Job : /\ hashing[r].stamp \in Nat /\ hashing[r].path \in Release!Path
                                  /\ hashing[r].stamp <= deploys + 1
    BY <1>0 DEF Release!StampsGiven, Release!Version
  <2>7. Release!StampsGiven'
    <3>1. \A q \in Release!Path :
              files'[q].stamp <= deploys' + 1 /\ (Release!Exists(q)' => files'[q].stamp >= 1)
      BY <1>0, <1>6, <1>b, <2>4, <2>6 DEF Release!StampsGiven, Release!Exists
    <3>2. /\ \A w \in Worker, q \in Release!Path : digests'[w][q].stamp <= deploys' + 1
          /\ \A r \in Release!Job : hashing'[r].stamp <= deploys' + 1
      BY <2>1, <2>3, <2>4, <2>6
    <3>3. QED
      BY <3>1, <3>2 DEF Release!StampsGiven
  <2>8. Release!StampsHeld'
    BY <1>0, <1>6, <2>3, <2>4, <2>6 DEF Release!StampsHeld, Release!Exists
  <2>9. Release!DigestTrue'
    BY <1>0, <1>6, <2>1, <2>3, <2>4, <2>6 DEF Release!DigestTrue, Release!Exists
  <2>10. QED
    BY <2>5, <2>7, <2>8, <2>9 DEF Release!ReleasesInv
<1>7. ASSUME NEW w \in Worker, Release!Restart(w) PROVE Release!ReleasesInv'
  <2>1. /\ deploys < MaxDeploys /\ deploys' = deploys + 1 /\ files' = files
        /\ digests' = [digests EXCEPT ![w] = [p \in Release!Path |-> Release!None]]
        /\ hashing' = [r \in Release!Job |-> IF r[1] = w THEN Release!NoJob ELSE hashing[r]]
    BY <1>7 DEF Release!Restart, Release!Change
  <2>2. /\ deploys \in Nat /\ deploys' \in 0..MaxDeploys
        /\ digests' \in [Worker -> [Release!Path -> File]]
        /\ \A v \in Worker, p \in Release!Path :
               digests'[v][p] = digests[v][p] \/ digests'[v][p] = Release!None
    BY <1>0, <1>b, <2>1
  <2>3. hashing' \in [Release!Job -> Hashing]
    BY <1>0, <1>e, <2>1
  <2>4. Release!TypeOK'
    BY <1>0, <1>a, <2>1, <2>2, <2>3
  <2>5. Release!StampsGiven'
    <3>1. \A p \in Release!Path :
              files'[p].stamp <= deploys' + 1 /\ (Release!Exists(p)' => files'[p].stamp >= 1)
      BY <1>0, <2>1, <2>2 DEF Release!StampsGiven, Release!Version, Release!Exists
    <3>2. \A v \in Worker, p \in Release!Path : digests'[v][p].stamp <= deploys' + 1
      BY <1>0, <1>b, <2>1, <2>2 DEF Release!StampsGiven, Release!Version
    <3>3. \A r \in Release!Job : hashing'[r].stamp <= deploys' + 1
      BY <1>0, <1>b, <2>1, <2>2 DEF Release!StampsGiven, Release!Version
    <3>4. QED
      BY <3>1, <3>2, <3>3 DEF Release!StampsGiven
  <2>6. Release!StampsHeld'
    BY <1>0, <1>b, <2>1 DEF Release!StampsHeld, Release!Exists
  <2>7. Release!DigestTrue'
    <3>1. ASSUME NEW v \in Worker, NEW p \in Release!Path, Release!Exists(p)',
                 digests'[v][p].stamp = files'[p].stamp
          PROVE  digests'[v][p].version = files'[p].version
      <4>1. files'[p] = files[p] /\ files[p].stamp >= 1
        BY <1>0, <2>1, <3>1 DEF Release!StampsGiven, Release!Exists
      <4>2. digests'[v][p] = digests[v][p]
        BY <1>b, <2>2, <3>1, <4>1
      <4>3. QED
        BY <1>0, <2>1, <3>1, <4>1, <4>2 DEF Release!DigestTrue, Release!Exists
    <3>2. ASSUME NEW q \in Release!Job, hashing'[q].pc = "hashed", ~hashing'[q].overtaken
          PROVE  hashing'[q].version = files'[hashing'[q].path].version
      BY <1>0, <1>b, <2>1, <3>2 DEF Release!DigestTrue
    <3>3. QED
      BY <3>1, <3>2 DEF Release!DigestTrue
  <2>8. QED
    BY <2>4, <2>5, <2>6, <2>7 DEF Release!ReleasesInv
<1>8. CASE UNCHANGED Release!vars
  <2>1. UNCHANGED <<files, digests, hashing, deploys>>
    BY <1>8 DEF Release!vars
  <2>2. QED
    BY <1>0, <1>a, <2>1
    DEF Release!ReleasesInv, Release!StampsGiven, Release!StampsHeld, Release!DigestTrue,
        Release!Exists
<1>9. QED
  <2>1. ASSUME NEW p \in Release!Path,
               \/ Release!Deploy(p, [version |-> deploys + 2, stamp |-> deploys + 2])
               \/ Release!Deploy(p, Release!None)
        PROVE  Release!ReleasesInv'
    <3>1. deploys + 2 \in Release!Version
      BY <1>0, <2>1 DEF Release!Deploy, Release!Change, Release!Version
    <3>2. [version |-> deploys + 2, stamp |-> deploys + 2] \in File
      BY <3>1
    <3>3. QED
      BY <1>6, <1>b, <2>1, <3>2
  <2>2. QED
    BY <1>2, <1>3, <1>4, <1>5, <1>7, <1>8, <2>1 DEF Release!Next

\* While a file is in place, a digest kept for it is its own, and so is the one
\* that a request is about to answer which no deployment overtook
\* (_get_apk_checksum, "replaced files yield fresh digests").
THEOREM DigestTrueHolds ==
    ASSUME Release!ReleasesConstants
    PROVE  Release!Spec => [](Release!TypeOK /\ Release!DigestTrue)
<1>1. ASSUME Release!Init PROVE Release!ReleasesInv
  <2>1. /\ files \in [Release!Path -> {Release!None, [version |-> 1, stamp |-> 1]}]
        /\ digests = [w \in Worker |-> [p \in Release!Path |-> Release!None]]
        /\ hashing = [r \in Release!Job |-> Release!NoJob] /\ deploys = 0 /\ MaxDeploys \in Nat
    BY <1>1, Release!ReleasesConstants DEF Release!Init, Release!ReleasesConstants
  <2>2. 2 \in DOMAIN Release!Candidates /\ Release!Candidates[2] = "latest"
    BY DEF Release!Candidates
  <2>3. "latest" \in Release!Path
    BY <2>2 DEF Release!Path
  <2>4. Release!TypeOK
    BY <2>1, <2>3 DEF Release!TypeOK, Release!None, Release!NoJob, Release!Version
  <2>5. Release!StampsGiven
    BY <2>1 DEF Release!StampsGiven, Release!None, Release!NoJob, Release!Exists
  <2>6. Release!StampsHeld
    BY <2>1 DEF Release!StampsHeld, Release!NoJob
  <2>7. Release!DigestTrue
    BY <2>1 DEF Release!DigestTrue, Release!Exists, Release!None, Release!NoJob
  <2>8. QED
    BY <2>4, <2>5, <2>6, <2>7 DEF Release!ReleasesInv
<1>2. Release!ReleasesInv /\ [Release!Next]_Release!vars => Release!ReleasesInv'
    BY ReleasesStep, Release!ReleasesConstants
<1>3. Release!ReleasesInv => Release!TypeOK /\ Release!DigestTrue
    BY DEF Release!ReleasesInv
<1>4. QED
    BY <1>1, <1>2, <1>3, PTL DEF Release!Spec

-----------------------------------------------------------------------------
(* Startup: a worker that serves has the schema *)

IsSequence(s) == \E S : s \in Seq(S)

\* Tuples of the lengths the schema has are sequences.
LEMMA Tuples ==
    ASSUME NEW a, NEW b, NEW c
    PROVE  IsSequence(<<a>>) /\ IsSequence(<<a, b>>) /\ IsSequence(<<a, b, c>>)
<1>1. /\ <<a>> \in Seq({a}) /\ <<a, b>> \in Seq({a, b})
      /\ <<a, b, c>> \in Seq({a, b, c})
    OBVIOUS
<1>2. QED
    BY <1>1, Zenon DEF IsSequence

\* Two sequences, one after the other.
LEMMA Joined ==
    ASSUME NEW s, NEW t, IsSequence(s), IsSequence(t)
    PROVE  IsSequence(s \o t)
<1>1. PICK S : s \in Seq(S)
    BY DEF IsSequence
<1>2. PICK T : t \in Seq(T)
    BY DEF IsSequence
<1>3. s \in Seq(S \cup T) /\ t \in Seq(S \cup T)
    BY <1>1, <1>2, SeqMonotonic
<1>4. s \o t \in Seq(S \cup T)
    BY <1>3
<1>5. QED
    BY <1>4, Zenon DEF IsSequence

\* The columns of a table, from their names.
LEMMA OfSequence ==
    ASSUME NEW table, NEW names, IsSequence(names)
    PROVE  IsSequence(Boot!Of(table, names))
<1>1. PICK S : names \in Seq(S)
    BY DEF IsSequence
<1> DEFINE T == {table} \X S
<1>2. Len(names) \in Nat /\ DOMAIN names = 1..Len(names) /\ \A i \in 1..Len(names) : names[i] \in S
    BY <1>1
<1>3. Boot!Of(table, names) \in [1..Len(names) -> T]
    BY <1>2 DEF Boot!Of
<1>4. Boot!Of(table, names) \in Seq(T)
    BY <1>2, <1>3, SeqDef
<1>5. QED
    BY <1>4, Zenon DEF IsSequence

\* The columns later releases added, in the order of the ALTERs.
LEMMA AlteredSequence == DOMAIN Boot!Altered = 1..Len(Boot!Altered) /\ Len(Boot!Altered) \in Nat
<1> DEFINE names == <<"device_key_hash", "alert_phone", "alert_email", "alert_channels",
                      "enabled_types", "quiet_hours_start", "quiet_hours_end", "capture_armed",
                      "location_mode">>
<1>1. IsSequence(names)
  <2>1. names \in Seq({names[i] : i \in 1..9})
    OBVIOUS
  <2>2. QED
    BY <2>1, Zenon DEF IsSequence
<1>2. IsSequence(Boot!EarlyColumns)
    BY <1>1, Tuples, Joined, OfSequence, Zenon DEF Boot!EarlyColumns
<1>3. IsSequence(Boot!LateColumns)
    BY Tuples, Joined, OfSequence, Zenon DEF Boot!LateColumns
<1>4. IsSequence(Boot!Altered)
    BY <1>2, <1>3, Joined, Zenon DEF Boot!Altered
<1>5. QED
    BY <1>4 DEF IsSequence

\* The schema only grows, and once the first tables are there no step leaves a
\* column out of a table it creates.
Grows ==
    /\ tables \subseteq tables' /\ columns \subseteq columns' /\ postgres' = postgres
    /\ Boot!FirstTables \subseteq tables =>
           \A i \in DOMAIN Boot!Altered : Boot!Missing(i)' => Boot!Missing(i)
    /\ tables' = tables \/ ~postgres \/ Boot!PostgresTables \subseteq tables'

\* What a worker got through is not undone.
LEMMA KnowsStays == ASSUME NEW s, Boot!Knows(s), Grows PROVE Boot!Knows(s)'
    BY DEF Boot!Knows, Grows, Boot!Current

\* A statement that creates tables takes none away.
LEMMA CreateGrows ==
    ASSUME NEW ts, Boot!Create(ts), postgres' = postgres,
           ~postgres \/ Boot!PostgresTables \subseteq tables \cup ts
    PROVE  Grows /\ ts \subseteq tables'
<1>1. ASSUME Boot!FirstTables \subseteq tables, NEW i \in DOMAIN Boot!Altered, Boot!Missing(i)'
      PROVE  Boot!Missing(i)
  <2>1. "users" \in tables
    BY <1>1 DEF Boot!FirstTables
  <2>2. QED
    BY <1>1, <2>1 DEF Boot!Create, Boot!Missing, Boot!ColumnsOf
<1>2. QED
    BY <1>1 DEF Boot!Create, Grows

\* PostgreSQL's schema has no table that SQLite's lacks.
LEMMA SameTables == Boot!PostgresTables \subseteq Boot!Tables
<1>1. /\ Boot!TokenTables \subseteq Boot!Tables /\ Boot!TelemetryTables \subseteq Boot!Tables
      /\ Boot!SharingTables \subseteq Boot!Tables /\ Boot!ReportTables \subseteq Boot!Tables
      /\ Boot!ComplianceTables \subseteq Boot!Tables /\ Boot!CircleTables \subseteq Boot!Tables
      /\ Boot!FirstTables \subseteq Boot!Tables
    BY DEF Boot!Tables, Boot!Scripts
<1>2. Boot!PostgresDevices \subseteq Boot!Tables
    BY <1>1 DEF Boot!PostgresDevices, Boot!FirstTables
<1>3. Boot!PostgresAccounts \subseteq Boot!Tables
    BY <1>1 DEF Boot!PostgresAccounts, Boot!FirstTables, Boot!TelemetryTables,
              Boot!ComplianceTables
<1>4. Boot!PostgresReports \subseteq Boot!Tables
    BY <1>1 DEF Boot!PostgresReports, Boot!FirstTables, Boot!ComplianceTables, Boot!CircleTables
<1>5. Boot!PostgresConsents \subseteq Boot!Tables
    BY <1>1 DEF Boot!PostgresConsents, Boot!ComplianceTables, Boot!CircleTables
<1>6. QED
    BY <1>2, <1>3, <1>4, <1>5 DEF Boot!PostgresTables

\* A worker that is down has a state, and claims nothing of the schema.
LEMMA DownKnows == Boot!Down \in Boot!State /\ Boot!Knows(Boot!Down)
    BY DEF Boot!Down, Boot!State, Boot!Stages, Boot!Knows

\* Every step leaves a worker that knows what it got through.
LEMMA StartupStep == Boot!StartupInv /\ [Boot!Next]_Boot!vars => Boot!StartupInv'
<1> SUFFICES ASSUME Boot!StartupInv, [Boot!Next]_Boot!vars PROVE Boot!StartupInv'
    OBVIOUS
<1> USE DEF Boot!StartupInv
<1>a. ASSUME NEW w \in Worker, NEW s \in Boot!State, Boot!Moves(w, s), Grows, Boot!Knows(s)'
      PROVE  Boot!StartupInv'
  <2>1. /\ worker' \in [Worker -> Boot!State] /\ worker'[w] = s
        /\ \A v \in Worker \ {w} : worker'[v] = worker[v]
    BY <1>a DEF Boot!Moves
  <2>2. ASSUME NEW v \in Worker PROVE Boot!Knows(worker[v])'
    <3>1. CASE v = w
      BY <1>a, <2>1, <3>1 DEF Boot!Knows
    <3>2. CASE v # w
      BY <1>a, <2>1, <3>2, KnowsStays DEF Boot!Knows, Grows, Boot!Current
    <3>3. QED
      BY <3>1, <3>2
  <2>3. QED
    BY <1>a, <2>1, <2>2 DEF Grows
\* A worker that moves on while the schema stays.
<1>b. ASSUME NEW w \in Worker, NEW s \in Boot!State, Boot!Moves(w, s),
             UNCHANGED <<postgres, tables, columns>>, Boot!Knows(s)
      PROVE  Boot!StartupInv'
  <2>1. Grows
    BY <1>b DEF Grows, Boot!Missing
  <2>2. Boot!Knows(s)'
    BY <1>b, <2>1, KnowsStays
  <2>3. QED
    BY <1>a, <1>b, <2>1, <2>2
<1>s. \A pc \in {"down", "first", "alter", "later", "queue", "config", "connect", "schema",
                 "serving", "closing", "failed"} : pc \in Boot!Stages
    BY DEF Boot!Stages
<1>1. ASSUME NEW w \in Worker, Boot!Begin(w) PROVE Boot!StartupInv'
  <2> DEFINE Stage == IF postgres THEN "config"
                      ELSE IF tables # {} /\ Boot!Current THEN "queue" ELSE "first"
             After(r, pc, b) == [r EXCEPT !.pc = pc, !.retried = b]
  <2>1. ASSUME NEW r \in Boot!State, NEW pc \in {"config", "queue", "first"}, NEW b \in BOOLEAN
        PROVE  /\ After(r, pc, b) \in Boot!State /\ After(r, pc, b).pc = pc
               /\ After(r, pc, b).lost = r.lost /\ After(r, pc, b).pg = r.pg
    BY <1>s DEF Boot!State
  <2>2. Boot!Moves(w, After(Boot!Down, Stage, tables = {}))
    BY <1>1 DEF Boot!Begin
  <2> HIDE DEF After
  <2>3. Boot!Down \in Boot!State /\ ~Boot!Down.lost /\ ~Boot!Down.pg
    BY <1>s DEF Boot!Down, Boot!State
  <2>4. PICK s : s = After(Boot!Down, Stage, tables = {})
    OBVIOUS
  <2>5. s \in Boot!State /\ s.pc = Stage /\ ~s.lost /\ ~s.pg
    BY <2>1, <2>3, <2>4
  <2>6. Boot!Knows(s)
    BY <2>5 DEF Boot!Knows
  <2>7. QED
    BY <1>1, <1>b, <2>2, <2>4, <2>5, <2>6 DEF Boot!Begin
<1>2. ASSUME NEW w \in Worker, Boot!CreateFirst(w) PROVE Boot!StartupInv'
  <2> DEFINE After(r) == [r EXCEPT !.pc = "alter", !.at = 1]
  <2>1. ASSUME NEW r \in Boot!State
        PROVE  /\ After(r) \in Boot!State
               /\ After(r).pc = "alter" /\ After(r).at = 1 /\ After(r).pg = r.pg
    BY <1>s DEF Boot!State
  <2>2. Boot!Moves(w, After(worker[w]))
    BY <1>2 DEF Boot!CreateFirst
  <2> HIDE DEF After
  <2>3. PICK s : s = After(worker[w])
    OBVIOUS
  <2>4. Grows /\ Boot!FirstTables \subseteq tables'
    BY <1>2, CreateGrows DEF Boot!CreateFirst, Boot!Knows
  <2>5. s \in Boot!State /\ s.pc = "alter" /\ s.at = 1 /\ s.pg = worker[w].pg
    BY <2>1, <2>3
  <2>6. Boot!Knows(s)'
    BY <1>2, <2>4, <2>5, AlteredSequence DEF Boot!Knows, Boot!CreateFirst, Grows
  <2>7. QED
    BY <1>a, <2>2, <2>3, <2>4, <2>5, <2>6
\* The next column, or else the scripts.
<1>n. ASSUME NEW w \in Worker, NEW r, r = Boot!NextColumn(w)
      PROVE  /\ r \in Boot!State /\ r.lost = worker[w].lost /\ r.pg = worker[w].pg
             /\ \/ /\ worker[w].at < Len(Boot!Altered)
                   /\ r.pc = worker[w].pc /\ r.at = worker[w].at + 1
                \/ /\ worker[w].at >= Len(Boot!Altered) /\ r.pc = "later" /\ r.at = 1
  <2> DEFINE Column(q) == [q EXCEPT !.at = @ + 1]
             Scripted(q) == [q EXCEPT !.pc = "later", !.at = 1]
  <2>1. ASSUME NEW q \in Boot!State
        PROVE  /\ Column(q) \in Boot!State /\ Column(q).lost = q.lost /\ Column(q).pg = q.pg
               /\ Column(q).pc = q.pc /\ Column(q).at = q.at + 1
    BY DEF Boot!State
  <2>2. ASSUME NEW q \in Boot!State
        PROVE  /\ Scripted(q) \in Boot!State /\ Scripted(q).lost = q.lost
               /\ Scripted(q).pg = q.pg /\ Scripted(q).pc = "later" /\ Scripted(q).at = 1
    BY <1>s DEF Boot!State
  <2>3. r = IF worker[w].at < Len(Boot!Altered) THEN Column(worker[w]) ELSE Scripted(worker[w])
    BY <1>n DEF Boot!NextColumn
  <2> HIDE DEF Column, Scripted
  <2>4. worker[w].at \in Nat
    BY DEF Boot!State
  <2>5. QED
    BY <2>1, <2>2, <2>3, <2>4, AlteredSequence
<1>3. ASSUME NEW w \in Worker, Boot!Alter(w) PROVE Boot!StartupInv'
  <2>0. PICK k : k = worker[w].at
    OBVIOUS
  <2>1. /\ tables' = tables /\ postgres' = postgres /\ worker[w].pc = "alter"
        /\ columns' = IF Boot!Altered[k][1] \in tables THEN columns \cup {Boot!Altered[k]}
                      ELSE columns
        /\ Boot!Moves(w, Boot!NextColumn(w))
    BY <1>3, <2>0 DEF Boot!Alter
  <2>2. Grows
    BY <2>1 DEF Grows, Boot!Missing
  <2>a. ~Boot!Missing(k)'
    BY <2>1 DEF Boot!Missing
  <2>3. PICK s : s = Boot!NextColumn(w)
    OBVIOUS
  <2>4. /\ s \in Boot!State /\ s.lost = worker[w].lost /\ s.pg = worker[w].pg
        /\ \/ k < Len(Boot!Altered) /\ s.pc = "alter" /\ s.at = k + 1
           \/ k >= Len(Boot!Altered) /\ s.pc = "later" /\ s.at = 1
    BY <1>n, <2>0, <2>1, <2>3
  <2>5. /\ Boot!FirstTables \subseteq tables' /\ ~postgres'
        /\ worker[w].lost \/ \A i \in DOMAIN Boot!Altered : i < k => ~Boot!Missing(i)'
        /\ worker[w].pg => Boot!PostgresTables \subseteq tables'
    BY <2>0, <2>1, <2>2 DEF Boot!Knows, Grows
  <2>6. /\ k \in Nat /\ Len(Boot!Altered) \in Nat
        /\ \A i \in DOMAIN Boot!Altered : i \in Nat /\ i <= Len(Boot!Altered)
    BY <2>0, AlteredSequence DEF Boot!State
  <2>7. s.pc = "alter" /\ ~s.lost => \A i \in DOMAIN Boot!Altered : i < s.at => ~Boot!Missing(i)'
    BY <2>4, <2>a, <2>5, <2>6
  <2>8. s.pc = "later" => s.lost \/ \A i \in DOMAIN Boot!Altered : ~Boot!Missing(i)'
    BY <2>4, <2>a, <2>5, <2>6
  <2>9. /\ s \in Boot!State /\ s.pc \in {"alter", "later"} /\ s.lost = worker[w].lost
        /\ s.pg = worker[w].pg /\ (s.pc = "later" => s.at = 1)
    BY <2>4
  <2>10. \A i \in DOMAIN Boot!Scripts : ~(i < 1)
    BY DEF Boot!Scripts
  <2>11. Boot!Knows(s)'
    BY <2>5, <2>7, <2>8, <2>9, <2>10 DEF Boot!Knows
  <2>12. QED
    BY <1>a, <2>1, <2>2, <2>3, <2>9, <2>11
<1>4. ASSUME NEW w \in Worker, Boot!AlterTimesOut(w) PROVE Boot!StartupInv'
  <2> DEFINE After(r) == [r EXCEPT !.lost = TRUE]
  <2>1. ASSUME NEW r \in Boot!State
        PROVE  /\ After(r) \in Boot!State /\ After(r).lost /\ After(r).pc = r.pc
               /\ After(r).at = r.at /\ After(r).pg = r.pg
    BY DEF Boot!State
  <2>2. /\ Boot!Moves(w, After(Boot!NextColumn(w))) /\ worker[w].pc = "alter"
        /\ UNCHANGED <<postgres, tables, columns>>
    BY <1>4 DEF Boot!AlterTimesOut
  <2> HIDE DEF After
  <2>3. PICK r : r = Boot!NextColumn(w)
    OBVIOUS
  <2>4. PICK s : s = After(r)
    OBVIOUS
  <2>5. /\ s \in Boot!State /\ s.lost /\ s.pg = worker[w].pg
        /\ s.pc = "alter" \/ (s.pc = "later" /\ s.at = 1)
    BY <1>n, <2>1, <2>2, <2>3, <2>4
  <2>6. \A i \in DOMAIN Boot!Scripts : ~(i < 1)
    BY DEF Boot!Scripts
  <2>7. Boot!Knows(s)
    BY <2>2, <2>5, <2>6 DEF Boot!Knows
  <2>8. QED
    BY <1>b, <2>2, <2>3, <2>4, <2>5, <2>7
<1>5. ASSUME NEW w \in Worker, Boot!CreateLater(w) PROVE Boot!StartupInv'
  <2> DEFINE Script(r) == [r EXCEPT !.at = @ + 1]
             Made(r) == [r EXCEPT !.pc = "queue"]
  <2>1. ASSUME NEW r \in Boot!State
        PROVE  /\ Script(r) \in Boot!State /\ Script(r).lost = r.lost /\ Script(r).pg = r.pg
               /\ Script(r).pc = r.pc /\ Script(r).at = r.at + 1
               /\ Made(r) \in Boot!State /\ Made(r).lost = r.lost /\ Made(r).pg = r.pg
               /\ Made(r).pc = "queue"
    BY <1>s DEF Boot!State
  <2>2. PICK s : s = IF worker[w].at < Len(Boot!Scripts) THEN Script(worker[w])
                     ELSE Made(worker[w])
    OBVIOUS
  <2>3. /\ Boot!Moves(w, s) /\ worker[w].pc = "later" /\ postgres' = postgres
        /\ Boot!Create(Boot!Scripts[worker[w].at])
    BY <1>5, <2>2 DEF Boot!CreateLater
  <2> HIDE DEF Script, Made
  <2>4. PICK k : k = worker[w].at
    OBVIOUS
  <2>5. /\ s \in Boot!State /\ s.lost = worker[w].lost /\ s.pg = worker[w].pg
        /\ \/ k < Len(Boot!Scripts) /\ s.pc = "later" /\ s.at = k + 1
           \/ ~(k < Len(Boot!Scripts)) /\ s.pc = "queue"
    BY <2>1, <2>2, <2>3, <2>4
  <2>6. ~postgres
    BY <2>3 DEF Boot!Knows
  <2>7. Grows /\ Boot!Scripts[k] \subseteq tables'
    BY <2>3, <2>4, <2>6, CreateGrows
  <2>8. /\ Boot!FirstTables \subseteq tables' /\ ~postgres'
        /\ worker[w].lost \/ \A i \in DOMAIN Boot!Altered : ~Boot!Missing(i)'
        /\ worker[w].pg => Boot!PostgresTables \subseteq tables'
        /\ \A i \in DOMAIN Boot!Scripts : i < k => Boot!Scripts[i] \subseteq tables'
    BY <2>3, <2>4, <2>6, <2>7 DEF Boot!Knows, Grows
  <2>9. /\ k \in Nat /\ Len(Boot!Scripts) = 6 /\ DOMAIN Boot!Scripts = 1..6
    BY <2>4 DEF Boot!Scripts, Boot!State
  <2>10. \A i \in DOMAIN Boot!Scripts : i <= k => Boot!Scripts[i] \subseteq tables'
    BY <2>7, <2>8, <2>9
  <2>11. s.pc = "queue" => s.lost \/ Boot!Current'
    <3>1. SUFFICES ASSUME s.pc = "queue", ~s.lost PROVE Boot!Current'
      OBVIOUS
    <3>2. \A i \in DOMAIN Boot!Scripts : Boot!Scripts[i] \subseteq tables'
      BY <2>5, <2>9, <2>10, <3>1
    <3>3. Boot!Tables \subseteq tables'
      BY <2>8, <3>2 DEF Boot!Tables
    <3>4. Boot!RequiredTables \subseteq tables'
      BY <3>3 DEF Boot!RequiredTables
    <3>5. Boot!ExpectedColumns \subseteq columns'
      BY <2>5, <2>8, <3>1, <3>3 DEF Boot!ExpectedColumns, Boot!ColumnsOf, Boot!Missing
    <3>6. QED
      BY <3>4, <3>5 DEF Boot!Current
  <2>12. Boot!Knows(s)'
    BY <2>5, <2>8, <2>9, <2>10, <2>11 DEF Boot!Knows
  <2>13. QED
    BY <1>a, <2>3, <2>5, <2>7, <2>12
<1>6. ASSUME NEW w \in Worker, Boot!ScriptFails(w) PROVE Boot!StartupInv'
  <2> DEFINE Fails(r) == [r EXCEPT !.pc = "failed"]
             Again(r) == [r EXCEPT !.pc = "first", !.at = 1, !.retried = TRUE]
  <2>1. ASSUME NEW r \in Boot!State
        PROVE  /\ Fails(r) \in Boot!State /\ Fails(r).pc = "failed" /\ Fails(r).pg = r.pg
               /\ Again(r) \in Boot!State /\ Again(r).pc = "first" /\ Again(r).pg = r.pg
    BY <1>s DEF Boot!State
  <2>2. PICK s : s = IF worker[w].retried THEN Fails(worker[w]) ELSE Again(worker[w])
    OBVIOUS
  <2>3. /\ Boot!Moves(w, s) /\ worker[w].pc \in {"first", "later"}
        /\ UNCHANGED <<postgres, tables, columns>>
    BY <1>6, <2>2 DEF Boot!ScriptFails
  <2> HIDE DEF Fails, Again
  <2>4. s \in Boot!State /\ s.pc \in {"first", "failed"} /\ s.pg = worker[w].pg
    BY <2>1, <2>2
  <2>5. Boot!Knows(s)
    BY <2>3, <2>4 DEF Boot!Knows
  <2>6. QED
    BY <1>b, <2>3, <2>4, <2>5
<1>7. ASSUME NEW w \in Worker, Boot!StartQueue(w) PROVE Boot!StartupInv'
  <2> DEFINE After(r, on) == [r EXCEPT !.pc = "config", !.queue = on]
  <2>1. ASSUME NEW r \in Boot!State, NEW on \in BOOLEAN
        PROVE  /\ After(r, on) \in Boot!State /\ After(r, on).pc = "config"
               /\ After(r, on).lost = r.lost /\ After(r, on).pg = r.pg
    BY <1>s DEF Boot!State
  <2>2. PICK on \in BOOLEAN : Boot!Moves(w, After(worker[w], on))
    BY <1>7, Zenon DEF Boot!StartQueue
  <2> HIDE DEF After
  <2>3. PICK s : s = After(worker[w], on)
    OBVIOUS
  <2>4. s \in Boot!State /\ s.pc = "config" /\ s.lost = worker[w].lost /\ s.pg = worker[w].pg
    BY <2>1, <2>3
  <2>5. worker[w].pc = "queue" /\ UNCHANGED <<postgres, tables, columns>>
    BY <1>7 DEF Boot!StartQueue
  <2>6. Boot!Knows(s)
    BY <2>4, <2>5 DEF Boot!Knows
  <2>7. QED
    BY <1>b, <2>2, <2>3, <2>4, <2>5, <2>6
<1>8. ASSUME NEW w \in Worker, Boot!Validate(w) PROVE Boot!StartupInv'
  <2> DEFINE After(r, pc) == [r EXCEPT !.pc = pc]
  <2>1. ASSUME NEW r \in Boot!State, NEW pc \in {"connect", "serving", "failed"}
        PROVE  /\ After(r, pc) \in Boot!State /\ After(r, pc).pc = pc
               /\ After(r, pc).lost = r.lost /\ After(r, pc).pg = r.pg
    BY <1>s DEF Boot!State
  <2>2. PICK next \in {IF postgres THEN "connect" ELSE "serving", "failed"} :
            Boot!Moves(w, After(worker[w], next))
    BY <1>8 DEF Boot!Validate
  <2> HIDE DEF After
  <2>3. PICK s : s = After(worker[w], next)
    OBVIOUS
  <2>4. /\ s \in Boot!State /\ s.lost = worker[w].lost /\ s.pg = worker[w].pg
        /\ s.pc = "failed" \/ s.pc = IF postgres THEN "connect" ELSE "serving"
    BY <2>1, <2>3
  <2>5. worker[w].pc = "config" /\ UNCHANGED <<postgres, tables, columns>>
    BY <1>8 DEF Boot!Validate
  <2>6. Boot!Knows(s)
    BY <2>4, <2>5 DEF Boot!Knows
  <2>7. QED
    BY <1>b, <2>2, <2>3, <2>4, <2>5, <2>6
<1>9. ASSUME NEW w \in Worker, Boot!Connect(w) PROVE Boot!StartupInv'
  <2> DEFINE After(r, ts) == [r EXCEPT !.pc = "schema", !.new = ts]
  <2>1. ASSUME NEW r \in Boot!State, NEW ts \in SUBSET Boot!Tables
        PROVE  /\ After(r, ts) \in Boot!State /\ After(r, ts).pc = "schema"
               /\ After(r, ts).new = ts /\ After(r, ts).pg = r.pg
    BY <1>s DEF Boot!State
  <2>2. /\ Boot!Moves(w, After(worker[w], Boot!PostgresTables \ tables))
        /\ worker[w].pc = "connect" /\ UNCHANGED <<postgres, tables, columns>>
    BY <1>9 DEF Boot!Connect
  <2> HIDE DEF After
  <2>3. PICK s : s = After(worker[w], Boot!PostgresTables \ tables)
    OBVIOUS
  <2>4. /\ s \in Boot!State /\ s.pc = "schema" /\ s.pg = worker[w].pg
        /\ s.new = Boot!PostgresTables \ tables
    BY <2>1, <2>3, SameTables
  <2>5. Boot!Knows(s)
    BY <2>2, <2>4 DEF Boot!Knows
  <2>6. QED
    BY <1>b, <2>2, <2>3, <2>4, <2>5
\* A worker that has done with the schema, by its own hands or another's.
<1> DEFINE Set(r) == [r EXCEPT !.pc = "serving", !.pg = TRUE, !.new = {}]
<1>d. ASSUME NEW r \in Boot!State PROVE Set(r) \in Boot!State /\ Set(r).pc = "serving"
    BY <1>s DEF Boot!State
<1> HIDE DEF Set
<1>10. ASSUME NEW w \in Worker, Boot!Commit(w) PROVE Boot!StartupInv'
  <2>1. PICK s : s = Set(worker[w])
    OBVIOUS
  <2>2. s \in Boot!State /\ s.pc = "serving"
    BY <1>d, <2>1
  <2>3. /\ Boot!Moves(w, s) /\ worker[w].pc = "schema" /\ postgres' = postgres
        /\ tables' = tables \cup worker[w].new
        /\ columns' = columns \cup Boot!ColumnsOf(worker[w].new)
    BY <1>10, <2>1 DEF Boot!Commit, Set
  <2>4. postgres /\ Boot!PostgresTables \subseteq tables \cup worker[w].new
    BY <2>3 DEF Boot!Knows
  <2>5. Boot!PostgresTables \subseteq tables'
    BY <2>3, <2>4
  <2>6. Grows
    BY <2>3, <2>5 DEF Grows, Boot!Missing, Boot!ColumnsOf
  <2>7. Boot!Knows(s)'
    BY <2>2, <2>3, <2>4, <2>5 DEF Boot!Knows
  <2>8. QED
    BY <1>a, <2>2, <2>3, <2>6, <2>7
<1>11. ASSUME NEW w \in Worker, Boot!DuplicateType(w) PROVE Boot!StartupInv'
  <2>1. PICK s : s = Set(worker[w])
    OBVIOUS
  <2>2. s \in Boot!State /\ s.pc = "serving"
    BY <1>d, <2>1
  <2>3. /\ Boot!Moves(w, s) /\ worker[w].pc = "schema"
        /\ UNCHANGED <<postgres, tables, columns>> /\ worker[w].new \cap tables # {}
    BY <1>11, <2>1 DEF Boot!DuplicateType, Set
  <2>4. postgres /\ Boot!PostgresTables \subseteq tables
    BY <2>3 DEF Boot!Knows
  <2>5. Boot!Knows(s)
    BY <2>2, <2>4 DEF Boot!Knows
  <2>6. QED
    BY <1>b, <2>2, <2>3, <2>5
<1>12. ASSUME NEW w \in Worker, Boot!SetupFails(w) PROVE Boot!StartupInv'
  <2> DEFINE After(r) == [r EXCEPT !.pc = "serving", !.new = {}]
  <2>1. ASSUME NEW r \in Boot!State
        PROVE  After(r) \in Boot!State /\ After(r).pc = "serving" /\ After(r).pg = r.pg
    BY <1>s DEF Boot!State
  <2>2. /\ Boot!Moves(w, After(worker[w])) /\ worker[w].pc \in {"connect", "schema"}
        /\ UNCHANGED <<postgres, tables, columns>>
    BY <1>12 DEF Boot!SetupFails
  <2> HIDE DEF After
  <2>3. PICK s : s = After(worker[w])
    OBVIOUS
  <2>4. s \in Boot!State /\ s.pc = "serving" /\ s.pg = worker[w].pg
    BY <2>1, <2>3
  <2>5. Boot!Knows(s)
    BY <2>2, <2>4 DEF Boot!Knows
  <2>6. QED
    BY <1>b, <2>2, <2>3, <2>4, <2>5
<1>13. ASSUME NEW w \in Worker, Boot!StopQueue(w) PROVE Boot!StartupInv'
  <2> DEFINE After(r) == [r EXCEPT !.pc = "closing", !.queue = FALSE]
  <2>1. ASSUME NEW r \in Boot!State
        PROVE  After(r) \in Boot!State /\ After(r).pc = "closing" /\ After(r).pg = r.pg
    BY <1>s DEF Boot!State
  <2>2. Boot!Moves(w, After(worker[w])) /\ UNCHANGED <<postgres, tables, columns>>
    BY <1>13 DEF Boot!StopQueue
  <2> HIDE DEF After
  <2>3. PICK s : s = After(worker[w])
    OBVIOUS
  <2>4. s \in Boot!State /\ s.pc = "closing" /\ s.pg = worker[w].pg
    BY <2>1, <2>3
  <2>5. Boot!Knows(s)
    BY <2>2, <2>4 DEF Boot!Knows
  <2>6. QED
    BY <1>b, <2>2, <2>3, <2>4, <2>5
<1>14. ASSUME NEW w \in Worker, Boot!Close(w) \/ Boot!Dies(w) PROVE Boot!StartupInv'
  <2>1. Boot!Moves(w, Boot!Down) /\ UNCHANGED <<postgres, tables, columns>>
    BY <1>14 DEF Boot!Close, Boot!Dies
  <2>2. QED
    BY <1>b, <2>1, DownKnows
<1>15. CASE UNCHANGED Boot!vars
    BY <1>15 DEF Boot!vars, Boot!Knows, Boot!Missing, Boot!Current
<1>16. QED
    BY <1>1, <1>2, <1>3, <1>4, <1>5, <1>6, <1>7, <1>8, <1>9, <1>10, <1>11, <1>12, <1>13, <1>14,
       <1>15 DEF Boot!Next

\* A worker serves only once the tables and columns that ensure_initialized and
\* init_pg_store answer for are there, however many workers upgrade the same database
\* at once, whatever it lacked, and wherever any of them died.
THEOREM ServesSchemaHolds == Boot!Spec => []Boot!ServesCurrentSchema
<1>1. Boot!Init => Boot!StartupInv
    BY DownKnows DEF Boot!Init, Boot!StartupInv
<1>2. Boot!StartupInv => Boot!ServesCurrentSchema
    BY DEF Boot!StartupInv, Boot!Knows, Boot!ServesCurrentSchema, Boot!Current
<1>3. QED
    BY <1>1, <1>2, StartupStep, PTL DEF Boot!Spec

\* A script's place in the list is a place of an ALTER too: there are more of those.
LEMMA Places ==
    /\ Len(Boot!Altered) \in Nat /\ Len(Boot!Altered) >= 9
    /\ Len(Boot!Scripts) = 6 /\ \A i \in 1..6 : Boot!Scripts[i] \subseteq Boot!Tables
<1> DEFINE names == <<"device_key_hash", "alert_phone", "alert_email", "alert_channels",
                      "enabled_types", "quiet_hours_start", "quiet_hours_end", "capture_armed",
                      "location_mode">>
           NoLess(s, n) == IsSequence(s) /\ Len(s) >= n
<1>1. ASSUME NEW s, NEW t, NEW n \in Nat, NoLess(s, n), IsSequence(t) PROVE NoLess(s \o t, n)
  <2>1. PICK S : s \in Seq(S)
    BY <1>1 DEF IsSequence
  <2>2. PICK T : t \in Seq(T)
    BY <1>1 DEF IsSequence
  <2>3. s \in Seq(S \cup T) /\ t \in Seq(S \cup T)
    BY <2>1, <2>2, SeqMonotonic
  <2>4. Len(s \o t) = Len(s) + Len(t) /\ Len(s) \in Nat /\ Len(t) \in Nat
    BY <2>3
  <2>5. IsSequence(s \o t)
    BY <1>1, Joined
  <2>6. QED
    BY <1>1, <2>4, <2>5
<1>2. IsSequence(names) /\ Len(names) = 9 /\ DOMAIN names = 1..9
  <2>1. names \in Seq({names[i] : i \in 1..9}) /\ Len(names) = 9 /\ DOMAIN names = 1..9
    OBVIOUS
  <2>2. QED
    BY <2>1, Zenon DEF IsSequence
<1>3. NoLess(Boot!Of("devices", names), 9)
  <2>1. IsSequence(Boot!Of("devices", names))
    BY <1>2, OfSequence
  <2>2. DOMAIN Boot!Of("devices", names) = 1..9
    BY <1>2 DEF Boot!Of
  <2>3. Len(Boot!Of("devices", names)) = 9
    <3>1. PICK S : Boot!Of("devices", names) \in Seq(S)
      BY <2>1 DEF IsSequence
    <3>2. PICK q \in Seq(S) : q = Boot!Of("devices", names)
      BY <3>1
    <3>3. Len(q) \in Nat /\ 1..Len(q) = 1..9
      <4>1. \A r \in Seq(S) : Len(r) \in Nat /\ DOMAIN r = 1..Len(r)
        OBVIOUS
      <4>2. DOMAIN q = 1..9
        BY <2>2, <3>2, Zenon
      <4>3. QED
        BY <4>1, <4>2, Zenon
    <3>4. Len(q) = 9
      <4>1. PICK n \in Nat : n = Len(q)
        BY <3>3
      <4>2. 1..n = 1..9
        BY <3>3, <4>1
      <4>3. 9 \in 1..n /\ ~(10 \in 1..n)
        <5>1. 9 \in 1..9 /\ ~(10 \in 1..9)
          OBVIOUS
        <5>2. QED
          BY <4>2, <5>1, Zenon
      <4>4. n = 9
        BY <4>3
      <4>5. QED
        BY <4>1, <4>4
    <3>5. QED
      BY <3>2, <3>4
  <2>4. QED
    BY <2>1, <2>3
<1> HIDE DEF names, NoLess
<1>4. NoLess(Boot!EarlyColumns, 9)
  <2>1. /\ IsSequence(Boot!Of("commands", <<"failure_reason">>))
        /\ IsSequence(Boot!Of("devices", <<"archived_at", "sms_phone", "sms_commands_enabled">>))
        /\ IsSequence(Boot!Of("commands", <<"delivery_channel">>))
    BY Tuples, OfSequence, Zenon
  <2>2. 9 \in Nat
    OBVIOUS
  <2>3. NoLess(Boot!Of("devices", names) \o Boot!Of("commands", <<"failure_reason">>), 9)
    BY <1>1, <1>3, <2>1, <2>2
  <2>4. NoLess((Boot!Of("devices", names) \o Boot!Of("commands", <<"failure_reason">>))
                 \o Boot!Of("devices", <<"archived_at", "sms_phone", "sms_commands_enabled">>), 9)
    BY <1>1, <2>1, <2>2, <2>3
  <2>5. NoLess(((Boot!Of("devices", names) \o Boot!Of("commands", <<"failure_reason">>))
                  \o Boot!Of("devices", <<"archived_at", "sms_phone", "sms_commands_enabled">>))
                 \o Boot!Of("commands", <<"delivery_channel">>), 9)
    BY <1>1, <2>1, <2>2, <2>4
  <2>6. QED
    BY <2>5 DEF Boot!EarlyColumns, names
<1>5. IsSequence(Boot!LateColumns)
    BY Tuples, Joined, OfSequence, Zenon DEF Boot!LateColumns
<1>6. NoLess(Boot!Altered, 9)
  <2>1. 9 \in Nat
    OBVIOUS
  <2>2. QED
    BY <1>1, <1>4, <1>5, <2>1 DEF Boot!Altered
<1>7. /\ Len(Boot!Scripts) = 6 /\ DOMAIN Boot!Scripts = 1..6
    BY DEF Boot!Scripts
<1>8. \A i \in 1..6 : Boot!Scripts[i] \subseteq Boot!Tables
    BY <1>7 DEF Boot!Tables
<1>9. QED
    BY <1>6, <1>7, <1>8, AlteredSequence DEF NoLess

\* Every variable of the start-up has its type: the database holds tables and columns of
\* the schema only, and a worker's place is one of the ALTERs or of the scripts (lifespan,
\* init_db).
THEOREM StartupTyped ==
    ASSUME MaxFaults \in Nat
    PROVE  Boot!Spec => []Boot!TypeOK
<1> DEFINE InPlace(s) == /\ s.at \in 1..Len(Boot!Altered) /\ (s.pc = "later" => s.at \in 1..6)
                         /\ s.new \subseteq Boot!Tables
           Built == /\ tables \subseteq Boot!Tables /\ columns \subseteq Boot!ColumnsOf(tables)
                    /\ faults \in 0..MaxFaults /\ \A w \in Worker : InPlace(worker[w])
<1>0. /\ Len(Boot!Altered) \in Nat /\ Len(Boot!Altered) >= 9
      /\ Len(Boot!Scripts) = 6 /\ \A i \in 1..6 : Boot!Scripts[i] \subseteq Boot!Tables
      /\ \A i \in 1..6 : i \in 1..Len(Boot!Altered)
    BY Places
<1>d. InPlace(Boot!Down)
    BY <1>0 DEF Boot!Down
<1>1. Boot!Init => Built
  <2> SUFFICES ASSUME Boot!Init PROVE Built
    OBVIOUS
  <2>1. tables \subseteq Boot!Tables /\ columns \subseteq Boot!ColumnsOf(tables)
    BY DEF Boot!Init, Boot!Columns
  <2> HIDE DEF InPlace
  <2>2. \A w \in Worker : InPlace(worker[w])
    BY <1>d DEF Boot!Init
  <2>3. QED
    BY <2>1, <2>2 DEF Boot!Init
<1>2. Boot!StartupInv /\ Built /\ [Boot!Next]_Boot!vars => Built'
  <2> SUFFICES ASSUME Boot!StartupInv, Built, [Boot!Next]_Boot!vars PROVE Built'
    OBVIOUS
  <2>1. worker \in [Worker -> Boot!State]
    BY DEF Boot!StartupInv
  <2> DEFINE Held == tables \subseteq Boot!Tables /\ columns \subseteq Boot!ColumnsOf(tables)
  <2>2. ASSUME NEW ts \in SUBSET Boot!Tables, Boot!Create(ts) PROVE Held'
    BY <2>2 DEF Boot!Create, Boot!ColumnsOf
  <2>3. ASSUME UNCHANGED <<tables, columns>> PROVE Held'
    BY <2>3
  <2>4. ASSUME NEW w \in Worker, NEW s, Boot!Moves(w, s), InPlace(s), Held',
               faults' \in 0..MaxFaults
        PROVE  Built'
    <3>1. \A v \in Worker : InPlace(worker'[v])
      BY <2>1, <2>4 DEF Boot!Moves
    <3>2. QED
      BY <2>4, <3>1
  <2>5. ASSUME NEW s \in Boot!State, InPlace(s)
        PROVE  /\ \A b \in BOOLEAN :
                    InPlace([s EXCEPT !.pc = "config", !.queue = b])
               /\ \A pc \in Boot!Stages : pc # "later" => InPlace([s EXCEPT !.pc = pc])
               /\ InPlace([s EXCEPT !.pc = "alter", !.at = 1])
               /\ InPlace([s EXCEPT !.pc = "first", !.at = 1, !.retried = TRUE])
               /\ InPlace([s EXCEPT !.pc = "later", !.at = 1])
               /\ InPlace([s EXCEPT !.lost = TRUE])
               /\ s.pc # "later" /\ s.at < Len(Boot!Altered) => InPlace([s EXCEPT !.at = @ + 1])
               /\ s.at < 6 => InPlace([s EXCEPT !.at = @ + 1])
               /\ \A ts \in SUBSET Boot!Tables :
                    InPlace([s EXCEPT !.pc = "schema", !.new = ts])
               /\ InPlace([s EXCEPT !.pc = "serving", !.pg = TRUE, !.new = {}])
               /\ InPlace([s EXCEPT !.pc = "serving", !.new = {}])
               /\ InPlace([s EXCEPT !.pc = "closing", !.queue = FALSE])
    BY <1>0, <2>5 DEF Boot!State
  <2>6. ASSUME NEW w \in Worker PROVE worker[w] \in Boot!State /\ InPlace(worker[w])
    BY <2>1
  <2> DEFINE Stage == IF postgres THEN "config"
                      ELSE IF tables # {} /\ Boot!Current THEN "queue" ELSE "first"
  <2>s. \A pc \in {"failed", "first", "connect", "serving", "queue"} :
            pc \in Boot!Stages /\ pc # "later"
    BY DEF Boot!Stages
  <2>7. InPlace([Boot!Down EXCEPT !.pc = Stage, !.retried = tables = {}])
    BY <1>0 DEF Boot!Down
  <2>8. faults \in 0..MaxFaults /\ (faults < MaxFaults => faults + 1 \in 0..MaxFaults)
    OBVIOUS
  <2>9. ASSUME NEW w \in Worker, worker[w].pc = "alter" PROVE InPlace(Boot!NextColumn(w))
    BY <2>5, <2>6, <2>9 DEF Boot!NextColumn
  <2>t. Boot!FirstTables \subseteq Boot!Tables /\ Held
    BY DEF Boot!Tables
  <2> HIDE DEF InPlace, Held, Built
  <2>10. ASSUME NEW w \in Worker, Boot!Begin(w) PROVE Built'
    BY <2>3, <2>4, <2>7, <2>8, <2>10 DEF Boot!Begin
  <2>11. ASSUME NEW w \in Worker, Boot!CreateFirst(w) PROVE Built'
    BY <2>2, <2>4, <2>5, <2>6, <2>8, <2>11, <2>t DEF Boot!CreateFirst
  <2>12. ASSUME NEW w \in Worker, Boot!Alter(w) PROVE Built'
    <3>1. Held'
      <4>1. ASSUME NEW c \in columns' PROVE c \in Boot!ColumnsOf(tables')
        <5>1. PICK k : k = worker[w].at /\ k \in 1..Len(Boot!Altered)
          BY <2>6 DEF InPlace
        <5>2. CASE c \in columns
          BY <2>12, <2>t, <5>2 DEF Boot!Alter, Held
        <5>3. CASE c \notin columns
          <6>1. c = Boot!Altered[k] /\ c[1] \in tables /\ tables' = tables
            BY <2>12, <4>1, <5>1, <5>3 DEF Boot!Alter
          <6>2. QED
            BY <5>1, <6>1, AlteredSequence DEF Boot!ColumnsOf
        <5>4. QED
          BY <5>2, <5>3
      <4>2. QED
        BY <2>12, <2>t, <4>1 DEF Held, Boot!Alter
    <3>2. QED
      BY <2>4, <2>8, <2>9, <2>12, <3>1 DEF Boot!Alter
  <2>13. ASSUME NEW w \in Worker, Boot!AlterTimesOut(w) PROVE Built'
    <3>1. InPlace(Boot!NextColumn(w)) /\ Boot!NextColumn(w) \in Boot!State
      <4>1. worker[w] \in Boot!State
        BY <2>6
      <4>2. ASSUME NEW s \in Boot!State
            PROVE  /\ [s EXCEPT !.at = @ + 1] \in Boot!State
                   /\ [s EXCEPT !.pc = "later", !.at = 1] \in Boot!State
        <5>1. "later" \in Boot!Stages
          BY DEF Boot!Stages
        <5>2. PICK n \in Nat : n = s.at + 1
          BY DEF Boot!State
        <5>3. [s EXCEPT !.at = n] \in Boot!State
          BY DEF Boot!State
        <5>4. [s EXCEPT !.pc = "later", !.at = 1] \in Boot!State
          BY <5>1 DEF Boot!State
        <5>5. QED
          BY <5>2, <5>3, <5>4
      <4>3. Boot!NextColumn(w) \in Boot!State
        BY <4>1, <4>2 DEF Boot!NextColumn
      <4>4. QED
        BY <2>9, <2>13, <4>3 DEF Boot!AlterTimesOut
    <3>2. InPlace([Boot!NextColumn(w) EXCEPT !.lost = TRUE])
      BY <2>5, <3>1
    <3>3. QED
      BY <2>3, <2>4, <2>8, <2>13, <3>2 DEF Boot!AlterTimesOut, Boot!Busy
  <2>14. ASSUME NEW w \in Worker, Boot!CreateLater(w) PROVE Built'
    <3>1. worker[w].at \in 1..6
      BY <2>6, <2>14 DEF Boot!CreateLater, InPlace
    <3>2. Held'
      BY <1>0, <2>2, <2>14, <3>1 DEF Boot!CreateLater
    <3>3. PICK s : Boot!Moves(w, s) /\ InPlace(s)
      BY <1>0, <2>5, <2>6, <2>14, <2>s DEF Boot!CreateLater
    <3>4. QED
      BY <2>4, <2>8, <2>14, <3>2, <3>3 DEF Boot!CreateLater
  <2>15. ASSUME NEW w \in Worker, Boot!ScriptFails(w) PROVE Built'
    <3>1. PICK s : Boot!Moves(w, s) /\ InPlace(s)
      BY <2>5, <2>6, <2>15, <2>s DEF Boot!ScriptFails
    <3>2. QED
      BY <2>3, <2>4, <2>8, <2>15, <3>1 DEF Boot!ScriptFails, Boot!Busy
  <2>16. ASSUME NEW w \in Worker, Boot!StartQueue(w) PROVE Built'
    BY <2>3, <2>4, <2>5, <2>6, <2>8, <2>16 DEF Boot!StartQueue
  <2>17. ASSUME NEW w \in Worker, Boot!Validate(w) PROVE Built'
    <3>1. PICK s : Boot!Moves(w, s) /\ InPlace(s)
      BY <2>5, <2>6, <2>17, <2>s DEF Boot!Validate
    <3>2. QED
      BY <2>3, <2>4, <2>8, <2>17, <3>1 DEF Boot!Validate
  <2>18. ASSUME NEW w \in Worker, Boot!Connect(w) PROVE Built'
    <3>1. Boot!PostgresTables \ tables \in SUBSET Boot!Tables
      BY SameTables
    <3>2. QED
      BY <2>3, <2>4, <2>5, <2>6, <2>8, <2>18, <3>1 DEF Boot!Connect
  <2>19. ASSUME NEW w \in Worker, Boot!Commit(w) PROVE Built'
    <3>0. worker[w].new \subseteq Boot!Tables
      BY <2>6 DEF InPlace
    <3>1. Held'
      BY <2>t, <2>19, <3>0 DEF Boot!Commit, Held, Boot!ColumnsOf
    <3>2. QED
      BY <2>4, <2>5, <2>6, <2>8, <2>19, <3>1 DEF Boot!Commit
  <2>20. ASSUME NEW w \in Worker, \/ Boot!DuplicateType(w) \/ Boot!SetupFails(w)
                                  \/ Boot!StopQueue(w)
         PROVE  Built'
    <3>1. PICK s : Boot!Moves(w, s) /\ InPlace(s)
      BY <2>5, <2>6, <2>20 DEF Boot!DuplicateType, Boot!SetupFails, Boot!StopQueue
    <3>2. QED
      BY <2>3, <2>4, <2>8, <2>20, <3>1 DEF Boot!DuplicateType, Boot!SetupFails, Boot!StopQueue
  <2>21. ASSUME NEW w \in Worker, Boot!Close(w) \/ Boot!Dies(w) PROVE Built'
    BY <1>d, <2>3, <2>4, <2>8, <2>21 DEF Boot!Close, Boot!Dies
  <2>22. ASSUME UNCHANGED Boot!vars PROVE Built'
    BY <2>22 DEF Boot!vars, Built
  <2>23. QED
    BY <2>10, <2>11, <2>12, <2>13, <2>14, <2>15, <2>16, <2>17, <2>18, <2>19, <2>20, <2>21, <2>22
    DEF Boot!Next
<1>3. Boot!StartupInv /\ Built => Boot!TypeOK
  <2> SUFFICES ASSUME Boot!StartupInv, Built PROVE Boot!TypeOK
    OBVIOUS
  <2>1. \A s \in Boot!State : InPlace(s) => s \in
          [pc: {"down", "first", "alter", "later", "queue", "config", "connect",
                "schema", "serving", "closing", "failed"},
           at: 1..Len(Boot!Altered), retried: BOOLEAN, lost: BOOLEAN,
           new: SUBSET Boot!Tables, pg: BOOLEAN, queue: BOOLEAN]
    BY DEF Boot!State, Boot!Stages
  <2> HIDE DEF InPlace
  <2>2. QED
    BY <2>1 DEF Boot!StartupInv, Boot!TypeOK
<1>4. Boot!Init => Boot!StartupInv
    BY DownKnows DEF Boot!Init, Boot!StartupInv
<1> HIDE DEF Built
<1>5. QED
    BY <1>1, <1>2, <1>3, <1>4, StartupStep, PTL DEF Boot!Spec

-----------------------------------------------------------------------------
(* Circles: devices in a circle *)

\* Every step keeps what the keys of the tables ask for and what the requests that
\* nothing overtook have found.
LEMMA CirclesStep ==
    ASSUME Circle!CirclesConstants
    PROVE  Circle!CirclesInv /\ [Circle!Next]_Circle!vars => Circle!CirclesInv'
<1> SUFFICES ASSUME Circle!CirclesInv, [Circle!Next]_Circle!vars PROVE Circle!CirclesInv'
    OBVIOUS
<1>k. \A kind \in {"none", "join", "share", "unshare", "part", "delete", "refresh", "account"} :
          kind \in Circle!Kinds
    BY DEF Circle!Kinds
<1>t. posed \in [Worker -> Circle!Requests] /\ Circle!LooksHold /\ overtaken \in BOOLEAN
    BY DEF Circle!CirclesInv, Circle!TypeOK
\* A write is the end of its request, or its second step, and all others are overtaken.
<1>c. ASSUME NEW w \in Worker, NEW next \in Circle!Requests, next.kind # "share",
             Circle!CommitsAs(w, next)
      PROVE  /\ posed' \in [Worker -> Circle!Requests] /\ Circle!LooksHold'
             /\ overtaken' \in BOOLEAN /\ (~overtaken' => ~overtaken /\ ~posed[w].stale)
  <2> DEFINE Stale(r) == [r EXCEPT !.stale = TRUE]
  <2>1. ASSUME NEW r \in Circle!Requests
        PROVE  /\ Stale(r) \in Circle!Requests /\ Stale(r).kind = r.kind
               /\ Stale(r).on = r.on /\ Stale(r).stale
    BY DEF Circle!Requests
  <2>2. /\ posed' = [v \in Worker |-> IF v = w THEN next
                                      ELSE IF posed[v] = Circle!NoRequest THEN posed[v]
                                      ELSE Stale(posed[v])]
        /\ overtaken' = (overtaken \/ posed[w].stale)
    BY <1>c DEF Circle!CommitsAs
  <2> HIDE DEF Stale
  <2>3. Circle!NoRequest.kind # "share"
    BY DEF Circle!NoRequest
  <2>4. posed[w].stale \in BOOLEAN
    BY <1>t DEF Circle!Requests
  <2>5. posed' \in [Worker -> Circle!Requests]
    BY <1>t, <2>1, <2>2
  <2>6. Circle!LooksHold'
    BY <1>c, <1>t, <2>1, <2>2, <2>3 DEF Circle!LooksHold
  <2>7. QED
    BY <1>t, <2>2, <2>4, <2>5, <2>6
<1>n. Circle!NoRequest \in Circle!Requests /\ Circle!NoRequest.kind # "share"
    BY <1>k DEF Circle!NoRequest, Circle!Requests
<1>e. ASSUME NEW w \in Worker, Circle!Commits(w)
      PROVE  /\ posed' \in [Worker -> Circle!Requests] /\ Circle!LooksHold'
             /\ overtaken' \in BOOLEAN /\ (~overtaken' => ~overtaken /\ ~posed[w].stale)
    BY <1>c, <1>e, <1>n DEF Circle!Commits
<1> USE DEF Circle!CirclesInv, Circle!TypeOK, Circle!SharersAreMembers
<1>1. ASSUME NEW w \in Worker, NEW u \in User, Circle!Create(w, u) PROVE Circle!CirclesInv'
    BY <1>1, <1>e, <1>t DEF Circle!Create
<1>2. ASSUME NEW w \in Worker, NEW u \in User, Circle!LookJoin(w, u) PROVE Circle!CirclesInv'
    BY <1>2, <1>k DEF Circle!LookJoin, Circle!Decides, Circle!LooksHold, Circle!Requests
<1>3. ASSUME NEW w \in Worker, Circle!WriteJoin(w) PROVE Circle!CirclesInv'
    BY <1>3, <1>e, <1>t DEF Circle!WriteJoin
<1>4. ASSUME NEW w \in Worker, NEW u \in User, NEW d \in Device, Circle!LookShare(w, u, d)
      PROVE  Circle!CirclesInv'
    BY <1>4, <1>k DEF Circle!LookShare, Circle!Decides, Circle!LooksHold, Circle!Requests
<1>5. ASSUME NEW w \in Worker, Circle!WriteShare(w) PROVE Circle!CirclesInv'
  <2>1. PICK r : r = posed[w]
    OBVIOUS
  <2>2. /\ r.kind = "share" /\ Circle!Commits(w)
        /\ shared' = IF circle = "open" /\ holder[r.on] # None /\ r.user \in living
                     THEN [shared EXCEPT ![r.on] = r.user] ELSE shared
        /\ UNCHANGED <<circle, owner, code, members, living>>
    BY <1>5, <2>1 DEF Circle!WriteShare
  <2>3. r.on \in Device /\ (~r.stale => r.user \in members) /\ r.user \in User \cup {None}
    BY <1>t, <2>1, <2>2 DEF Circle!LooksHold, Circle!Requests
  <2>4. /\ posed' \in [Worker -> Circle!Requests] /\ Circle!LooksHold' /\ overtaken' \in BOOLEAN
        /\ ~overtaken' => ~overtaken /\ ~r.stale
    BY <1>e, <2>1, <2>2
  <2>5. /\ shared' \in [Device -> User \cup {None}]
        /\ \A d \in Device : shared'[d] \in living \cup {None}
        /\ circle # "open" => shared' = shared
    BY <2>2, <2>3
  <2>6. ~overtaken' => \A d \in Device : shared'[d] \in members \cup {None}
    BY <2>2, <2>3, <2>4
  <2>7. QED
    BY <2>2, <2>4, <2>5, <2>6
<1>6. ASSUME NEW w \in Worker, NEW u \in User, NEW d \in Device, Circle!LookUnshare(w, u, d)
      PROVE  Circle!CirclesInv'
    BY <1>6, <1>k DEF Circle!LookUnshare, Circle!Decides, Circle!LooksHold, Circle!Requests
<1>7. ASSUME NEW w \in Worker, Circle!WriteUnshare(w) PROVE Circle!CirclesInv'
    BY <1>7, <1>e, <1>t DEF Circle!WriteUnshare
<1>8. ASSUME NEW w \in Worker, NEW u \in User, NEW who \in User, Circle!LookPart(w, u, who)
      PROVE  Circle!CirclesInv'
    BY <1>8, <1>k DEF Circle!LookPart, Circle!Decides, Circle!LooksHold, Circle!Requests
<1>9. ASSUME NEW w \in Worker, Circle!WritePart(w) PROVE Circle!CirclesInv'
    BY <1>9, <1>e, <1>t DEF Circle!WritePart, Circle!Parts
<1>10. ASSUME NEW w \in Worker, NEW u \in User, Circle!LookDelete(w, u) PROVE Circle!CirclesInv'
    BY <1>10, <1>k DEF Circle!LookDelete, Circle!Decides, Circle!LooksHold, Circle!Requests
<1>11. ASSUME NEW w \in Worker, Circle!WriteDelete(w) PROVE Circle!CirclesInv'
    BY <1>11, <1>e, <1>t DEF Circle!WriteDelete
<1>12. ASSUME NEW w \in Worker, NEW u \in User, Circle!LookRefresh(w, u) PROVE Circle!CirclesInv'
    BY <1>12, <1>k DEF Circle!LookRefresh, Circle!Decides, Circle!LooksHold, Circle!Requests
<1>13. ASSUME NEW w \in Worker, Circle!WriteRefresh(w) PROVE Circle!CirclesInv'
    BY <1>13, <1>e, <1>t, Circle!CirclesConstants DEF Circle!CirclesConstants, Circle!WriteRefresh
<1>14. ASSUME NEW w \in Worker, NEW u \in User, Circle!DeleteAccount(w, u) PROVE Circle!CirclesInv'
    BY <1>14, <1>e, <1>t DEF Circle!DeleteAccount, Circle!WithoutDevices, Circle!Held
<1>15. ASSUME NEW w \in Worker, NEW u \in User, Circle!DeleteDevices(w, u) PROVE Circle!CirclesInv'
  <2> DEFINE next == [kind |-> "account", user |-> u, on |-> None, stale |-> FALSE]
  <2>1. next \in Circle!Requests /\ next.kind # "share"
    BY <1>k DEF Circle!Requests
  <2>2. Circle!CommitsAs(w, next)
    BY <1>15 DEF Circle!DeleteDevices
  <2> HIDE DEF next
  <2>3. QED
    BY <1>15, <1>c, <2>1, <2>2 DEF Circle!DeleteDevices, Circle!WithoutDevices
<1>16. ASSUME NEW w \in Worker, Circle!DeleteUser(w) PROVE Circle!CirclesInv'
    BY <1>16, <1>e, <1>t DEF Circle!DeleteUser, Circle!Dropped, Circle!Referenced
<1>17. ASSUME NEW d \in Device, Circle!DeleteDevice(d) PROVE Circle!CirclesInv'
    BY <1>17, <1>t DEF Circle!DeleteDevice, Circle!WithoutDevices, Circle!LooksHold
<1>18. ASSUME NEW d \in Device, NEW u \in User, Circle!Administer(d, u) PROVE Circle!CirclesInv'
    BY <1>18 DEF Circle!Administer, Circle!LooksHold
<1>19. CASE UNCHANGED Circle!vars
    BY <1>19 DEF Circle!vars, Circle!LooksHold
<1>20. QED
    BY <1>1, <1>2, <1>3, <1>4, <1>5, <1>6, <1>7, <1>8, <1>9, <1>10, <1>11, <1>12, <1>13, <1>14,
       <1>15, <1>16, <1>17, <1>18, <1>19 DEF Circle!Next

\* As long as no request is overtaken between its check and its write, a device is in a
\* circle only for a member of it, and what refers to an account or to the circle finds
\* it, whoever joins, leaves, is removed or deletes the account, on both stores
\* (leave_circle, remove_member, delete_user_account).
THEOREM SharersAreMembersHolds ==
    ASSUME Circle!CirclesConstants
    PROVE  Circle!Spec => [](Circle!TypeOK /\ Circle!SharersAreMembers)
<1>1. Circle!Init => Circle!CirclesInv
  <2> SUFFICES ASSUME Circle!Init PROVE Circle!CirclesInv
    OBVIOUS
  <2>1. Circle!NoRequest \in Circle!Requests /\ Circle!NoRequest.kind # "share"
    BY DEF Circle!NoRequest, Circle!Requests, Circle!Kinds
  <2>2. posed \in [Worker -> Circle!Requests] /\ Circle!LooksHold
    BY <2>1 DEF Circle!Init, Circle!LooksHold
  <2>3. \A d \in Device : shared[d] = None
    BY DEF Circle!Init
  <2>4. 1 \in 1..MaxCodes
    BY Circle!CirclesConstants DEF Circle!CirclesConstants
  <2>5. Circle!TypeOK
    BY <2>3, <2>4 DEF Circle!Init, Circle!TypeOK
  <2>6. shared \in [Device -> User \cup {None}]
    BY DEF Circle!Init
  <2>7. QED
    BY <2>2, <2>3, <2>5, <2>6 DEF Circle!CirclesInv, Circle!SharersAreMembers
<1>2. Circle!CirclesInv => Circle!TypeOK /\ Circle!SharersAreMembers
    BY DEF Circle!CirclesInv
<1>3. QED
    BY <1>1, <1>2, CirclesStep, Circle!CirclesConstants, PTL DEF Circle!Spec

-----------------------------------------------------------------------------
(* RateLimits: attempts in a window *)

\* A set of attempts is finite: there are as many in a minute as were counted.
LEMMA AttemptsFinite ==
    ASSUME MaxTime \in Nat, NEW c \in Limits!Counts
    PROVE  IsFiniteSet(Limits!Attempts(c)) /\ Limits!Total(c) \in Nat
<1> DEFINE f == [t \in Limits!Time |-> {t} \X (1..c[t])]
           S == {{t} \X (1..c[t]) : t \in Limits!Time}
<1>1. IsFiniteSet(Limits!Time)
    BY FS_Interval DEF Limits!Time
<1>2. f \in Surjection(Limits!Time, S)
    BY DEF Surjection
<1>3. IsFiniteSet(S)
    BY <1>1, <1>2, FS_Surjection
<1>4. ASSUME NEW T \in S PROVE IsFiniteSet(T)
  <2>1. PICK t \in Limits!Time : T = {t} \X (1..c[t])
    OBVIOUS
  <2>2. IsFiniteSet({t}) /\ IsFiniteSet(1..c[t])
    <3>1. PICK n \in Int : n = c[t]
      BY DEF Limits!Counts
    <3>2. IsFiniteSet(1..n)
      BY FS_Interval
    <3>3. QED
      BY <3>1, <3>2, FS_Singleton
  <2>3. QED
    BY <2>1, <2>2, FS_Product
<1>5. IsFiniteSet(UNION S)
    BY <1>3, <1>4, FS_UNION
<1>6. Limits!Attempts(c) = UNION S
    BY DEF Limits!Attempts
<1>7. Limits!Total(c) = Cardinality(Limits!Attempts(c))
    BY DEF Limits!Total, Limits!Cardinality, Cardinality
<1>8. QED
    BY <1>5, <1>6, <1>7, FS_CardinalityType

\* What an attempt is: its minute and one of the numbers counted in it.
LEMMA AttemptIs ==
    ASSUME MaxTime \in Nat, NEW c \in Limits!Counts, NEW a
    PROVE  a \in Limits!Attempts(c)
             <=> \E t \in Limits!Time : \E n \in 1..c[t] : a = <<t, n>>
<1>1. a \in Limits!Attempts(c) <=> \E t \in Limits!Time : a \in {t} \X (1..c[t])
    BY DEF Limits!Attempts
<1>2. ASSUME NEW t \in Limits!Time
      PROVE  a \in {t} \X (1..c[t]) <=> \E n \in 1..c[t] : a = <<t, n>>
    OBVIOUS
<1>3. QED
    BY <1>1, <1>2

\* Fewer attempts in every minute are fewer in all.
LEMMA Fewer ==
    ASSUME MaxTime \in Nat, NEW c \in Limits!Counts, NEW d \in Limits!Counts,
           \A t \in Limits!Time : c[t] <= d[t]
    PROVE  Limits!Total(c) <= Limits!Total(d)
<1>1. \A t \in Limits!Time : 1..c[t] \subseteq 1..d[t]
    BY DEF Limits!Counts, Limits!Time
<1>2. Limits!Attempts(c) \in SUBSET Limits!Attempts(d)
    BY <1>1, AttemptIs
<1>3. IsFiniteSet(Limits!Attempts(d))
    BY AttemptsFinite
<1>4. \A e : Limits!Total(e) = Cardinality(Limits!Attempts(e))
    BY DEF Limits!Total, Limits!Cardinality, Cardinality
<1>5. QED
    BY <1>2, <1>3, <1>4, FS_Subset

\* One more attempt is one more in all.
LEMMA OneMore ==
    ASSUME MaxTime \in Nat, NEW c \in Limits!Counts, NEW t \in Limits!Time
    PROVE  Limits!Total([c EXCEPT ![t] = @ + 1]) = Limits!Total(c) + 1
<1> DEFINE d == [c EXCEPT ![t] = @ + 1]
           new == <<t, c[t] + 1>>
<1>1. d \in Limits!Counts /\ c[t] \in Nat /\ d[t] = c[t] + 1
    BY DEF Limits!Counts
<1>2. \A s \in Limits!Time : s # t => d[s] = c[s]
    BY DEF Limits!Counts
<1>3. 1..d[t] = 1..c[t] \cup {c[t] + 1}
    BY <1>1
<1>4. c[t] + 1 \notin 1..c[t]
    BY <1>1
<1> HIDE DEF d
<1>5. Limits!Attempts(d) = Limits!Attempts(c) \cup {new}
  <2>1. ASSUME NEW a
        PROVE  a \in Limits!Attempts(d) <=> a \in Limits!Attempts(c) \/ a = new
    <3>1. a \in Limits!Attempts(d)
            <=> \E s \in Limits!Time : \E n \in 1..d[s] : a = <<s, n>>
      BY <1>1, AttemptIs
    <3>2. a \in Limits!Attempts(c)
            <=> \E s \in Limits!Time : \E n \in 1..c[s] : a = <<s, n>>
      BY AttemptIs
    <3>3. QED
      BY <1>2, <1>3, <3>1, <3>2
  <2>2. QED
    BY <2>1
<1>6. new \notin Limits!Attempts(c)
  <2>1. ASSUME NEW s \in Limits!Time, NEW n \in 1..c[s], new = <<s, n>> PROVE FALSE
    BY <1>4, <2>1
  <2>2. QED
    BY <2>1, AttemptIs
<1>7. IsFiniteSet(Limits!Attempts(c)) /\ Limits!Total(c) \in Nat
    BY AttemptsFinite
<1>8. \A e : Limits!Total(e) = Cardinality(Limits!Attempts(e))
    BY DEF Limits!Total, Limits!Cardinality, Cardinality
<1>9. Cardinality(Limits!Attempts(c) \cup {new}) = Cardinality(Limits!Attempts(c)) + 1
    BY <1>6, <1>7, FS_AddElement
<1>10. QED
    BY <1>5, <1>8, <1>9 DEF d

\* No attempt at all.
LEMMA NoAttempts ==
    ASSUME MaxTime \in Nat
    PROVE  Limits!Never \in Limits!Counts /\ Limits!Total(Limits!Never) = 0
<1>1. Limits!Never \in Limits!Counts
    BY DEF Limits!Never, Limits!Counts
<1>2. \A t \in Limits!Time : 1..Limits!Never[t] = {}
    BY DEF Limits!Never
<1>3. Limits!Attempts(Limits!Never) = {}
    BY <1>1, <1>2, AttemptIs
<1>4. QED
    BY <1>1, <1>3, FS_EmptySet DEF Limits!Total, Limits!Cardinality, Cardinality

\* Of attempts none of which lie ahead, no later window has more than the present one, and
\* one more attempt now is one more at most in any window from now on and none in the others.
LEMMA Windows ==
    ASSUME MaxTime \in Nat, NEW at \in Limits!Time, NEW c \in Limits!Counts, NEW W \in Nat,
           \A s \in Limits!Time : s > at => c[s] = 0
    PROVE  /\ \A t \in Int : Limits!Within(c, t, W) \in Limits!Counts /\ Limits!In(c, t, W) \in Nat
           /\ \A t \in Int : t >= at => Limits!In(c, t, W) <= Limits!In(c, at, W)
           /\ \A t \in Int : t < at =>
                Limits!In([c EXCEPT ![at] = @ + 1], t, W) = Limits!In(c, t, W)
           /\ \A t \in Int : t >= at =>
                Limits!In([c EXCEPT ![at] = @ + 1], t, W) <= Limits!In(c, at, W) + 1
<1> DEFINE d == [c EXCEPT ![at] = @ + 1]
<1>1. /\ Limits!Time \in SUBSET Int /\ at \in Int /\ d \in Limits!Counts
      /\ \A s \in Limits!Time : d[s] = IF s = at THEN c[s] + 1 ELSE c[s]
      /\ \A s \in Limits!Time : c[s] \in Nat
    BY DEF Limits!Time, Limits!Counts
<1> HIDE DEF d
<1>2. ASSUME NEW e \in Limits!Counts, NEW t \in Int
      PROVE  /\ Limits!Within(e, t, W) \in Limits!Counts
             /\ \A s \in Limits!Time :
                  Limits!Within(e, t, W)[s] = IF s \in (t - W)..t THEN e[s] ELSE 0
    BY DEF Limits!Within, Limits!Counts
<1>3. ASSUME NEW e \in Limits!Counts, NEW t \in Int PROVE Limits!In(e, t, W) \in Nat
    BY <1>2, AttemptsFinite DEF Limits!In
<1>4. ASSUME NEW t \in Int, t >= at PROVE Limits!In(c, t, W) <= Limits!In(c, at, W)
  <2>1. ASSUME NEW s \in Limits!Time
        PROVE  Limits!Within(c, t, W)[s] <= Limits!Within(c, at, W)[s]
    <3>1. /\ Limits!Within(c, t, W)[s] = IF s \in (t - W)..t THEN c[s] ELSE 0
          /\ Limits!Within(c, at, W)[s] = IF s \in (at - W)..at THEN c[s] ELSE 0
      BY <1>1, <1>2
    <3>2. s \in Int /\ c[s] \in Nat /\ (s > at => c[s] = 0)
      BY <1>1
    <3>3. s \in (t - W)..t /\ s <= at => s \in (at - W)..at
      BY <1>1, <1>4, <3>2
    <3>4. QED
      BY <1>1, <3>1, <3>2, <3>3
  <2>2. QED
    BY <1>1, <1>2, <2>1, Fewer DEF Limits!In
<1>5. ASSUME NEW t \in Int, t < at PROVE Limits!In(d, t, W) = Limits!In(c, t, W)
  <2>1. \A s \in Limits!Time : s \in (t - W)..t => d[s] = c[s]
    BY <1>1, <1>5
  <2>2. Limits!Within(d, t, W) = Limits!Within(c, t, W)
    BY <2>1 DEF Limits!Within
  <2>3. QED
    BY <2>2 DEF Limits!In
<1>6. ASSUME NEW t \in Int, t >= at PROVE Limits!In(d, t, W) <= Limits!In(c, at, W) + 1
  <2> DEFINE present == Limits!Within(c, at, W)
             more == [present EXCEPT ![at] = @ + 1]
  <2>1. present \in Limits!Counts
    BY <1>1, <1>2
  <2>2. /\ more \in Limits!Counts
        /\ \A s \in Limits!Time : more[s] = IF s = at THEN present[s] + 1 ELSE present[s]
    BY <2>1, <1>1 DEF Limits!Counts
  <2>3. Limits!Total(more) = Limits!Total(present) + 1
    BY <2>1, OneMore
  <2>4. \A s \in Limits!Time : present[s] = IF s \in (at - W)..at THEN c[s] ELSE 0
    BY <1>1, <1>2
  <2> HIDE DEF present, more
  <2>5. ASSUME NEW s \in Limits!Time PROVE Limits!Within(d, t, W)[s] <= more[s]
    <3>1. Limits!Within(d, t, W)[s] = IF s \in (t - W)..t THEN d[s] ELSE 0
      BY <1>1, <1>2
    <3>2. /\ s \in Int /\ c[s] \in Nat /\ (s > at => c[s] = 0)
          /\ d[s] = IF s = at THEN c[s] + 1 ELSE c[s]
          /\ more[s] = IF s = at THEN present[s] + 1 ELSE present[s]
          /\ present[s] = IF s \in (at - W)..at THEN c[s] ELSE 0
      BY <1>1, <2>2, <2>4
    <3>3. s \in (t - W)..t /\ s <= at => s \in (at - W)..at
      BY <1>1, <1>6, <3>2
    <3>4. CASE s = at
      <4>1. s \in (at - W)..at
        BY <1>1, <3>4
      <4>2. QED
        BY <3>1, <3>2, <3>4, <4>1
    <3>5. CASE s # at
      BY <1>1, <3>1, <3>2, <3>3, <3>5
    <3>6. QED
      BY <3>4, <3>5
  <2>6. Limits!Total(Limits!Within(d, t, W)) <= Limits!Total(more)
    BY <1>1, <1>2, <2>2, <2>5, Fewer
  <2>7. QED
    BY <2>3, <2>6 DEF Limits!In, present
<1>7. QED
    BY <1>2, <1>3, <1>4, <1>5, <1>6 DEF d

\* What a deletion leaves of a minute.
LEMMA SinceIs ==
    ASSUME NEW c \in Limits!Counts, NEW W
    PROVE  /\ Limits!Since(c, W) \in Limits!Counts
           /\ \A t \in Limits!Time : Limits!Since(c, W)[t] = IF t < now - W THEN 0 ELSE c[t]
    BY DEF Limits!Since, Limits!Counts

\* What was let through in the window is no more than what is there of it.
LEMMA NoMoreThan ==
    ASSUME Limits!RateConstants, now \in Limits!Time, NEW there \in Limits!Counts,
           NEW c \in Limits!Counts, NEW W \in Nat,
           \A t \in Limits!Time : t >= now - W => there[t] = c[t]
    PROVE  /\ Limits!In(c, now, W) <= Limits!Total(there)
           /\ Limits!In(c, now, W) <= Limits!Total(Limits!Since(there, W))
           /\ Limits!In(c, now, W) \in Nat
<1>0. MaxTime \in Nat /\ Limits!Time \in SUBSET Int
    BY DEF Limits!RateConstants, Limits!Time
<1>1. /\ Limits!Within(c, now, W) \in Limits!Counts
      /\ \A s \in Limits!Time :
           Limits!Within(c, now, W)[s] = IF s \in (now - W)..now THEN c[s] ELSE 0
    BY DEF Limits!Within, Limits!Counts
<1>2. \A s \in Limits!Time : c[s] \in Nat /\ there[s] \in Nat
    BY DEF Limits!Counts
<1>3. ASSUME NEW s \in Limits!Time
      PROVE  /\ Limits!Within(c, now, W)[s] <= there[s]
             /\ Limits!Within(c, now, W)[s] <= Limits!Since(there, W)[s]
    BY <1>0, <1>1, <1>2, SinceIs
<1>4. Limits!Total(Limits!Within(c, now, W)) <= Limits!Total(there)
    BY <1>0, <1>1, <1>3, Fewer
<1>5. Limits!Total(Limits!Within(c, now, W)) <= Limits!Total(Limits!Since(there, W))
    BY <1>0, <1>1, <1>3, Fewer, SinceIs
<1>6. Limits!In(c, now, W) \in Nat
    BY <1>0, <1>1, AttemptsFinite DEF Limits!In
<1>7. QED
    BY <1>4, <1>5, <1>6 DEF Limits!In

\* One attempt now.
LEMMA AtIs ==
    ASSUME now \in Limits!Time, NEW c \in Limits!Counts
    PROVE  /\ Limits!At(c) = [c EXCEPT ![now] = @ + 1] /\ Limits!At(c) \in Limits!Counts
           /\ \A t \in Limits!Time : Limits!At(c)[t] = IF t = now THEN c[t] + 1 ELSE c[t]
    BY DEF Limits!At, Limits!Counts

\* The table after a deletion: no window narrower than the deleted one loses anything.
LEMMA Deleted ==
    ASSUME Limits!RateConstants, Limits!RateTypes, NEW keep \in Nat, NEW table,
           table = [l \in Limiter |-> Limits!Since(rows[l], keep)]
    PROVE  /\ table \in [Limiter -> Limits!Counts]
           /\ \A l \in Limiter, t \in Limits!Time :
                 Window[l] <= keep /\ t >= now - Window[l] => table[l][t] = rows[l][t]
<1>1. \A l \in Limiter : rows[l] \in Limits!Counts
    BY DEF Limits!RateTypes
<1>2. now \in Int /\ Limits!Time \in SUBSET Int /\ \A l \in Limiter : Window[l] \in Int
    BY DEF Limits!RateConstants, Limits!RateTypes, Limits!Time
<1>3. table \in [Limiter -> Limits!Counts]
    BY <1>1, SinceIs
<1>4. ASSUME NEW l \in Limiter, NEW t \in Limits!Time, Window[l] <= keep, t >= now - Window[l]
      PROVE  table[l][t] = rows[l][t]
  <2>1. table[l][t] = IF t < now - keep THEN 0 ELSE rows[l][t]
    BY <1>1, SinceIs
  <2>2. ~(t < now - keep)
    BY <1>2, <1>4
  <2>3. QED
    BY <2>1, <2>2
<1>5. QED
    BY <1>3, <1>4

\* Types.
LEMMA RateTypesStep ==
    ASSUME Limits!RateConstants, Limits!RateTypes, [Limits!Next]_Limits!vars
    PROVE  Limits!RateTypes'
<1> USE DEF Limits!RateTypes
<1>1. /\ \A l \in Limiter : rows[l] \in Limits!Counts /\ granted[l] \in Limits!Counts
      /\ \A w \in Worker : bucket[w] \in Limits!Counts /\ passed[w] \in Limits!Counts
      /\ now \in Limits!Time /\ KeepRows \in Nat
      /\ \A l \in Limiter : Window[l] \in Nat
    BY DEF Limits!RateConstants
<1>2. ASSUME NEW l \in Limiter
      PROVE  /\ Limits!Kept(l) \in [Limiter -> Limits!Counts]
             /\ [Limits!Kept(l) EXCEPT ![l] = Limits!At(@)] \in [Limiter -> Limits!Counts]
             /\ [rows EXCEPT ![l] = Limits!At(@)] \in [Limiter -> Limits!Counts]
             /\ [granted EXCEPT ![l] = Limits!At(@)] \in [Limiter -> Limits!Counts]
  <2>1. Limits!Kept(l) \in [Limiter -> Limits!Counts]
    BY <1>1, SinceIs DEF Limits!Kept
  <2> DEFINE k == Limits!Kept(l)
  <2> HIDE DEF k
  <2>2. k \in [Limiter -> Limits!Counts]
    BY <2>1 DEF k
  <2>3. Limits!At(k[l]) \in Limits!Counts /\ Limits!At(rows[l]) \in Limits!Counts
        /\ Limits!At(granted[l]) \in Limits!Counts
    BY <1>1, <2>2, AtIs
  <2>4. [k EXCEPT ![l] = Limits!At(@)] \in [Limiter -> Limits!Counts]
    BY <2>2, <2>3
  <2>5. QED
    BY <2>1, <2>3, <2>4 DEF k
<1>3. ASSUME NEW l \in Limiter, Limits!Check(l) PROVE Limits!RateTypes'
    BY <1>2, <1>3 DEF Limits!Check
<1>4. ASSUME NEW w \in Worker, NEW l \in Limiter, Limits!Delete(w, l) PROVE Limits!RateTypes'
  <2>1. [limiter |-> l, step |-> "count", stale |-> FALSE] \in Limits!Checks
    BY DEF Limits!Checks
  <2>2. QED
    BY <1>2, <1>4, <2>1 DEF Limits!Delete
<1>5. Limits!NoCheck \in Limits!Checks /\ Limits!NoCheck.step = "none"
    BY DEF Limits!Checks, Limits!NoCheck
<1>6. ASSUME NEW w \in Worker, Limits!Count(w) PROVE Limits!RateTypes'
  <2>1. ASSUME NEW r \in Limits!Checks
        PROVE  /\ [r EXCEPT !.step = "insert", !.stale = FALSE] \in Limits!Checks
               /\ [r EXCEPT !.step = "insert", !.stale = FALSE].limiter = r.limiter
    BY DEF Limits!Checks
  <2>2. checking[w] \in Limits!Checks /\ checking[w].limiter \in Limiter /\ postgres
    BY <1>6 DEF Limits!Count
  <2>3. PICK j \in Limits!Checks :
          checking' = [checking EXCEPT ![w] = j] /\ (j.step # "none" => j.limiter \in Limiter)
    BY <1>5, <1>6, <2>1, <2>2 DEF Limits!Count
  <2>4. QED
    BY <1>6, <2>2, <2>3 DEF Limits!Count
<1>7. ASSUME NEW w \in Worker, Limits!Insert(w) PROVE Limits!RateTypes'
  <2>1. checking[w].limiter \in Limiter /\ postgres
    BY <1>7 DEF Limits!Insert
  <2>2. ASSUME NEW r \in Limits!Checks
        PROVE  /\ [r EXCEPT !.stale = TRUE] \in Limits!Checks
               /\ [r EXCEPT !.stale = TRUE].limiter = r.limiter
               /\ [r EXCEPT !.stale = TRUE].step = r.step
    BY DEF Limits!Checks
  <2>3. ASSUME NEW v \in Worker
        PROVE  /\ checking'[v] \in Limits!Checks
               /\ checking'[v].step # "none" => checking'[v].limiter \in Limiter
    BY <1>5, <1>7, <2>2 DEF Limits!Insert
  <2>4. checking' \in [Worker -> Limits!Checks]
    BY <1>7, <2>3 DEF Limits!Insert
  <2>5. /\ rows' \in [Limiter -> Limits!Counts] /\ granted' \in [Limiter -> Limits!Counts]
        /\ beaten' \subseteq Limiter
    BY <1>2, <1>7, <2>1 DEF Limits!Insert
  <2>6. UNCHANGED <<postgres, now, bucket, passed>>
    BY <1>7 DEF Limits!Insert
  <2>7. QED
    BY <2>1, <2>3, <2>4, <2>5, <2>6
<1>8. ASSUME NEW w \in Worker, Limits!CheckMemory(w) PROVE Limits!RateTypes'
  <2> DEFINE live == Limits!Since(bucket[w], 1)
  <2>1. live \in Limits!Counts
    BY <1>1, SinceIs
  <2>2. Limits!At(live) \in Limits!Counts /\ Limits!At(passed[w]) \in Limits!Counts
    BY <1>1, <2>1, AtIs
  <2> HIDE DEF live
  <2>3. bucket' \in [Worker -> Limits!Counts] /\ passed' \in [Worker -> Limits!Counts]
    BY <1>8, <2>1, <2>2 DEF Limits!CheckMemory, live
  <2>4. QED
    BY <1>8, <2>3 DEF Limits!CheckMemory
<1>9. ASSUME NEW w \in Worker, Limits!Sweep(w) PROVE Limits!RateTypes'
  <2>1. Limits!Never \in Limits!Counts
    BY DEF Limits!Never, Limits!Counts
  <2>2. QED
    BY <1>9, <2>1 DEF Limits!Sweep
<1>10. ASSUME Limits!CleanUp PROVE Limits!RateTypes'
  <2>1. rows' \in [Limiter -> Limits!Counts]
    BY <1>1, <1>10, SinceIs DEF Limits!CleanUp
  <2>2. QED
    BY <1>10, <2>1 DEF Limits!CleanUp
<1>11. ASSUME Limits!Tick PROVE Limits!RateTypes'
  <2>1. now' \in Limits!Time
    BY <1>11 DEF Limits!Tick, Limits!Time, Limits!RateConstants
  <2>2. QED
    BY <1>11, <2>1 DEF Limits!Tick
<1>12. ASSUME UNCHANGED Limits!vars PROVE Limits!RateTypes'
    BY <1>12 DEF Limits!vars
<1>13. QED
    BY <1>3, <1>4, <1>6, <1>7, <1>8, <1>9, <1>10, <1>11, <1>12 DEF Limits!Next

\* Attempts are let through now.
LEMMA AheadStep ==
    ASSUME Limits!RateTypes, Limits!NothingAhead, [Limits!Next]_Limits!vars
    PROVE  Limits!NothingAhead'
<1> USE DEF Limits!NothingAhead
<1>1. /\ now \in Limits!Time /\ Limits!Time \in SUBSET Int
      /\ granted \in [Limiter -> Limits!Counts] /\ passed \in [Worker -> Limits!Counts]
    BY DEF Limits!RateTypes, Limits!Time
<1>2. ASSUME NEW l \in Limiter, granted' = [granted EXCEPT ![l] = Limits!At(@)],
             UNCHANGED <<now, passed>>
      PROVE  Limits!NothingAhead'
  <2>1. \A t \in Limits!Time : t > now => Limits!At(granted[l])[t] = granted[l][t]
    BY <1>1, AtIs
  <2>2. QED
    BY <1>1, <1>2, <2>1
<1>3. ASSUME NEW w \in Worker, passed' = [passed EXCEPT ![w] = Limits!At(@)],
             UNCHANGED <<now, granted>>
      PROVE  Limits!NothingAhead'
  <2>1. \A t \in Limits!Time : t > now => Limits!At(passed[w])[t] = passed[w][t]
    BY <1>1, AtIs
  <2>2. QED
    BY <1>1, <1>3, <2>1
<1>4. ASSUME NEW l \in Limiter, Limits!Check(l) PROVE Limits!NothingAhead'
    BY <1>2, <1>4 DEF Limits!Check
<1>5. ASSUME NEW w \in Worker, Limits!Insert(w) PROVE Limits!NothingAhead'
    BY <1>2, <1>5 DEF Limits!Insert, Limits!RateTypes
<1>6. ASSUME NEW w \in Worker, Limits!CheckMemory(w) PROVE Limits!NothingAhead'
  <2>1. UNCHANGED <<now, granted>>
        /\ (passed' = [passed EXCEPT ![w] = Limits!At(@)] \/ passed' = passed)
    BY <1>6 DEF Limits!CheckMemory
  <2>2. QED
    BY <1>3, <2>1
<1>7. ASSUME Limits!Tick PROVE Limits!NothingAhead'
    BY <1>1, <1>7 DEF Limits!Tick
<1>8. ASSUME UNCHANGED <<now, granted, passed>> PROVE Limits!NothingAhead'
    BY <1>8
<1>9. ASSUME \/ \E w \in Worker : \/ \E l \in Limiter : Limits!Delete(w, l)
                                  \/ Limits!Count(w) \/ Limits!Sweep(w)
             \/ Limits!CleanUp \/ UNCHANGED Limits!vars
      PROVE  UNCHANGED <<now, granted, passed>>
    BY <1>9 DEF Limits!Delete, Limits!Count, Limits!Sweep, Limits!CleanUp, Limits!vars
<1>10. QED
    BY <1>4, <1>5, <1>6, <1>7, <1>8, <1>9 DEF Limits!Next

\* The table keeps what was let through in the narrowest window.
LEMMA TableStep ==
    ASSUME Limits!RateConstants, Limits!RateTypes, Limits!StillThere, [Limits!Next]_Limits!vars,
           NEW l \in Limiter, Limits!Narrowest(l), NEW t \in Limits!Time, t >= now' - Window[l]
    PROVE  rows'[l][t] = granted'[l][t]
<1>1. /\ now \in Limits!Time /\ now \in Int /\ t \in Int
      /\ Window[l] \in Nat /\ KeepRows \in Nat /\ Window[l] <= KeepRows
      /\ \A k \in Limiter : Window[k] \in Nat /\ Window[l] <= Window[k]
    BY DEF Limits!RateTypes, Limits!RateConstants, Limits!Time, Limits!Narrowest
<1>2. /\ rows \in [Limiter -> Limits!Counts] /\ granted \in [Limiter -> Limits!Counts]
      /\ rows[l] \in Limits!Counts /\ granted[l] \in Limits!Counts
    BY DEF Limits!RateTypes
<1>3. now' = now => rows[l][t] = granted[l][t]
    BY DEF Limits!StillThere
<1>4. ASSUME NEW k \in Limiter, now' = now
      PROVE  /\ Limits!Kept(k) \in [Limiter -> Limits!Counts]
             /\ Limits!Kept(k)[l] \in Limits!Counts
             /\ Limits!Kept(k)[l][t] = granted[l][t]
  <2>1. Limits!Kept(k) = [j \in Limiter |-> Limits!Since(rows[j], Window[k])]
    BY DEF Limits!Kept
  <2>2. Limits!Kept(k) \in [Limiter -> Limits!Counts] /\ Limits!Kept(k)[l][t] = rows[l][t]
    BY <1>1, <1>4, <2>1, Deleted
  <2>3. QED
    BY <1>3, <1>4, <2>2
<1>5. ASSUME NEW a \in Limits!Counts, NEW b \in Limits!Counts, a[t] = b[t]
      PROVE  Limits!At(a)[t] = Limits!At(b)[t]
    BY <1>1, <1>5, AtIs
<1>6. ASSUME NEW k \in Limiter, Limits!Check(k) PROVE rows'[l][t] = granted'[l][t]
  <2> DEFINE kept == Limits!Kept(k)
  <2>1. /\ rows' = [kept EXCEPT ![k] = Limits!At(@)] /\ now' = now
        /\ granted' = [granted EXCEPT ![k] = Limits!At(@)]
    BY <1>6 DEF Limits!Check
  <2>2. /\ kept \in [Limiter -> Limits!Counts] /\ kept[l] \in Limits!Counts
        /\ kept[l][t] = granted[l][t]
    BY <1>4, <2>1
  <2>3. Limits!At(kept[l])[t] = Limits!At(granted[l])[t]
    BY <1>2, <1>5, <2>2
  <2> HIDE DEF kept
  <2>4. QED
    BY <1>2, <2>1, <2>2, <2>3
<1>7. ASSUME NEW w \in Worker, NEW k \in Limiter, Limits!Delete(w, k)
      PROVE  rows'[l][t] = granted'[l][t]
    BY <1>4, <1>7 DEF Limits!Delete
<1>8. ASSUME NEW w \in Worker, Limits!Insert(w) PROVE rows'[l][t] = granted'[l][t]
  <2>1. PICK k \in Limiter : /\ rows' = [rows EXCEPT ![k] = Limits!At(@)] /\ now' = now
                             /\ granted' = [granted EXCEPT ![k] = Limits!At(@)]
    BY <1>8 DEF Limits!Insert, Limits!RateTypes
  <2>2. Limits!At(rows[l])[t] = Limits!At(granted[l])[t]
    BY <1>2, <1>3, <1>5, <2>1
  <2>3. QED
    BY <1>2, <1>3, <2>1, <2>2
<1>9. ASSUME Limits!CleanUp PROVE rows'[l][t] = granted'[l][t]
  <2>1. rows' = [k \in Limiter |-> Limits!Since(rows[k], KeepRows)] /\ UNCHANGED <<now, granted>>
    BY <1>9 DEF Limits!CleanUp
  <2>2. rows'[l][t] = rows[l][t]
    BY <1>1, <2>1, Deleted
  <2>3. QED
    BY <1>3, <2>1, <2>2
<1>10. ASSUME Limits!Tick PROVE rows'[l][t] = granted'[l][t]
  <2>1. now' = now + 1 /\ UNCHANGED <<rows, granted>>
    BY <1>10 DEF Limits!Tick
  <2>2. t >= now - Window[l]
    BY <1>1, <2>1
  <2>3. QED
    BY <2>1, <2>2 DEF Limits!StillThere
<1>11. ASSUME UNCHANGED <<now, rows, granted>> PROVE rows'[l][t] = granted'[l][t]
    BY <1>3, <1>11
<1>12. ASSUME \/ \E w \in Worker : Limits!Count(w) \/ Limits!CheckMemory(w) \/ Limits!Sweep(w)
              \/ UNCHANGED Limits!vars
       PROVE  UNCHANGED <<now, rows, granted>>
    BY <1>12 DEF Limits!Count, Limits!CheckMemory, Limits!Sweep, Limits!vars
<1>13. QED
    BY <1>6, <1>7, <1>8, <1>9, <1>10, <1>11, <1>12 DEF Limits!Next

\* Memory keeps what was let through in the last minute.
LEMMA MemoryStep ==
    ASSUME Limits!RateConstants, Limits!RateTypes, Limits!StillThere, [Limits!Next]_Limits!vars,
           NEW w \in Worker, NEW t \in Limits!Time, t >= now' - 1
    PROVE  bucket'[w][t] = passed'[w][t]
<1>1. now \in Limits!Time /\ now \in Int /\ t \in Int
    BY DEF Limits!RateTypes, Limits!Time
<1>2. /\ bucket \in [Worker -> Limits!Counts] /\ passed \in [Worker -> Limits!Counts]
      /\ \A v \in Worker : bucket[v] \in Limits!Counts /\ passed[v] \in Limits!Counts
    BY DEF Limits!RateTypes
<1>3. now' = now => bucket[w][t] = passed[w][t]
    BY DEF Limits!StillThere
<1>4. now' = now => Limits!Since(bucket[w], 1)[t] = passed[w][t]
    BY <1>1, <1>2, <1>3, SinceIs
<1>5. ASSUME NEW v \in Worker, Limits!CheckMemory(v) PROVE bucket'[w][t] = passed'[w][t]
  <2> DEFINE live == Limits!Since(bucket[v], 1)
  <2>1. live \in Limits!Counts /\ now' = now
    BY <1>2, <1>5, SinceIs DEF Limits!CheckMemory
  <2>2. \/ /\ bucket' = [bucket EXCEPT ![v] = Limits!At(live)]
           /\ passed' = [passed EXCEPT ![v] = Limits!At(@)]
        \/ bucket' = [bucket EXCEPT ![v] = live] /\ passed' = passed
    BY <1>5 DEF Limits!CheckMemory
  <2>3. v = w => live[t] = passed[w][t]
    BY <1>4, <2>1
  <2> HIDE DEF live
  <2>4. v = w => Limits!At(live)[t] = Limits!At(passed[w])[t]
    BY <1>1, <1>2, <2>1, <2>3, AtIs
  <2>5. QED
    BY <1>2, <1>3, <2>1, <2>2, <2>3, <2>4
<1>6. ASSUME NEW v \in Worker, Limits!Sweep(v) PROVE bucket'[w][t] = passed'[w][t]
  <2>1. /\ bucket' = [bucket EXCEPT ![v] = Limits!Never] /\ UNCHANGED <<now, passed>>
        /\ Limits!Since(bucket[v], 1) = Limits!Never
    BY <1>6 DEF Limits!Sweep
  <2>2. v = w => Limits!Never[t] = passed[w][t]
    BY <1>4, <2>1
  <2> HIDE DEF Limits!Never
  <2>3. QED
    BY <1>2, <1>3, <2>1, <2>2
<1>7. ASSUME Limits!Tick PROVE bucket'[w][t] = passed'[w][t]
  <2>1. now' = now + 1 /\ UNCHANGED <<bucket, passed>>
    BY <1>7 DEF Limits!Tick
  <2>2. t >= now - 1
    BY <1>1, <2>1
  <2>3. QED
    BY <2>1, <2>2 DEF Limits!StillThere
<1>8. ASSUME UNCHANGED <<now, bucket, passed>> PROVE bucket'[w][t] = passed'[w][t]
    BY <1>3, <1>8
<1>9. ASSUME \/ \E l \in Limiter : Limits!Check(l) \/ \E v \in Worker : Limits!Delete(v, l)
             \/ \E v \in Worker : Limits!Count(v) \/ Limits!Insert(v)
             \/ Limits!CleanUp \/ UNCHANGED Limits!vars
      PROVE  UNCHANGED <<now, bucket, passed>>
    BY <1>9 DEF Limits!Check, Limits!Delete, Limits!Count, Limits!Insert, Limits!CleanUp,
       Limits!vars
<1>10. QED
    BY <1>5, <1>6, <1>7, <1>8, <1>9 DEF Limits!Next

\* A check keeps the room it counted until another one of its limiter overtakes it.
LEMMA RoomLeftStep ==
    ASSUME Limits!RateConstants, Limits!RateTypes, Limits!NothingAhead, Limits!StillThere,
           Limits!RoomLeft, [Limits!Next]_Limits!vars, NEW v \in Worker, NEW m,
           checking'[v].step = "insert", ~checking'[v].stale, m = checking'[v].limiter,
           Limits!Narrowest(m)
    PROVE  Limits!In(granted'[m], now', Window[m]) < Most[m]
<1>0. /\ MaxTime \in Nat /\ now \in Limits!Time /\ now \in Int
      /\ \A l \in Limiter : Window[l] \in Nat /\ Most[l] \in Nat
    BY DEF Limits!RateConstants, Limits!RateTypes, Limits!Time
<1>1. m \in Limiter /\ postgres'
    BY RateTypesStep DEF Limits!RateTypes
<1>2. /\ rows[m] \in Limits!Counts /\ granted \in [Limiter -> Limits!Counts]
      /\ granted[m] \in Limits!Counts /\ checking \in [Worker -> Limits!Checks]
      /\ \A t \in Limits!Time : t > now => granted[m][t] = 0
      /\ \A t \in Limits!Time : t >= now - Window[m] => rows[m][t] = granted[m][t]
    BY <1>1 DEF Limits!RateTypes, Limits!NothingAhead, Limits!StillThere
<1>3. ASSUME checking'[v] = checking[v], now' = now \/ now' = now + 1, granted'[m] = granted[m]
      PROVE  Limits!In(granted'[m], now', Window[m]) < Most[m]
  <2>1. Limits!In(granted[m], now, Window[m]) < Most[m]
    BY <1>3 DEF Limits!RoomLeft
  <2>2. /\ Limits!In(granted[m], now', Window[m]) <= Limits!In(granted[m], now, Window[m])
        /\ Limits!In(granted[m], now', Window[m]) \in Nat
        /\ Limits!In(granted[m], now, Window[m]) \in Nat
    <3>1. now' \in Int /\ now' >= now /\ Window[m] \in Nat
      BY <1>0, <1>1, <1>3
    <3>2. QED
      BY <1>0, <1>2, <3>1, Windows
  <2>3. QED
    BY <1>0, <1>1, <1>3, <2>1, <2>2
<1>4. ASSUME NEW l \in Limiter, Limits!Check(l) PROVE FALSE
    BY <1>1, <1>4 DEF Limits!Check
<1>5. ASSUME NEW w \in Worker, Limits!Count(w)
      PROVE  Limits!In(granted'[m], now', Window[m]) < Most[m]
  <2>1. UNCHANGED <<now, granted>>
    BY <1>5 DEF Limits!Count
  <2>2. CASE w # v
    <3>1. checking'[v] = checking[v]
      BY <1>2, <1>5, <2>2 DEF Limits!Count
    <3>2. QED
      BY <1>3, <2>1, <3>1
  <2>3. CASE w = v
    <3>1. /\ Limits!NoCheck.step = "none"
          /\ \A r \in Limits!Checks :
               [r EXCEPT !.step = "insert", !.stale = FALSE].limiter = r.limiter
      BY DEF Limits!NoCheck, Limits!Checks
    <3>2. ~(Limits!Total(rows[checking[v].limiter]) >= Most[checking[v].limiter])
          /\ m = checking[v].limiter
      BY <1>2, <1>5, <2>3, <3>1 DEF Limits!Count
    <3>3. Limits!Total(rows[m]) \in Nat
      BY <1>0, <1>2, AttemptsFinite
    <3>4. /\ Limits!In(granted[m], now, Window[m]) <= Limits!Total(rows[m])
          /\ Limits!In(granted[m], now, Window[m]) \in Nat
      BY <1>0, <1>1, <1>2, NoMoreThan
    <3>5. QED
      BY <1>0, <1>1, <2>1, <3>2, <3>3, <3>4
  <2>4. QED
    BY <2>2, <2>3
<1>6. ASSUME NEW w \in Worker, Limits!Insert(w)
      PROVE  Limits!In(granted'[m], now', Window[m]) < Most[m]
  <2>1. Limits!NoCheck.step = "none"
        /\ \A r \in Limits!Checks : [r EXCEPT !.stale = TRUE].stale = TRUE
    BY DEF Limits!NoCheck, Limits!Checks
  <2>2. v # w /\ checking[v].limiter # checking[w].limiter /\ checking'[v] = checking[v]
    BY <1>2, <1>6, <2>1 DEF Limits!Insert
  <2>3. granted'[m] = granted[m] /\ now' = now
    BY <1>2, <1>6, <2>2 DEF Limits!Insert
  <2>4. QED
    BY <1>3, <2>2, <2>3
<1>7. ASSUME NEW w \in Worker, NEW l \in Limiter, Limits!Delete(w, l)
      PROVE  Limits!In(granted'[m], now', Window[m]) < Most[m]
  <2>1. checking' = [checking EXCEPT ![w] = [limiter |-> l, step |-> "count", stale |-> FALSE]]
        /\ UNCHANGED <<now, granted>>
    BY <1>7 DEF Limits!Delete
  <2>2. checking'[v] = checking[v]
    BY <1>2, <2>1
  <2>3. QED
    BY <1>3, <2>1, <2>2
<1>8. ASSUME UNCHANGED <<checking, granted>>, now' = now \/ now' = now + 1
      PROVE  Limits!In(granted'[m], now', Window[m]) < Most[m]
    BY <1>3, <1>8
<1>9. ASSUME \/ \E w \in Worker : Limits!CheckMemory(w) \/ Limits!Sweep(w)
             \/ Limits!CleanUp \/ Limits!Tick \/ UNCHANGED Limits!vars
      PROVE  UNCHANGED <<checking, granted>> /\ (now' = now \/ now' = now + 1)
    BY <1>9 DEF Limits!CheckMemory, Limits!Sweep, Limits!CleanUp, Limits!Tick, Limits!vars
<1>10. QED
    BY <1>4, <1>5, <1>6, <1>7, <1>8, <1>9 DEF Limits!Next

\* One more attempt where there was room for one: the windows of every length hold.
LEMMA OneMoreFits ==
    ASSUME Limits!RateConstants, now \in Limits!Time, NEW c \in Limits!Counts,
           NEW W \in Nat, NEW most \in Nat,
           \A t \in Limits!Time : t > now => c[t] = 0,
           \A t \in Limits!Time : Limits!In(c, t, W) <= most,
           Limits!In(c, now, W) < most
    PROVE  \A t \in Limits!Time : Limits!In(Limits!At(c), t, W) <= most
<1>0. MaxTime \in Nat /\ Limits!Time \in SUBSET Int
    BY DEF Limits!RateConstants, Limits!Time
<1> DEFINE d == [c EXCEPT ![now] = @ + 1]
<1>1. Limits!At(c) = d /\ d \in Limits!Counts
    BY AtIs
<1> HIDE DEF d
<1>2. ASSUME NEW t \in Limits!Time PROVE Limits!In(d, t, W) <= most
  <2>1. /\ t < now => Limits!In(d, t, W) = Limits!In(c, t, W)
        /\ t >= now => Limits!In(d, t, W) <= Limits!In(c, now, W) + 1
    <3>1. t \in Int
      BY <1>0
    <3>2. t < now => Limits!In([c EXCEPT ![now] = @ + 1], t, W) = Limits!In(c, t, W)
      BY <1>0, <3>1, Windows
    <3>3. t >= now => Limits!In([c EXCEPT ![now] = @ + 1], t, W) <= Limits!In(c, now, W) + 1
      BY <1>0, <3>1, Windows
    <3>4. QED
      BY <3>2, <3>3 DEF d
  <2>2. Limits!In(c, t, W) <= most
    OBVIOUS
  <2>3. Limits!In(d, t, W) \in Nat /\ Limits!In(c, now, W) \in Nat
    <3>1. \A e \in Limits!Counts, s \in Int : Limits!Within(e, s, W) \in Limits!Counts
      BY DEF Limits!Within, Limits!Counts
    <3>2. QED
      BY <1>0, <1>1, <3>1, AttemptsFinite DEF Limits!In
  <2>4. QED
    BY <1>0, <2>1, <2>2, <2>3
<1>3. QED
    BY <1>1, <1>2

\* What a limiter lets through in its window.
LEMMA HoldsStep ==
    ASSUME Limits!RateConstants, Limits!RateInv, [Limits!Next]_Limits!vars,
           NEW l \in Limiter, l \notin beaten', Limits!Narrowest(l), NEW t \in Limits!Time
    PROVE  Limits!In(granted'[l], t, Window[l]) <= Most[l]
<1>0. /\ MaxTime \in Nat /\ now \in Limits!Time
      /\ \A k \in Limiter : Window[k] \in Nat /\ Most[k] \in Nat
    BY DEF Limits!RateConstants, Limits!RateInv, Limits!RateTypes
<1>1. beaten \subseteq beaten'
  <2>1. ASSUME Limits!Next PROVE beaten \subseteq beaten'
    BY <2>1 DEF Limits!Next, Limits!Check, Limits!Delete, Limits!Count, Limits!Insert,
       Limits!CleanUp, Limits!CheckMemory, Limits!Sweep, Limits!Tick
  <2>2. QED
    BY <2>1 DEF Limits!vars
<1>2. \A s \in Limits!Time : Limits!In(granted[l], s, Window[l]) <= Most[l]
    BY <1>1 DEF Limits!RateInv, Limits!LimitHolds, Limits!Holds
<1>3. /\ rows \in [Limiter -> Limits!Counts] /\ granted \in [Limiter -> Limits!Counts]
      /\ rows[l] \in Limits!Counts /\ granted[l] \in Limits!Counts
      /\ checking \in [Worker -> Limits!Checks]
      /\ \A s \in Limits!Time : s > now => granted[l][s] = 0
      /\ \A s \in Limits!Time : s >= now - Window[l] => rows[l][s] = granted[l][s]
    BY DEF Limits!RateInv, Limits!RateTypes, Limits!NothingAhead, Limits!StillThere
<1>4. ASSUME Limits!In(granted[l], now, Window[l]) < Most[l], granted'[l] = Limits!At(granted[l])
      PROVE  Limits!In(granted'[l], t, Window[l]) <= Most[l]
    BY <1>0, <1>2, <1>3, <1>4, OneMoreFits
<1>5. ASSUME NEW k \in Limiter, Limits!Check(k)
      PROVE  Limits!In(granted'[l], t, Window[l]) <= Most[l]
  <2>1. granted' = [granted EXCEPT ![k] = Limits!At(@)]
    BY <1>5 DEF Limits!Check
  <2>2. CASE k # l
    BY <1>2, <1>3, <2>1, <2>2
  <2>3. CASE k = l
    <3>1. Limits!Total(Limits!Since(rows[l], Window[l])) < Most[l]
      BY <1>5, <2>3 DEF Limits!Check, Limits!Kept
    <3>2. Limits!Total(Limits!Since(rows[l], Window[l])) \in Nat
      BY <1>0, <1>3, SinceIs, AttemptsFinite
    <3>3. /\ Limits!In(granted[l], now, Window[l])
               <= Limits!Total(Limits!Since(rows[l], Window[l]))
          /\ Limits!In(granted[l], now, Window[l]) \in Nat
      BY <1>0, <1>3, NoMoreThan
    <3>4. Limits!In(granted[l], now, Window[l]) < Most[l]
      BY <1>0, <3>1, <3>2, <3>3
    <3>5. QED
      BY <1>3, <1>4, <2>1, <2>3, <3>4
  <2>4. QED
    BY <2>2, <2>3
<1>6. ASSUME NEW w \in Worker, Limits!Insert(w)
      PROVE  Limits!In(granted'[l], t, Window[l]) <= Most[l]
  <2> DEFINE k == checking[w].limiter
  <2>1. k \in Limiter
    BY <1>6 DEF Limits!Insert, Limits!RateInv, Limits!RateTypes
  <2>2. granted' = [granted EXCEPT ![k] = Limits!At(@)]
    BY <1>6 DEF Limits!Insert
  <2>3. CASE k # l
    BY <1>2, <1>3, <2>2, <2>3
  <2>4. CASE k = l
    <3>1. ~checking[w].stale
      BY <1>6, <2>4 DEF Limits!Insert
    <3>2. Limits!In(granted[l], now, Window[l]) < Most[l]
      BY <1>6, <2>4, <3>1 DEF Limits!Insert, Limits!RateInv, Limits!RoomLeft
    <3>3. QED
      BY <1>3, <1>4, <2>2, <2>4, <3>2
  <2>5. QED
    BY <2>3, <2>4
<1>7. ASSUME granted' = granted PROVE Limits!In(granted'[l], t, Window[l]) <= Most[l]
    BY <1>2, <1>7
<1>8. ASSUME \/ \E w \in Worker : \/ \E k \in Limiter : Limits!Delete(w, k)
                                  \/ Limits!Count(w) \/ Limits!CheckMemory(w) \/ Limits!Sweep(w)
             \/ Limits!CleanUp \/ Limits!Tick \/ UNCHANGED Limits!vars
      PROVE  granted' = granted
    BY <1>8 DEF Limits!Delete, Limits!Count, Limits!CheckMemory, Limits!Sweep, Limits!CleanUp,
       Limits!Tick, Limits!vars
<1>9. QED
    BY <1>5, <1>6, <1>7, <1>8 DEF Limits!Next

\* What the limiter in memory lets through in a minute.
LEMMA MemoryHoldsStep ==
    ASSUME Limits!RateConstants, Limits!RateInv, [Limits!Next]_Limits!vars,
           NEW w \in Worker, NEW t \in Limits!Time
    PROVE  Limits!In(passed'[w], t, 1) <= MemoryMost
<1>0. MaxTime \in Nat /\ MemoryMost \in Nat /\ now \in Limits!Time
    BY DEF Limits!RateConstants, Limits!RateInv, Limits!RateTypes
<1>1. \A s \in Limits!Time : Limits!In(passed[w], s, 1) <= MemoryMost
    BY DEF Limits!RateInv, Limits!LimitHolds
<1>2. /\ passed \in [Worker -> Limits!Counts]
      /\ bucket[w] \in Limits!Counts /\ passed[w] \in Limits!Counts
      /\ \A s \in Limits!Time : s > now => passed[w][s] = 0
      /\ \A s \in Limits!Time : s >= now - 1 => bucket[w][s] = passed[w][s]
    BY DEF Limits!RateInv, Limits!RateTypes, Limits!NothingAhead, Limits!StillThere
<1>3. ASSUME NEW v \in Worker, Limits!CheckMemory(v)
      PROVE  Limits!In(passed'[w], t, 1) <= MemoryMost
  <2>1. CASE v # w \/ passed' = passed
    BY <1>1, <1>2, <1>3, <2>1 DEF Limits!CheckMemory
  <2>2. CASE v = w /\ passed' # passed
    <3>1. /\ Limits!Total(Limits!Since(bucket[w], 1)) < MemoryMost
          /\ passed'[w] = Limits!At(passed[w])
      BY <1>2, <1>3, <2>2 DEF Limits!CheckMemory
    <3>2. Limits!Total(Limits!Since(bucket[w], 1)) \in Nat
      BY <1>0, <1>2, SinceIs, AttemptsFinite
    <3>3. /\ Limits!In(passed[w], now, 1) <= Limits!Total(Limits!Since(bucket[w], 1))
          /\ Limits!In(passed[w], now, 1) \in Nat
      <4>1. 1 \in Nat
        OBVIOUS
      <4>2. QED
        BY <1>0, <1>2, <4>1, NoMoreThan
    <3>4. Limits!In(passed[w], now, 1) < MemoryMost /\ 1 \in Nat
      BY <1>0, <3>1, <3>2, <3>3
    <3>5. \A s \in Limits!Time : Limits!In(Limits!At(passed[w]), s, 1) <= MemoryMost
      BY <1>0, <1>1, <1>2, <3>4, OneMoreFits
    <3>6. QED
      BY <3>1, <3>5
  <2>3. QED
    BY <2>1, <2>2
<1>4. ASSUME passed' = passed PROVE Limits!In(passed'[w], t, 1) <= MemoryMost
    BY <1>1, <1>4
<1>5. ASSUME \/ \E l \in Limiter : Limits!Check(l) \/ \E v \in Worker : Limits!Delete(v, l)
             \/ \E v \in Worker : Limits!Count(v) \/ Limits!Insert(v) \/ Limits!Sweep(v)
             \/ Limits!CleanUp \/ Limits!Tick \/ UNCHANGED Limits!vars
      PROVE  passed' = passed
    BY <1>5 DEF Limits!Check, Limits!Delete, Limits!Count, Limits!Insert, Limits!Sweep,
       Limits!CleanUp, Limits!Tick, Limits!vars
<1>6. QED
    BY <1>3, <1>4, <1>5 DEF Limits!Next

\* The inductive invariant of the limiters holds from the start and in every step.
LEMMA RateInvHolds ==
    ASSUME Limits!RateConstants
    PROVE  Limits!Spec => []Limits!RateInv
<1>0. /\ MaxTime \in Nat /\ MemoryMost \in Nat /\ None \notin Limiter
      /\ \A l \in Limiter : Most[l] \in Nat
    BY DEF Limits!RateConstants
<1>1. Limits!Init => Limits!RateInv
  <2> SUFFICES ASSUME Limits!Init PROVE Limits!RateInv
    OBVIOUS
  <2>1. /\ postgres \in BOOLEAN /\ now = 0 /\ now \in Limits!Time
        /\ rows = [l \in Limiter |-> Limits!Never] /\ granted = [l \in Limiter |-> Limits!Never]
        /\ bucket = [w \in Worker |-> Limits!Never] /\ passed = [w \in Worker |-> Limits!Never]
        /\ checking = [w \in Worker |-> Limits!NoCheck] /\ beaten = {}
    BY <1>0 DEF Limits!Init, Limits!Time
  <2>2. /\ Limits!Never \in Limits!Counts /\ Limits!Total(Limits!Never) = 0
        /\ \A t \in Limits!Time : Limits!Never[t] = 0
    BY <1>0, NoAttempts DEF Limits!Never
  <2>3. Limits!NoCheck \in Limits!Checks /\ Limits!NoCheck.step = "none"
    BY DEF Limits!NoCheck, Limits!Checks
  <2>4. \A t, W : Limits!In(Limits!Never, t, W) = 0
    <3>1. \A t, W : Limits!Within(Limits!Never, t, W) = Limits!Never
      BY DEF Limits!Within, Limits!Never
    <3>2. QED
      BY <2>2, <3>1 DEF Limits!In
  <2> HIDE DEF Limits!Never, Limits!NoCheck
  <2>5. Limits!RateTypes
    BY <2>1, <2>2, <2>3 DEF Limits!RateTypes
  <2>6. Limits!NothingAhead /\ Limits!StillThere
    BY <2>1, <2>2 DEF Limits!NothingAhead, Limits!StillThere
  <2>7. Limits!RoomLeft
    BY <2>1, <2>3 DEF Limits!RoomLeft
  <2>8. Limits!LimitHolds
    BY <1>0, <2>1, <2>4 DEF Limits!LimitHolds, Limits!Holds
  <2>9. QED
    BY <2>5, <2>6, <2>7, <2>8 DEF Limits!RateInv
<1>2. Limits!RateInv /\ [Limits!Next]_Limits!vars => Limits!RateInv'
  <2> SUFFICES ASSUME Limits!RateInv, [Limits!Next]_Limits!vars PROVE Limits!RateInv'
    OBVIOUS
  <2>1. /\ Limits!RateTypes /\ Limits!NothingAhead /\ Limits!StillThere /\ Limits!RoomLeft
    BY DEF Limits!RateInv
  <2>2. Limits!RateTypes' /\ Limits!NothingAhead'
    BY <2>1, RateTypesStep, AheadStep
  <2>3. Limits!StillThere'
    BY <2>1, TableStep, MemoryStep DEF Limits!StillThere
  <2>4. Limits!RoomLeft'
    BY <2>1, RoomLeftStep DEF Limits!RoomLeft
  <2>5. Limits!LimitHolds'
    BY HoldsStep, MemoryHoldsStep DEF Limits!LimitHolds, Limits!Holds
  <2>6. QED
    BY <2>2, <2>3, <2>4, <2>5 DEF Limits!RateInv
<1>3. QED
    BY <1>1, <1>2, PTL DEF Limits!Spec

\* Whatever the windows and the numbers allowed, a limiter whose window no other one
\* undercuts lets no more through in any window than it allows unless on Postgres another
\* check overtook one of its own, and the limiter in memory holds in every worker
\* (check_rate_limit, check_memory_rate_limit).
THEOREM LimitsKept ==
    ASSUME Limits!RateConstants
    PROVE  Limits!Spec => [](Limits!TypeOK /\ Limits!LimitHolds)
<1>1. Limits!RateInv => Limits!TypeOK /\ Limits!LimitHolds
    BY DEF Limits!RateInv, Limits!RateTypes, Limits!TypeOK, Limits!Counts, Limits!Checks
<1>2. QED
    BY <1>1, RateInvHolds, PTL
-----------------------------------------------------------------------------
(* EvidenceChain: rows, files and requests *)

Stages == {"none", "saved", "chosen", "stored", "read", "chained", "done", "dead"}

Upload == [pc: Stages, case: BOOLEAN, prev: Seq(Item)]

Delete == [pc: {"none", "found", "unlinked", "done", "dead"},
           item: Item \cup {None}, case: BOOLEAN]

\* The types of the variables but the chain and the counter, whose bounds need
\* more than their types.
Shapes ==
    /\ media \subseteq Item
    /\ listed \in [Item -> {"none", "loose", "case"}]
    /\ case \in {"none", "active", "closed"}
    /\ chain \in Seq(Item) /\ count \in Nat
    /\ upload \in [Item -> Upload]
    /\ delete \in [Deleter -> Delete]
    /\ old \subseteq Item /\ purge \in {"none", "open"}
    /\ rushed \subseteq Item /\ drifted \in BOOLEAN

\* What a step changes of an upload (ChooseCase, ReadChain, WriteChain,
\* UploadDies, and the steps that only move it on) leaves it an upload.
LEMMA Uploads ==
    /\ \A u \in Upload, pc \in Stages : [u EXCEPT !.pc = pc] \in Upload
    /\ \A u \in Upload, flag \in BOOLEAN :
        [u EXCEPT !.pc = "chosen", !.case = flag] \in Upload
    /\ \A u \in Upload, s \in Seq(Item) :
        /\ [u EXCEPT !.pc = "read", !.prev = s] \in Upload
        /\ [u EXCEPT !.pc = "chained", !.prev = <<>>] \in Upload
    /\ \A u \in Upload : [Media!NoUpload EXCEPT !.pc = "dead", !.case = u.case] \in Upload
    /\ Media!NoUpload \in Upload
<1>1. <<>> \in Seq(Item)
    OBVIOUS
<1>2. Media!NoUpload \in Upload
    BY <1>1 DEF Upload, Media!NoUpload, Stages
<1>3. ASSUME NEW u \in Upload, NEW pc \in Stages PROVE [u EXCEPT !.pc = pc] \in Upload
    BY DEF Upload
<1>4. ASSUME NEW u \in Upload, NEW flag \in BOOLEAN
      PROVE  [u EXCEPT !.pc = "chosen", !.case = flag] \in Upload
    BY DEF Upload, Stages
<1>5. ASSUME NEW u \in Upload, NEW s \in Seq(Item)
      PROVE  /\ [u EXCEPT !.pc = "read", !.prev = s] \in Upload
             /\ [u EXCEPT !.pc = "chained", !.prev = <<>>] \in Upload
    BY <1>1 DEF Upload, Stages
<1>6. ASSUME NEW u \in Upload, NEW v \in Upload
      PROVE  [v EXCEPT !.pc = "dead", !.case = u.case] \in Upload
    BY DEF Upload, Stages
<1>7. QED
    BY <1>2, <1>3, <1>4, <1>5, <1>6

\* Every variable keeps its shape.
LEMMA ShapesStep == Shapes /\ [Media!Next]_Media!vars => Shapes'
<1> SUFFICES ASSUME Shapes, [Media!Next]_Media!vars PROVE Shapes'
    OBVIOUS
<1> USE DEF Shapes
<1>a. ASSUME NEW i \in Item, NEW pc \in Stages, Media!To(i, pc)
      PROVE  upload' \in [Item -> Upload]
  <2>1. [upload[i] EXCEPT !.pc = pc] \in Upload
    BY Uploads
  <2>2. QED
    BY <1>a, <2>1 DEF Media!To
<1>1. ASSUME NEW i \in Item, NEW p \in Payloads, Media!Save(i, p) PROVE Shapes'
    BY <1>1, <1>a DEF Media!Save, Stages
<1>2. ASSUME NEW i \in Item, Media!ChooseCase(i) PROVE Shapes'
    BY <1>2, Uploads DEF Media!ChooseCase
<1>3. ASSUME NEW i \in Item, Media!Insert(i) PROVE Shapes'
  <2>1. upload' \in [Item -> Upload]
    BY <1>3, <1>a DEF Media!Insert, Stages
  <2>2. QED
    BY <1>3, <2>1 DEF Media!Insert
<1>4. ASSUME NEW i \in Item, Media!ReadChain(i) PROVE Shapes'
    BY <1>4, Uploads DEF Media!ReadChain
<1>5. ASSUME NEW i \in Item, Media!WriteChain(i) PROVE Shapes'
  <2>1. upload' \in [Item -> Upload]
    BY <1>5, Uploads DEF Media!WriteChain
  <2>2. chain' \in Seq(Item)
    BY <1>5 DEF Media!WriteChain, Media!Linked, Upload
  <2>3. QED
    BY <1>5, <2>1, <2>2 DEF Media!WriteChain
<1>6. ASSUME NEW i \in Item, Media!CountItem(i) PROVE Shapes'
    BY <1>6, <1>a DEF Media!CountItem, Stages
<1>7. ASSUME NEW i \in Item, Media!UploadDies(i) PROVE Shapes'
    BY <1>7, Uploads DEF Media!UploadDies
<1>8. ASSUME NEW d \in Deleter, NEW i \in Item, Media!Find(d, i) PROVE Shapes'
    BY <1>8 DEF Media!Find, Delete
<1>9. ASSUME NEW d \in Deleter, Media!Unlink(d) PROVE Shapes'
    BY <1>9 DEF Media!Unlink, Delete
<1>10. ASSUME NEW d \in Deleter, Media!Drop(d) PROVE Shapes'
  <2>1. count' \in Nat
    BY <1>10 DEF Media!Drop, Media!Uncounted
  <2>2. QED
    BY <1>10, <2>1 DEF Media!Drop, Delete
<1>11. ASSUME NEW d \in Deleter, Media!DeleteDies(d) PROVE Shapes'
    BY <1>11 DEF Media!DeleteDies, Delete
<1>12. ASSUME NEW i \in Item, Media!Grow(i) PROVE Shapes'
    BY <1>12 DEF Media!Grow
<1>13. CASE Media!PurgeFiles
    BY <1>13 DEF Media!PurgeFiles
<1>14. CASE Media!PurgeRows
    BY <1>14 DEF Media!PurgeRows
<1>15. CASE Media!PurgeDies
    BY <1>15 DEF Media!PurgeDies
<1>16. CASE Media!OpenCase
    BY <1>16 DEF Media!OpenCase
<1>17. CASE Media!CloseCase
    BY <1>17 DEF Media!CloseCase
<1>18. CASE UNCHANGED Media!vars
    BY <1>18 DEF Media!vars
<1>19. QED
    BY <1>1, <1>2, <1>3, <1>4, <1>5, <1>6, <1>7, <1>8, <1>9, <1>10, <1>11, <1>12, <1>13,
       <1>14, <1>15, <1>16, <1>17, <1>18 DEF Media!Next

\* A row follows its upload: it comes with the insertion and says whether the
\* photo is of the case, and the upload's file stays until then.
LEMMA RowsStep ==
    Shapes /\ Media!RowsFollow /\ Media!DeletesFollow /\ [Media!Next]_Media!vars
        => Media!RowsFollow'
<1> SUFFICES ASSUME Shapes, Media!RowsFollow, Media!DeletesFollow, [Media!Next]_Media!vars
             PROVE  Media!RowsFollow'
    OBVIOUS
<1> USE DEF Media!RowsFollow, Shapes, Media!BeforeRow, Media!Counting, Media!At, Media!To, Upload
<1>1. ASSUME NEW i \in Item, NEW p \in Payloads, Media!Save(i, p) PROVE Media!RowsFollow'
    BY <1>1 DEF Media!Save
<1>2. ASSUME NEW i \in Item, Media!ChooseCase(i) PROVE Media!RowsFollow'
    BY <1>2 DEF Media!ChooseCase
<1>3. ASSUME NEW i \in Item, Media!Insert(i) PROVE Media!RowsFollow'
    BY <1>3 DEF Media!Insert
<1>4. ASSUME NEW i \in Item, Media!ReadChain(i) PROVE Media!RowsFollow'
    BY <1>4 DEF Media!ReadChain
<1>5. ASSUME NEW i \in Item, Media!WriteChain(i) PROVE Media!RowsFollow'
    BY <1>5 DEF Media!WriteChain
<1>6. ASSUME NEW i \in Item, Media!CountItem(i) PROVE Media!RowsFollow'
    BY <1>6 DEF Media!CountItem
<1>7. ASSUME NEW i \in Item, Media!UploadDies(i) PROVE Media!RowsFollow'
    BY <1>7 DEF Media!UploadDies, Media!NoUpload
<1>8. ASSUME NEW d \in Deleter, Media!Unlink(d) PROVE Media!RowsFollow'
    BY <1>8 DEF Media!Unlink, Media!DeletesFollow
<1>9. ASSUME NEW d \in Deleter, Media!Drop(d) PROVE Media!RowsFollow'
    BY <1>9 DEF Media!Drop, Media!DeletesFollow
<1>10. ASSUME NEW i \in Item, Media!Grow(i) PROVE Media!RowsFollow'
    BY <1>10 DEF Media!Grow
<1>11. CASE Media!PurgeFiles
    BY <1>11 DEF Media!PurgeFiles, Media!Purgeable
<1>12. CASE Media!PurgeRows
    BY <1>12 DEF Media!PurgeRows
<1>13. CASE Media!OpenCase \/ Media!CloseCase
    BY <1>13 DEF Media!OpenCase, Media!CloseCase
<1>14. CASE UNCHANGED <<media, listed, case, upload, old>>
    BY <1>14
<1>15. QED
    BY <1>1, <1>2, <1>3, <1>4, <1>5, <1>6, <1>7, <1>8, <1>9, <1>10, <1>11, <1>12, <1>13,
       <1>14 DEF Media!Next, Media!Find, Media!DeleteDies, Media!PurgeDies, Media!vars

\* Delete requests keep what they know of the row they found.
LEMMA DeleteRequestsStep ==
    Shapes /\ Media!RowsFollow /\ Media!DeletesFollow /\ [Media!Next]_Media!vars
        => Media!DeletesFollow'
<1> SUFFICES ASSUME Shapes, Media!RowsFollow, Media!DeletesFollow, [Media!Next]_Media!vars
             PROVE  Media!DeletesFollow'
    OBVIOUS
<1> USE DEF Media!DeletesFollow, Shapes, Media!BeforeRow, Media!At, Media!To, Upload, Delete
<1>a. ASSUME UNCHANGED delete,
             \A j \in Item : ~Media!BeforeRow(j) =>
                /\ ~Media!BeforeRow(j)' /\ upload'[j].case = upload[j].case
                /\ listed'[j] = "case" => listed[j] = "case"
      PROVE  Media!DeletesFollow'
    BY <1>a
<1>1. ASSUME NEW i \in Item, NEW p \in Payloads, Media!Save(i, p) PROVE Media!DeletesFollow'
    BY <1>1, <1>a DEF Media!Save
<1>2. ASSUME NEW i \in Item, Media!ChooseCase(i) PROVE Media!DeletesFollow'
    BY <1>2, <1>a DEF Media!ChooseCase
<1>3. ASSUME NEW i \in Item, Media!Insert(i) PROVE Media!DeletesFollow'
    BY <1>3, <1>a DEF Media!Insert
<1>4. ASSUME NEW i \in Item, Media!ReadChain(i) \/ Media!WriteChain(i) \/ Media!CountItem(i)
      PROVE  Media!DeletesFollow'
  <2>1. upload'[i].pc \in {"read", "chained", "done"} /\ upload'[i].case = upload[i].case
    <3>1. CASE Media!ReadChain(i)
      BY <3>1 DEF Media!ReadChain
    <3>2. CASE Media!WriteChain(i)
      BY <3>2 DEF Media!WriteChain
    <3>3. CASE Media!CountItem(i)
      BY <3>3 DEF Media!CountItem
    <3>4. QED
      BY <1>4, <3>1, <3>2, <3>3
  <2>2. \A j \in Item \ {i} : upload'[j] = upload[j]
    BY <1>4 DEF Media!ReadChain, Media!WriteChain, Media!CountItem
  <2>3. UNCHANGED <<delete, listed>>
    BY <1>4 DEF Media!ReadChain, Media!WriteChain, Media!CountItem
  <2>4. QED
    BY <2>1, <2>2, <2>3, <1>a
<1>5. ASSUME NEW i \in Item, Media!UploadDies(i) PROVE Media!DeletesFollow'
    BY <1>5, <1>a DEF Media!UploadDies, Media!NoUpload
<1>6. ASSUME NEW d \in Deleter, NEW i \in Item, Media!Find(d, i) PROVE Media!DeletesFollow'
    BY <1>6 DEF Media!Find, Media!RowsFollow
<1>7. ASSUME NEW d \in Deleter, Media!Unlink(d) PROVE Media!DeletesFollow'
    BY <1>7 DEF Media!Unlink
<1>8. ASSUME NEW d \in Deleter, Media!Drop(d) PROVE Media!DeletesFollow'
    BY <1>8 DEF Media!Drop
<1>9. ASSUME NEW d \in Deleter, Media!DeleteDies(d) PROVE Media!DeletesFollow'
    BY <1>9 DEF Media!DeleteDies
<1>10. CASE Media!PurgeRows
    BY <1>10, <1>a DEF Media!PurgeRows
<1>11. CASE UNCHANGED <<listed, upload, delete>>
    BY <1>11
<1>12. QED
    BY <1>1, <1>2, <1>3, <1>4, <1>5, <1>6, <1>7, <1>8, <1>9, <1>10, <1>11
    DEF Media!Next, Media!Grow, Media!PurgeFiles, Media!PurgeDies, Media!OpenCase, Media!CloseCase,
        Media!vars

-----------------------------------------------------------------------------
(* Files behind rows *)

\* A row keeps its file until a deletion of it has begun: the owner's, or the
\* purge of a row that is old and not of the open case.
LEMMA FilesStep ==
    Shapes /\ Media!RowsFollow /\ Media!DeletesFollow /\ Media!FileBehindRow
    /\ [Media!Next]_Media!vars
        => Media!FileBehindRow'
<1> SUFFICES ASSUME Shapes, Media!RowsFollow, Media!DeletesFollow, Media!FileBehindRow,
                    [Media!Next]_Media!vars
             PROVE  Media!FileBehindRow'
    OBVIOUS
<1> USE DEF Media!FileBehindRow, Shapes, Delete
<1>1. ASSUME NEW i \in Item, NEW p \in Payloads, Media!Save(i, p) PROVE Media!FileBehindRow'
    BY <1>1 DEF Media!Save
<1>2. ASSUME NEW i \in Item, Media!Insert(i) PROVE Media!FileBehindRow'
    BY <1>2 DEF Media!Insert, Media!RowsFollow, Media!At, Media!BeforeRow
<1>3. ASSUME NEW d \in Deleter, NEW i \in Item, Media!Find(d, i) PROVE Media!FileBehindRow'
    BY <1>3 DEF Media!Find
<1>4. ASSUME NEW d \in Deleter, Media!Unlink(d) PROVE Media!FileBehindRow'
    BY <1>4 DEF Media!Unlink
<1>5. ASSUME NEW d \in Deleter, Media!Drop(d) PROVE Media!FileBehindRow'
    BY <1>5 DEF Media!Drop
<1>6. ASSUME NEW d \in Deleter, Media!DeleteDies(d) PROVE Media!FileBehindRow'
    BY <1>6 DEF Media!DeleteDies
<1>7. ASSUME NEW i \in Item, Media!Grow(i) PROVE Media!FileBehindRow'
    BY <1>7 DEF Media!Grow
<1>8. CASE Media!PurgeFiles
    BY <1>8 DEF Media!PurgeFiles, Media!Purgeable
<1>9. CASE Media!PurgeRows
    BY <1>9 DEF Media!PurgeRows
<1>10. CASE Media!OpenCase \/ Media!CloseCase
    BY <1>10 DEF Media!OpenCase, Media!CloseCase, Media!RowsFollow
<1>11. CASE UNCHANGED <<media, listed, case, delete, old>>
    BY <1>11
<1>12. QED
    BY <1>1, <1>2, <1>3, <1>4, <1>5, <1>6, <1>7, <1>8, <1>9, <1>10, <1>11
    DEF Media!Next, Media!ChooseCase, Media!ReadChain, Media!WriteChain, Media!CountItem,
        Media!UploadDies, Media!PurgeDies, Media!vars

\* A photo of the open case keeps its row and its file from the insertion on:
\* only its owner's request takes them.
LEMMA KeptStep ==
    ASSUME Media!EvidenceConstants, Shapes, Media!RowsFollow, Media!DeletesFollow,
           Media!KeptFromInsert, [Media!Next]_Media!vars
    PROVE  Media!KeptFromInsert'
<1> USE DEF Media!KeptFromInsert, Shapes, Upload, Delete, Media!Counting, Media!At, Media!To
<1>a. ASSUME UNCHANGED <<case, upload>>,
             \A j \in Item : (\A e \in Deleter : delete'[e].item # j) =>
                /\ \A e \in Deleter : delete[e].item # j
                /\ listed'[j] = listed[j] /\ (j \in media => j \in media')
      PROVE  Media!KeptFromInsert'
    BY <1>a
<1>1. ASSUME NEW i \in Item, NEW p \in Payloads, Media!Save(i, p) PROVE Media!KeptFromInsert'
    BY <1>1 DEF Media!Save
<1>2. ASSUME NEW i \in Item, Media!ChooseCase(i) PROVE Media!KeptFromInsert'
    BY <1>2 DEF Media!ChooseCase
<1>3. ASSUME NEW i \in Item, Media!Insert(i) PROVE Media!KeptFromInsert'
    BY <1>3 DEF Media!Insert, Media!RowsFollow
<1>4. ASSUME NEW i \in Item, Media!ReadChain(i) PROVE Media!KeptFromInsert'
    BY <1>4 DEF Media!ReadChain
<1>5. ASSUME NEW i \in Item, Media!WriteChain(i) PROVE Media!KeptFromInsert'
    BY <1>5 DEF Media!WriteChain
<1>6. ASSUME NEW i \in Item, Media!CountItem(i) PROVE Media!KeptFromInsert'
    BY <1>6 DEF Media!CountItem
<1>7. ASSUME NEW i \in Item, Media!UploadDies(i) PROVE Media!KeptFromInsert'
    BY <1>7 DEF Media!UploadDies, Media!NoUpload
<1>8. ASSUME NEW d \in Deleter, NEW i \in Item, Media!Find(d, i) PROVE Media!KeptFromInsert'
  <2>1. /\ UNCHANGED <<media, listed, case, upload>>
        /\ delete[d].pc = "none"
        /\ \A e \in Deleter \ {d} : delete'[e] = delete[e]
    BY <1>8 DEF Media!Find
  <2>2. delete[d].item \notin Item
    BY <2>1, Media!EvidenceConstants DEF Media!DeletesFollow, Media!EvidenceConstants
  <2>3. ASSUME NEW j \in Item, \A e \in Deleter : delete'[e].item # j
        PROVE  \A e \in Deleter : delete[e].item # j
    BY <2>1, <2>2, <2>3
  <2>4. QED
    BY <2>1, <2>3, <1>a
<1>9. ASSUME NEW d \in Deleter, Media!Unlink(d) PROVE Media!KeptFromInsert'
  <2>1. /\ UNCHANGED <<listed, case, upload>> /\ media' = media \ {delete[d].item}
        /\ \A e \in Deleter : delete'[e].item = delete[e].item
    BY <1>9 DEF Media!Unlink
  <2>2. QED
    BY <2>1
<1>10. ASSUME NEW d \in Deleter, Media!Drop(d) PROVE Media!KeptFromInsert'
  <2>1. /\ UNCHANGED <<media, case, upload>>
        /\ \A j \in Item \ {delete[d].item} : listed'[j] = listed[j]
        /\ \A e \in Deleter : delete'[e].item = delete[e].item
    BY <1>10 DEF Media!Drop
  <2>2. ASSUME NEW j \in Item, \A e \in Deleter : delete'[e].item # j
        PROVE  /\ \A e \in Deleter : delete[e].item # j
               /\ listed'[j] = listed[j] /\ (j \in media => j \in media')
    BY <2>1, <2>2
  <2>3. QED
    BY <2>1, <2>2, <1>a
<1>11. ASSUME NEW d \in Deleter, Media!DeleteDies(d) PROVE Media!KeptFromInsert'
    BY <1>11 DEF Media!DeleteDies
<1>12. CASE Media!PurgeFiles
    BY <1>12 DEF Media!PurgeFiles, Media!Purgeable, Media!RowsFollow
<1>13. CASE Media!PurgeRows
    BY <1>13 DEF Media!PurgeRows, Media!Purgeable
<1>14. CASE Media!OpenCase \/ Media!CloseCase
    BY <1>14 DEF Media!OpenCase, Media!CloseCase, Media!RowsFollow
<1>15. CASE UNCHANGED <<media, listed, case, upload, delete>>
    BY <1>15
<1>16. QED
    BY <1>1, <1>2, <1>3, <1>4, <1>5, <1>6, <1>7, <1>8, <1>9, <1>10, <1>11, <1>12, <1>13,
       <1>14, <1>15 DEF Media!Next, Media!Grow, Media!PurgeDies, Media!vars

-----------------------------------------------------------------------------
(* The chain of custody *)

\* What Append does to a chain (Linked): the item is in it, beside what it held.
LEMMA LinkedChain ==
    ASSUME NEW s \in Seq(Item), NEW i \in Item
    PROVE  /\ Media!Range(Media!Linked(s, i)) = Media!Range(s) \cup {i}
           /\ Media!IsInjective(s) /\ i \notin Media!Range(s)
               => Media!IsInjective(Media!Linked(s, i))
<1> DEFINE t == Append(s, i)
<1>1. /\ DOMAIN t = DOMAIN s \cup {Len(s) + 1} /\ Len(s) + 1 \notin DOMAIN s
      /\ t[Len(s) + 1] = i /\ \A k \in DOMAIN s : t[k] = s[k]
    OBVIOUS
<1> HIDE DEF t
<1>2. Media!Range(t) = Media!Range(s) \cup {i}
    BY <1>1 DEF Media!Range
<1>3. ASSUME Media!IsInjective(s), i \notin Media!Range(s) PROVE Media!IsInjective(t)
    BY <1>1, <1>3 DEF Media!Range, Media!IsInjective
<1>4. QED
    BY <1>2, <1>3 DEF Media!Linked, t

\* A chain of chained items stays one whatever else moves on.
LEMMA ChainKept ==
    ASSUME NEW s,
           \A j \in Item : upload[j].pc \in {"chained", "done", "dead"} =>
                upload'[j].pc \in {"chained", "done", "dead"},
           Media!ChainOf(s)
    PROVE  Media!IsInjective(s) /\ Media!Range(s) \subseteq
                {j \in Item : upload'[j].pc \in {"chained", "done", "dead"}}
    BY DEF Media!ChainOf

\* No item is twice in the case's chain, or in it before its turn.
LEMMA ChainsStep == Shapes /\ Media!Chains /\ [Media!Next]_Media!vars => Media!Chains'
<1> SUFFICES ASSUME Shapes, Media!Chains, [Media!Next]_Media!vars PROVE Media!Chains'
    OBVIOUS
<1> USE DEF Shapes, Media!Chains, Upload, Media!At
<1> DEFINE Later == {"chained", "done", "dead"}
<1>a. ASSUME UNCHANGED chain,
             \A j \in Item : upload[j].pc \in Later => upload'[j].pc \in Later,
             \A j \in Item : Media!At(j, "read")'
                => Media!At(j, "read") /\ upload'[j].prev = upload[j].prev
      PROVE  Media!Chains'
    BY <1>a, ChainKept DEF Media!ChainOf
<1>1. ASSUME NEW i \in Item, NEW p \in Payloads, Media!Save(i, p) PROVE Media!Chains'
    BY <1>1, <1>a DEF Media!Save, Media!To
<1>2. ASSUME NEW i \in Item, Media!ChooseCase(i) PROVE Media!Chains'
    BY <1>2, <1>a DEF Media!ChooseCase
<1>3. ASSUME NEW i \in Item, Media!Insert(i) PROVE Media!Chains'
    BY <1>3, <1>a DEF Media!Insert, Media!To
<1>4. ASSUME NEW i \in Item, Media!ReadChain(i) PROVE Media!Chains'
  <2>1. /\ upload[i].pc = "stored" /\ upload'[i].pc = "read" /\ upload'[i].prev = chain
        /\ \A j \in Item \ {i} : upload'[j] = upload[j]
        /\ chain' = chain
    BY <1>4 DEF Media!ReadChain
  <2>2. \A j \in Item : upload[j].pc \in Later => upload'[j].pc \in Later
    BY <2>1
  <2>3. /\ Media!IsInjective(chain)
        /\ Media!Range(chain) \subseteq {k \in Item : upload'[k].pc \in Later}
    BY <2>2, ChainKept
  <2>4. ASSUME NEW j \in Item, Media!At(j, "read")' PROVE Media!ChainOf(upload[j].prev)'
    <3>1. CASE j = i
      BY <2>1, <2>3, <3>1 DEF Media!ChainOf
    <3>2. CASE j # i
      <4>1. upload'[j] = upload[j] /\ Media!ChainOf(upload[j].prev)
        BY <2>1, <2>4, <3>2
      <4>2. /\ Media!IsInjective(upload[j].prev)
            /\ Media!Range(upload[j].prev) \subseteq {k \in Item : upload'[k].pc \in Later}
        BY <2>2, <4>1, ChainKept
      <4>3. QED
        BY <4>1, <4>2 DEF Media!ChainOf
    <3>3. QED
      BY <3>1, <3>2
  <2>5. Media!ChainOf(chain)'
    BY <2>1, <2>3 DEF Media!ChainOf
  <2>6. QED
    BY <2>4, <2>5
<1>5. ASSUME NEW i \in Item, Media!WriteChain(i) PROVE Media!Chains'
  <2>1. /\ upload[i].pc = "read" /\ upload'[i].pc = "chained"
        /\ \A j \in Item \ {i} : upload'[j] = upload[j]
        /\ chain' = Media!Linked(upload[i].prev, i)
    BY <1>5 DEF Media!WriteChain
  <2>2. upload[i].prev \in Seq(Item) /\ Media!ChainOf(upload[i].prev)
    BY <2>1
  <2>3. i \notin Media!Range(upload[i].prev)
    BY <2>1, <2>2 DEF Media!ChainOf
  <2>4. Media!IsInjective(chain') /\ Media!Range(chain') = Media!Range(upload[i].prev) \cup {i}
    BY <2>1, <2>2, <2>3, LinkedChain DEF Media!ChainOf
  <2>5. Media!ChainOf(chain)'
    BY <2>1, <2>2, <2>4 DEF Media!ChainOf
  <2>6. ASSUME NEW j \in Item, Media!At(j, "read")' PROVE Media!ChainOf(upload[j].prev)'
    <3>1. j # i /\ upload'[j] = upload[j] /\ Media!ChainOf(upload[j].prev)
      BY <2>1, <2>6
    <3>2. \A k \in Item : upload[k].pc \in Later => upload'[k].pc \in Later
      BY <2>1
    <3>3. /\ Media!IsInjective(upload[j].prev)
          /\ Media!Range(upload[j].prev) \subseteq {k \in Item : upload'[k].pc \in Later}
      BY <3>1, <3>2, ChainKept
    <3>4. QED
      BY <3>1, <3>3 DEF Media!ChainOf
  <2>7. QED
    BY <2>5, <2>6
<1>6. ASSUME NEW i \in Item, Media!CountItem(i) PROVE Media!Chains'
    BY <1>6, <1>a DEF Media!CountItem, Media!To
<1>7. ASSUME NEW i \in Item, Media!UploadDies(i) PROVE Media!Chains'
    BY <1>7, <1>a DEF Media!UploadDies, Media!NoUpload
<1>8. CASE UNCHANGED <<chain, upload>>
    BY <1>8 DEF Media!ChainOf
<1>9. QED
    BY <1>1, <1>2, <1>3, <1>4, <1>5, <1>6, <1>7, <1>8
    DEF Media!Next, Media!Find, Media!Unlink, Media!Drop, Media!DeleteDies, Media!Grow,
        Media!PurgeFiles, Media!PurgeRows, Media!PurgeDies, Media!OpenCase, Media!CloseCase,
        Media!vars

\* An item whose chain nobody read over is in the chain, and in what every
\* upload has read of it since.
LEMMA CustodyStep ==
    Shapes /\ Media!InCustody /\ Media!ReadsHold /\ [Media!Next]_Media!vars
        => Media!InCustody' /\ Media!ReadsHold'
<1> SUFFICES ASSUME Shapes, Media!InCustody, Media!ReadsHold, [Media!Next]_Media!vars
             PROVE  Media!InCustody' /\ Media!ReadsHold'
    OBVIOUS
<1> USE DEF Shapes, Media!InCustody, Media!ReadsHold, Upload, Media!At
<1> DEFINE InChain == {"chained", "done"}
<1>a. ASSUME UNCHANGED <<chain, rushed>>,
             \A j \in Item : upload'[j].case /\ upload'[j].pc \in InChain =>
                                upload[j].case /\ upload[j].pc \in InChain,
             \A j \in Item : Media!At(j, "read")'
                => Media!At(j, "read") /\ upload'[j].prev = upload[j].prev
      PROVE  Media!InCustody' /\ Media!ReadsHold'
    BY <1>a
<1>1. ASSUME NEW i \in Item, NEW p \in Payloads, Media!Save(i, p)
      PROVE  Media!InCustody' /\ Media!ReadsHold'
    BY <1>1, <1>a DEF Media!Save, Media!To
<1>2. ASSUME NEW i \in Item, Media!ChooseCase(i) PROVE Media!InCustody' /\ Media!ReadsHold'
    BY <1>2, <1>a DEF Media!ChooseCase
<1>3. ASSUME NEW i \in Item, Media!Insert(i) PROVE Media!InCustody' /\ Media!ReadsHold'
  <2>1. upload'[i].pc \in {"stored", "done"} /\ upload'[i].case = upload[i].case
        /\ (upload'[i].pc = "done" => ~upload[i].case)
        /\ UNCHANGED <<chain, rushed>> /\ \A j \in Item \ {i} : upload'[j] = upload[j]
    BY <1>3 DEF Media!Insert, Media!To
  <2>2. QED
    BY <2>1, <1>a
<1>4. ASSUME NEW i \in Item, Media!ReadChain(i) PROVE Media!InCustody' /\ Media!ReadsHold'
  <2>1. /\ upload'[i].pc = "read" /\ upload'[i].prev = chain
        /\ \A j \in Item \ {i} : upload'[j] = upload[j]
        /\ UNCHANGED <<chain, rushed>>
    BY <1>4 DEF Media!ReadChain
  <2>2. QED
    BY <2>1
<1>5. ASSUME NEW i \in Item, Media!WriteChain(i) PROVE Media!InCustody' /\ Media!ReadsHold'
  <2>1. /\ upload[i].pc = "read" /\ upload'[i].pc = "chained"
        /\ \A j \in Item \ {i} : upload'[j] = upload[j]
        /\ chain' = Media!Linked(upload[i].prev, i)
        /\ rushed \subseteq rushed'
        /\ i \notin rushed' => \A j \in Item \ {i} : upload[j].pc # "read"
    BY <1>5 DEF Media!WriteChain
  <2>2. Media!Range(chain') = Media!Range(upload[i].prev) \cup {i}
    BY <2>1, LinkedChain
  <2>3. QED
    BY <2>1, <2>2
<1>6. ASSUME NEW i \in Item, Media!CountItem(i) PROVE Media!InCustody' /\ Media!ReadsHold'
  <2>1. /\ upload[i].pc = "chained" /\ upload'[i].pc = "done" /\ upload'[i].case = upload[i].case
        /\ UNCHANGED <<chain, rushed>> /\ \A j \in Item \ {i} : upload'[j] = upload[j]
    BY <1>6 DEF Media!CountItem, Media!To
  <2>2. QED
    BY <2>1, <1>a
<1>7. ASSUME NEW i \in Item, Media!UploadDies(i) PROVE Media!InCustody' /\ Media!ReadsHold'
    BY <1>7, <1>a DEF Media!UploadDies, Media!NoUpload
<1>8. CASE UNCHANGED <<chain, upload, rushed>>
    BY <1>8
<1>9. QED
    BY <1>1, <1>2, <1>3, <1>4, <1>5, <1>6, <1>7, <1>8
    DEF Media!Next, Media!Find, Media!Unlink, Media!Drop, Media!DeleteDies, Media!Grow,
        Media!PurgeFiles, Media!PurgeRows, Media!PurgeDies, Media!OpenCase, Media!CloseCase,
        Media!vars

-----------------------------------------------------------------------------
(* The case's counter *)

\* How the number of a finite set changes with one item, and what it bounds.
LEMMA Numbers ==
    ASSUME Media!EvidenceConstants
    PROVE  /\ \A S \in SUBSET Item : Media!Cardinality(S) \in Nat
           /\ \A S, T \in SUBSET Item :
                S \subseteq T => Media!Cardinality(S) <= Media!Cardinality(T)
           /\ \A S \in SUBSET Item : \A i \in Item \ S :
                Media!Cardinality(S \cup {i}) = Media!Cardinality(S) + 1
           /\ \A S \in SUBSET Item : \A i \in S :
                Media!Cardinality(S \ {i}) = Media!Cardinality(S) - 1 /\ Media!Cardinality(S) > 0
           /\ Media!Cardinality({}) = 0
<1>1. \A S \in SUBSET Item : IsFiniteSet(S)
    BY Media!EvidenceConstants, SameSets, FS_Subset
    DEF Media!EvidenceConstants
<1>2. \A S \in SUBSET Item : Cardinality(S) \in Nat
    BY <1>1, FS_CardinalityType
<1>3. \A S, T \in SUBSET Item : S \subseteq T => Cardinality(S) <= Cardinality(T)
    BY <1>1, FS_Subset
<1>4. \A S \in SUBSET Item : \A i \in Item \ S : Cardinality(S \cup {i}) = Cardinality(S) + 1
    BY <1>1, FS_AddElement
<1>5. ASSUME NEW S \in SUBSET Item, NEW i \in S
      PROVE  Cardinality(S \ {i}) = Cardinality(S) - 1 /\ Cardinality(S) > 0
  <2>1. Cardinality(S \ {i}) = Cardinality(S) - 1
    BY <1>1, FS_RemoveElement
  <2>2. Cardinality(S) \in Nat /\ Cardinality(S \ {i}) \in Nat
    BY <1>2
  <2>3. QED
    BY <2>1, <2>2
<1>6. QED
    BY <1>2, <1>3, <1>4, <1>5, FS_EmptySet, SameSets

\* The counter counts each photo once; undisturbed, it is the number of the
\* case's rows that are done.
LEMMA CountsStep ==
    ASSUME Media!EvidenceConstants, Shapes, Media!RowsFollow, Media!DeletesFollow,
           Media!Counts, [Media!Next]_Media!vars
    PROVE  Media!Counts'
<1> USE DEF Shapes, Media!Counts, Upload, Media!Counting, Media!At, Media!To
<1>0. /\ Media!EverCounted \in SUBSET Item /\ Media!Counted \in SUBSET Item
      /\ Media!Cardinality(Media!EverCounted) \in Nat /\ Media!Cardinality(Media!Counted) \in Nat
    BY Numbers, Media!EvidenceConstants DEF Media!EverCounted, Media!Counted
<1>a. ASSUME UNCHANGED count, Media!EverCounted' = Media!EverCounted,
             drifted => drifted',
             ~drifted' => /\ Media!Counted' = Media!Counted
                          /\ \A j \in Item :
                                /\ upload'[j].pc \in Media!Counting => listed'[j] = "case"
                                /\ listed'[j] = "case" => upload'[j].pc # "dead"
      PROVE  Media!Counts'
    BY <1>0, <1>a
<1>b. ASSUME UNCHANGED <<count, listed, drifted>>,
             \A j \in Item : /\ upload'[j].pc = "done" <=> upload[j].pc = "done"
                             /\ upload'[j].pc \in Media!Counting <=> upload[j].pc \in Media!Counting
                             /\ upload'[j].pc = "dead" => upload[j].pc = "dead"
                             /\ upload'[j].pc = "done" => upload'[j].case = upload[j].case
      PROVE  Media!Counts'
  <2>1. Media!EverCounted' = Media!EverCounted /\ Media!Counted' = Media!Counted
    BY <1>b DEF Media!EverCounted, Media!Counted
  <2>2. QED
    BY <1>a, <1>b, <2>1
<1>1. ASSUME NEW i \in Item, NEW p \in Payloads, Media!Save(i, p) PROVE Media!Counts'
    BY <1>1, <1>b DEF Media!Save
<1>2. ASSUME NEW i \in Item, Media!ChooseCase(i) PROVE Media!Counts'
    BY <1>2, <1>b DEF Media!ChooseCase
<1>3. ASSUME NEW i \in Item, Media!Insert(i) PROVE Media!Counts'
  <2>1. /\ upload[i].pc = "chosen" /\ listed[i] = "none" /\ UNCHANGED <<count, drifted>>
        /\ upload'[i].pc = IF upload[i].case THEN "stored" ELSE "done"
        /\ upload'[i].case = upload[i].case
        /\ listed'[i] = IF upload[i].case THEN "case" ELSE "loose"
        /\ \A j \in Item \ {i} : upload'[j] = upload[j] /\ listed'[j] = listed[j]
    BY <1>3 DEF Media!Insert, Media!RowsFollow, Media!BeforeRow
  <2>2. Media!EverCounted' = Media!EverCounted /\ Media!Counted' = Media!Counted
    BY <2>1 DEF Media!EverCounted, Media!Counted
  <2>3. QED
    BY <1>a, <2>1, <2>2
<1>4. ASSUME NEW i \in Item, Media!ReadChain(i) PROVE Media!Counts'
    BY <1>4, <1>b DEF Media!ReadChain
<1>5. ASSUME NEW i \in Item, Media!WriteChain(i) PROVE Media!Counts'
    BY <1>5, <1>b DEF Media!WriteChain
<1>6. ASSUME NEW i \in Item, Media!CountItem(i) PROVE Media!Counts'
  <2>1. /\ upload[i].pc = "chained" /\ upload'[i].pc = "done" /\ upload'[i].case = upload[i].case
        /\ \A j \in Item \ {i} : upload'[j] = upload[j]
        /\ count' = count + 1 /\ UNCHANGED <<listed, drifted>> /\ upload[i].case
    BY <1>6 DEF Media!CountItem, Media!RowsFollow
  <2>2. Media!EverCounted' = Media!EverCounted \cup {i} /\ i \notin Media!EverCounted
    BY <2>1 DEF Media!EverCounted
  <2>3. Media!Cardinality(Media!EverCounted') = Media!Cardinality(Media!EverCounted) + 1
    BY <1>0, <2>2, Numbers, Media!EvidenceConstants
  <2>4. ASSUME ~drifted
        PROVE  Media!Cardinality(Media!Counted') = Media!Cardinality(Media!Counted) + 1
    <3>1. Media!Counted' = Media!Counted \cup {i} /\ i \notin Media!Counted
      BY <2>1, <2>4 DEF Media!Counted
    <3>2. QED
      BY <1>0, <3>1, Numbers, Media!EvidenceConstants
  <2>5. ASSUME ~drifted, NEW j \in Item
        PROVE  /\ upload'[j].pc \in Media!Counting => listed'[j] = "case"
               /\ listed'[j] = "case" => upload'[j].pc # "dead"
    BY <2>1, <2>5
  <2> DEFINE ever == Media!Cardinality(Media!EverCounted)
             kept == Media!Cardinality(Media!Counted)
  <2>6. count <= ever /\ count' = count + 1 /\ ever \in Nat /\ kept \in Nat
        /\ Media!Cardinality(Media!EverCounted') = ever + 1 /\ (~drifted => count = kept)
    BY <1>0, <2>1, <2>3
  <2>7. count' <= Media!Cardinality(Media!EverCounted') /\ (~drifted
      => count' = Media!Cardinality(Media!Counted'))
    <3> HIDE DEF ever
    <3>1. count' <= Media!Cardinality(Media!EverCounted')
      BY <2>6
    <3>2. QED
      BY <2>4, <2>6, <3>1
  <2>8. QED
    BY <2>1, <2>5, <2>7
<1>7. ASSUME NEW i \in Item, Media!UploadDies(i) PROVE Media!Counts'
  <2>1. /\ upload[i].pc \notin {"none", "done", "dead"} /\ upload'[i].pc = "dead"
        /\ \A j \in Item \ {i} : upload'[j] = upload[j]
        /\ drifted' = (drifted \/ upload[i].pc \in Media!Counting) /\ UNCHANGED <<listed, count>>
    BY <1>7 DEF Media!UploadDies, Media!NoUpload
  <2>2. Media!EverCounted' = Media!EverCounted /\ Media!Counted' = Media!Counted
    BY <2>1 DEF Media!EverCounted, Media!Counted
  <2>3. ASSUME ~drifted' PROVE listed[i] = "none"
    BY <2>1, <2>3 DEF Media!RowsFollow, Media!BeforeRow, Stages
  <2>4. QED
    BY <1>a, <2>1, <2>2, <2>3
<1>8. ASSUME NEW d \in Deleter, Media!Drop(d) PROVE Media!Counts'
  <2> DEFINE i == delete[d].item
  <2>1. /\ i \in Item /\ (listed[i] = "case" => delete[d].case)
        /\ delete[d].case => listed[i] # "loose"
        /\ listed' = [listed EXCEPT ![i] = "none"] /\ upload' = upload
        /\ count' = (IF delete[d].case /\ count > 0 THEN count - 1 ELSE count)
        /\ drifted' = (drifted \/ (delete[d].case /\ (listed[i] = "none" \/ upload[i].pc # "done")))
    BY <1>8 DEF Media!Drop, Media!Uncounted, Media!DeletesFollow, Media!RowsFollow
  <2> HIDE DEF i
  <2>2. Media!EverCounted' = Media!EverCounted
    BY <2>1 DEF Media!EverCounted
  <2>3. count' <= count
    BY <2>1
  <2>4. ASSUME ~drifted', delete[d].case PROVE count' = Media!Cardinality(Media!Counted')
    <3>1. ~drifted /\ listed[i] # "none" /\ upload[i].pc = "done"
      BY <2>1, <2>4
    <3>2. CASE listed[i] = "case"
      <4>1. i \in Media!Counted /\ Media!Counted' = Media!Counted \ {i}
        BY <2>1, <3>1, <3>2 DEF Media!Counted
      <4>2. /\ Media!Cardinality(Media!Counted') = Media!Cardinality(Media!Counted) - 1
            /\ Media!Cardinality(Media!Counted) > 0
        BY <1>0, <4>1, Numbers, Media!EvidenceConstants
      <4>3. QED
        BY <1>0, <2>1, <2>4, <3>1, <4>2
    <3>3. CASE listed[i] = "loose"
      BY <2>1, <2>4, <3>3
    <3>4. QED
      BY <2>1, <3>1, <3>2, <3>3
  <2>5. ASSUME ~drifted', ~delete[d].case PROVE count' = Media!Cardinality(Media!Counted')
    <3>1. Media!Counted' = Media!Counted /\ count' = count /\ ~drifted
      BY <2>1, <2>5 DEF Media!Counted
    <3>2. QED
      BY <3>1
  <2>6. ASSUME ~drifted', NEW j \in Item
        PROVE  /\ upload[j].pc \in Media!Counting => listed'[j] = "case"
               /\ listed'[j] = "case" => upload[j].pc # "dead"
    BY <2>1, <2>6
  <2>7. QED
    BY <1>0, <2>1, <2>2, <2>3, <2>4, <2>5, <2>6
<1>9. CASE Media!PurgeRows
  <2>1. UNCHANGED <<upload, count>> /\ (drifted
      => drifted') /\ Media!EverCounted' = Media!EverCounted
    BY <1>9 DEF Media!PurgeRows, Media!EverCounted
  <2>2. ASSUME ~drifted', NEW j \in Item PROVE listed'[j] = "case" <=> listed[j] = "case"
    BY <1>9, <2>2 DEF Media!PurgeRows, Media!Purgeable
  <2>3. ~drifted' => Media!Counted' = Media!Counted
    BY <2>1, <2>2 DEF Media!Counted
  <2>4. QED
    BY <1>a, <2>1, <2>2, <2>3
<1>10. CASE UNCHANGED <<listed, upload, count, drifted>>
    BY <1>10, <1>b
<1>11. QED
    BY <1>1, <1>2, <1>3, <1>4, <1>5, <1>6, <1>7, <1>8, <1>9, <1>10
    DEF Media!Next, Media!Find, Media!Unlink, Media!DeleteDies, Media!Grow, Media!PurgeFiles,
        Media!PurgeDies, Media!OpenCase, Media!CloseCase, Media!vars

-----------------------------------------------------------------------------
(* The theorems *)

\* The upload, the deletion, the purge and the case keep the invariant.
THEOREM EvidenceInvHolds == ASSUME Media!EvidenceConstants
    PROVE  Media!Spec => []Media!EvidenceInv
<1> DEFINE Inv == /\ Shapes /\ Media!RowsFollow /\ Media!DeletesFollow /\ Media!FileBehindRow
                  /\ Media!KeptFromInsert
                  /\ Media!Chains /\ Media!InCustody /\ Media!ReadsHold /\ Media!Counts
<1>1. Media!Init => Inv
  <2> SUFFICES ASSUME Media!Init PROVE Inv
    OBVIOUS
  <2>1. Shapes
    <3>1. upload \in [Item -> Upload]
      BY Uploads DEF Media!Init
    <3>2. chain \in Seq(Item) /\ count \in Nat
      BY DEF Media!Init
    <3>3. QED
      BY <3>1, <3>2 DEF Media!Init, Shapes, Delete, Media!NoDelete
  <2>2. /\ Media!RowsFollow /\ Media!DeletesFollow /\ Media!FileBehindRow
        /\ Media!KeptFromInsert /\ Media!ReadsHold /\ Media!InCustody
    BY DEF Media!Init, Media!RowsFollow, Media!DeletesFollow, Media!FileBehindRow,
       Media!KeptFromInsert, Media!ReadsHold, Media!InCustody, Media!NoUpload, Media!NoDelete,
       Media!At, Media!Counting, Media!BeforeRow
  <2>3. chain = <<>> /\ Media!IsInjective(chain) /\ Media!Range(chain) = {}
    BY DEF Media!Init, Media!IsInjective, Media!Range
  <2>4. Media!Chains
    BY <2>3 DEF Media!Init, Media!Chains, Media!ChainOf, Media!At, Media!NoUpload
  <2>5. Media!EverCounted = {} /\ Media!Counted = {}
    BY DEF Media!Init, Media!EverCounted, Media!Counted, Media!At, Media!NoUpload
  <2>6. count = 0 /\ Media!Cardinality({}) = 0
    BY Numbers, Media!EvidenceConstants DEF Media!Init
  <2>7. Media!Counts
    BY <2>5, <2>6 DEF Media!Init, Media!Counts, Media!At, Media!Counting, Media!NoUpload
  <2>8. QED
    BY <2>1, <2>2, <2>4, <2>7
<1>2. Inv /\ [Media!Next]_Media!vars => Inv'
  <2> SUFFICES ASSUME Inv, [Media!Next]_Media!vars PROVE Inv'
    OBVIOUS
  <2>1. Shapes' /\ Media!RowsFollow' /\ Media!DeletesFollow' /\ Media!FileBehindRow'
    BY ShapesStep, RowsStep, DeleteRequestsStep, FilesStep
  <2>2. Media!Chains' /\ Media!InCustody' /\ Media!ReadsHold'
    BY ChainsStep, CustodyStep
  <2>3. Media!KeptFromInsert' /\ Media!Counts'
    BY KeptStep, CountsStep, Media!EvidenceConstants
  <2>4. QED
    BY <2>1, <2>2, <2>3
<1>3. Inv => Media!EvidenceInv
  <2> SUFFICES ASSUME Inv PROVE Media!TypeOK
    BY DEF Media!EvidenceInv
  <2>1. count \in 0..Media!Cardinality(Item)
    <3>1. Media!EverCounted \in SUBSET Item /\ Item \in SUBSET Item
      BY DEF Media!EverCounted
    <3>2. /\ Media!Cardinality(Media!EverCounted) <= Media!Cardinality(Item)
          /\ Media!Cardinality(Media!EverCounted) \in Nat /\ Media!Cardinality(Item) \in Nat
      BY <3>1, Numbers, Media!EvidenceConstants
    <3>3. QED
      BY <3>2 DEF Shapes, Media!Counts
  <2>2. QED
    BY <2>1 DEF Media!TypeOK, Shapes, Media!Chains, Media!ChainOf, Upload, Delete, Stages
<1>4. QED
    BY <1>1, <1>2, <1>3, PTL DEF Media!Spec

\* Every variable has its type: no item is twice in the chain of custody, and
\* the counter does not exceed the photos there are.
THEOREM EvidenceTypeCorrect == ASSUME Media!EvidenceConstants
    PROVE  Media!Spec => []Media!TypeOK
<1>1. Media!EvidenceInv => Media!TypeOK
    BY DEF Media!EvidenceInv
<1>2. QED
    BY <1>1, EvidenceInvHolds, Media!EvidenceConstants, PTL

\* Every photo stored for a case is in the case's chain of custody, unless its
\* chain was computed while another upload was computing its own, or the worker
\* was killed (update_chain).
THEOREM InCustodyHolds == ASSUME Media!EvidenceConstants
    PROVE  Media!Spec => []Media!InCustody
<1>1. Media!EvidenceInv => Media!InCustody
    BY DEF Media!EvidenceInv
<1>2. QED
    BY <1>1, EvidenceInvHolds, Media!EvidenceConstants, PTL

\* A row has its file unless a deletion of it has begun, and with no request
\* under way the undisturbed counter is the number of the case's rows
\* (post_media, delete_media, purge_old_data).
THEOREM CountsRowsHolds ==
    ASSUME Media!EvidenceConstants
    PROVE  Media!Spec => [](Media!FileBehindRow /\ Media!CountsRows)
<1>1. Media!EvidenceInv => Media!FileBehindRow /\ Media!CountsRows
  <2> SUFFICES ASSUME Media!EvidenceInv PROVE Media!CountsRows
    BY DEF Media!EvidenceInv
  <2> SUFFICES ASSUME ~drifted, \A i \in Item : upload[i].pc \in {"none", "done", "dead"}
               PROVE  count = Media!Cardinality({i \in Item : listed[i] = "case"})
    BY DEF Media!CountsRows
  <2>1. Media!Counted = {i \in Item : listed[i] = "case"}
    BY DEF Media!EvidenceInv, Media!Counted, Media!Counts, Media!RowsFollow, Media!BeforeRow,
       Media!At
  <2>2. count = Media!Cardinality(Media!Counted)
    BY DEF Media!EvidenceInv, Media!Counts
  <2>3. QED
    BY <2>1, <2>2
<1>2. QED
    BY <1>1, EvidenceInvHolds, Media!EvidenceConstants, PTL

\* A photo counted for the open case keeps its row and its file until its owner
\* deletes it, whatever the purge does (purge_old_data).
THEOREM OpenCaseKeptHolds == ASSUME Media!EvidenceConstants
    PROVE  Media!Spec => []Media!OpenCaseKept
<1>1. Media!EvidenceInv => Media!OpenCaseKept
    BY DEF Media!EvidenceInv, Media!KeptFromInsert, Media!OpenCaseKept, Media!At
<1>2. QED
    BY <1>1, EvidenceInvHolds, Media!EvidenceConstants, PTL
=============================================================================
