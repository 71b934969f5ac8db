--------------------------- MODULE DeliveryProofs ---------------------------
(***************************************************************************)
(* What the server delivers of one incident: the alert of AlertRouting and  *)
(* the update of BroadcastHub.  Both choose from lists in the code, the     *)
(* channels of an alert and the connections of a worker, so the lemmas on   *)
(* Kept come first: what is kept of a list is a selection from it.          *)
(***************************************************************************)
EXTENDS Integers, Sequences, FiniteSets, Selections, TLAPS, FiniteSetTheorems,
        SequenceTheorems, WellFoundedInduction

CONSTANTS Query, Reports, Inputs, Hours, EnvPhone, MaxFaults, None,
          Worker, User, Admin, Conn, Limit, WithRedis, MaxChanges

VARIABLES settings, hour, tokens, rows, job, open, told, excused, faults,
          redis, owner, share, changes, changing, tasks, inbox, listening, cache, conns, socket,
          update, feeds, failures, got, seen, owned, overlapped, missed, unanswered, crowded

Routes == INSTANCE AlertRouting WITH Request <- Query
Hub == INSTANCE BroadcastHub WITH faults <- failures

-----------------------------------------------------------------------------
(* Selections from a list *)

\* Pairs of numbers, the smaller one first.
Below == {pair \in Nat \X Nat : pair[1] < pair[2]}

\* A set of numbers that is not empty has a smallest one.
LEMMA Smallest ==
    ASSUME NEW T \in SUBSET Nat, T # {}
    PROVE  \E x \in T : \A y \in T : x <= y
<1>1. IsWellFoundedOn(Below, Nat)
    BY NatLessThanWellFounded DEF OpToRel, Below
<1>2. PICK x \in T : \A y \in T : ~(<<y, x>> \in Below)
    BY <1>1, WFMin, Zenon
<1>3. ASSUME NEW y \in T, y < x PROVE <<y, x>> \in Below
  <2> DEFINE pair == <<y, x>>
  <2>1. pair \in Nat \X Nat /\ pair[1] = y /\ pair[2] = x
    OBVIOUS
  <2> HIDE DEF pair
  <2>2. pair \in Below
    BY <1>3, <2>1 DEF Below
  <2>3. QED
    BY <2>2 DEF pair
<1>4. \A y \in T : ~(y < x)
    BY <1>2, <1>3, Zenon
<1>5. QED
    BY <1>4

\* Going up a set of places one by one, every count comes up, and each at one place.
LEMMA Ranks ==
    ASSUME NEW L \in Nat, NEW P \in SUBSET (1..L)
    PROVE  /\ IsFiniteSet(P) /\ Cardinality(P) \in 0..L
           /\ Cardinality(P) = L => P = 1..L
           /\ \A n \in 1..Cardinality(P) : \E i \in P : Cardinality(UpTo(P, i)) = n
           /\ \A i \in P : Cardinality(UpTo(P, i)) \in 1..Cardinality(P)
           /\ \A i, j \in P : Cardinality(UpTo(P, i)) = Cardinality(UpTo(P, j)) => i = j
<1>0. \A j \in P : j \in Int /\ 1 <= j /\ j <= L
    OBVIOUS
<1>1. IsFiniteSet(1..L) /\ Cardinality(1..L) = L
    BY FS_Interval
<1>2. /\ IsFiniteSet(P) /\ Cardinality(P) \in 0..L
      /\ Cardinality(P) = L => P = 1..L
  <2>1. IsFiniteSet(P) /\ Cardinality(P) <= L /\ (Cardinality(P) = L => P = 1..L)
    BY <1>1, FS_Subset
  <2>2. Cardinality(P) \in Nat
    BY <2>1, FS_CardinalityType
  <2>3. QED
    BY <2>1, <2>2
<1>3. ASSUME NEW i \in Int
      PROVE  /\ IsFiniteSet(UpTo(P, i)) /\ Cardinality(UpTo(P, i)) \in Nat
             /\ Cardinality(UpTo(P, i)) <= Cardinality(P)
  <2>1. UpTo(P, i) \in SUBSET P
    BY DEF UpTo
  <2>2. IsFiniteSet(UpTo(P, i)) /\ Cardinality(UpTo(P, i)) <= Cardinality(P)
    BY <1>2, <2>1, FS_Subset
  <2>3. QED
    BY <2>2, FS_CardinalityType
<1>4. ASSUME NEW i \in 1..L
      PROVE  Cardinality(UpTo(P, i)) = IF i \in P THEN Cardinality(UpTo(P, i - 1)) + 1
                                       ELSE Cardinality(UpTo(P, i - 1))
  <2>0. i \in Int /\ i - 1 \in Int /\ ~(i <= i - 1) /\ i <= i
        /\ \A j \in P : (j <= i <=> j <= i - 1 \/ j = i)
    BY <1>0
  <2>1. IsFiniteSet(UpTo(P, i - 1)) /\ i \notin UpTo(P, i - 1)
    BY <1>3, <2>0 DEF UpTo
  <2>2. CASE i \in P
    <3>1. UpTo(P, i) = UpTo(P, i - 1) \cup {i}
      BY <2>0, <2>2 DEF UpTo
    <3>2. QED
      BY <2>1, <2>2, <3>1, FS_AddElement
  <2>3. CASE i \notin P
    <3>1. UpTo(P, i) = UpTo(P, i - 1)
      BY <2>0, <2>3 DEF UpTo
    <3>2. QED
      BY <2>3, <3>1
  <2>4. QED
    BY <2>2, <2>3
<1>5. ASSUME NEW n \in 1..Cardinality(P)
      PROVE  \E i \in P : Cardinality(UpTo(P, i)) = n
  <2> DEFINE T == {i \in 0..L : Cardinality(UpTo(P, i)) >= n}
  <2>1. UpTo(P, L) = P /\ UpTo(P, 0) = {}
    <3>1. \A j \in P : j <= L /\ ~(j <= 0)
      BY <1>0
    <3>2. QED
      BY <3>1 DEF UpTo
  <2>2. Cardinality(UpTo(P, 0)) = 0
    BY <2>1, FS_EmptySet
  <2>3. T \in SUBSET Nat /\ L \in T /\ 0 \notin T
    BY <1>2, <2>1, <2>2
  <2>4. PICK i \in T : \A j \in T : i <= j
    BY <2>3, Smallest
  <2>5. i \in 1..L /\ i - 1 \notin T /\ i - 1 \in 0..L
    BY <2>3, <2>4
  <2>6. Cardinality(UpTo(P, i - 1)) < n /\ Cardinality(UpTo(P, i)) >= n
    BY <1>2, <1>3, <2>5
  <2>7. /\ Cardinality(UpTo(P, i)) \in Nat /\ Cardinality(UpTo(P, i - 1)) \in Nat /\ n \in Nat
        /\ Cardinality(UpTo(P, i)) = IF i \in P THEN Cardinality(UpTo(P, i - 1)) + 1
                                     ELSE Cardinality(UpTo(P, i - 1))
    BY <1>2, <1>3, <1>4, <2>5
  <2>8. i \in P /\ Cardinality(UpTo(P, i)) = n
    BY <2>6, <2>7
  <2>9. QED
    BY <2>8
<1>6. ASSUME NEW i \in P PROVE Cardinality(UpTo(P, i)) \in 1..Cardinality(P)
  <2>1. Cardinality(UpTo(P, i)) # 0
    BY <1>3, FS_EmptySet DEF UpTo
  <2>2. QED
    BY <1>2, <1>3, <2>1
<1>7. ASSUME NEW i \in P, NEW j \in P, i < j
      PROVE  Cardinality(UpTo(P, i)) # Cardinality(UpTo(P, j))
  <2>1. UpTo(P, i) \in SUBSET UpTo(P, j) /\ UpTo(P, i) # UpTo(P, j)
    <3>1. i \in Int /\ j \in Int /\ \A m \in P : m \in Int /\ (m <= i => m <= j)
      BY <1>0, <1>7
    <3>2. j \in UpTo(P, j) /\ j \notin UpTo(P, i)
      BY <1>7, <3>1 DEF UpTo
    <3>3. UpTo(P, i) \subseteq UpTo(P, j)
      BY <3>1 DEF UpTo
    <3>4. QED
      BY <3>2, <3>3
  <2>2. QED
    BY <1>3, <2>1, FS_Subset
<1>8. QED
    BY <1>2, <1>5, <1>6, <1>7

\* A list k has the elements of s that are in S, in no more places than before, and none
\* twice that was there once.
Selects(k, s, S) ==
    /\ Len(k) <= Len(s)
    /\ {k[n] : n \in DOMAIN k} = {s[i] : i \in DOMAIN s} \cap S
    /\ (\E i \in DOMAIN s : s[i] \notin S) => Len(k) < Len(s)
    /\ (\A i, j \in DOMAIN s : s[i] = s[j] => i = j)
           => \A m, n \in DOMAIN k : k[m] = k[n] => m = n

\* What is kept of a list is a selection from it.
LEMMA KeptIs ==
    ASSUME NEW T, NEW s \in Seq(T), NEW S
    PROVE  Kept(s, S) \in Seq(T \cap S) /\ Selects(Kept(s, S), s, S)
<1> DEFINE P == Places(s, S)
           N == Cardinality(P)
           At(n) == CHOOSE i \in P : Cardinality(UpTo(P, i)) = n
           k == Kept(s, S)
<1>1. Len(s) \in Nat /\ DOMAIN s = 1..Len(s) /\ \A i \in DOMAIN s : s[i] \in T
    OBVIOUS
<1>2. P \in SUBSET (1..Len(s)) /\ \A i \in 1..Len(s) : i \in P <=> s[i] \in S
    BY <1>1 DEF Places
<1>3. /\ N \in 0..Len(s) /\ (N = Len(s) => P = 1..Len(s))
      /\ \A i \in P : Cardinality(UpTo(P, i)) \in 1..N /\ At(Cardinality(UpTo(P, i))) = i
      /\ \A n \in 1..N : At(n) \in P /\ Cardinality(UpTo(P, At(n))) = n
  <2> HIDE DEF P
  <2>1. /\ N \in 0..Len(s) /\ (N = Len(s) => P = 1..Len(s))
        /\ \A n \in 1..N : \E i \in P : Cardinality(UpTo(P, i)) = n
        /\ \A i \in P : Cardinality(UpTo(P, i)) \in 1..N
        /\ \A i, j \in P : Cardinality(UpTo(P, i)) = Cardinality(UpTo(P, j)) => i = j
    BY <1>1, <1>2, Ranks
  <2>2. QED
    BY <2>1
<1>4. k = [n \in 1..N |-> s[At(n)]]
    BY DEF Kept
<1> HIDE DEF P, At, k
<1>a. N \in Nat /\ N <= Len(s)
    BY <1>1, <1>3
<1>b. \A n \in 1..N : s[At(n)] \in T \cap S
    BY <1>1, <1>2, <1>3
<1>5. k \in [1..N -> T \cap S]
    BY <1>4, <1>b
<1>6. k \in Seq(T \cap S) /\ Len(k) = N /\ DOMAIN k = 1..N
    BY <1>5, <1>a, SeqDef
<1>7. {k[n] : n \in DOMAIN k} = {s[i] : i \in DOMAIN s} \cap S
  <2>1. ASSUME NEW i \in DOMAIN s, s[i] \in S PROVE \E n \in DOMAIN k : k[n] = s[i]
    BY <1>1, <1>2, <1>3, <1>4, <1>6, <2>1
  <2>2. ASSUME NEW n \in DOMAIN k PROVE k[n] \in S /\ \E i \in DOMAIN s : k[n] = s[i]
    BY <1>1, <1>2, <1>3, <1>4, <1>6
  <2>3. QED
    BY <2>1, <2>2
<1>8. ASSUME NEW i \in DOMAIN s, s[i] \notin S PROVE Len(k) < Len(s)
    BY <1>1, <1>2, <1>3, <1>6, <1>8
<1>9. ASSUME \A i, j \in DOMAIN s : s[i] = s[j] => i = j,
             NEW m \in DOMAIN k, NEW n \in DOMAIN k, k[m] = k[n]
      PROVE  m = n
  <2>0. m \in 1..N /\ n \in 1..N
    BY <1>6
  <2>1. /\ At(m) \in DOMAIN s /\ At(n) \in DOMAIN s
        /\ k[m] = s[At(m)] /\ k[n] = s[At(n)]
    BY <1>1, <1>2, <1>3, <1>4, <2>0
  <2>2. At(m) = At(n)
    BY <1>9, <2>1
  <2>3. QED
    BY <1>3, <2>0, <2>2
<1>10. QED
    BY <1>a, <1>6, <1>7, <1>8, <1>9 DEF Selects, k

-----------------------------------------------------------------------------
(* AlertRouting: one alert for one incident, on every channel that is due *)

\* The parts select from lists as this module does.
LEMMA RoutesKept == \A s, S : Routes!Kept(s, S) = Kept(s, S)
    BY DEF Routes!Kept, Kept, Routes!Places, Places, Routes!UpTo, UpTo, Routes!Cardinality,
           Cardinality

\* The first of a list, and the others.
LEMMA HeadAndTail ==
    ASSUME NEW T, NEW q \in Seq(T), q # <<>>
    PROVE  /\ Head(q) \in T /\ Tail(q) \in Seq(T)
           /\ {q[i] : i \in DOMAIN q} = {Head(q)} \cup {Tail(q)[i] : i \in DOMAIN Tail(q)}
<1>1. Len(q) \in Nat /\ Len(q) # 0 /\ DOMAIN q = 1..Len(q) /\ \A i \in 1..Len(q) : q[i] \in T
    OBVIOUS
<1>2. /\ Head(q) = q[1] /\ Tail(q) \in Seq(T) /\ DOMAIN Tail(q) = 1..(Len(q) - 1)
      /\ \A i \in 1..(Len(q) - 1) : Tail(q)[i] = q[i + 1]
    OBVIOUS
<1>3. ASSUME NEW i \in DOMAIN q PROVE i = 1 \/ (i - 1 \in DOMAIN Tail(q) /\ Tail(q)[i - 1] = q[i])
    BY <1>1, <1>2
<1>4. ASSUME NEW i \in DOMAIN Tail(q) PROVE i + 1 \in DOMAIN q /\ Tail(q)[i] = q[i + 1]
    BY <1>1, <1>2
<1>5. \A i \in DOMAIN q : q[i] \in {Head(q)} \cup {Tail(q)[j] : j \in DOMAIN Tail(q)}
    BY <1>2, <1>3
<1>6. Head(q) \in {q[i] : i \in DOMAIN q}
    BY <1>1, <1>2
<1>7. \A j \in DOMAIN Tail(q) : Tail(q)[j] \in {q[i] : i \in DOMAIN q}
    BY <1>4
<1>8. {q[i] : i \in DOMAIN q} = {Head(q)} \cup {Tail(q)[i] : i \in DOMAIN Tail(q)}
    BY <1>5, <1>6, <1>7
<1>9. QED
    BY <1>1, <1>2, <1>8

\* The channels that are selected, and the alerts a report raises.
LEMMA Selected ==
    /\ \A S : /\ Routes!Kept(Routes!Channels, S) \in Seq(Routes!Channel)
              /\ LET k == Routes!Kept(Routes!Channels, S)
                 IN  {k[i] : i \in DOMAIN k} = Routes!Channel \cap S
    /\ \A S : /\ Routes!Kept(Routes!LocationOrder, S) \in Seq(Routes!Kinds)
              /\ Routes!Kept(Routes!HeartbeatOrder, S) \in Seq(Routes!Kinds)
<1>1. /\ Routes!Channels \in Seq(Routes!Channel)
      /\ {Routes!Channels[i] : i \in DOMAIN Routes!Channels} = Routes!Channel
    BY DEF Routes!Channels, Routes!Channel
<1>2. Routes!LocationOrder \in Seq(Routes!Kinds) /\ Routes!HeartbeatOrder \in Seq(Routes!Kinds)
    BY DEF Routes!LocationOrder, Routes!HeartbeatOrder, Routes!Kinds
<1>3. ASSUME NEW T, NEW S, NEW k \in Seq(T \cap S) PROVE k \in Seq(T)
    BY <1>3, SeqMonotonic
<1>4. ASSUME NEW S
      PROVE  /\ Kept(Routes!Channels, S) \in Seq(Routes!Channel)
             /\ LET k == Kept(Routes!Channels, S)
                IN  {k[i] : i \in DOMAIN k} = Routes!Channel \cap S
  <2>1. PICK k : k = Kept(Routes!Channels, S)
    OBVIOUS
  <2>2. k \in Seq(Routes!Channel \cap S) /\ Selects(k, Routes!Channels, S)
    BY <1>1, <2>1, KeptIs
  <2>3. k \in Seq(Routes!Channel)
    BY <1>3, <2>2
  <2>4. QED
    BY <1>1, <2>1, <2>2, <2>3 DEF Selects
<1>5. ASSUME NEW S
      PROVE  /\ Kept(Routes!LocationOrder, S) \in Seq(Routes!Kinds)
             /\ Kept(Routes!HeartbeatOrder, S) \in Seq(Routes!Kinds)
    BY <1>2, <1>3, KeptIs
<1>6. QED
    BY <1>4, <1>5, RoutesKept

\* Every step keeps the rows that are there or to come, and the channels tried or to come.
LEMMA RoutingStep == Routes!RoutingInv /\ [Routes!Next]_Routes!vars => Routes!RoutingInv'
<1> SUFFICES ASSUME Routes!RoutingInv, [Routes!Next]_Routes!vars PROVE Routes!RoutingInv'
    OBVIOUS
<1> USE DEF Routes!RoutingInv
<1>t. Routes!RoutingTypes /\ job \in [Query -> Routes!Jobs]
    BY DEF Routes!RoutingTypes
<1>k. \A at \in {"idle", "next", "written", "check", "sending"} : at \in Routes!Stages
    BY DEF Routes!Stages
<1>f. ASSUME NEW s \in Routes!Jobs
      PROVE  /\ s.at \in Routes!Stages /\ s.todo \in Seq(Routes!Kinds)
             /\ s.left \in Seq(Routes!Channel) /\ s.reach \subseteq Routes!Channel
             /\ s.tried \subseteq Routes!Channel /\ s.due \subseteq Routes!Channel
    BY DEF Routes!Jobs
\* A request moves on: who sends an alert of a type.
<1>s. ASSUME NEW r \in Query, NEW s \in Routes!Jobs, job' = [job EXCEPT ![r] = s]
      PROVE  /\ job' \in [Query -> Routes!Jobs] /\ job'[r] = s
             /\ \A q \in Query \ {r} : job'[q] = job[q]
             /\ \A t : Routes!Sending(t)' = IF s.at = "sending" /\ Head(s.todo) = t
                                            THEN Routes!Sending(t) \cup {r}
                                            ELSE Routes!Sending(t) \ {r}
  <2>1. /\ job' \in [Query -> Routes!Jobs] /\ job'[r] = s
        /\ \A q \in Query \ {r} : job'[q] = job[q]
    BY <1>s, <1>t
  <2>2. QED
    BY <2>1 DEF Routes!Sending
\* A request moves on beside the sending of alerts.
<1>j. ASSUME NEW r \in Query, NEW s \in Routes!Jobs, job' = [job EXCEPT ![r] = s],
             job[r].at # "sending", s.at # "sending",
             s.at \in {"written", "check"} => s.todo # <<>>,
             UNCHANGED <<settings, rows, told, excused>>,
             open' \subseteq open \cup {r}, r \in open' => s.at = "written"
      PROVE  Routes!RoutingInv'
  <2>1. /\ job' \in [Query -> Routes!Jobs] /\ job'[r] = s
        /\ \A q \in Query \ {r} : job'[q] = job[q]
        /\ \A t : Routes!Sending(t)' = Routes!Sending(t)
        /\ \A t : \A q \in Routes!Sending(t) : q # r /\ q \in Query
    BY <1>j, <1>s DEF Routes!Sending
  <2>2. Routes!RoutingTypes'
    BY <1>j, <1>t, <2>1 DEF Routes!RoutingTypes
  <2>3. Routes!LockedToWrite' /\ Routes!HasAlert'
    BY <1>j, <2>1 DEF Routes!LockedToWrite, Routes!HasAlert
  <2>4. Routes!RowPending'
    BY <1>j, <2>1 DEF Routes!RowPending
  <2>5. Routes!DuePending'
    BY <1>j, <2>1 DEF Routes!DuePending
  <2>6. QED
    BY <2>2, <2>3, <2>4, <2>5
<1>i. /\ Routes!Idle \in Routes!Jobs /\ Routes!Idle.at = "idle"
      /\ \A todo \in Seq(Routes!Kinds) :
             /\ [Routes!Idle EXCEPT !.at = "next", !.todo = todo] \in Routes!Jobs
             /\ [Routes!Idle EXCEPT !.at = "next", !.todo = todo].at = "next"
  <2>1. <<>> \in Seq(Routes!Kinds) /\ <<>> \in Seq(Routes!Channel)
    OBVIOUS
  <2>2. QED
    BY <1>k, <2>1 DEF Routes!Idle, Routes!Jobs
<1>n. ASSUME NEW r \in Query, job[r].todo # <<>>
      PROVE  /\ Head(job[r].todo) \in Routes!Kinds
             /\ [Routes!Idle EXCEPT !.at = "next", !.todo = Tail(job[r].todo)] \in Routes!Jobs
             /\ [Routes!Idle EXCEPT !.at = "next", !.todo = Tail(job[r].todo)].at = "next"
  <2>1. job[r].todo \in Seq(Routes!Kinds)
    BY <1>t, <1>f
  <2>2. Head(job[r].todo) \in Routes!Kinds /\ Tail(job[r].todo) \in Seq(Routes!Kinds)
    BY <1>n, <2>1, HeadAndTail
  <2>3. QED
    BY <1>i, <2>2
<1>1. ASSUME NEW r \in Query, NEW report \in Reports, Routes!Receive(r, report)
      PROVE  Routes!RoutingInv'
  <2>1. PICK todo \in Seq(Routes!Kinds) :
            job' = [job EXCEPT ![r] = [Routes!Idle EXCEPT !.at = "next", !.todo = todo]]
    BY <1>1, Selected DEF Routes!Receive
  <2>2. PICK s : s = [Routes!Idle EXCEPT !.at = "next", !.todo = todo]
    OBVIOUS
  <2>3. s \in Routes!Jobs /\ s.at = "next"
    BY <1>i, <2>2
  <2>4. /\ job[r].at = "idle" /\ UNCHANGED <<settings, rows, told, excused, open>>
        /\ r \notin open
    BY <1>1 DEF Routes!Receive, Routes!LockedToWrite
  <2>5. QED
    BY <1>j, <2>1, <2>2, <2>3, <2>4
<1>2. ASSUME NEW r \in Query, Routes!Write(r) PROVE Routes!RoutingInv'
  <2> DEFINE After(q) == [q EXCEPT !.at = "written"]
  <2>1. ASSUME NEW q \in Routes!Jobs
        PROVE  After(q) \in Routes!Jobs /\ After(q).at = "written" /\ After(q).todo = q.todo
    BY <1>k DEF Routes!Jobs
  <2>2. /\ job' = [job EXCEPT ![r] = After(job[r])] /\ job[r].at = "next" /\ job[r].todo # <<>>
        /\ open' \subseteq open \cup {r} /\ UNCHANGED <<settings, rows, told, excused>>
    BY <1>2 DEF Routes!Write
  <2> HIDE DEF After
  <2>3. PICK s : s = After(job[r])
    OBVIOUS
  <2>4. s \in Routes!Jobs /\ s.at = "written" /\ s.todo # <<>>
    BY <1>t, <2>1, <2>2, <2>3
  <2>5. QED
    BY <1>j, <2>2, <2>3, <2>4
<1>3. ASSUME NEW r \in Query, Routes!Commit(r) PROVE Routes!RoutingInv'
  <2> DEFINE After(q) == [q EXCEPT !.at = "check"]
  <2>1. ASSUME NEW q \in Routes!Jobs
        PROVE  After(q) \in Routes!Jobs /\ After(q).at = "check" /\ After(q).todo = q.todo
    BY <1>k DEF Routes!Jobs
  <2>2. /\ job' = [job EXCEPT ![r] = After(job[r])] /\ job[r].at = "written"
        /\ open' = open \ {r} /\ UNCHANGED <<settings, rows, told, excused>>
    BY <1>3 DEF Routes!Commit
  <2> HIDE DEF After
  <2>3. PICK s : s = After(job[r])
    OBVIOUS
  <2>4. s \in Routes!Jobs /\ s.at = "check" /\ s.todo # <<>>
    BY <1>t, <2>1, <2>2, <2>3 DEF Routes!HasAlert
  <2>5. QED
    BY <1>j, <2>2, <2>3, <2>4
\* At an alert, no lock is held and nothing is sent.
<1>a. ASSUME NEW r \in Query, Routes!AtAlert(r)
      PROVE  /\ job[r].at \in {"next", "check"} /\ job[r].todo # <<>> /\ r \notin open
    BY <1>a DEF Routes!AtAlert, Routes!HasAlert, Routes!LockedToWrite
<1>4. ASSUME NEW r \in Query, Routes!SkipRepeat(r) PROVE Routes!RoutingInv'
  <2>1. /\ Routes!AtAlert(r) /\ UNCHANGED <<settings, rows, told, excused, open>>
        /\ job' = [job EXCEPT ![r] = [Routes!Idle EXCEPT !.at = "next",
                                                         !.todo = Tail(job[r].todo)]]
    BY <1>4 DEF Routes!SkipRepeat
  <2>2. PICK s : s = [Routes!Idle EXCEPT !.at = "next", !.todo = Tail(job[r].todo)]
    OBVIOUS
  <2>3. s \in Routes!Jobs /\ s.at = "next" /\ job[r].at \in {"next", "check"} /\ r \notin open
    BY <1>a, <1>n, <2>1, <2>2
  <2>4. QED
    BY <1>j, <2>1, <2>2, <2>3
<1>5. ASSUME NEW r \in Query, Routes!Finish(r) PROVE Routes!RoutingInv'
    BY <1>5, <1>i, <1>j DEF Routes!Finish
\* send_all begins: what it leaves to try holds every channel that is due.
<1>6. ASSUME NEW r \in Query, NEW lost \in SUBSET {"prefs", "phone", "tokens"},
             Routes!Alert(r, lost)
      PROVE  Routes!RoutingInv'
  <2>0. PICK t : t = Head(job[r].todo)
    OBVIOUS
  <2> DEFINE prefs == IF "prefs" \in lost THEN Routes!Defaults ELSE settings
             reach == Routes!Reachable(settings.phone /\ "phone" \notin lost)
                      \ (IF "tokens" \in lost THEN {"push"} ELSE {})
             muted == Routes!Suppressed(t, prefs)
             left == IF muted THEN <<>> ELSE Routes!Kept(Routes!Channels, Routes!Allowed(prefs))
             due == Routes!Allowed(settings) \cap reach
             After(q, ch, can, must) ==
                 [q EXCEPT !.at = "sending", !.tried = {}, !.reach = can, !.left = ch, !.due = must]
  <2>1. /\ Routes!AtAlert(r) /\ ~(t \in Routes!Repeats /\ Routes!Recent(t))
        /\ (muted => open \subseteq {r}) /\ UNCHANGED <<settings, open>>
        /\ job' = [job EXCEPT ![r] = After(job[r], left, reach, due)]
        /\ rows' = IF muted /\ r \notin open THEN Routes!Better(t, "tried") ELSE rows
        /\ told' = [u \in Routes!Repeats |-> IF u = t /\ ~muted THEN told[u] + 1 ELSE told[u]]
        /\ excused' = IF Routes!Sending(t) = {} THEN excused
                      ELSE excused \cup ({t} \cap Routes!Repeats)
    BY <1>6, <2>0 DEF Routes!Alert, Routes!Begins
  <2>2. /\ job[r].at \in {"next", "check"} /\ job[r].todo # <<>> /\ r \notin open
    BY <1>a, <2>1
  <2>3. t \in Routes!Kinds
    BY <1>n, <2>0, <2>2
  <2>4. reach \subseteq Routes!Channel /\ due \subseteq Routes!Channel /\ due \subseteq reach
    BY DEF Routes!Reachable, Routes!Channel
  <2>5. /\ Routes!Allowed(prefs) \subseteq Routes!Channel /\ Routes!Allowed(prefs) # {}
        /\ Routes!Allowed(settings) \subseteq Routes!Allowed(prefs)
    BY <1>t DEF Routes!RoutingTypes, Routes!Allowed, Routes!Defaults, Routes!Channel
  <2>6. t \in Routes!Always => ~muted
    BY DEF Routes!Suppressed
  <2>7. /\ left \in Seq(Routes!Channel)
        /\ muted => left = <<>>
        /\ ~muted => {left[i] : i \in DOMAIN left} = Routes!Allowed(prefs) /\ left # <<>>
    <3>1. PICK k : k = Routes!Kept(Routes!Channels, Routes!Allowed(prefs))
      OBVIOUS
    <3>2. k \in Seq(Routes!Channel) /\ {k[i] : i \in DOMAIN k} = Routes!Allowed(prefs)
      BY <2>5, <3>1, Selected
    <3>3. k # <<>>
      BY <2>5, <3>2
    <3>4. QED
      BY <3>1, <3>2, <3>3
  <2> HIDE DEF prefs, reach, muted, left, due
  <2>8. ASSUME NEW q \in Routes!Jobs, NEW ch \in Seq(Routes!Channel),
               NEW can \in SUBSET Routes!Channel, NEW must \in SUBSET Routes!Channel
        PROVE  /\ After(q, ch, can, must) \in Routes!Jobs
               /\ After(q, ch, can, must).at = "sending"
               /\ After(q, ch, can, must).todo = q.todo /\ After(q, ch, can, must).left = ch
               /\ After(q, ch, can, must).reach = can /\ After(q, ch, can, must).due = must
    BY <1>k DEF Routes!Jobs
  <2> HIDE DEF After
  <2>9. PICK s : s = After(job[r], left, reach, due)
    OBVIOUS
  <2>10. /\ s \in Routes!Jobs /\ s.at = "sending" /\ s.todo = job[r].todo /\ s.left = left
         /\ s.reach = reach /\ s.due = due
    BY <1>t, <2>4, <2>7, <2>8, <2>9
  <2>11. /\ job' \in [Query -> Routes!Jobs] /\ job'[r] = s
         /\ \A q \in Query \ {r} : job'[q] = job[q]
         /\ \A u : Routes!Sending(u)' = IF u = t THEN Routes!Sending(u) \cup {r}
                                         ELSE Routes!Sending(u) \ {r}
    <3>1. Head(s.todo) = t
      BY <2>0, <2>10
    <3>2. job' = [job EXCEPT ![r] = s]
      BY <2>1, <2>9
    <3>3. /\ job' \in [Query -> Routes!Jobs] /\ job'[r] = s
          /\ \A q \in Query \ {r} : job'[q] = job[q]
          /\ \A u : Routes!Sending(u)' = IF s.at = "sending" /\ Head(s.todo) = u
                                         THEN Routes!Sending(u) \cup {r}
                                         ELSE Routes!Sending(u) \ {r}
      BY <1>s, <2>10, <3>2
    <3>4. QED
      BY <2>10, <3>1, <3>3
  <2>12. /\ \A u \in Routes!Repeats : r \notin Routes!Sending(u)
    BY <2>2 DEF Routes!Sending
  <2>13. /\ rows' \in [Routes!Repeats -> {"none", "tried", "delivered"}]
         /\ \A u \in Routes!Repeats : rows[u] # "none" => rows'[u] # "none"
         /\ muted /\ t \in Routes!Repeats => rows'[t] # "none"
    BY <1>t, <2>1, <2>2 DEF Routes!Better, Routes!RoutingTypes
  <2>14. /\ told' \in [Routes!Repeats -> Nat] /\ excused' \subseteq Routes!Repeats
         /\ excused \subseteq excused'
         /\ \A u \in Routes!Repeats : u # t \/ muted => told'[u] = told[u]
         /\ t \in Routes!Repeats /\ ~muted => told'[t] = told[t] + 1
    BY <1>t, <2>1 DEF Routes!RoutingTypes
  <2>15. Routes!RoutingTypes'
    BY <1>t, <2>1, <2>11, <2>13, <2>14 DEF Routes!RoutingTypes
  <2>16. Routes!LockedToWrite' /\ Routes!HasAlert'
    BY <2>1, <2>2, <2>10, <2>11 DEF Routes!LockedToWrite, Routes!HasAlert
  <2>17. Routes!DuePending'
    BY <2>0, <2>4, <2>5, <2>6, <2>7, <2>10, <2>11 DEF Routes!DuePending, due
  <2>18. ASSUME NEW u \in Routes!Repeats \ excused', u # t
         PROVE  /\ told'[u] <= 1
                /\ told'[u] > 0 => rows'[u] # "none" \/ Routes!Sending(u)' # {}
                /\ \A q \in Routes!Sending(u)' : rows'[u] # "none" \/ job'[q].left # <<>>
    <3>1. Routes!Sending(u)' = Routes!Sending(u) /\ u \notin excused /\ told'[u] = told[u]
      BY <2>11, <2>12, <2>14, <2>18
    <3>2. \A q \in Routes!Sending(u) : q # r /\ q \in Query
      BY <2>12, <2>18 DEF Routes!Sending
    <3>3. QED
      BY <2>11, <2>13, <2>18, <3>1, <3>2 DEF Routes!RowPending
  <2>19. ASSUME t \in Routes!Repeats \ excused'
         PROVE  /\ told'[t] <= 1
                /\ told'[t] > 0 => rows'[t] # "none" \/ Routes!Sending(t)' # {}
                /\ \A q \in Routes!Sending(t)' : rows'[t] # "none" \/ job'[q].left # <<>>
    <3>1. Routes!Sending(t) = {} /\ t \notin excused /\ rows[t] = "none"
      BY <2>1, <2>19 DEF Routes!Recent
    <3>2. told[t] = 0
      BY <1>t, <2>19, <3>1 DEF Routes!RowPending, Routes!RoutingTypes
    <3>3. Routes!Sending(t)' = {r}
      BY <2>11, <3>1
    <3>4. QED
      BY <2>7, <2>10, <2>11, <2>13, <2>14, <2>19, <3>2, <3>3
  <2>20. Routes!RowPending'
    BY <2>18, <2>19 DEF Routes!RowPending
  <2>21. QED
    BY <2>15, <2>16, <2>17, <2>20
\* A channel is tried: its row is written, or its type is excused.
<1>7. ASSUME NEW r \in Query, NEW ok \in BOOLEAN, NEW logs \in BOOLEAN,
             Routes!SendChannel(r, ok, logs)
      PROVE  Routes!RoutingInv'
  <2>0. PICK t, c : t = Head(job[r].todo) /\ c = Head(job[r].left)
    OBVIOUS
  <2> DEFINE After(q, new) == [q EXCEPT !.left = Tail(@), !.tried = @ \cup new]
  <2>1. /\ job[r].at = "sending" /\ job[r].left # <<>>
        /\ job' = [job EXCEPT ![r].left = Tail(@), ![r].tried = @ \cup ({c} \cap job[r].reach)]
        /\ UNCHANGED <<settings, open, told>>
        /\ IF logs THEN Routes!Logged(r, t, ok) /\ UNCHANGED excused
           ELSE excused' = excused \cup ({t} \cap Routes!Repeats) /\ UNCHANGED rows
    BY <1>7, <2>0 DEF Routes!SendChannel
  <2>2. PICK q : q = job[r]
    OBVIOUS
  <2>3. /\ q \in Routes!Jobs /\ q.at = "sending" /\ q.left # <<>> /\ Head(q.todo) = t
        /\ Head(q.left) = c /\ q.left \in Seq(Routes!Channel) /\ q.todo # <<>> /\ r \notin open
    BY <1>t, <1>f, <2>0, <2>1, <2>2 DEF Routes!HasAlert, Routes!LockedToWrite
  <2>4. /\ c \in Routes!Channel /\ Tail(q.left) \in Seq(Routes!Channel)
        /\ {q.left[i] : i \in DOMAIN q.left}
              = {c} \cup {Tail(q.left)[i] : i \in DOMAIN Tail(q.left)}
    BY <2>3, HeadAndTail
  <2>5. PICK s : s = After(q, {c} \cap q.reach)
    OBVIOUS
  <2>6. job' = [job EXCEPT ![r] = s]
    BY <1>t, <2>1, <2>2, <2>5
  <2>7. ASSUME NEW new \in SUBSET Routes!Channel
        PROVE  /\ After(q, new) \in Routes!Jobs /\ After(q, new).at = q.at
               /\ After(q, new).todo = q.todo /\ After(q, new).left = Tail(q.left)
               /\ After(q, new).tried = q.tried \cup new /\ After(q, new).due = q.due
               /\ After(q, new).reach = q.reach
    BY <2>3, <2>4 DEF Routes!Jobs
  <2> HIDE DEF After
  <2>8. /\ s \in Routes!Jobs /\ s.at = "sending" /\ s.todo = q.todo /\ s.left = Tail(q.left)
        /\ s.tried = q.tried \cup ({c} \cap q.reach) /\ s.due = q.due /\ s.reach = q.reach
    BY <2>3, <2>4, <2>5, <2>7
  <2>9. /\ job' \in [Query -> Routes!Jobs] /\ job'[r] = s
        /\ \A p \in Query \ {r} : job'[p] = job[p]
        /\ \A u : Routes!Sending(u)' = IF s.at = "sending" /\ Head(s.todo) = u
                                       THEN Routes!Sending(u) \cup {r}
                                       ELSE Routes!Sending(u) \ {r}
    BY <1>s, <2>6, <2>8
  <2>10. \A u : Routes!Sending(u)' = Routes!Sending(u)
    BY <2>1, <2>2, <2>3, <2>8, <2>9 DEF Routes!Sending
  <2>11. /\ rows' \in [Routes!Repeats -> {"none", "tried", "delivered"}]
         /\ \A u \in Routes!Repeats : rows[u] # "none" => rows'[u] # "none"
         /\ excused \subseteq excused' /\ excused' \subseteq Routes!Repeats
         /\ t \in Routes!Repeats \ excused' => rows'[t] # "none"
    BY <1>t, <2>1, <2>3 DEF Routes!Logged, Routes!Better, Routes!RoutingTypes
  <2>12. Routes!RoutingTypes'
    BY <1>t, <2>1, <2>9, <2>11 DEF Routes!RoutingTypes
  <2>13. Routes!LockedToWrite' /\ Routes!HasAlert'
    BY <2>1, <2>3, <2>8, <2>9 DEF Routes!LockedToWrite, Routes!HasAlert
  <2>14. ASSUME NEW u \in Routes!Repeats \ excused'
         PROVE  /\ told'[u] <= 1
                /\ told'[u] > 0 => rows'[u] # "none" \/ Routes!Sending(u)' # {}
                /\ \A p \in Routes!Sending(u)' : rows'[u] # "none" \/ job'[p].left # <<>>
    <3>1. \A p \in Routes!Sending(u) : p \in Query /\ (p = r => u = t)
      BY <2>0 DEF Routes!Sending
    <3>2. u \notin excused /\ told' = told
      BY <2>1, <2>11, <2>14
    <3>3. QED
      BY <2>9, <2>10, <2>11, <2>14, <3>1, <3>2 DEF Routes!RowPending
  <2>15. Routes!RowPending'
    BY <2>14 DEF Routes!RowPending
  <2>16. Routes!DuePending'
    <3>1. t \in Routes!Always => /\ q.due \subseteq q.reach
                                /\ q.due \subseteq q.tried \cup {q.left[i] : i \in DOMAIN q.left}
      BY <2>2, <2>3 DEF Routes!DuePending
    <3>2. t \in Routes!Always => /\ s.due \subseteq s.reach
                                /\ s.due \subseteq s.tried \cup {s.left[i] : i \in DOMAIN s.left}
      BY <2>4, <2>8, <3>1
    <3>3. SUFFICES ASSUME NEW p \in Query, job'[p].at = "sending",
                          Head(job'[p].todo) \in Routes!Always
                   PROVE  /\ job'[p].due \subseteq job'[p].reach
                          /\ job'[p].due \subseteq
                                 job'[p].tried \cup {job'[p].left[i] : i \in DOMAIN job'[p].left}
      BY DEF Routes!DuePending, Routes!Always
    <3>4. CASE p = r
      <4>1. job'[p] = s
        BY <2>9, <3>4
      <4>2. Head(s.todo) \in Routes!Always => t \in Routes!Always
        BY <2>3, <2>8
      <4>3. QED
        BY <3>2, <3>3, <4>1, <4>2
    <3>5. CASE p # r
      <4>1. job'[p] = job[p]
        BY <2>9, <3>5
      <4>2. QED
        BY <3>3, <4>1 DEF Routes!DuePending
    <3>6. QED
      BY <3>4, <3>5
  <2>17. QED
    BY <2>12, <2>13, <2>15, <2>16
\* Nothing is sent any more: the row is there, or the type is excused.
<1>e. ASSUME NEW r \in Query, NEW s \in Routes!Jobs, job' = [job EXCEPT ![r] = s],
             job[r].at = "sending", s.at \in {"idle", "next"},
             UNCHANGED <<settings, rows, told>>, open' \subseteq open,
             excused \subseteq excused', excused' \subseteq Routes!Repeats,
             \/ job[r].left = <<>>
             \/ Head(job[r].todo) \in Routes!Repeats => Head(job[r].todo) \in excused'
      PROVE  Routes!RoutingInv'
  <2>0. PICK t : t = Head(job[r].todo)
    OBVIOUS
  <2>1. /\ job' \in [Query -> Routes!Jobs] /\ job'[r] = s
        /\ \A q \in Query \ {r} : job'[q] = job[q]
        /\ \A u : Routes!Sending(u)' = Routes!Sending(u) \ {r}
    BY <1>e, <1>s
  <2>2. r \notin open'
    BY <1>e DEF Routes!LockedToWrite
  <2>3. Routes!RoutingTypes'
    BY <1>e, <1>t, <2>1 DEF Routes!RoutingTypes
  <2>4. Routes!LockedToWrite' /\ Routes!HasAlert'
    BY <1>e, <2>1, <2>2 DEF Routes!LockedToWrite, Routes!HasAlert
  <2>5. ASSUME NEW u \in Routes!Repeats \ excused'
        PROVE  /\ told'[u] <= 1
               /\ told'[u] > 0 => rows'[u] # "none" \/ Routes!Sending(u)' # {}
               /\ \A p \in Routes!Sending(u)' : rows'[u] # "none" \/ job'[p].left # <<>>
    <3>1. u \notin excused /\ told' = told /\ rows' = rows
      BY <1>e, <2>5
    <3>2. r \in Routes!Sending(u) => rows[u] # "none"
      BY <1>e, <2>5, <3>1 DEF Routes!RowPending, Routes!Sending
    <3>3. \A p \in Routes!Sending(u)' : p \in Routes!Sending(u) /\ job'[p] = job[p]
      BY <2>1 DEF Routes!Sending
    <3>4. QED
      BY <2>1, <2>5, <3>1, <3>2, <3>3 DEF Routes!RowPending
  <2>6. Routes!RowPending'
    BY <2>5 DEF Routes!RowPending
  <2>7. Routes!DuePending'
    BY <1>e, <2>1 DEF Routes!DuePending
  <2>8. QED
    BY <2>3, <2>4, <2>6, <2>7
<1>8. ASSUME NEW r \in Query, Routes!Ends(r) PROVE Routes!RoutingInv'
  <2>1. PICK s : s = [Routes!Idle EXCEPT !.at = "next", !.todo = Tail(job[r].todo)]
    OBVIOUS
  <2>2. /\ job[r].at = "sending" /\ job[r].left = <<>> /\ job' = [job EXCEPT ![r] = s]
        /\ UNCHANGED <<settings, rows, told, open, excused>>
    BY <1>8, <2>1 DEF Routes!Ends
  <2>3. s \in Routes!Jobs /\ s.at = "next"
    BY <1>n, <2>1, <2>2 DEF Routes!HasAlert
  <2>4. QED
    BY <1>e, <1>t, <2>2, <2>3 DEF Routes!RoutingTypes
<1>9. ASSUME NEW r \in Query, Routes!Die(r) PROVE Routes!RoutingInv'
  <2>1. /\ job' = [job EXCEPT ![r] = Routes!Idle] /\ UNCHANGED <<settings, rows, told>>
        /\ open' = open \ {r}
        /\ excused' = IF job[r].at = "sending"
                      THEN excused \cup ({Head(job[r].todo)} \cap Routes!Repeats) ELSE excused
    BY <1>9 DEF Routes!Die
  <2>2. CASE job[r].at = "sending"
    BY <1>e, <1>i, <1>t, <2>1, <2>2 DEF Routes!RoutingTypes
  <2>3. CASE job[r].at # "sending"
    BY <1>i, <1>j, <2>1, <2>3
  <2>4. QED
    BY <2>2, <2>3
<1>10. ASSUME NEW t \in Routes!Repeats, Routes!Lapse(t) PROVE Routes!RoutingInv'
  <2>1. /\ Routes!Sending(t) = {} /\ rows' = [rows EXCEPT ![t] = "none"]
        /\ told' = [told EXCEPT ![t] = 0] /\ excused' = excused \ {t}
        /\ UNCHANGED <<settings, job, open>> /\ \A u : Routes!Sending(u)' = Routes!Sending(u)
    BY <1>10 DEF Routes!Lapse, Routes!Sending
  <2>2. Routes!RoutingTypes'
    BY <1>t, <1>10, <2>1 DEF Routes!RoutingTypes
  <2>3. Routes!LockedToWrite' /\ Routes!HasAlert' /\ Routes!DuePending'
    BY <2>1 DEF Routes!LockedToWrite, Routes!HasAlert, Routes!DuePending
  <2>4. Routes!RowPending'
    BY <1>t, <2>1 DEF Routes!RowPending, Routes!RoutingTypes
  <2>5. QED
    BY <2>2, <2>3, <2>4
\* The settings, the tokens and the hour are not what the invariant is about.
<1>r. ASSUME UNCHANGED <<rows, job, open, told, excused>>,
             settings'.channels \subseteq Routes!Channel
      PROVE  Routes!RoutingInv'
  <2>1. \A u : Routes!Sending(u)' = Routes!Sending(u)
    BY <1>r DEF Routes!Sending
  <2>2. Routes!RoutingTypes'
    BY <1>r, <1>t DEF Routes!RoutingTypes
  <2>3. QED
    BY <1>r, <2>1, <2>2
    DEF Routes!LockedToWrite, Routes!HasAlert, Routes!DuePending, Routes!RowPending
<1>11. ASSUME NEW i \in Inputs, Routes!ChangeSettings(i) PROVE Routes!RoutingInv'
    BY <1>11, <1>r DEF Routes!ChangeSettings, Routes!Accepted, Routes!Stored
<1>12. CASE Routes!ChangeTokens \/ Routes!Strike \/ UNCHANGED Routes!vars
    BY <1>12, <1>r, <1>t
    DEF Routes!ChangeTokens, Routes!Strike, Routes!vars, Routes!RoutingTypes
<1>13. QED
    BY <1>1, <1>2, <1>3, <1>4, <1>5, <1>6, <1>7, <1>8, <1>9, <1>10, <1>11, <1>12 DEF Routes!Next

\* The inductive invariant of the routing holds from the start and in every step.
LEMMA RoutingInvHolds == Routes!Spec => []Routes!RoutingInv
<1>1. Routes!Init => Routes!RoutingInv
  <2> SUFFICES ASSUME Routes!Init PROVE Routes!RoutingInv
    OBVIOUS
  <2>1. Routes!Idle \in Routes!Jobs /\ Routes!Idle.at = "idle"
    <3>1. <<>> \in Seq(Routes!Kinds) /\ <<>> \in Seq(Routes!Channel)
      OBVIOUS
    <3>2. QED
      BY <3>1 DEF Routes!Idle, Routes!Jobs, Routes!Stages
  <2>2. Routes!RoutingTypes
    BY <2>1 DEF Routes!Init, Routes!RoutingTypes, Routes!Defaults
  <2>3. \A r \in Query : job[r].at = "idle"
    BY <2>1 DEF Routes!Init
  <2>4. Routes!LockedToWrite /\ Routes!HasAlert /\ Routes!DuePending
    BY <2>3 DEF Routes!LockedToWrite, Routes!HasAlert, Routes!DuePending, Routes!Init
  <2>5. \A t : Routes!Sending(t) = {}
    BY <2>3 DEF Routes!Sending
  <2>6. Routes!RowPending
    BY <2>5 DEF Routes!RowPending, Routes!Init
  <2>7. QED
    BY <2>2, <2>4, <2>6 DEF Routes!RoutingInv
<1>2. QED
    BY <1>1, RoutingStep, PTL DEF Routes!Spec

\* In ten minutes a changed SIM or failed unlocks are alerted once, whichever path
\* reports them how often, and an emergency is tried on every channel its owner allows,
\* at any hour (_alert_recent, _load_device_alert_prefs, send_all).
THEOREM OneAlertHolds == Routes!Spec => [](Routes!OneAlert /\ Routes!NotSilenced)
<1>1. Routes!RoutingInv => Routes!OneAlert /\ Routes!NotSilenced
  <2> SUFFICES ASSUME Routes!RoutingInv PROVE Routes!OneAlert /\ Routes!NotSilenced
    OBVIOUS
  <2>1. Routes!OneAlert
    BY DEF Routes!RoutingInv, Routes!RowPending, Routes!OneAlert
  <2>2. Routes!NotSilenced
    BY DEF Routes!RoutingInv, Routes!DuePending, Routes!NotSilenced
  <2>3. QED
    BY <2>1, <2>2
<1>2. QED
    BY <1>1, RoutingInvHolds, PTL

\* Every variable of AlertRouting has its type, for any reports and bodies of settings
\* (post_location, update_device_alert_settings).
THEOREM ReportsTyped ==
    ASSUME Hours \in Nat \ {0}, MaxFaults \in Nat
    PROVE  Routes!Spec => []Routes!TypeOK
<1> DEFINE Quiet == {<<>>} \cup ((0..(Hours - 1)) \X (0..(Hours - 1)))
           Settings == [channels: SUBSET Routes!Channel, types: SUBSET Routes!Toggles,
                        phone: BOOLEAN, quiet: Quiet]
           Single == open = {} \/ \E r \in Query : open = {r}
           Rest == /\ settings \in Settings /\ hour \in 0..(Hours - 1) /\ tokens \in BOOLEAN
                   /\ Single /\ faults \in 0..MaxFaults
<1>1. Routes!Init => Rest
  <2>1. Routes!Defaults \in Settings
    BY DEF Routes!Defaults
  <2>2. 0 \in 0..(Hours - 1) /\ 0 \in 0..MaxFaults
    OBVIOUS
  <2> HIDE DEF Settings
  <2>3. QED
    BY <2>1, <2>2, Zenon DEF Routes!Init
<1>2. Rest /\ [Routes!Next]_Routes!vars => Rest'
  <2> SUFFICES ASSUME Rest, [Routes!Next]_Routes!vars PROVE Rest'
    OBVIOUS
  <2>1. ASSUME NEW i \in Inputs, Routes!ChangeSettings(i) PROVE Rest'
    <3>1. Routes!Stored(i) \in Settings
      <4>1. (i.phone = "plus") \in BOOLEAN
        OBVIOUS
      <4>2. \A a, b : a \in 0..(Hours - 1) /\ b \in 0..(Hours - 1) => <<a, b>> \in Quiet
        OBVIOUS
      <4>3. (IF None \in {i.start, i.end} THEN <<>> ELSE <<i.start, i.end>>) \in Quiet
        BY <2>1, <4>2 DEF Routes!ChangeSettings, Routes!Accepted
      <4> HIDE DEF Quiet
      <4>4. QED
        BY <2>1, <4>1, <4>3 DEF Routes!ChangeSettings, Routes!Accepted, Routes!Stored
    <3>2. QED
      BY <2>1, <3>1 DEF Routes!ChangeSettings
  <2> HIDE DEF Settings
  <2>2. ASSUME Routes!ChangeTokens PROVE Rest'
    BY <2>2 DEF Routes!ChangeTokens
  <2>3. ASSUME Routes!Strike PROVE Rest'
    <3>1. hour' \in 0..(Hours - 1)
      BY <2>3 DEF Routes!Strike
    <3>2. QED
      BY <2>3, <3>1 DEF Routes!Strike
  <2>4. ASSUME UNCHANGED <<settings, hour, tokens>>, Single', faults' \in 0..MaxFaults PROVE Rest'
    BY <2>4
  <2>5. ASSUME NEW r \in Query, open' = open \ {r} PROVE Single'
    BY <2>5
  <2>6. ASSUME NEW r \in Query, NEW lost \in SUBSET {"prefs", "phone", "tokens"},
               Routes!Alert(r, lost)
        PROVE  Rest'
    <3>1. IsFiniteSet({"prefs", "phone", "tokens"})
      <4>1. {"prefs", "phone", "tokens"} = ({"prefs"} \cup {"phone"}) \cup {"tokens"}
        OBVIOUS
      <4>2. IsFiniteSet({"prefs"} \cup {"phone"}) /\ IsFiniteSet({"tokens"})
        BY FS_Singleton, FS_Union
      <4>3. IsFiniteSet(({"prefs"} \cup {"phone"}) \cup {"tokens"})
        BY <4>2, FS_Union
      <4>4. QED
        BY <4>1, <4>3
    <3>2. Cardinality(lost) \in Nat
      BY <3>1, FS_Subset, FS_CardinalityType
    <3>3. Routes!Cardinality(lost) = Cardinality(lost)
      BY DEF Routes!Cardinality, Cardinality
    <3>4. faults' \in 0..MaxFaults
      BY <2>6, <3>2, <3>3 DEF Routes!Alert, Routes!Begins
    <3>5. UNCHANGED <<settings, hour, tokens, open>>
      BY <2>6 DEF Routes!Alert
    <3>6. QED
      BY <2>4, <3>4, <3>5
  <2>7. ASSUME NEW r \in Query, NEW ok, NEW logs, Routes!SendChannel(r, ok, logs) PROVE Rest'
    BY <2>4, <2>7 DEF Routes!SendChannel
  <2>8. ASSUME NEW r \in Query, Routes!Write(r) PROVE Rest'
    BY <2>4, <2>8 DEF Routes!Write
  <2>9. ASSUME NEW r \in Query, Routes!Commit(r) \/ Routes!Finish(r) \/ Routes!Die(r) PROVE Rest'
    BY <2>4, <2>5, <2>9 DEF Routes!Commit, Routes!Finish, Routes!Die
  <2>10. ASSUME NEW r \in Query, NEW report, \/ Routes!Receive(r, report) \/ Routes!SkipRepeat(r)
                                             \/ Routes!Ends(r)
         PROVE  Rest'
    BY <2>4, <2>10 DEF Routes!Receive, Routes!SkipRepeat, Routes!Ends
  <2>11. ASSUME NEW t \in Routes!Repeats, Routes!Lapse(t) PROVE Rest'
    BY <2>4, <2>11 DEF Routes!Lapse
  <2>12. ASSUME UNCHANGED Routes!vars PROVE Rest'
    BY <2>4, <2>12 DEF Routes!vars
  <2> HIDE DEF Rest
  <2>13. QED
    BY <2>1, <2>2, <2>3, <2>6, <2>7, <2>8, <2>9, <2>10, <2>11, <2>12 DEF Routes!Next
<1>3. Routes!RoutingInv /\ Rest => Routes!TypeOK
  <2> SUFFICES ASSUME Routes!RoutingInv, Rest PROVE Routes!TypeOK
    OBVIOUS
  <2>1. open \subseteq Query /\ Routes!Cardinality(open) <= 1
    <3>1. Routes!Cardinality(open) = Cardinality(open)
      BY DEF Routes!Cardinality, Cardinality
    <3>2. Cardinality(open) \in {0, 1}
      BY FS_EmptySet, FS_Singleton
    <3>3. QED
      BY <3>1, <3>2
  <2>2. \A r \in Query : job[r].at \in Routes!Stages
    BY DEF Routes!RoutingInv, Routes!RoutingTypes, Routes!Jobs
  <2>3. QED
    BY <2>1, <2>2 DEF Routes!RoutingInv, Routes!RoutingTypes, Routes!Stages, Routes!TypeOK
<1>4. QED
    BY <1>1, <1>2, <1>3, RoutingInvHolds, PTL DEF Routes!Spec

-----------------------------------------------------------------------------
(* BroadcastHub: who receives an update *)

\* The hub selects from lists as this module does.
LEMMA HubKept == \A s, S : Hub!Kept(s, S) = Kept(s, S)
    BY DEF Hub!Kept, Kept, Hub!Places, Places, Hub!UpTo, UpTo, Hub!Cardinality, Cardinality

\* A list with one more at its end.
LEMMA Appended ==
    ASSUME NEW T, NEW q \in Seq(T), NEW x \in T
    PROVE  /\ Append(q, x) \in Seq(T) /\ Len(Append(q, x)) = Len(q) + 1
           /\ \A i \in DOMAIN q : i \in DOMAIN Append(q, x) /\ Append(q, x)[i] = q[i]
           /\ \A i \in DOMAIN Append(q, x) : i \in DOMAIN q \/ Append(q, x)[i] = x
           /\ \E i \in DOMAIN Append(q, x) : i \notin DOMAIN q /\ Append(q, x)[i] = x
           /\ \A i, j \in DOMAIN Append(q, x) : i \in DOMAIN q \/ j \in DOMAIN q \/ i = j
           /\ {Append(q, x)[i] : i \in DOMAIN Append(q, x)} = {q[i] : i \in DOMAIN q} \cup {x}
           /\ Hub!EachOnce(q) /\ x \notin {q[i] : i \in DOMAIN q} => Hub!EachOnce(Append(q, x))
<1> DEFINE r == Append(q, x)
<1>1. /\ r \in Seq(T) /\ Len(q) \in Nat /\ Len(r) = Len(q) + 1 /\ DOMAIN q = 1..Len(q)
      /\ DOMAIN r = 1..(Len(q) + 1) /\ r[Len(q) + 1] = x /\ \A i \in 1..Len(q) : r[i] = q[i]
    OBVIOUS
<1> HIDE DEF r
<1>2. \A i \in DOMAIN q : i \in DOMAIN r /\ r[i] = q[i]
    BY <1>1
<1>3. \A i \in DOMAIN r : i \in DOMAIN q \/ (i = Len(q) + 1 /\ r[i] = x)
    BY <1>1
<1>4. Len(q) + 1 \in DOMAIN r /\ Len(q) + 1 \notin DOMAIN q
    BY <1>1
<1>5. \A i \in DOMAIN r : r[i] \in {q[j] : j \in DOMAIN q} \cup {x}
    BY <1>2, <1>3
<1>6. \A i \in DOMAIN q : q[i] \in {r[j] : j \in DOMAIN r}
    BY <1>2
<1>7. {r[i] : i \in DOMAIN r} = {q[i] : i \in DOMAIN q} \cup {x}
    BY <1>1, <1>4, <1>5, <1>6
<1>8. ASSUME Hub!EachOnce(q), x \notin {q[i] : i \in DOMAIN q} PROVE Hub!EachOnce(r)
    BY <1>2, <1>3, <1>8 DEF Hub!EachOnce
<1>9. QED
    BY <1>1, <1>2, <1>3, <1>4, <1>7, <1>8 DEF r

\* A list without its first.
LEMMA Taken ==
    ASSUME NEW T, NEW q \in Seq(T), q # <<>>
    PROVE  /\ Head(q) \in T /\ Tail(q) \in Seq(T)
           /\ {q[i] : i \in DOMAIN q} = {Head(q)} \cup {Tail(q)[i] : i \in DOMAIN Tail(q)}
           /\ 1 \in DOMAIN q /\ Head(q) = q[1]
           /\ \A i \in DOMAIN Tail(q) : /\ i + 1 \in DOMAIN q /\ i + 1 # 1
                                        /\ Tail(q)[i] = q[i + 1]
           /\ \A i \in DOMAIN q \ {1} : i - 1 \in DOMAIN Tail(q) /\ Tail(q)[i - 1] = q[i]
           /\ Hub!EachOnce(q) => /\ Hub!EachOnce(Tail(q))
                                 /\ Head(q) \notin {Tail(q)[i] : i \in DOMAIN Tail(q)}
<1>1. Len(q) \in Nat /\ Len(q) # 0 /\ DOMAIN q = 1..Len(q)
    OBVIOUS
<1>2. /\ Head(q) = q[1] /\ Tail(q) \in Seq(T) /\ DOMAIN Tail(q) = 1..(Len(q) - 1)
      /\ \A i \in 1..(Len(q) - 1) : Tail(q)[i] = q[i + 1]
    OBVIOUS
<1>3. 1 \in DOMAIN q /\ \A i \in DOMAIN Tail(q) : i + 1 \in DOMAIN q /\ i + 1 # 1 /\ i \in Nat
    BY <1>1, <1>2
<1>4. \A i \in DOMAIN q \ {1} : i - 1 \in DOMAIN Tail(q) /\ Tail(q)[i - 1] = q[i]
    BY <1>1, <1>2
<1>5. \A i \in DOMAIN Tail(q) : Tail(q)[i] = q[i + 1]
    BY <1>2
<1>6. ASSUME Hub!EachOnce(q)
      PROVE  Hub!EachOnce(Tail(q)) /\ Head(q) \notin {Tail(q)[i] : i \in DOMAIN Tail(q)}
  <2>1. ASSUME NEW i \in DOMAIN Tail(q), NEW j \in DOMAIN Tail(q), Tail(q)[i] = Tail(q)[j]
        PROVE  i = j
    <3>1. i + 1 = j + 1
      BY <1>3, <1>5, <1>6, <2>1 DEF Hub!EachOnce
    <3>2. QED
      BY <1>3, <3>1
  <2>2. ASSUME NEW i \in DOMAIN Tail(q) PROVE Tail(q)[i] # Head(q)
    BY <1>2, <1>3, <1>5, <1>6 DEF Hub!EachOnce
  <2>3. QED
    BY <2>1, <2>2 DEF Hub!EachOnce
<1>7. {q[i] : i \in DOMAIN q} = {Head(q)} \cup {Tail(q)[i] : i \in DOMAIN Tail(q)}
    BY HeadAndTail
<1>8. Head(q) \in T
    BY HeadAndTail
<1>9. \A i \in DOMAIN Tail(q) : i + 1 \in DOMAIN q /\ i + 1 # 1 /\ Tail(q)[i] = q[i + 1]
    BY <1>3, <1>5
<1>10. QED
    BY <1>2, <1>3, <1>4, <1>6, <1>7, <1>8, <1>9, Zenon

\* A list less some of its elements.
LEMMA Thinned ==
    ASSUME NEW s \in Seq(Conn), NEW S
    PROVE  LET k == Hub!Kept(s, S)
           IN  /\ k \in Seq(Conn) /\ Len(k) <= Len(s)
               /\ {k[i] : i \in DOMAIN k} = {s[i] : i \in DOMAIN s} \cap S
               /\ (\E i \in DOMAIN s : s[i] \notin S) => Len(k) < Len(s)
               /\ Hub!EachOnce(s) => Hub!EachOnce(k)
<1>1. PICK k : k = Hub!Kept(s, S)
    OBVIOUS
<1>2. k \in Seq(Conn \cap S) /\ Selects(k, s, S)
    BY <1>1, HubKept, KeptIs
<1>3. k \in Seq(Conn)
    BY <1>2, SeqMonotonic
<1>4. QED
    BY <1>1, <1>2, <1>3 DEF Selects, Hub!EachOnce

\* What is published, and to whom it is delivered.
LEMMA HubMessages ==
    ASSUME Hub!HubTypes
    PROVE  /\ \A o \in Hub!Owners :
                  /\ Hub!Announcement(o) \in Hub!Announcements /\ Hub!Announcement(o).owner = o
                  /\ Hub!Update(o) \in Hub!Messages /\ Hub!Update(o).owner = o
                  /\ ~Hub!IsAnnouncement(Hub!Update(o))
           /\ \A m \in Hub!Announcements : Hub!IsAnnouncement(m) /\ m.owner \in Hub!Owners
           /\ \A m \in Hub!Messages : m.owner \in Hub!Owners
           /\ \A m \in Hub!Messages : Hub!IsAnnouncement(m) => m \in Hub!Announcements
           /\ Hub!Announcements \subseteq Hub!Messages
           /\ \A m \in Hub!Messages, w \in Worker :
                  /\ Hub!Feed(w, m) \in Hub!Deliveries /\ Hub!Feed(w, m).message = m
                  /\ Hub!Feed(w, m).left = conns[w] /\ Hub!Feed(w, m).dead = {}
           /\ Hub!NoFeed \in Hub!Deliveries
           /\ Hub!NoFeed.message = None /\ Hub!NoFeed.left = <<>> /\ Hub!NoFeed.dead = {}
<1>1. changes \in Nat /\ conns \in [Worker -> Seq(Conn)] /\ <<>> \in Seq(Conn)
    BY DEF Hub!HubTypes
<1>2. \A o \in Hub!Owners :
          /\ Hub!Announcement(o) \in Hub!Announcements /\ Hub!Announcement(o).owner = o
          /\ Hub!Update(o) \in Hub!Messages /\ Hub!Update(o).owner = o
          /\ ~Hub!IsAnnouncement(Hub!Update(o))
    BY <1>1 DEF Hub!Announcement, Hub!Announcements, Hub!Update, Hub!Updates, Hub!Messages,
                Hub!IsAnnouncement
<1>3. /\ \A m \in Hub!Announcements : Hub!IsAnnouncement(m) /\ m.owner \in Hub!Owners
      /\ \A m \in Hub!Updates : ~Hub!IsAnnouncement(m) /\ m.owner \in Hub!Owners
    BY DEF Hub!Announcements, Hub!Updates, Hub!IsAnnouncement
<1>4. /\ \A m \in Hub!Messages, w \in Worker :
             /\ Hub!Feed(w, m) \in Hub!Deliveries /\ Hub!Feed(w, m).message = m
             /\ Hub!Feed(w, m).left = conns[w] /\ Hub!Feed(w, m).dead = {}
      /\ Hub!NoFeed \in Hub!Deliveries
      /\ Hub!NoFeed.message = None /\ Hub!NoFeed.left = <<>> /\ Hub!NoFeed.dead = {}
    BY <1>1 DEF Hub!Feed, Hub!Deliveries, Hub!NoFeed
<1>5. QED
    BY <1>2, <1>3, <1>4 DEF Hub!Messages

\* One delivery of one worker moves on.
LEMMA FeedSet ==
    ASSUME Hub!HubTypes, NEW w \in Worker, NEW who \in Hub!Senders, NEW x \in Hub!Deliveries,
           feeds' = [feeds EXCEPT ![w][who] = x]
    PROVE  /\ feeds' \in [Worker -> [Hub!Senders -> Hub!Deliveries]]
           /\ \A v \in Worker, k \in Hub!Senders :
                  feeds'[v][k] = IF v = w /\ k = who THEN x ELSE feeds[v][k]
<1>1. feeds \in [Worker -> [Hub!Senders -> Hub!Deliveries]]
    BY DEF Hub!HubTypes
<1>2. QED
    BY <1>1

\* What is published goes to the end of what each listener has to read.
LEMMA DeliveredIs ==
    ASSUME Hub!HubTypes, NEW m \in Hub!Messages, Hub!Delivered(m)
    PROVE  /\ inbox' \in [Worker -> Seq(Hub!Messages)]
           /\ \A w \in Worker :
                  inbox'[w] = IF w \in listening THEN Append(inbox[w], m) ELSE inbox[w]
<1>1. inbox \in [Worker -> Seq(Hub!Messages)]
    BY DEF Hub!HubTypes
<1>2. \A w \in Worker : Append(inbox[w], m) \in Seq(Hub!Messages)
    BY <1>1, Appended
<1>3. QED
    BY <1>1, <1>2 DEF Hub!Delivered

\* A worker's list loses the connections in S.
Loses(w, S) ==
    /\ conns'[w] \in Seq(Conn) /\ Len(conns'[w]) <= Len(conns[w])
    /\ Hub!Members(w)' = Hub!Members(w) \ S
    /\ Hub!Members(w) \cap S # {} => Len(conns'[w]) < Len(conns[w])
    /\ Hub!EachOnce(conns[w]) => Hub!EachOnce(conns'[w])

\* It does when what it keeps are the others.
LEMMA LosesIs ==
    ASSUME Hub!HubTypes, NEW w \in Worker, NEW S, conns'[w] = Hub!Kept(conns[w], Conn \ S)
    PROVE  Loses(w, S)
<1>1. conns[w] \in Seq(Conn)
    BY DEF Hub!HubTypes
<1>2. PICK s \in Seq(Conn) : s = conns[w]
    BY <1>1
<1>3. PICK k : k = Hub!Kept(s, Conn \ S)
    OBVIOUS
<1>4. \A i \in DOMAIN s : s[i] \in Conn
    OBVIOUS
<1>5. /\ k \in Seq(Conn) /\ Len(k) <= Len(s)
      /\ {k[i] : i \in DOMAIN k} = {s[i] : i \in DOMAIN s} \cap (Conn \ S)
      /\ (\E i \in DOMAIN s : s[i] \notin Conn \ S) => Len(k) < Len(s)
      /\ Hub!EachOnce(s) => Hub!EachOnce(k)
    BY <1>3, Thinned
<1>6. {k[i] : i \in DOMAIN k} = {s[i] : i \in DOMAIN s} \ S
    BY <1>4, <1>5
<1>7. {s[i] : i \in DOMAIN s} \cap S # {} => Len(k) < Len(s)
    BY <1>4, <1>5
<1>8. conns'[w] = k
    BY <1>2, <1>3
<1>9. QED
    BY <1>2, <1>5, <1>6, <1>7, <1>8 DEF Loses, Hub!Members

\* A connection leaves every list, and its socket is closed or open and deaf.
LEMMA RemovedIs ==
    ASSUME Hub!HubTypes, NEW c \in Conn, NEW at \in Hub!Stages, Hub!Removed(c, at)
    PROVE  /\ conns' \in [Worker -> Seq(Conn)] /\ socket' \in [Conn -> Hub!Sockets]
           /\ \A w \in Worker : Loses(w, {c})
           /\ \A d \in Conn \ {c} : socket'[d] = socket[d]
           /\ socket'[c].at = at /\ socket'[c].worker = socket[c].worker
           /\ socket'[c].user = socket[c].user /\ socket'[c].allowed = socket[c].allowed
           /\ socket'[c].victim = socket[c].victim
<1>1. socket \in [Conn -> Hub!Sockets] /\ socket' = [socket EXCEPT ![c].at = at]
      /\ conns' = [w \in Worker |-> Hub!Kept(conns[w], Conn \ {c})]
    BY DEF Hub!HubTypes, Hub!Removed
<1>2. \A w \in Worker : Loses(w, {c})
    BY <1>1, LosesIs
<1>3. conns' \in [Worker -> Seq(Conn)]
    BY <1>1, <1>2 DEF Loses
<1>4. ASSUME NEW s \in Hub!Sockets, NEW t, t = [s EXCEPT !.at = at]
      PROVE  /\ t \in Hub!Sockets /\ t.at = at /\ t.worker = s.worker
             /\ t.user = s.user /\ t.allowed = s.allowed /\ t.victim = s.victim
    BY <1>4 DEF Hub!Sockets
<1>5. PICK t : t = [socket[c] EXCEPT !.at = at]
    OBVIOUS
<1>6. socket' = [socket EXCEPT ![c] = t] /\ socket[c] \in Hub!Sockets
    BY <1>1, <1>5
<1>7. /\ t \in Hub!Sockets /\ t.at = at /\ t.worker = socket[c].worker
      /\ t.user = socket[c].user /\ t.allowed = socket[c].allowed /\ t.victim = socket[c].victim
    BY <1>4, <1>5, <1>6
<1>8. socket' \in [Conn -> Hub!Sockets] /\ socket'[c] = t
      /\ \A d \in Conn \ {c} : socket'[d] = socket[d]
    BY <1>1, <1>6, <1>7
<1>9. QED
    BY <1>2, <1>3, <1>7, <1>8

\* Only what connection d waits for or has changes: its place, not whose it is.
Same(d) ==
    /\ socket'[d].worker = socket[d].worker /\ socket'[d].user = socket[d].user
    /\ socket'[d].allowed = socket[d].allowed /\ socket'[d].victim = socket[d].victim

\* A delivery ends: the connections that failed leave the worker's list.
LEMMA SendEnds ==
    ASSUME Hub!HubTypes, NEW w \in Worker, NEW who \in Hub!Senders, Hub!Send(w, who),
           feeds[w][who].left = <<>>
    PROVE  /\ feeds' = [feeds EXCEPT ![w][who] = Hub!NoFeed] /\ got' = got
           /\ conns' \in [Worker -> Seq(Conn)] /\ socket' \in [Conn -> Hub!Sockets]
           /\ Loses(w, feeds[w][who].dead)
           /\ \A v \in Worker \ {w} : conns'[v] = conns[v]
           /\ \A d \in Conn :
                  /\ Same(d)
                  /\ IF d \in feeds[w][who].dead /\ socket[d].at = "open"
                     THEN socket'[d].at = "deaf" ELSE socket'[d] = socket[d]
<1> DEFINE dead == feeds[w][who].dead
<1>1. /\ feeds' = [feeds EXCEPT ![w][who] = Hub!NoFeed] /\ got' = got
      /\ conns' = [conns EXCEPT ![w] = Hub!Kept(@, Conn \ dead)]
      /\ socket' = [d \in Conn |-> IF d \in dead /\ socket[d].at = "open"
                                   THEN [socket[d] EXCEPT !.at = "deaf"] ELSE socket[d]]
    BY DEF Hub!Send
<1> HIDE DEF dead
<1>2. conns \in [Worker -> Seq(Conn)] /\ socket \in [Conn -> Hub!Sockets]
    BY DEF Hub!HubTypes
<1>3. conns'[w] = Hub!Kept(conns[w], Conn \ dead) /\ \A v \in Worker \ {w} : conns'[v] = conns[v]
    BY <1>1, <1>2
<1>4. Loses(w, dead)
    BY <1>3, LosesIs
<1>5. conns' \in [Worker -> Seq(Conn)]
  <2>1. conns'[w] \in Seq(Conn)
    BY <1>4 DEF Loses
  <2>2. \A v \in Worker : conns'[v] \in Seq(Conn)
    BY <1>2, <1>3, <2>1
  <2>3. QED
    BY <1>1, <1>2, <2>2
<1>6. ASSUME NEW s \in Hub!Sockets, NEW t, t = [s EXCEPT !.at = "deaf"]
      PROVE  /\ t \in Hub!Sockets /\ t.at = "deaf" /\ t.worker = s.worker
             /\ t.user = s.user /\ t.allowed = s.allowed /\ t.victim = s.victim
    BY <1>6 DEF Hub!Sockets, Hub!Stages
<1>7. ASSUME NEW d \in Conn
      PROVE  /\ socket'[d] \in Hub!Sockets /\ Same(d)
             /\ IF d \in dead /\ socket[d].at = "open"
                THEN socket'[d].at = "deaf" ELSE socket'[d] = socket[d]
  <2>1. socket[d] \in Hub!Sockets
    BY <1>2
  <2>2. CASE d \in dead /\ socket[d].at = "open"
    <3>1. PICK t : t = [socket[d] EXCEPT !.at = "deaf"]
      OBVIOUS
    <3>2. socket'[d] = t
      BY <1>1, <2>2, <3>1
    <3>3. QED
      BY <1>6, <2>1, <2>2, <3>1, <3>2 DEF Same
  <2>3. CASE ~(d \in dead /\ socket[d].at = "open")
    <3>1. socket'[d] = socket[d]
      BY <1>1, <2>3
    <3>2. QED
      BY <2>1, <2>3, <3>1 DEF Same
  <2>4. QED
    BY <2>2, <2>3
<1>8. socket' \in [Conn -> Hub!Sockets]
    BY <1>1, <1>7
<1>9. QED
    BY <1>1, <1>3, <1>4, <1>5, <1>7, <1>8 DEF dead

\* A delivery goes on to the next connection, which receives it or does not.
LEMMA SendGoesOn ==
    ASSUME Hub!HubTypes, NEW w \in Worker, NEW who \in Hub!Senders, Hub!Send(w, who),
           feeds[w][who].left # <<>>
    PROVE  /\ conns' = conns /\ socket' = socket
           /\ Head(feeds[w][who].left) \in Conn
           /\ \E x \in Hub!Deliveries :
                  /\ feeds' = [feeds EXCEPT ![w][who] = x] /\ feeds[w][who] # Hub!NoFeed
                  /\ x.message = feeds[w][who].message /\ x.left = Tail(feeds[w][who].left)
                  /\ x.dead \subseteq feeds[w][who].dead \cup {Head(feeds[w][who].left)}
           /\ \/ got' = got
              \/ /\ Hub!CanReceive(Head(feeds[w][who].left), feeds[w][who].message)
                 /\ Head(feeds[w][who].left) \in Hub!Members(w)
                 /\ got' = [got EXCEPT ![Head(feeds[w][who].left)] = @ + 1]
<1>1. PICK f \in Hub!Deliveries : f = feeds[w][who]
    BY DEF Hub!HubTypes
<1>2. f.left \in Seq(Conn) /\ f.dead \subseteq Conn /\ f.left # <<>>
    BY <1>1 DEF Hub!Deliveries
<1>3. PICK c \in Conn : c = Head(f.left)
    BY <1>2, Taken
<1>4. Tail(f.left) \in Seq(Conn)
    BY <1>2, Taken
<1>5. PICK rest : rest = [f EXCEPT !.left = Tail(f.left)]
    OBVIOUS
<1>6. PICK lost : lost = [rest EXCEPT !.dead = rest.dead \cup {c}]
    OBVIOUS
<1>7. /\ rest \in Hub!Deliveries /\ rest.message = f.message /\ rest.left = Tail(f.left)
      /\ rest.dead = f.dead
    BY <1>4, <1>5 DEF Hub!Deliveries
<1>8. /\ lost \in Hub!Deliveries /\ lost.message = f.message /\ lost.left = Tail(f.left)
      /\ lost.dead = f.dead \cup {c}
    BY <1>6, <1>7 DEF Hub!Deliveries
<1>9. /\ conns' = conns /\ socket' = socket /\ f # Hub!NoFeed
      /\ \/ /\ feeds' = [feeds EXCEPT ![w][who] = rest]
            /\ \/ got' = got
               \/ /\ Hub!CanReceive(c, f.message) /\ c \in Hub!Members(w)
                  /\ got' = [got EXCEPT ![c] = @ + 1]
         \/ feeds' = [feeds EXCEPT ![w][who] = lost] /\ got' = got
    BY <1>1, <1>2, <1>3, <1>5, <1>6 DEF Hub!Send
<1>10. QED
    BY <1>1, <1>3, <1>7, <1>8, <1>9

\* The oldest connection is closed, and who waited for its place is added.
LEMMA EvictIs ==
    ASSUME Hub!HubTypes, Hub!ListsAgree, NEW c \in Conn, Hub!Evict(c)
    PROVE  \E w \in Worker, v \in Conn \ {c} :
               /\ w = socket[c].worker /\ v = socket[c].victim
               /\ socket[c].at = "evicting" /\ socket[v].worker = w
               /\ conns' \in [Worker -> Seq(Conn)] /\ socket' \in [Conn -> Hub!Sockets]
               /\ \A u \in Worker \ {w} : conns'[u] = conns[u]
               /\ Hub!Members(w)' = (Hub!Members(w) \ {v}) \cup {c} /\ Hub!EachOnce(conns'[w])
               /\ Len(conns'[w]) <= Len(conns[w]) + 1
               /\ v \in Hub!Members(w) => Len(conns'[w]) <= Len(conns[w])
               /\ \A d \in Conn \ {c, v} : socket'[d] = socket[d]
               /\ socket'[c].at = "open" /\ socket'[c].worker = w
               /\ socket'[c].user = socket[c].user /\ socket'[c].allowed = socket[c].allowed
               /\ socket'[v].at = "left" /\ Same(v)
<1>1. /\ conns \in [Worker -> Seq(Conn)] /\ socket \in [Conn -> Hub!Sockets]
      /\ socket[c].at = "evicting"
    BY DEF Hub!HubTypes, Hub!Evict
<1>2. PICK w \in Worker, v \in Conn :
          w = socket[c].worker /\ v = socket[c].victim /\ v # c /\ socket[v].worker = w
    BY <1>1 DEF Hub!ListsAgree, Hub!Placed, Hub!AtWorker
<1>5. PICK s \in Seq(Conn) : s = conns[w]
    BY <1>1
<1>3. PICK k : k = Hub!Kept(s, Conn \ {v})
    OBVIOUS
<1>4. conns' = [conns EXCEPT ![w] = Append(k, c)]
    BY <1>1, <1>2, <1>3, <1>5 DEF Hub!Evict
<1>6. \A i \in DOMAIN s : s[i] \in Conn
    OBVIOUS
<1>7. /\ k \in Seq(Conn) /\ Len(k) <= Len(s)
      /\ {k[i] : i \in DOMAIN k} = {s[i] : i \in DOMAIN s} \cap (Conn \ {v})
      /\ (\E i \in DOMAIN s : s[i] \notin Conn \ {v}) => Len(k) < Len(s)
      /\ Hub!EachOnce(s) => Hub!EachOnce(k)
    BY <1>3, Thinned
<1>8. Hub!EachOnce(s) /\ c \notin {s[i] : i \in DOMAIN s}
  <2>1. Hub!EachOnce(conns[w]) /\ c \notin Hub!Members(w)
    BY <1>1, <1>2 DEF Hub!ListsAgree, Hub!Listed
  <2>2. QED
    BY <1>5, <2>1 DEF Hub!Members
<1>9. c \notin {k[i] : i \in DOMAIN k}
    BY <1>7, <1>8
<1>10. /\ Append(k, c) \in Seq(Conn) /\ Len(Append(k, c)) = Len(k) + 1
       /\ {Append(k, c)[i] : i \in DOMAIN Append(k, c)} = {k[i] : i \in DOMAIN k} \cup {c}
       /\ Hub!EachOnce(Append(k, c))
    BY <1>7, <1>8, <1>9, Appended
<1>11. PICK q : q = Append(k, c)
    OBVIOUS
<1>12. /\ q \in Seq(Conn) /\ Len(q) = Len(k) + 1 /\ Hub!EachOnce(q)
       /\ {q[i] : i \in DOMAIN q} = {k[i] : i \in DOMAIN k} \cup {c}
    BY <1>10, <1>11
<1>13. /\ conns' \in [Worker -> Seq(Conn)] /\ conns'[w] = q
       /\ \A u \in Worker \ {w} : conns'[u] = conns[u]
    BY <1>1, <1>4, <1>11, <1>12
<1>14. {q[i] : i \in DOMAIN q} = ({s[i] : i \in DOMAIN s} \ {v}) \cup {c}
    BY <1>6, <1>7, <1>12
<1>15. Hub!Members(w)' = (Hub!Members(w) \ {v}) \cup {c}
    BY <1>5, <1>13, <1>14 DEF Hub!Members
<1>16. Len(k) \in Nat /\ Len(s) \in Nat
    BY <1>7
<1>17. Len(q) <= Len(s) + 1
    BY <1>7, <1>12, <1>16
<1>18. ASSUME v \in Hub!Members(w) PROVE Len(q) <= Len(s)
  <2>1. \E i \in DOMAIN s : s[i] \notin Conn \ {v}
    BY <1>5, <1>18 DEF Hub!Members
  <2>2. QED
    BY <1>7, <1>12, <1>16, <2>1
<1>19. ASSUME NEW t \in Hub!Sockets, NEW o, o = [t EXCEPT !.at = "left"]
       PROVE  /\ o \in Hub!Sockets /\ o.at = "left" /\ o.worker = t.worker
              /\ o.user = t.user /\ o.allowed = t.allowed /\ o.victim = t.victim
    BY <1>19 DEF Hub!Sockets, Hub!Stages
<1>20. ASSUME NEW t \in Hub!Sockets, t.worker = w
       PROVE  LET o == Hub!Opened(t.worker, t.user, t.allowed)
              IN  /\ o \in Hub!Sockets /\ o.at = "open" /\ o.worker = w
                  /\ o.user = t.user /\ o.allowed = t.allowed
    BY <1>20 DEF Hub!Opened, Hub!Sockets, Hub!Stages
<1>21. PICK o : o = Hub!Opened(socket[c].worker, socket[c].user, socket[c].allowed)
    OBVIOUS
<1>22. PICK p : p = [socket[v] EXCEPT !.at = "left"]
    OBVIOUS
<1>23. socket' = [d \in Conn |-> IF d = c THEN o ELSE IF d = v THEN p ELSE socket[d]]
    BY <1>2, <1>21, <1>22 DEF Hub!Evict
<1>24. /\ o \in Hub!Sockets /\ o.at = "open" /\ o.worker = w
       /\ o.user = socket[c].user /\ o.allowed = socket[c].allowed
    BY <1>1, <1>2, <1>20, <1>21
<1>25. /\ p \in Hub!Sockets /\ p.at = "left" /\ p.worker = socket[v].worker
       /\ p.user = socket[v].user /\ p.allowed = socket[v].allowed /\ p.victim = socket[v].victim
    BY <1>1, <1>19, <1>22
<1>26. /\ socket' \in [Conn -> Hub!Sockets] /\ socket'[c] = o /\ socket'[v] = p
       /\ \A d \in Conn \ {c, v} : socket'[d] = socket[d]
    BY <1>1, <1>2, <1>23, <1>24, <1>25
<1>27. Same(v)
    BY <1>25, <1>26 DEF Same
<1>28. /\ Hub!EachOnce(conns'[w]) /\ Len(conns'[w]) <= Len(conns[w]) + 1
       /\ v \in Hub!Members(w) => Len(conns'[w]) <= Len(conns[w])
    BY <1>5, <1>12, <1>13, <1>17, <1>18
<1>29. /\ socket'[c].at = "open" /\ socket'[c].worker = w
       /\ socket'[c].user = socket[c].user /\ socket'[c].allowed = socket[c].allowed
       /\ socket'[v].at = "left"
    BY <1>24, <1>25, <1>26
<1>30. QED
    BY <1>1, <1>2, <1>13, <1>15, <1>26, <1>27, <1>28, <1>29

\* A connection comes: into the list, or to wait for the place of the oldest.
LEMMA ConnectIs ==
    ASSUME Hub!HubConstants, Hub!HubTypes, NEW c \in Conn, NEW w \in Worker,
           NEW u \in User \cup {Admin}, Hub!Connect(c, w, u)
    PROVE  /\ socket[c].at = "closed"
           /\ conns' \in [Worker -> Seq(Conn)] /\ socket' \in [Conn -> Hub!Sockets]
           /\ socket'[c].worker = w /\ socket'[c].user = u
           /\ socket'[c].allowed = TRUE => Hub!AllowedSet(u) /\ u \in User
           /\ \A d \in Conn \ {c} : socket'[d] = socket[d]
           /\ \/ /\ Len(conns[w]) < Limit /\ socket'[c].at = "open"
                 /\ conns'[w] = Append(conns[w], c)
                 /\ \A v \in Worker \ {w} : conns'[v] = conns[v]
              \/ /\ Len(conns[w]) >= Limit /\ socket'[c].at = "evicting"
                 /\ conns' = conns /\ conns[w] # <<>> /\ socket'[c].victim = Head(conns[w])
           /\ \/ /\ u = owner /\ cache' = [cache EXCEPT ![w] = u] /\ Hub!Announced(u)
                 /\ overlapped' = (overlapped \/ Hub!InFlight)
              \/ cache' = cache /\ tasks' = tasks /\ overlapped' = overlapped
<1>1. /\ conns \in [Worker -> Seq(Conn)] /\ socket \in [Conn -> Hub!Sockets]
      /\ conns[w] \in Seq(Conn) /\ Len(conns[w]) \in Nat
    BY DEF Hub!HubTypes
<1>2. Limit \in Nat \ {0} /\ Admin \notin User
    BY DEF Hub!HubConstants
<1>3. PICK allowed : /\ allowed \in IF u = Admin THEN {None} ELSE {Hub!AllowedSet(u), None}
                     /\ \/ Hub!Hydrate(w, u)
                        \/ cache' = cache /\ tasks' = tasks /\ overlapped' = overlapped
                     /\ IF Hub!HasRoom(w) THEN Hub!Add(c, w, u, allowed)
                        ELSE Hub!EvictFirst(c, w, u, allowed)
    BY DEF Hub!Connect
<1>4. Hub!AllowedSet(u) \in BOOLEAN
    BY DEF Hub!AllowedSet
<1>5. allowed \in BOOLEAN \cup {None} /\ (allowed = TRUE => Hub!AllowedSet(u) /\ u \in User)
  <2>1. None \notin BOOLEAN
    BY DEF Hub!HubConstants
  <2>2. CASE u = Admin
    BY <1>3, <2>1, <2>2
  <2>3. CASE u # Admin
    <3>1. allowed = Hub!AllowedSet(u) \/ allowed = None
      BY <1>3, <2>3
    <3>2. u \in User
      BY <2>3
    <3>3. QED
      BY <1>4, <2>1, <3>1, <3>2, Zenon
  <2>4. QED
    BY <2>2, <2>3
<1>6. /\ \/ /\ u = owner /\ cache' = [cache EXCEPT ![w] = u] /\ Hub!Announced(u)
            /\ overlapped' = (overlapped \/ Hub!InFlight)
         \/ cache' = cache /\ tasks' = tasks /\ overlapped' = overlapped
    BY <1>3, Zenon DEF Hub!Hydrate
<1>7. socket[c].at = "closed"
    BY DEF Hub!Connect
<1>8. ASSUME NEW s \in Hub!Sockets, socket' = [socket EXCEPT ![c] = s]
      PROVE  /\ socket' \in [Conn -> Hub!Sockets] /\ socket'[c] = s
             /\ \A d \in Conn \ {c} : socket'[d] = socket[d]
    BY <1>1, <1>8
<1>9. CASE Hub!HasRoom(w)
  <2>1. PICK s : s = Hub!Opened(w, u, allowed)
    OBVIOUS
  <2>2. /\ s \in Hub!Sockets /\ s.at = "open" /\ s.worker = w /\ s.user = u /\ s.allowed = allowed
    BY <1>5, <2>1 DEF Hub!Opened, Hub!Sockets, Hub!Stages
  <2>3. socket' = [socket EXCEPT ![c] = s] /\ conns' = [conns EXCEPT ![w] = Append(@, c)]
        /\ Len(conns[w]) < Limit
    BY <1>3, <1>9, <2>1 DEF Hub!Add, Hub!HasRoom
  <2>4. Append(conns[w], c) \in Seq(Conn)
    BY <1>1
  <2>5. conns' \in [Worker -> Seq(Conn)] /\ conns'[w] = Append(conns[w], c)
        /\ \A v \in Worker \ {w} : conns'[v] = conns[v]
    BY <1>1, <2>3, <2>4
  <2>6. QED
    BY <1>5, <1>6, <1>7, <1>8, <2>2, <2>3, <2>5
<1>10. CASE ~Hub!HasRoom(w)
  <2>1. PICK s : s = [at |-> "evicting", worker |-> w, user |-> u, allowed |-> allowed,
                      victim |-> Head(conns[w])]
    OBVIOUS
  <2>2. Len(conns[w]) >= Limit /\ conns[w] # <<>> /\ Head(conns[w]) \in Conn
    BY <1>1, <1>2, <1>10 DEF Hub!HasRoom
  <2>3. /\ s \in Hub!Sockets /\ s.at = "evicting" /\ s.worker = w /\ s.user = u
        /\ s.allowed = allowed /\ s.victim = Head(conns[w])
    BY <1>5, <2>1, <2>2 DEF Hub!Sockets, Hub!Stages
  <2>4. socket' = [socket EXCEPT ![c] = s] /\ conns' = conns
    BY <1>3, <1>10, <2>1 DEF Hub!EvictFirst
  <2>5. QED
    BY <1>1, <1>5, <1>6, <1>7, <1>8, <2>2, <2>3, <2>4
<1>11. QED
    BY <1>9, <1>10

\* An owner's announcement waits for its turn, where there is Redis.
LEMMA AnnouncedIs ==
    ASSUME Hub!HubTypes, NEW o \in Hub!Owners, Hub!Announced(o)
    PROVE  /\ tasks' \subseteq Hub!Announcements
           /\ \A m \in tasks' : m \in tasks \/ m.owner = o
           /\ tasks \subseteq tasks' /\ (redis => tasks' # {})
<1>1. tasks' = IF redis THEN tasks \cup {Hub!Announcement(o)} ELSE tasks
    BY DEF Hub!Announced
<1>2. tasks \subseteq Hub!Announcements
    BY DEF Hub!HubTypes
<1>3. QED
    BY <1>1, <1>2, HubMessages

\* Every step keeps the types.
LEMMA HubTypesStep ==
    Hub!HubConstants /\ Hub!HubTypes /\ Hub!ListsAgree /\ [Hub!Next]_Hub!vars => Hub!HubTypes'
<1> SUFFICES ASSUME Hub!HubConstants, Hub!HubTypes, Hub!ListsAgree, [Hub!Next]_Hub!vars
             PROVE  Hub!HubTypes'
    OBVIOUS
<1>t. /\ owner \in Hub!Owners /\ share \in [User -> Hub!Roles] /\ changes \in Nat
      /\ changing \in [Worker -> Hub!Owners \cup {Hub!Idle}] /\ cache \in [Worker -> Hub!Owners]
      /\ tasks \subseteq Hub!Announcements /\ inbox \in [Worker -> Seq(Hub!Messages)]
      /\ conns \in [Worker -> Seq(Conn)] /\ socket \in [Conn -> Hub!Sockets]
      /\ feeds \in [Worker -> [Hub!Senders -> Hub!Deliveries]]
      /\ got \in [Conn -> Nat] /\ owned \subseteq User
    BY DEF Hub!HubTypes
<1>n. Hub!NoFeed \in Hub!Deliveries /\ "handler" \in Hub!Senders /\ "listener" \in Hub!Senders
    BY HubMessages DEF Hub!Senders
<1>1. ASSUME NEW w \in Worker, Hub!UpdateOwner(w) PROVE Hub!HubTypes'
  <2>1. changing[w] \in Hub!Owners /\ Hub!Announced(changing[w])
    BY <1>t, <1>1 DEF Hub!UpdateOwner
  <2>2. tasks' \subseteq Hub!Announcements
    BY <2>1, AnnouncedIs
  <2>3. cache' \in [Worker -> Hub!Owners] /\ changing' \in [Worker -> Hub!Owners \cup {Hub!Idle}]
    BY <1>t, <1>1, <2>1 DEF Hub!UpdateOwner
  <2>4. QED
    BY <1>t, <1>1, <2>2, <2>3 DEF Hub!UpdateOwner, Hub!HubTypes
<1>2. ASSUME NEW w \in Worker, NEW o \in User \cup {None}, Hub!CommitOwner(w, o)
      PROVE  Hub!HubTypes'
  <2>1. /\ owner' = o /\ changes' = changes + 1 /\ changing' = [changing EXCEPT ![w] = o]
        /\ owned' = owned \cup ({o} \ {None})
        /\ share' = IF o = None THEN [u \in User |-> "none"] ELSE share
        /\ UNCHANGED <<cache, tasks, inbox, conns, socket, feeds, got>>
    BY <1>2 DEF Hub!CommitOwner, Hub!bus
  <2>2. share' \in [User -> Hub!Roles] /\ owned' \subseteq User /\ owner' \in Hub!Owners
    BY <1>t, <2>1 DEF Hub!Roles, Hub!Owners
  <2>3. changing' \in [Worker -> Hub!Owners \cup {Hub!Idle}] /\ changes' \in Nat
    BY <1>t, <2>1 DEF Hub!Owners
  <2>4. QED
    BY <1>t, <2>1, <2>2, <2>3 DEF Hub!HubTypes
<1>3. ASSUME NEW w \in Worker, Hub!Broadcast(w) PROVE Hub!HubTypes'
  <2>1. PICK o \in Hub!Owners :
            /\ Hub!Scope(w, o)
            /\ \/ Hub!Published(w, Hub!Update(o))
               \/ Hub!Unpublished(w, Hub!Update(o))
               \/ Hub!Unanswered(w, Hub!Update(o))
    BY <1>3 DEF Hub!Broadcast, Hub!Owners
  <2>2. PICK m \in Hub!Messages : m = Hub!Update(o)
    BY HubMessages
  <2>3. PICK x \in Hub!Deliveries : x = Hub!Feed(w, m)
    BY HubMessages
  <2>4. inbox' = inbox \/ Hub!Delivered(m)
    BY <2>1, <2>2 DEF Hub!Published, Hub!Unpublished, Hub!Unanswered
  <2>5. inbox' \in [Worker -> Seq(Hub!Messages)]
    BY <1>t, <2>4, DeliveredIs
  <2>6. feeds' = feeds \/ feeds' = [feeds EXCEPT ![w]["handler"] = x]
    BY <2>1, <2>2, <2>3 DEF Hub!Published, Hub!Unpublished, Hub!Unanswered, Hub!DeliverLocally
  <2>7. feeds' \in [Worker -> [Hub!Senders -> Hub!Deliveries]]
    BY <1>t, <1>n, <2>6, FeedSet
  <2>8. cache' = cache \/ cache' = [cache EXCEPT ![w] = owner]
    BY <2>1 DEF Hub!Scope
  <2>9. cache' \in [Worker -> Hub!Owners]
    BY <1>t, <2>8
  <2>10. UNCHANGED <<owner, share, changes, changing, owned, tasks, conns, socket, got>>
    BY <1>3 DEF Hub!Broadcast, Hub!data
  <2>11. QED
    BY <1>t, <2>5, <2>7, <2>9, <2>10 DEF Hub!HubTypes
<1>4. ASSUME NEW w \in Worker, Hub!Listen(w) PROVE Hub!HubTypes'
  <2>1. inbox[w] \in Seq(Hub!Messages) /\ inbox[w] # <<>>
    BY <1>t, <1>4 DEF Hub!Listen
  <2>2. PICK m \in Hub!Messages : m = Head(inbox[w])
    BY <2>1, Taken
  <2>3. Tail(inbox[w]) \in Seq(Hub!Messages)
    BY <2>1, Taken
  <2>4. inbox' = [inbox EXCEPT ![w] = Tail(@)]
    BY <1>4 DEF Hub!Listen
  <2>5. inbox' \in [Worker -> Seq(Hub!Messages)]
    BY <1>t, <2>3, <2>4
  <2>6. PICK x \in Hub!Deliveries : x = Hub!Feed(w, m)
    BY HubMessages
  <2>7. feeds' = feeds \/ feeds' = [feeds EXCEPT ![w]["listener"] = x]
    BY <1>4, <2>2, <2>6 DEF Hub!Listen
  <2>8. feeds' \in [Worker -> [Hub!Senders -> Hub!Deliveries]]
    BY <1>t, <1>n, <2>7, FeedSet
  <2>9. cache' = cache \/ cache' = [cache EXCEPT ![w] = m.owner]
    BY <1>4, <2>2 DEF Hub!Listen, Hub!Heard
  <2>10. m.owner \in Hub!Owners
    BY HubMessages
  <2>11. cache' \in [Worker -> Hub!Owners]
    BY <1>t, <2>9, <2>10
  <2>12. UNCHANGED <<owner, share, changes, changing, owned, tasks, conns, socket, got>>
    BY <1>4 DEF Hub!Listen, Hub!data
  <2>13. QED
    BY <1>t, <2>5, <2>8, <2>11, <2>12 DEF Hub!HubTypes
<1>5. ASSUME NEW w \in Worker, Hub!LoseListener(w) PROVE Hub!HubTypes'
  <2>1. inbox' = [inbox EXCEPT ![w] = <<>>]
        /\ UNCHANGED <<owner, share, changes, changing, owned, tasks, cache, conns, socket, feeds,
                       got>>
    BY <1>5 DEF Hub!LoseListener, Hub!data
  <2>2. inbox' \in [Worker -> Seq(Hub!Messages)]
    BY <1>t, <2>1
  <2>3. QED
    BY <1>t, <2>1, <2>2 DEF Hub!HubTypes
<1>6. ASSUME NEW w \in Worker, NEW who \in Hub!Senders, Hub!Send(w, who) PROVE Hub!HubTypes'
  <2>1. UNCHANGED <<owner, share, changes, changing, owned, tasks, inbox, cache>>
    BY <1>6 DEF Hub!Send, Hub!data, Hub!bus
  <2>2. CASE feeds[w][who].left = <<>>
    <3>1. /\ conns' \in [Worker -> Seq(Conn)] /\ socket' \in [Conn -> Hub!Sockets] /\ got' = got
          /\ feeds' = [feeds EXCEPT ![w][who] = Hub!NoFeed]
      BY <1>6, <2>2, SendEnds
    <3>2. feeds' \in [Worker -> [Hub!Senders -> Hub!Deliveries]]
      BY <1>n, <3>1, FeedSet
    <3>3. QED
      BY <1>t, <2>1, <3>1, <3>2 DEF Hub!HubTypes
  <2>3. CASE feeds[w][who].left # <<>>
    <3>1. PICK c \in Conn : c = Head(feeds[w][who].left)
      BY <1>6, <2>3, SendGoesOn
    <3>2. PICK x \in Hub!Deliveries : feeds' = [feeds EXCEPT ![w][who] = x]
      BY <1>6, <2>3, SendGoesOn
    <3>3. conns' = conns /\ socket' = socket /\ (got' = got \/ got' = [got EXCEPT ![c] = @ + 1])
      BY <1>6, <2>3, <3>1, SendGoesOn
    <3>4. feeds' \in [Worker -> [Hub!Senders -> Hub!Deliveries]]
      BY <3>2, FeedSet
    <3>5. got' \in [Conn -> Nat]
      <4>1. got[c] + 1 \in Nat
        BY <1>t
      <4>2. QED
        BY <1>t, <3>3, <4>1
    <3>6. QED
      BY <1>t, <2>1, <3>3, <3>4, <3>5 DEF Hub!HubTypes
  <2>4. QED
    BY <2>2, <2>3
<1>7. ASSUME NEW w \in Worker, NEW c \in Conn, NEW u \in User \cup {Admin}, Hub!Connect(c, w, u)
      PROVE  Hub!HubTypes'
  <2>1. UNCHANGED <<owner, share, changes, changing, owned, inbox, feeds, got>>
    BY <1>7 DEF Hub!Connect, Hub!data
  <2>2. conns' \in [Worker -> Seq(Conn)] /\ socket' \in [Conn -> Hub!Sockets]
    BY <1>7, ConnectIs
  <2>3. \/ u = owner /\ cache' = [cache EXCEPT ![w] = u] /\ Hub!Announced(u)
        \/ cache' = cache /\ tasks' = tasks
    BY <1>7, ConnectIs
  <2>4. cache' \in [Worker -> Hub!Owners] /\ tasks' \subseteq Hub!Announcements
    BY <1>t, <2>3, AnnouncedIs
  <2>5. QED
    BY <1>t, <2>1, <2>2, <2>4 DEF Hub!HubTypes
<1>8. ASSUME NEW m \in tasks, Hub!Publish(m) PROVE Hub!HubTypes'
  <2>1. /\ UNCHANGED <<owner, share, changes, changing, owned, cache, conns, socket, feeds, got>>
        /\ tasks' = tasks \ {m} /\ (inbox' = inbox \/ Hub!Delivered(m))
    BY <1>8 DEF Hub!Publish, Hub!data
  <2>2. m \in Hub!Messages
    BY <1>t, HubMessages
  <2>3. inbox' \in [Worker -> Seq(Hub!Messages)]
    BY <1>t, <2>1, <2>2, DeliveredIs
  <2>4. QED
    BY <1>t, <2>1, <2>3 DEF Hub!HubTypes
<1>9. ASSUME NEW u \in User, NEW role \in Hub!Roles, Hub!ShareDevice(u, role) PROVE Hub!HubTypes'
  <2>1. /\ share' = [share EXCEPT ![u] = role] /\ changes' = changes + 1
        /\ UNCHANGED <<owner, changing, owned, tasks, inbox, cache, conns, socket, feeds, got>>
    BY <1>9 DEF Hub!ShareDevice, Hub!bus
  <2>2. share' \in [User -> Hub!Roles]
    BY <1>t, <2>1
  <2>3. QED
    BY <1>t, <2>1, <2>2 DEF Hub!HubTypes
<1>10. ASSUME NEW c \in Conn, Hub!Evict(c) \/ Hub!Disconnect(c) \/ Hub!Prune(c)
       PROVE  Hub!HubTypes'
  <2>1. UNCHANGED <<owner, share, changes, changing, owned, tasks, inbox, cache, feeds, got>>
    BY <1>10 DEF Hub!Evict, Hub!Disconnect, Hub!Prune, Hub!data, Hub!bus
  <2>2. "left" \in Hub!Stages /\ "deaf" \in Hub!Stages
    BY DEF Hub!Stages
  <2>3. conns' \in [Worker -> Seq(Conn)] /\ socket' \in [Conn -> Hub!Sockets]
    BY <1>10, <2>2, EvictIs, RemovedIs DEF Hub!Disconnect, Hub!Prune
  <2>4. QED
    BY <1>t, <2>1, <2>3 DEF Hub!HubTypes
<1>11. ASSUME NEW w \in Worker, Hub!Resubscribe(w) PROVE Hub!HubTypes'
    BY <1>t, <1>11 DEF Hub!Resubscribe, Hub!data, Hub!HubTypes
<1>12. ASSUME UNCHANGED Hub!vars PROVE Hub!HubTypes'
    BY <1>t, <1>12 DEF Hub!vars, Hub!HubTypes
<1>13. QED
    BY <1>1, <1>2, <1>3, <1>4, <1>5, <1>6, <1>7, <1>8, <1>9, <1>10, <1>11, <1>12 DEF Hub!Next

\* Every step keeps each worker's lists among its own connections, each once.
LEMMA ListsAgreeStep ==
    ASSUME Hub!HubConstants, Hub!HubTypes, Hub!HubTypes', Hub!ListsAgree, [Hub!Next]_Hub!vars
    PROVE  Hub!ListsAgree'
<1>l. /\ \A w \in Worker : Hub!Listed(w) /\ \A who \in Hub!Senders : Hub!GoesThrough(w, who)
      /\ \A c \in Conn : Hub!Placed(c)
    BY DEF Hub!ListsAgree
<1>n. /\ "handler" \in Hub!Senders /\ "listener" \in Hub!Senders /\ Hub!NoFeed.left = <<>>
      /\ Hub!NoFeed.dead = {} /\ Hub!NoFeed \in Hub!Deliveries
    BY HubMessages DEF Hub!Senders
<1>c. Hub!Closed.worker \notin Worker
    BY DEF Hub!HubConstants, Hub!Closed
<1>w. \A d \in Conn : socket[d].worker \in Worker => socket[d].at # "closed"
    BY <1>l, <1>c DEF Hub!Placed
<1>g. ASSUME UNCHANGED <<conns, socket, got>>, NEW w \in Worker, NEW who \in Hub!Senders,
             NEW x \in Hub!Deliveries, feeds' = [feeds EXCEPT ![w][who] = x],
             Hub!EachOnce(x.left),
             x.dead \cup {x.left[i] : i \in DOMAIN x.left} \subseteq Hub!AtWorker(w)
      PROVE  Hub!ListsAgree'
  <2>1. \A v \in Worker, k \in Hub!Senders :
            feeds'[v][k] = IF v = w /\ k = who THEN x ELSE feeds[v][k]
    BY <1>g, FeedSet
  <2>2. ASSUME NEW v \in Worker, NEW k \in Hub!Senders PROVE Hub!GoesThrough(v, k)'
    <3>1. PICK y : y = feeds'[v][k]
      OBVIOUS
    <3>2. /\ Hub!EachOnce(y.left)
          /\ y.dead \cup {y.left[i] : i \in DOMAIN y.left} \subseteq Hub!AtWorker(v)
      BY <1>g, <1>l, <2>1, <3>1 DEF Hub!GoesThrough
    <3>3. QED
      BY <1>g, <3>1, <3>2 DEF Hub!GoesThrough, Hub!AtWorker
  <2>3. \A v \in Worker : Hub!Listed(v)'
    BY <1>g, <1>l DEF Hub!Listed, Hub!Members, Hub!AtWorker
  <2>4. \A c \in Conn : Hub!Placed(c)'
    BY <1>g, <1>l DEF Hub!Placed, Hub!AtWorker
  <2>5. QED
    BY <2>2, <2>3, <2>4 DEF Hub!ListsAgree
<1>u. ASSUME UNCHANGED <<conns, socket, got, feeds>> PROVE Hub!ListsAgree'
    BY <1>u, <1>l DEF Hub!ListsAgree, Hub!Listed, Hub!GoesThrough, Hub!Placed, Hub!Members,
                      Hub!AtWorker
<1>f. ASSUME NEW w \in Worker, NEW m \in Hub!Messages
      PROVE  LET x == Hub!Feed(w, m)
             IN  /\ x \in Hub!Deliveries /\ Hub!EachOnce(x.left)
                 /\ x.dead \cup {x.left[i] : i \in DOMAIN x.left} \subseteq Hub!AtWorker(w)
  <2>1. PICK x \in Hub!Deliveries : x = Hub!Feed(w, m) /\ x.left = conns[w] /\ x.dead = {}
    BY HubMessages
  <2>2. QED
    BY <1>l, <2>1 DEF Hub!Listed, Hub!Members
\* No connection moves to another worker, so deliveries still go through their own.
<1>k. ASSUME UNCHANGED feeds, \A v \in Worker : Hub!AtWorker(v) \subseteq Hub!AtWorker(v)'
      PROVE  \A v \in Worker, k \in Hub!Senders : Hub!GoesThrough(v, k)'
    BY <1>k, <1>l DEF Hub!GoesThrough
<1>1. ASSUME NEW w \in Worker, Hub!Broadcast(w) PROVE Hub!ListsAgree'
  <2>1. PICK o \in Hub!Owners :
            \/ Hub!Published(w, Hub!Update(o))
            \/ Hub!Unpublished(w, Hub!Update(o))
            \/ Hub!Unanswered(w, Hub!Update(o))
    BY <1>1 DEF Hub!Broadcast, Hub!Owners
  <2>2. PICK m \in Hub!Messages : m = Hub!Update(o)
    BY HubMessages
  <2>3. feeds' = feeds \/ feeds' = [feeds EXCEPT ![w]["handler"] = Hub!Feed(w, m)]
    BY <2>1, <2>2 DEF Hub!Published, Hub!Unpublished, Hub!Unanswered, Hub!DeliverLocally
  <2>4. UNCHANGED <<conns, socket, got>>
    BY <1>1 DEF Hub!Broadcast
  <2>5. QED
    BY <1>f, <1>g, <1>n, <1>u, <2>3, <2>4
<1>2. ASSUME NEW w \in Worker, Hub!Listen(w) PROVE Hub!ListsAgree'
  <2>1. inbox[w] \in Seq(Hub!Messages) /\ inbox[w] # <<>>
    BY <1>2 DEF Hub!Listen, Hub!HubTypes
  <2>2. PICK m \in Hub!Messages : m = Head(inbox[w])
    BY <2>1, Taken
  <2>3. /\ feeds' = feeds \/ feeds' = [feeds EXCEPT ![w]["listener"] = Hub!Feed(w, m)]
        /\ UNCHANGED <<conns, socket, got>>
    BY <1>2, <2>2 DEF Hub!Listen
  <2>4. QED
    BY <1>f, <1>g, <1>n, <1>u, <2>3
<1>3. ASSUME NEW w \in Worker, NEW who \in Hub!Senders, Hub!Send(w, who),
             feeds[w][who].left # <<>>
      PROVE  Hub!ListsAgree'
  <2>1. PICK f \in Hub!Deliveries : f = feeds[w][who]
    BY DEF Hub!HubTypes
  <2>2. f.left \in Seq(Conn) /\ f.left # <<>>
    BY <1>3, <2>1 DEF Hub!Deliveries
  <2>3. PICK c \in Conn, q \in Seq(Conn) : c = Head(f.left) /\ q = Tail(f.left)
    BY <2>2, Taken
  <2>4. PICK x \in Hub!Deliveries :
            feeds' = [feeds EXCEPT ![w][who] = x] /\ x.left = q /\ x.dead \subseteq f.dead \cup {c}
    BY <1>3, <2>1, <2>3, SendGoesOn
  <2>5. /\ Hub!EachOnce(f.left)
        /\ f.dead \cup {f.left[i] : i \in DOMAIN f.left} \subseteq Hub!AtWorker(w)
    BY <1>l, <2>1 DEF Hub!GoesThrough
  <2>6. Hub!EachOnce(q) /\ {f.left[i] : i \in DOMAIN f.left} = {c} \cup {q[i] : i \in DOMAIN q}
    <3>1. Hub!EachOnce(Tail(f.left))
      BY <2>2, <2>5, Taken
    <3>2. {f.left[i] : i \in DOMAIN f.left}
              = {Head(f.left)} \cup {Tail(f.left)[i] : i \in DOMAIN Tail(f.left)}
      BY <2>2, HeadAndTail
    <3>3. QED
      BY <2>3, <3>1, <3>2
  <2>7. /\ Hub!EachOnce(x.left)
        /\ x.dead \cup {x.left[i] : i \in DOMAIN x.left} \subseteq Hub!AtWorker(w)
    BY <2>4, <2>5, <2>6
  <2>8. /\ UNCHANGED <<conns, socket>>
        /\ \/ got' = got
           \/ c \in Hub!Members(w) /\ got' = [got EXCEPT ![c] = @ + 1]
    BY <1>3, <2>1, <2>3, SendGoesOn
  <2>9. CASE got' = got
    BY <1>3, <1>g, <2>4, <2>7, <2>8, <2>9
  <2>10. CASE c \in Hub!Members(w) /\ got' = [got EXCEPT ![c] = @ + 1]
    <3>1. \A v \in Worker, k \in Hub!Senders :
              feeds'[v][k] = IF v = w /\ k = who THEN x ELSE feeds[v][k]
      BY <1>3, <2>4, FeedSet
    <3>2. ASSUME NEW v \in Worker, NEW k \in Hub!Senders PROVE Hub!GoesThrough(v, k)'
      <4>1. PICK y : y = feeds'[v][k]
        OBVIOUS
      <4>2. /\ Hub!EachOnce(y.left)
            /\ y.dead \cup {y.left[i] : i \in DOMAIN y.left} \subseteq Hub!AtWorker(v)
        BY <1>l, <2>7, <3>1, <4>1 DEF Hub!GoesThrough
      <4>3. QED
        BY <2>8, <4>1, <4>2 DEF Hub!GoesThrough, Hub!AtWorker
    <3>3. \A v \in Worker : Hub!Listed(v)'
      BY <1>l, <2>8 DEF Hub!Listed, Hub!Members, Hub!AtWorker
    <3>4. socket[c].at = "open"
      BY <1>l, <2>10 DEF Hub!Listed
    <3>5. \A d \in Conn : d # c => got'[d] = got[d]
      BY <2>10 DEF Hub!HubTypes
    <3>6. \A d \in Conn : Hub!Placed(d)'
      BY <1>l, <2>8, <3>4, <3>5 DEF Hub!Placed, Hub!AtWorker
    <3>7. QED
      BY <3>2, <3>3, <3>6 DEF Hub!ListsAgree
  <2>11. QED
    BY <2>8, <2>9, <2>10
<1>4. ASSUME NEW w \in Worker, NEW who \in Hub!Senders, Hub!Send(w, who),
             feeds[w][who].left = <<>>
      PROVE  Hub!ListsAgree'
  <2>1. PICK dead : dead = feeds[w][who].dead
    OBVIOUS
  <2>2. /\ feeds' = [feeds EXCEPT ![w][who] = Hub!NoFeed] /\ got' = got
        /\ Loses(w, dead) /\ \A v \in Worker \ {w} : conns'[v] = conns[v]
        /\ \A d \in Conn : /\ Same(d)
                           /\ IF d \in dead /\ socket[d].at = "open"
                              THEN socket'[d].at = "deaf" ELSE socket'[d] = socket[d]
    BY <1>4, <2>1, SendEnds
  <2>3. dead \subseteq Hub!AtWorker(w)
    BY <1>l, <2>1 DEF Hub!GoesThrough
  <2>4. \A v \in Worker : Hub!AtWorker(v)' = Hub!AtWorker(v)
    BY <2>2 DEF Hub!AtWorker, Same
  <2>5. \A v \in Worker, k \in Hub!Senders :
            feeds'[v][k] = IF v = w /\ k = who THEN Hub!NoFeed ELSE feeds[v][k]
    BY <1>4, <1>n, <2>2, FeedSet
  <2>6. ASSUME NEW v \in Worker, NEW k \in Hub!Senders PROVE Hub!GoesThrough(v, k)'
    <3>1. CASE v = w /\ k = who
      BY <1>n, <2>5, <3>1 DEF Hub!GoesThrough, Hub!EachOnce
    <3>2. CASE ~(v = w /\ k = who)
      BY <1>l, <2>4, <2>5, <3>2 DEF Hub!GoesThrough
    <3>3. QED
      BY <3>1, <3>2
  <2>7. ASSUME NEW v \in Worker PROVE Hub!Listed(v)'
    <3>1. /\ Hub!Members(v)' = Hub!Members(v) \ dead /\ Hub!EachOnce(conns'[v])
      <4>1. CASE v = w
        BY <1>l, <2>2, <4>1 DEF Hub!Listed, Loses
      <4>2. CASE v # w
        <5>1. conns'[v] = conns[v]
          BY <2>2, <4>2
        <5>2. Hub!Members(v)' = Hub!Members(v)
          BY <5>1 DEF Hub!Members
        <5>3. Hub!Members(v) \cap dead = {}
          BY <1>l, <2>3, <4>2 DEF Hub!Listed, Hub!AtWorker
        <5>4. QED
          BY <1>l, <5>1, <5>2, <5>3 DEF Hub!Listed
      <4>3. QED
        BY <4>1, <4>2
    <3>2. ASSUME NEW d \in Hub!Members(v) \ dead
          PROVE  d \in Hub!AtWorker(v) /\ socket'[d].at = "open"
      BY <1>l, <2>2 DEF Hub!Listed, Hub!AtWorker
    <3>3. QED
      BY <2>4, <3>1, <3>2 DEF Hub!Listed
  <2>8. ASSUME NEW d \in Conn PROVE Hub!Placed(d)'
    <3>1. CASE d \in dead /\ socket[d].at = "open"
      BY <1>l, <2>2, <3>1 DEF Hub!Placed, Same
    <3>2. CASE ~(d \in dead /\ socket[d].at = "open")
      <4>1. socket'[d] = socket[d] /\ got'[d] = got[d]
        BY <2>2, <3>2
      <4>2. QED
        BY <1>l, <2>4, <4>1 DEF Hub!Placed
    <3>3. QED
      BY <3>1, <3>2
  <2>9. QED
    BY <2>6, <2>7, <2>8 DEF Hub!ListsAgree
<1>5. ASSUME NEW w \in Worker, NEW c \in Conn, NEW u \in User \cup {Admin}, Hub!Connect(c, w, u)
      PROVE  Hub!ListsAgree'
  <2>1. UNCHANGED <<feeds, got>>
    BY <1>5 DEF Hub!Connect
  <2>2. /\ socket[c].at = "closed" /\ socket'[c].worker = w /\ socket'[c].user = u
        /\ \A d \in Conn \ {c} : socket'[d] = socket[d]
    BY <1>5, ConnectIs
  <2>3. \/ /\ Len(conns[w]) < Limit /\ socket'[c].at = "open"
           /\ conns'[w] = Append(conns[w], c)
           /\ \A v \in Worker \ {w} : conns'[v] = conns[v]
        \/ /\ Len(conns[w]) >= Limit /\ socket'[c].at = "evicting"
           /\ conns' = conns /\ conns[w] # <<>> /\ socket'[c].victim = Head(conns[w])
    BY <1>5, ConnectIs
  <2>4. socket[c].worker \notin Worker /\ \A v \in Worker : c \notin Hub!AtWorker(v)
    BY <1>w, <2>2 DEF Hub!AtWorker
  <2>5. \A v \in Worker : Hub!AtWorker(v)' = IF v = w THEN Hub!AtWorker(v) \cup {c}
                                             ELSE Hub!AtWorker(v)
    BY <2>2, <2>4 DEF Hub!AtWorker
  <2>6. \A v \in Worker, k \in Hub!Senders : Hub!GoesThrough(v, k)'
    BY <1>k, <2>1, <2>5
  <2>7. ASSUME NEW v \in Worker, conns'[v] = conns[v] PROVE Hub!Listed(v)'
    <3>1. Hub!Members(v)' = Hub!Members(v)
      BY <2>7 DEF Hub!Members
    <3>2. \A d \in Hub!Members(v) : d \in Hub!AtWorker(v) /\ d # c /\ socket[d].at = "open"
      BY <1>l, <2>4 DEF Hub!Listed
    <3>3. \A d \in Hub!Members(v) : d \in Hub!AtWorker(v)' /\ socket'[d].at = "open"
      BY <2>2, <2>5, <3>2 DEF Hub!AtWorker
    <3>4. QED
      BY <1>l, <2>7, <3>1, <3>3 DEF Hub!Listed
  <2>8. ASSUME conns'[w] = Append(conns[w], c), socket'[c].at = "open"
        PROVE  Hub!Listed(w)'
    <3>1. PICK s \in Seq(Conn) : s = conns[w]
      BY DEF Hub!HubTypes
    <3>2. PICK q : q = Append(s, c)
      OBVIOUS
    <3>3. Hub!EachOnce(s) /\ c \notin {s[i] : i \in DOMAIN s}
      BY <1>l, <2>4, <3>1 DEF Hub!Listed, Hub!Members
    <3>4. Hub!EachOnce(q) /\ {q[i] : i \in DOMAIN q} = {s[i] : i \in DOMAIN s} \cup {c}
      <4>1. Hub!EachOnce(Append(s, c))
        BY <3>3, Appended
      <4>2. {Append(s, c)[i] : i \in DOMAIN Append(s, c)} = {s[i] : i \in DOMAIN s} \cup {c}
        BY Appended
      <4>3. QED
        BY <3>2, <4>1, <4>2
    <3>5. Hub!Members(w)' = Hub!Members(w) \cup {c} /\ Hub!EachOnce(conns'[w])
      BY <2>8, <3>1, <3>2, <3>4 DEF Hub!Members
    <3>6. \A d \in Hub!Members(w) : d \in Hub!AtWorker(w) /\ d # c /\ socket[d].at = "open"
      BY <1>l, <2>4 DEF Hub!Listed
    <3>7. \A d \in Hub!Members(w) : d \in Hub!AtWorker(w)' /\ socket'[d].at = "open"
      BY <2>2, <2>5, <3>6 DEF Hub!AtWorker
    <3>8. c \in Hub!AtWorker(w)'
      BY <2>5
    <3>9. QED
      BY <2>8, <3>5, <3>7, <3>8 DEF Hub!Listed
  <2>9. \A v \in Worker : Hub!Listed(v)'
    BY <2>3, <2>7, <2>8
  <2>10. ASSUME NEW d \in Conn \ {c} PROVE Hub!Placed(d)'
    <3>1. socket'[d] = socket[d] /\ got'[d] = got[d]
      BY <2>1, <2>2
    <3>2. \A v \in Worker : Hub!AtWorker(v) \subseteq Hub!AtWorker(v)'
      BY <2>5
    <3>3. QED
      BY <1>l, <3>1, <3>2 DEF Hub!Placed
  <2>11. Hub!Placed(c)'
    <3>1. CASE socket'[c].at = "open"
      BY <2>2, <3>1 DEF Hub!Placed
    <3>2. CASE conns[w] # <<>> /\ socket'[c].at = "evicting" /\ socket'[c].victim = Head(conns[w])
      <4>1. conns[w] \in Seq(Conn)
        BY DEF Hub!HubTypes
      <4>2. Head(conns[w]) \in Hub!Members(w)
        BY <3>2, <4>1, Taken DEF Hub!Members
      <4>3. Head(conns[w]) \in Hub!AtWorker(w) /\ Head(conns[w]) # c
        BY <1>l, <2>4, <4>2 DEF Hub!Listed
      <4>4. socket'[c].victim \in Hub!AtWorker(w)' /\ socket'[c].victim # c
        BY <2>5, <3>2, <4>3
      <4>5. QED
        BY <2>2, <3>2, <4>4 DEF Hub!Placed, Hub!AtWorker
    <3>3. QED
      BY <2>3, <3>1, <3>2
  <2>12. QED
    BY <2>6, <2>9, <2>10, <2>11 DEF Hub!ListsAgree
<1>6. ASSUME NEW c \in Conn, Hub!Evict(c) PROVE Hub!ListsAgree'
  <2>1. UNCHANGED <<feeds, got>>
    BY <1>6 DEF Hub!Evict
  <2>2. PICK w \in Worker, v \in Conn \ {c} :
            /\ w = socket[c].worker /\ v = socket[c].victim
            /\ socket[c].at = "evicting" /\ socket[v].worker = w
            /\ \A u \in Worker \ {w} : conns'[u] = conns[u]
            /\ Hub!Members(w)' = (Hub!Members(w) \ {v}) \cup {c} /\ Hub!EachOnce(conns'[w])
            /\ \A d \in Conn \ {c, v} : socket'[d] = socket[d]
            /\ socket'[c].at = "open" /\ socket'[c].worker = w
            /\ socket'[c].user = socket[c].user
            /\ socket'[v].at = "left" /\ Same(v)
    BY <1>6, EvictIs
  <2>3. \A d \in Conn : socket'[d].worker = socket[d].worker
    BY <2>2 DEF Same
  <2>4. \A u \in Worker : Hub!AtWorker(u)' = Hub!AtWorker(u)
    BY <2>3 DEF Hub!AtWorker
  <2>5. \A u \in Worker, k \in Hub!Senders : Hub!GoesThrough(u, k)'
    BY <1>k, <2>1, <2>4
  <2>6. ASSUME NEW u \in Worker \ {w} PROVE Hub!Listed(u)'
    <3>1. Hub!Members(u)' = Hub!Members(u)
      BY <2>2 DEF Hub!Members
    <3>2. \A d \in Hub!Members(u) :
             d \in Hub!AtWorker(u) /\ d \notin {c, v} /\ socket[d].at = "open"
      BY <1>l, <2>2 DEF Hub!Listed, Hub!AtWorker
    <3>3. \A d \in Hub!Members(u) : d \in Hub!AtWorker(u) /\ socket'[d].at = "open"
      BY <2>2, <3>2 DEF Hub!AtWorker
    <3>4. QED
      BY <1>l, <2>2, <2>4, <3>1, <3>3 DEF Hub!Listed
  <2>7. Hub!Listed(w)'
    <3>1. \A d \in Hub!Members(w) \ {v} : d \in Hub!AtWorker(w) /\ d # c /\ socket[d].at = "open"
      BY <1>l, <2>2 DEF Hub!Listed
    <3>2. \A d \in Hub!Members(w) \ {v} : d \in Hub!AtWorker(w) /\ socket'[d].at = "open"
      BY <2>2, <3>1 DEF Hub!AtWorker
    <3>3. c \in Hub!AtWorker(w)
      BY <2>2 DEF Hub!AtWorker
    <3>4. QED
      BY <2>2, <2>4, <3>2, <3>3 DEF Hub!Listed
  <2>8. Hub!Placed(c)' /\ Hub!Placed(v)'
    BY <1>l, <1>c, <2>2 DEF Hub!Placed, Same
  <2>9. ASSUME NEW d \in Conn \ {c, v} PROVE Hub!Placed(d)'
    <3>1. socket'[d] = socket[d] /\ got'[d] = got[d]
      BY <2>1, <2>2
    <3>2. QED
      BY <1>l, <2>4, <3>1 DEF Hub!Placed
  <2>10. QED
    BY <2>5, <2>6, <2>7, <2>8, <2>9 DEF Hub!ListsAgree
<1>7. ASSUME NEW c \in Conn, Hub!Disconnect(c) \/ Hub!Prune(c) PROVE Hub!ListsAgree'
  <2>1. PICK at \in {"left", "deaf"} : Hub!Removed(c, at)
    BY <1>7 DEF Hub!Disconnect, Hub!Prune
  <2>2. UNCHANGED <<feeds, got>> /\ socket[c].at \in {"open", "deaf"}
    BY <1>7 DEF Hub!Disconnect, Hub!Prune
  <2>3. /\ \A w \in Worker : Loses(w, {c})
        /\ \A d \in Conn \ {c} : socket'[d] = socket[d]
        /\ socket'[c].at = at /\ Same(c)
    BY <2>1, RemovedIs DEF Hub!Stages, Same
  <2>4. \A u \in Worker : Hub!AtWorker(u)' = Hub!AtWorker(u)
    BY <2>3 DEF Hub!AtWorker, Same
  <2>5. \A u \in Worker, k \in Hub!Senders : Hub!GoesThrough(u, k)'
    BY <1>k, <2>2, <2>4
  <2>6. ASSUME NEW u \in Worker PROVE Hub!Listed(u)'
    <3>1. Hub!Members(u)' = Hub!Members(u) \ {c} /\ Hub!EachOnce(conns'[u])
      BY <1>l, <2>3 DEF Hub!Listed, Loses
    <3>2. \A d \in Hub!Members(u) \ {c} : d \in Hub!AtWorker(u) /\ socket[d].at = "open"
      BY <1>l DEF Hub!Listed
    <3>3. \A d \in Hub!Members(u) \ {c} : d \in Hub!AtWorker(u) /\ socket'[d].at = "open"
      BY <2>3, <3>2 DEF Hub!AtWorker
    <3>4. QED
      BY <2>4, <3>1, <3>3 DEF Hub!Listed
  <2>7. Hub!Placed(c)'
    BY <1>l, <2>1, <2>2, <2>3 DEF Hub!Placed, Same
  <2>8. ASSUME NEW d \in Conn \ {c} PROVE Hub!Placed(d)'
    <3>1. socket'[d] = socket[d] /\ got'[d] = got[d]
      BY <2>2, <2>3
    <3>2. QED
      BY <1>l, <2>4, <3>1 DEF Hub!Placed
  <2>9. QED
    BY <2>5, <2>6, <2>7, <2>8 DEF Hub!ListsAgree
<1>8. ASSUME NEW w \in Worker, Hub!UpdateOwner(w) \/ Hub!LoseListener(w) \/ Hub!Resubscribe(w)
      PROVE  Hub!ListsAgree'
    BY <1>u, <1>8 DEF Hub!UpdateOwner, Hub!LoseListener, Hub!Resubscribe
<1>9. ASSUME NEW w \in Worker, NEW o \in User \cup {None}, Hub!CommitOwner(w, o)
      PROVE  Hub!ListsAgree'
    BY <1>u, <1>9 DEF Hub!CommitOwner
<1>10. ASSUME NEW m \in tasks, Hub!Publish(m) PROVE Hub!ListsAgree'
    BY <1>u, <1>10 DEF Hub!Publish
<1>11. ASSUME NEW u \in User, NEW role \in Hub!Roles, Hub!ShareDevice(u, role)
       PROVE  Hub!ListsAgree'
    BY <1>u, <1>11 DEF Hub!ShareDevice
<1>12. ASSUME UNCHANGED Hub!vars PROVE Hub!ListsAgree'
    BY <1>u, <1>12 DEF Hub!vars
<1>13. QED
    BY <1>1, <1>2, <1>3, <1>4, <1>5, <1>6, <1>7, <1>8, <1>9, <1>10, <1>11, <1>12 DEF Hub!Next

\* Every step keeps: what names an owner names one that there was.
LEMMA OwnersKnownStep ==
    ASSUME Hub!HubConstants, Hub!HubTypes, Hub!HubTypes', Hub!OwnersKnown, [Hub!Next]_Hub!vars
    PROVE  Hub!OwnersKnown'
<1>o. /\ Hub!Was(owner)
      /\ \A w \in Worker :
             /\ Hub!Was(cache[w]) /\ (changing[w] # Hub!Idle => Hub!Was(changing[w]))
             /\ \A i \in DOMAIN inbox[w] : Hub!Was(inbox[w][i].owner)
             /\ \A who \in Hub!Senders :
                    feeds[w][who] # Hub!NoFeed => Hub!Was(feeds[w][who].message.owner)
      /\ \A m \in tasks : Hub!Was(m.owner)
    BY DEF Hub!OwnersKnown
<1>t. /\ owner \in Hub!Owners /\ changing \in [Worker -> Hub!Owners \cup {Hub!Idle}]
      /\ cache \in [Worker -> Hub!Owners] /\ inbox \in [Worker -> Seq(Hub!Messages)]
      /\ tasks \subseteq Hub!Announcements
    BY DEF Hub!HubTypes
<1>n. "handler" \in Hub!Senders /\ "listener" \in Hub!Senders /\ Hub!NoFeed \in Hub!Deliveries
    BY HubMessages DEF Hub!Senders
<1>w. ASSUME owned \subseteq owned', NEW o, Hub!Was(o) PROVE Hub!Was(o)'
    BY <1>w DEF Hub!Was
<1>f. ASSUME NEW w \in Worker, NEW who \in Hub!Senders, NEW x \in Hub!Deliveries,
             feeds' = [feeds EXCEPT ![w][who] = x],
             x # Hub!NoFeed => Hub!Was(x.message.owner)
      PROVE  \A v \in Worker, k \in Hub!Senders :
                 feeds'[v][k] # Hub!NoFeed => Hub!Was(feeds'[v][k].message.owner)
  <2>1. \A v \in Worker, k \in Hub!Senders :
            feeds'[v][k] = IF v = w /\ k = who THEN x ELSE feeds[v][k]
    BY <1>f, FeedSet
  <2>2. QED
    BY <1>f, <1>o, <2>1
<1>m. ASSUME NEW m \in Hub!Messages, Hub!Delivered(m), Hub!Was(m.owner)
      PROVE  \A w \in Worker : \A i \in DOMAIN inbox'[w] : Hub!Was(inbox'[w][i].owner)
  <2> SUFFICES ASSUME NEW w \in Worker
               PROVE  \A i \in DOMAIN inbox'[w] : Hub!Was(inbox'[w][i].owner)
    OBVIOUS
  <2>1. PICK q \in Seq(Hub!Messages) : q = inbox[w]
    BY <1>t
  <2>2. inbox'[w] = q \/ inbox'[w] = Append(q, m)
    BY <1>m, <2>1, DeliveredIs
  <2>3. \A i \in DOMAIN q : Hub!Was(q[i].owner)
    BY <1>o, <2>1
  <2>4. \A i \in DOMAIN Append(q, m) :
            Append(q, m)[i] = m \/ (i \in DOMAIN q /\ Append(q, m)[i] = q[i])
    BY Appended
  <2>5. QED
    BY <1>m, <2>2, <2>3, <2>4
\* Nothing is owned less: each part is shown with what was owned before.
<1>q. ASSUME owned \subseteq owned', Hub!Was(owner'),
             \A w \in Worker :
                 /\ Hub!Was(cache'[w]) /\ (changing'[w] # Hub!Idle => Hub!Was(changing'[w]))
                 /\ \A i \in DOMAIN inbox'[w] : Hub!Was(inbox'[w][i].owner)
                 /\ \A who \in Hub!Senders :
                        feeds'[w][who] # Hub!NoFeed => Hub!Was(feeds'[w][who].message.owner),
             \A m \in tasks' : Hub!Was(m.owner)
      PROVE  Hub!OwnersKnown'
    BY <1>q, <1>w DEF Hub!OwnersKnown
<1>1. ASSUME NEW w \in Worker, Hub!UpdateOwner(w) PROVE Hub!OwnersKnown'
  <2>1. /\ changing[w] \in Hub!Owners /\ Hub!Was(changing[w]) /\ Hub!Announced(changing[w])
        /\ cache' = [cache EXCEPT ![w] = changing[w]]
        /\ changing' = [changing EXCEPT ![w] = Hub!Idle]
        /\ UNCHANGED <<owner, owned, inbox, feeds>>
    BY <1>1, <1>o, <1>t DEF Hub!UpdateOwner
  <2>2. \A m \in tasks' : m \in tasks \/ m.owner = changing[w]
    BY <2>1, AnnouncedIs
  <2>3. \A v \in Worker : Hub!Was(cache'[v]) /\ (changing'[v] # Hub!Idle => Hub!Was(changing'[v]))
    BY <1>o, <1>t, <2>1
  <2>4. \A m \in tasks' : Hub!Was(m.owner)
    BY <1>o, <2>1, <2>2
  <2>5. QED
    BY <1>o, <1>q, <2>1, <2>3, <2>4
<1>2. ASSUME NEW w \in Worker, NEW o \in User \cup {None}, Hub!CommitOwner(w, o)
      PROVE  Hub!OwnersKnown'
  <2>1. /\ owner' = o /\ changing' = [changing EXCEPT ![w] = o]
        /\ owned' = owned \cup ({o} \ {None})
        /\ UNCHANGED <<cache, tasks, inbox, feeds>>
    BY <1>2 DEF Hub!CommitOwner, Hub!bus
  <2>2. owned \subseteq owned' /\ Hub!Was(o)'
    BY <2>1 DEF Hub!Was
  <2>3. \A v \in Worker : (changing[v] # Hub!Idle => Hub!Was(changing[v]))'
    BY <1>o, <1>t, <2>1, <2>2 DEF Hub!Was
  <2>4. QED
    BY <1>o, <1>w, <2>1, <2>2, <2>3 DEF Hub!OwnersKnown
<1>3. ASSUME NEW w \in Worker, Hub!Broadcast(w) PROVE Hub!OwnersKnown'
  <2>1. PICK o \in Hub!Owners :
            /\ Hub!Scope(w, o)
            /\ \/ Hub!Published(w, Hub!Update(o))
               \/ Hub!Unpublished(w, Hub!Update(o))
               \/ Hub!Unanswered(w, Hub!Update(o))
    BY <1>3 DEF Hub!Broadcast, Hub!Owners
  <2>2. Hub!Was(o) /\ (cache' = cache \/ cache' = [cache EXCEPT ![w] = owner])
    BY <1>o, <2>1 DEF Hub!Scope, Hub!Was
  <2>3. PICK m \in Hub!Messages : m = Hub!Update(o) /\ m.owner = o
    BY HubMessages
  <2>4. PICK x \in Hub!Deliveries : x = Hub!Feed(w, m) /\ x.message = m
    BY HubMessages
  <2>5. inbox' = inbox \/ Hub!Delivered(m)
    BY <2>1, <2>3 DEF Hub!Published, Hub!Unpublished, Hub!Unanswered
  <2>6. feeds' = feeds \/ feeds' = [feeds EXCEPT ![w]["handler"] = x]
    BY <2>1, <2>3, <2>4 DEF Hub!Published, Hub!Unpublished, Hub!Unanswered, Hub!DeliverLocally
  <2>7. \A v \in Worker : \A i \in DOMAIN inbox'[v] : Hub!Was(inbox'[v][i].owner)
    BY <1>m, <1>o, <2>2, <2>3, <2>5
  <2>8. \A v \in Worker, k \in Hub!Senders :
            feeds'[v][k] # Hub!NoFeed => Hub!Was(feeds'[v][k].message.owner)
    BY <1>f, <1>n, <1>o, <2>2, <2>3, <2>4, <2>6
  <2>9. \A v \in Worker : Hub!Was(cache'[v])
    BY <1>o, <1>t, <2>2
  <2>10. UNCHANGED <<owner, owned, changing, tasks>>
    BY <1>3 DEF Hub!Broadcast, Hub!data
  <2>11. QED
    BY <1>o, <1>q, <2>7, <2>8, <2>9, <2>10
<1>4. ASSUME NEW w \in Worker, Hub!Listen(w) PROVE Hub!OwnersKnown'
  <2>1. PICK q \in Seq(Hub!Messages) : q = inbox[w]
    BY <1>t
  <2>2. PICK m \in Hub!Messages : m = Head(q)
    BY <1>4, <2>1, Taken DEF Hub!Listen
  <2>3. Hub!Was(m.owner) /\ \A i \in DOMAIN Tail(q) : Hub!Was(Tail(q)[i].owner)
    <3>1. q # <<>> /\ \A i \in DOMAIN q : Hub!Was(q[i].owner)
      BY <1>4, <1>o, <2>1 DEF Hub!Listen
    <3>2. 1 \in DOMAIN q /\ Head(q) = q[1]
      BY <3>1, Taken
    <3>3. \A i \in DOMAIN Tail(q) : i + 1 \in DOMAIN q /\ Tail(q)[i] = q[i + 1]
      BY <3>1, Taken
    <3>4. QED
      BY <2>2, <3>1, <3>2, <3>3
  <2>4. PICK x \in Hub!Deliveries : x = Hub!Feed(w, m) /\ x.message = m
    BY HubMessages
  <2>5. /\ inbox' = [inbox EXCEPT ![w] = Tail(q)]
        /\ cache' = cache \/ cache' = [cache EXCEPT ![w] = m.owner]
        /\ feeds' = feeds \/ feeds' = [feeds EXCEPT ![w]["listener"] = x]
        /\ UNCHANGED <<owner, owned, changing, tasks>>
    BY <1>4, <2>1, <2>2, <2>4 DEF Hub!Listen, Hub!Heard, Hub!data
  <2>6. \A v \in Worker : Hub!Was(cache'[v])
    BY <1>o, <1>t, <2>3, <2>5
  <2>7. \A v \in Worker : \A i \in DOMAIN inbox'[v] : Hub!Was(inbox'[v][i].owner)
    BY <1>o, <1>t, <2>3, <2>5
  <2>8. \A v \in Worker, k \in Hub!Senders :
            feeds'[v][k] # Hub!NoFeed => Hub!Was(feeds'[v][k].message.owner)
    BY <1>f, <1>n, <1>o, <2>3, <2>4, <2>5
  <2>9. QED
    BY <1>o, <1>q, <2>5, <2>6, <2>7, <2>8
<1>5. ASSUME NEW w \in Worker, Hub!LoseListener(w) PROVE Hub!OwnersKnown'
  <2>1. /\ inbox' = [inbox EXCEPT ![w] = <<>>]
        /\ UNCHANGED <<owner, owned, changing, tasks, cache, feeds>>
    BY <1>5 DEF Hub!LoseListener, Hub!data
  <2>2. \A v \in Worker : \A i \in DOMAIN inbox'[v] : Hub!Was(inbox'[v][i].owner)
    BY <1>o, <1>t, <2>1
  <2>3. QED
    BY <1>o, <1>q, <2>1, <2>2
<1>6. ASSUME NEW w \in Worker, NEW who \in Hub!Senders, Hub!Send(w, who) PROVE Hub!OwnersKnown'
  <2>1. UNCHANGED <<owner, owned, changing, tasks, inbox, cache>>
    BY <1>6 DEF Hub!Send, Hub!data, Hub!bus
  <2>2. CASE feeds[w][who].left = <<>>
    <3>1. feeds' = [feeds EXCEPT ![w][who] = Hub!NoFeed]
      BY <1>6, <2>2, SendEnds
    <3>2. \A v \in Worker, k \in Hub!Senders :
              feeds'[v][k] # Hub!NoFeed => Hub!Was(feeds'[v][k].message.owner)
      BY <1>f, <1>n, <3>1
    <3>3. QED
      BY <1>o, <1>q, <2>1, <3>2
  <2>3. CASE feeds[w][who].left # <<>>
    <3>1. PICK x \in Hub!Deliveries :
              /\ feeds' = [feeds EXCEPT ![w][who] = x] /\ feeds[w][who] # Hub!NoFeed
              /\ x.message = feeds[w][who].message
      BY <1>6, <2>3, SendGoesOn
    <3>2. Hub!Was(x.message.owner)
      BY <1>o, <3>1
    <3>3. \A v \in Worker, k \in Hub!Senders :
              feeds'[v][k] # Hub!NoFeed => Hub!Was(feeds'[v][k].message.owner)
      BY <1>f, <3>1, <3>2
    <3>4. QED
      BY <1>o, <1>q, <2>1, <3>3
  <2>4. QED
    BY <2>2, <2>3
<1>7. ASSUME NEW w \in Worker, NEW c \in Conn, NEW u \in User \cup {Admin}, Hub!Connect(c, w, u)
      PROVE  Hub!OwnersKnown'
  <2>1. UNCHANGED <<owner, owned, changing, inbox, feeds>>
    BY <1>7 DEF Hub!Connect, Hub!data
  <2>2. \/ u = owner /\ cache' = [cache EXCEPT ![w] = u] /\ Hub!Announced(u)
        \/ cache' = cache /\ tasks' = tasks
    BY <1>7, ConnectIs
  <2>3. ASSUME u = owner, Hub!Announced(u) PROVE \A m \in tasks' : m \in tasks \/ m.owner = owner
    BY <1>t, <2>3, AnnouncedIs
  <2>4. \A m \in tasks' : Hub!Was(m.owner)
    BY <1>o, <2>2, <2>3
  <2>5. \A v \in Worker : Hub!Was(cache'[v])
    BY <1>o, <1>t, <2>2
  <2>6. QED
    BY <1>o, <1>q, <2>1, <2>4, <2>5
<1>8. ASSUME NEW m \in tasks, Hub!Publish(m) PROVE Hub!OwnersKnown'
  <2>1. /\ UNCHANGED <<owner, owned, changing, cache, feeds>>
        /\ tasks' = tasks \ {m} /\ (inbox' = inbox \/ Hub!Delivered(m))
    BY <1>8 DEF Hub!Publish, Hub!data
  <2>2. m \in Hub!Messages /\ Hub!Was(m.owner)
    BY <1>o, <1>t, HubMessages
  <2>3. \A v \in Worker : \A i \in DOMAIN inbox'[v] : Hub!Was(inbox'[v][i].owner)
    BY <1>m, <1>o, <2>1, <2>2
  <2>4. QED
    BY <1>o, <1>q, <2>1, <2>3
<1>9. ASSUME UNCHANGED <<owner, owned, changing, cache, feeds, tasks, inbox>> PROVE Hub!OwnersKnown'
    BY <1>9, <1>o, <1>q
<1>10. ASSUME NEW u \in User, NEW role \in Hub!Roles, Hub!ShareDevice(u, role)
       PROVE  Hub!OwnersKnown'
    BY <1>9, <1>10 DEF Hub!ShareDevice, Hub!bus
<1>11. ASSUME NEW c \in Conn, Hub!Evict(c) \/ Hub!Disconnect(c) \/ Hub!Prune(c)
       PROVE  Hub!OwnersKnown'
    BY <1>9, <1>11 DEF Hub!Evict, Hub!Disconnect, Hub!Prune, Hub!data, Hub!bus
<1>12. ASSUME NEW w \in Worker, Hub!Resubscribe(w) PROVE Hub!OwnersKnown'
    BY <1>9, <1>12 DEF Hub!Resubscribe, Hub!data
<1>13. ASSUME UNCHANGED Hub!vars PROVE Hub!OwnersKnown'
    BY <1>9, <1>13 DEF Hub!vars
<1>14. QED
    BY <1>1, <1>2, <1>3, <1>4, <1>5, <1>6, <1>7, <1>8, <1>10, <1>11, <1>12, <1>13 DEF Hub!Next

\* Every step keeps: an allowed set was read, and an update sent, to who may see the device.
LEMMA ReadWhenSeenStep ==
    ASSUME Hub!HubConstants, Hub!HubTypes, Hub!HubTypes', Hub!ListsAgree, Hub!OwnersKnown,
           Hub!ReadWhenSeen, [Hub!Next]_Hub!vars
    PROVE  Hub!ReadWhenSeen'
<1>s. ASSUME seen \subseteq seen', owned \subseteq owned', got' = got,
             \A d \in Conn : /\ socket'[d].user = socket[d].user
                             /\ socket'[d].allowed = socket[d].allowed
      PROVE  Hub!ReadWhenSeen'
    BY <1>s DEF Hub!ReadWhenSeen
<1>w. Hub!Witnessed => seen \subseteq seen'
    BY DEF Hub!Witnessed
<1>1. ASSUME NEW w \in Worker,
             \/ Hub!UpdateOwner(w) \/ Hub!Broadcast(w) \/ Hub!Listen(w) \/ Hub!LoseListener(w)
             \/ Hub!Resubscribe(w)
      PROVE  Hub!ReadWhenSeen'
    BY <1>1, <1>s DEF Hub!UpdateOwner, Hub!Broadcast, Hub!Listen, Hub!LoseListener, Hub!Resubscribe,
                      Hub!data
<1>2. ASSUME NEW w \in Worker, NEW o \in User \cup {None}, Hub!CommitOwner(w, o)
      PROVE  Hub!ReadWhenSeen'
    BY <1>2, <1>s, <1>w DEF Hub!CommitOwner
<1>3. ASSUME NEW u \in User, NEW role \in Hub!Roles, Hub!ShareDevice(u, role)
      PROVE  Hub!ReadWhenSeen'
    BY <1>3, <1>s, <1>w DEF Hub!ShareDevice
<1>4. ASSUME NEW m \in tasks, Hub!Publish(m) PROVE Hub!ReadWhenSeen'
    BY <1>4, <1>s DEF Hub!Publish, Hub!data
<1>5. ASSUME UNCHANGED Hub!vars PROVE Hub!ReadWhenSeen'
    BY <1>5, <1>s DEF Hub!vars
<1>6. ASSUME NEW c \in Conn, Hub!Evict(c) PROVE Hub!ReadWhenSeen'
  <2>1. UNCHANGED <<seen, owned, got>>
    BY <1>6 DEF Hub!Evict, Hub!data
  <2>2. PICK v \in Conn \ {c} :
            /\ \A d \in Conn \ {c, v} : socket'[d] = socket[d]
            /\ socket'[c].user = socket[c].user /\ socket'[c].allowed = socket[c].allowed
            /\ Same(v)
    BY <1>6, EvictIs
  <2>3. QED
    BY <1>s, <2>1, <2>2 DEF Same
<1>7. ASSUME NEW c \in Conn, Hub!Disconnect(c) \/ Hub!Prune(c) PROVE Hub!ReadWhenSeen'
  <2>1. PICK at \in Hub!Stages : Hub!Removed(c, at)
    BY <1>7 DEF Hub!Disconnect, Hub!Prune, Hub!Stages
  <2>2. UNCHANGED <<seen, owned, got>>
    BY <1>7 DEF Hub!Disconnect, Hub!Prune, Hub!data
  <2>3. /\ \A d \in Conn \ {c} : socket'[d] = socket[d]
        /\ socket'[c].user = socket[c].user /\ socket'[c].allowed = socket[c].allowed
    BY <2>1, RemovedIs
  <2>4. QED
    BY <1>s, <2>2, <2>3
<1>8. ASSUME NEW w \in Worker, NEW who \in Hub!Senders, Hub!Send(w, who) PROVE Hub!ReadWhenSeen'
  <2>1. UNCHANGED <<seen, owned>>
    BY <1>8 DEF Hub!Send, Hub!data
  <2>2. CASE feeds[w][who].left = <<>>
    <3>1. got' = got /\ \A d \in Conn : Same(d)
      BY <1>8, <2>2, SendEnds
    <3>2. QED
      BY <1>s, <2>1, <3>1 DEF Same
  <2>3. CASE feeds[w][who].left # <<>>
    <3>1. PICK c \in Conn : c = Head(feeds[w][who].left)
      BY <1>8, <2>3, SendGoesOn
    <3>2. /\ socket' = socket /\ feeds[w][who] # Hub!NoFeed
          /\ \/ got' = got
             \/ /\ Hub!CanReceive(c, feeds[w][who].message) /\ c \in Hub!Members(w)
                /\ got' = [got EXCEPT ![c] = @ + 1]
      BY <1>8, <2>3, <3>1, SendGoesOn
    <3>3. CASE got' = got
      BY <1>s, <2>1, <3>2, <3>3
    <3>4. CASE /\ Hub!CanReceive(c, feeds[w][who].message) /\ c \in Hub!Members(w)
               /\ got' = [got EXCEPT ![c] = @ + 1]
      <4>1. Hub!Was(feeds[w][who].message.owner)
        BY <3>2 DEF Hub!OwnersKnown
      <4>2. socket[c].at = "open"
        BY <3>4 DEF Hub!ListsAgree, Hub!Listed
      <4>3. socket[c].user \in User \cup {Admin}
        BY <4>2 DEF Hub!ListsAgree, Hub!Placed
      <4>4. PICK allowed \in BOOLEAN \cup {None} : allowed = socket[c].allowed
        BY DEF Hub!HubTypes, Hub!Sockets
      <4>5. \/ socket[c].user = Admin
            \/ IF allowed # None THEN allowed
               ELSE feeds[w][who].message.owner = socket[c].user
        BY <3>4, <4>4, Zenon DEF Hub!CanReceive
      <4>6. ASSUME allowed # None, socket[c].user # Admin PROVE allowed = TRUE
        <5>1. allowed \in BOOLEAN
          BY <4>4, <4>6
        <5>2. allowed
          BY <4>5, <4>6
        <5>3. QED
          BY <5>1, <5>2, Zenon
      <4>7. ASSUME allowed = None, socket[c].user # Admin PROVE socket[c].user \in owned
        <5>1. feeds[w][who].message.owner = socket[c].user
          BY <4>5, <4>7
        <5>2. socket[c].user # None
          BY <4>3, <4>7 DEF Hub!HubConstants
        <5>3. QED
          BY <4>1, <5>1, <5>2 DEF Hub!Was
      <4>8. socket[c].user # Admin => IF socket[c].allowed = None THEN socket[c].user \in owned
                                      ELSE socket[c].allowed = TRUE
        BY <4>4, <4>6, <4>7
      <4>9. \A d \in Conn : d # c => got'[d] = got[d]
        BY <3>4 DEF Hub!HubTypes
      <4>10. QED
        BY <2>1, <3>2, <4>8, <4>9 DEF Hub!ReadWhenSeen
    <3>5. QED
      BY <3>2, <3>3, <3>4
  <2>4. QED
    BY <2>2, <2>3
<1>9. ASSUME NEW w \in Worker, NEW c \in Conn, NEW u \in User \cup {Admin}, Hub!Connect(c, w, u)
      PROVE  Hub!ReadWhenSeen'
  <2>1. UNCHANGED <<owner, share, owned, got>> /\ Hub!Witnessed
    BY <1>9 DEF Hub!Connect, Hub!data
  <2>2. /\ socket[c].at = "closed" /\ socket'[c].user = u
        /\ socket'[c].allowed = TRUE => Hub!AllowedSet(u) /\ u \in User
        /\ \A d \in Conn \ {c} : socket'[d] = socket[d]
    BY <1>9, ConnectIs
  <2>3. got[c] = 0
    BY <2>2 DEF Hub!ListsAgree, Hub!Placed
  <2>4. ASSUME socket'[c].allowed = TRUE PROVE c \in seen'
    <3>1. u \in User /\ (u = owner \/ share[u] \notin {"none", "device_only"})
      BY <2>2, <2>4 DEF Hub!AllowedSet
    <3>2. share[u] \in {"none", "device_only", "viewer"}
      BY <3>1 DEF Hub!HubTypes, Hub!Roles
    <3>3. Hub!ListShows(u, owner', share'[u])
      BY <2>1, <3>1, <3>2 DEF Hub!ListShows
    <3>4. QED
      BY <2>1, <2>2, <3>1, <3>3 DEF Hub!Witnessed
  <2>5. seen \subseteq seen'
    BY <1>w, <2>1
  <2>6. ASSUME NEW d \in Conn
        PROVE  /\ socket'[d].allowed = TRUE => d \in seen'
               /\ got'[d] > 0 /\ socket'[d].user # Admin =>
                      IF socket'[d].allowed = None THEN socket'[d].user \in owned'
                      ELSE socket'[d].allowed = TRUE
    <3>1. CASE d = c
      <4>1. ~(got'[d] > 0)
        BY <2>1, <2>3, <3>1
      <4>2. QED
        BY <2>4, <3>1, <4>1
    <3>2. CASE d # c
      <4>1. socket'[d] = socket[d]
        BY <2>2, <3>2
      <4>2. QED
        BY <2>1, <2>5, <4>1 DEF Hub!ReadWhenSeen
    <3>3. QED
      BY <3>1, <3>2
  <2>7. QED
    BY <2>6 DEF Hub!ReadWhenSeen
<1>10. QED
    BY <1>1, <1>2, <1>3, <1>4, <1>5, <1>6, <1>7, <1>8, <1>9 DEF Hub!Next

\* Every step keeps: a worker that does not know the owner has yet to hear of it.
LEMMA NewsStep ==
    ASSUME Hub!HubConstants, Hub!HubTypes, Hub!HubTypes', Hub!NewsToCome, [Hub!Next]_Hub!vars
    PROVE  Hub!NewsToCome'
<1> SUFFICES ASSUME ~overlapped', ~missed'
             PROVE  /\ \A w \in Worker : Hub!NewsOf(w)'
                    /\ \A m \in tasks' : m.owner = owner'
    BY Zenon DEF Hub!NewsToCome
<1> DEFINE Goal == /\ \A w \in Worker : Hub!NewsOf(w)'
                   /\ \A m \in tasks' : m.owner = owner'
<1>t. /\ owner \in Hub!Owners /\ changing \in [Worker -> Hub!Owners \cup {Hub!Idle}]
      /\ cache \in [Worker -> Hub!Owners] /\ inbox \in [Worker -> Seq(Hub!Messages)]
      /\ tasks \subseteq Hub!Announcements
    BY DEF Hub!HubTypes
<1>n. ASSUME ~overlapped, ~missed
      PROVE  /\ \A w \in Worker : Hub!NewsOf(w)
             /\ \A m \in tasks : m.owner = owner
    BY <1>n, Zenon DEF Hub!NewsToCome
<1>u. ASSUME UNCHANGED <<owner, changing, tasks, inbox, cache, overlapped, missed>> PROVE Goal
  <2>1. ~overlapped /\ ~missed
    BY <1>u, Zenon
  <2>2. QED
    BY <1>n, <1>u, <2>1 DEF Hub!NewsOf, Hub!ToHear
<1>1. ASSUME NEW w \in Worker, Hub!UpdateOwner(w) PROVE Goal
  <2>1. /\ changing[w] # Hub!Idle /\ Hub!Announced(changing[w])
        /\ cache' = [cache EXCEPT ![w] = changing[w]]
        /\ changing' = [changing EXCEPT ![w] = Hub!Idle]
        /\ missed' = (missed \/ (~redis /\ Cardinality(Worker) > 1))
        /\ UNCHANGED <<owner, inbox, overlapped>>
    BY <1>1 DEF Hub!UpdateOwner, Hub!Cardinality, Cardinality
  <2>2. ~overlapped /\ ~missed /\ (redis \/ ~(Cardinality(Worker) > 1))
    BY <2>1, Zenon
  <2>3. changing[w] = owner
    BY <1>n, <2>1, <2>2 DEF Hub!NewsOf
  <2>4. /\ \A m \in tasks' : m \in tasks \/ m.owner = owner
        /\ redis => tasks' # {}
    BY <1>t, <2>1, <2>3, AnnouncedIs
  <2>5. ASSUME ~redis, NEW v \in Worker PROVE v = w
    <3>1. ~(Cardinality(Worker) > 1) /\ IsFiniteSet(Worker)
      BY <2>2, <2>5 DEF Hub!HubConstants, Hub!IsFiniteSet, IsFiniteSet
    <3>2. ASSUME v # w PROVE FALSE
      <4>1. IsFiniteSet({v}) /\ Cardinality({v}) = 1 /\ w \notin {v}
        BY <3>2, FS_Singleton
      <4>2. Cardinality({v} \cup {w}) = 2
        BY <4>1, FS_AddElement
      <4>3. {v} \cup {w} \subseteq Worker
        OBVIOUS
      <4>4. Cardinality({v} \cup {w}) <= Cardinality(Worker) /\ Cardinality(Worker) \in Nat
        BY <3>1, <4>3, FS_Subset, FS_CardinalityType
      <4>5. QED
        BY <3>1, <4>2, <4>4
    <3>3. QED
      BY <3>2
  <2>6. ASSUME NEW v \in Worker PROVE Hub!NewsOf(v)'
    <3>1. cache'[v] = owner' \/ Hub!ToHear(v)'
      BY <1>t, <2>1, <2>3, <2>4, <2>5 DEF Hub!ToHear
    <3>2. changing'[v] \in {Hub!Idle, owner'}
      BY <1>n, <1>t, <2>1, <2>2 DEF Hub!NewsOf
    <3>3. QED
      BY <1>n, <2>1, <2>2, <3>1, <3>2 DEF Hub!NewsOf
  <2>7. QED
    BY <1>n, <2>1, <2>2, <2>4, <2>6
<1>2. ASSUME NEW w \in Worker, NEW o \in User \cup {None}, Hub!CommitOwner(w, o) PROVE Goal
  <2>1. /\ owner' = o /\ changing' = [changing EXCEPT ![w] = o]
        /\ UNCHANGED <<tasks, inbox>>
    BY <1>2 DEF Hub!CommitOwner, Hub!bus
  <2>2. ~Hub!InFlight
    BY <1>2, Zenon DEF Hub!CommitOwner
  <2>3. /\ tasks = {} /\ \A v \in Worker : changing[v] = Hub!Idle
        /\ \A v \in Worker : \A i \in DOMAIN inbox[v] : ~Hub!IsAnnouncement(inbox[v][i])
    BY <2>2 DEF Hub!InFlight
  <2>4. changing'[w] = o /\ \A v \in Worker : changing'[v] \in {Hub!Idle, o}
    BY <1>t, <2>1, <2>3
  <2>5. \A v \in Worker : Hub!ToHear(v)'
    <3>1. o # Hub!Idle
      BY DEF Hub!HubConstants
    <3>2. QED
      BY <2>4, <3>1 DEF Hub!ToHear
  <2>6. QED
    BY <2>1, <2>3, <2>4, <2>5 DEF Hub!NewsOf
<1>3. ASSUME NEW w \in Worker, Hub!Broadcast(w) PROVE Goal
  <2>1. PICK o \in Hub!Owners :
            /\ Hub!Scope(w, o)
            /\ \/ Hub!Published(w, Hub!Update(o))
               \/ Hub!Unpublished(w, Hub!Update(o))
               \/ Hub!Unanswered(w, Hub!Update(o))
    BY <1>3 DEF Hub!Broadcast, Hub!Owners
  <2>2. cache' = cache \/ cache' = [cache EXCEPT ![w] = owner]
    BY <2>1 DEF Hub!Scope
  <2>3. PICK m \in Hub!Messages : m = Hub!Update(o) /\ ~Hub!IsAnnouncement(m)
    BY HubMessages
  <2>4. inbox' = inbox \/ Hub!Delivered(m)
    BY <2>1, <2>3 DEF Hub!Published, Hub!Unpublished, Hub!Unanswered
  <2>5. UNCHANGED <<owner, changing, tasks, overlapped, missed>>
    BY <1>3 DEF Hub!Broadcast, Hub!data
  <2>6. ~overlapped /\ ~missed
    BY <2>5, Zenon
  <2>7. ASSUME NEW v \in Worker PROVE Hub!NewsOf(v)'
    <3>1. PICK q \in Seq(Hub!Messages) : q = inbox[v]
      BY <1>t
    <3>2. inbox'[v] = q \/ inbox'[v] = Append(q, m)
      BY <2>4, <3>1, DeliveredIs
    <3>3. /\ \A i \in DOMAIN Append(q, m) :
                 Append(q, m)[i] = m \/ (i \in DOMAIN q /\ Append(q, m)[i] = q[i])
          /\ \A i \in DOMAIN q : i \in DOMAIN Append(q, m) /\ Append(q, m)[i] = q[i]
      BY Appended
    <3>4. PICK r : r = inbox'[v]
      OBVIOUS
    <3>5. /\ \A i \in DOMAIN r : r[i] = m \/ (i \in DOMAIN q /\ r[i] = q[i])
          /\ \A i \in DOMAIN q : i \in DOMAIN r /\ r[i] = q[i]
      BY <3>2, <3>3, <3>4
    <3>6. \A i \in DOMAIN r : Hub!IsAnnouncement(r[i]) => r[i].owner = owner
      BY <1>n, <2>3, <2>6, <3>1, <3>5 DEF Hub!NewsOf
    <3>7. Hub!ToHear(v) => Hub!ToHear(v)'
      BY <2>5, <3>1, <3>4, <3>5 DEF Hub!ToHear
    <3>8. cache'[v] \in {None, owner} \/ Hub!ToHear(v)
      BY <1>n, <1>t, <2>2, <2>6 DEF Hub!NewsOf
    <3>9. changing'[v] \in {Hub!Idle, owner}
      BY <1>n, <2>5, <2>6 DEF Hub!NewsOf
    <3>10. QED
      BY <2>5, <3>4, <3>6, <3>7, <3>8, <3>9 DEF Hub!NewsOf
  <2>8. QED
    BY <1>n, <2>5, <2>6, <2>7
<1>4. ASSUME NEW w \in Worker, Hub!Listen(w) PROVE Goal
  <2>1. PICK q \in Seq(Hub!Messages) : q = inbox[w]
    BY <1>t
  <2>2. PICK m \in Hub!Messages, r \in Seq(Hub!Messages) : m = Head(q) /\ r = Tail(q)
    BY <1>4, <2>1, Taken DEF Hub!Listen
  <2>3. /\ 1 \in DOMAIN q /\ m = q[1]
        /\ \A i \in DOMAIN r : i + 1 \in DOMAIN q /\ r[i] = q[i + 1]
        /\ \A i \in DOMAIN q \ {1} : i - 1 \in DOMAIN r /\ r[i - 1] = q[i]
    <3>1. q # <<>>
      BY <1>4, <2>1 DEF Hub!Listen
    <3>2. /\ 1 \in DOMAIN q /\ Head(q) = q[1]
          /\ \A i \in DOMAIN Tail(q) : i + 1 \in DOMAIN q /\ Tail(q)[i] = q[i + 1]
          /\ \A i \in DOMAIN q \ {1} : i - 1 \in DOMAIN Tail(q) /\ Tail(q)[i - 1] = q[i]
      BY <3>1, Taken
    <3>3. QED
      BY <2>2, <3>2
  <2>4. /\ inbox' = [inbox EXCEPT ![w] = r]
        /\ IF Hub!IsAnnouncement(m) THEN cache' = [cache EXCEPT ![w] = m.owner] ELSE cache' = cache
        /\ UNCHANGED <<owner, changing, tasks, overlapped, missed>>
    BY <1>4, <2>1, <2>2 DEF Hub!Listen, Hub!Heard, Hub!data, Hub!flags
  <2>5. ~overlapped /\ ~missed
    BY <2>4, Zenon
  <2>6. \A i \in DOMAIN q : Hub!IsAnnouncement(q[i]) => q[i].owner = owner
    BY <1>n, <2>1, <2>5 DEF Hub!NewsOf
  <2>7. inbox'[w] = r /\ \A v \in Worker \ {w} : inbox'[v] = inbox[v]
    BY <1>t, <2>4
  <2>8. \A i \in DOMAIN inbox'[w] :
            Hub!IsAnnouncement(inbox'[w][i]) => inbox'[w][i].owner = owner
    BY <2>3, <2>6, <2>7
  <2>9. cache'[w] \in {None, owner} \/ Hub!ToHear(w)'
    <3>1. CASE Hub!IsAnnouncement(m)
      BY <1>t, <2>3, <2>4, <2>6, <3>1
    <3>2. CASE ~Hub!IsAnnouncement(m)
      <4>1. cache[w] \in {None, owner} \/ Hub!ToHear(w)
        BY <1>n, <2>5 DEF Hub!NewsOf
      <4>2. ASSUME NEW i \in DOMAIN q, Hub!IsAnnouncement(q[i])
            PROVE  i - 1 \in DOMAIN r /\ Hub!IsAnnouncement(r[i - 1])
        BY <2>3, <3>2, <4>2
      <4>3. Hub!ToHear(w) => Hub!ToHear(w)'
        BY <2>1, <2>4, <2>7, <4>2 DEF Hub!ToHear
      <4>4. QED
        BY <2>4, <3>2, <4>1, <4>3
    <3>3. QED
      BY <3>1, <3>2
  <2>10. Hub!NewsOf(w)'
    BY <1>n, <2>4, <2>5, <2>8, <2>9 DEF Hub!NewsOf
  <2>11. ASSUME NEW v \in Worker \ {w} PROVE Hub!NewsOf(v)'
    <3>1. cache'[v] = cache[v] /\ inbox'[v] = inbox[v]
      BY <1>t, <2>4, <2>7
    <3>2. QED
      BY <1>n, <2>4, <2>5, <3>1 DEF Hub!NewsOf, Hub!ToHear
  <2>12. QED
    BY <1>n, <2>4, <2>5, <2>10, <2>11
<1>5. ASSUME NEW w \in Worker, Hub!LoseListener(w) PROVE Goal
  <2>1. /\ inbox' = [inbox EXCEPT ![w] = <<>>]
        /\ UNCHANGED <<owner, changing, tasks, cache, overlapped>>
        /\ missed' = (missed \/ \E i \in DOMAIN inbox[w] : Hub!IsAnnouncement(inbox[w][i]))
    BY <1>5 DEF Hub!LoseListener, Hub!data
  <2>2. ~overlapped /\ ~missed /\ \A i \in DOMAIN inbox[w] : ~Hub!IsAnnouncement(inbox[w][i])
    BY <2>1, Zenon
  <2>3. inbox'[w] = <<>> /\ \A v \in Worker \ {w} : inbox'[v] = inbox[v]
    BY <1>t, <2>1
  <2>4. ASSUME NEW v \in Worker PROVE Hub!NewsOf(v)'
    <3>1. Hub!ToHear(v) => Hub!ToHear(v)'
      BY <2>1, <2>2, <2>3 DEF Hub!ToHear
    <3>2. \A i \in DOMAIN inbox'[v] :
              Hub!IsAnnouncement(inbox'[v][i]) => inbox'[v][i].owner = owner
      BY <1>n, <2>2, <2>3 DEF Hub!NewsOf
    <3>3. QED
      BY <1>n, <2>1, <2>2, <3>1, <3>2 DEF Hub!NewsOf
  <2>5. QED
    BY <1>n, <2>1, <2>2, <2>4
<1>6. ASSUME NEW w \in Worker, NEW c \in Conn, NEW u \in User \cup {Admin}, Hub!Connect(c, w, u)
      PROVE  Goal
  <2>1. UNCHANGED <<owner, changing, inbox, missed>>
    BY <1>6 DEF Hub!Connect, Hub!data
  <2>2. \/ /\ u = owner /\ cache' = [cache EXCEPT ![w] = u] /\ Hub!Announced(u)
           /\ overlapped' = (overlapped \/ Hub!InFlight)
        \/ cache' = cache /\ tasks' = tasks /\ overlapped' = overlapped
    BY <1>6, ConnectIs
  <2>3. ~overlapped /\ ~missed
    <3>1. overlapped' = (overlapped \/ Hub!InFlight) \/ overlapped' = overlapped
      BY <2>2, Zenon
    <3>2. ~overlapped
      BY <3>1, Zenon
    <3>3. QED
      BY <2>1, <3>2, Zenon
  <2>4. ASSUME u = owner, Hub!Announced(u)
        PROVE  tasks \subseteq tasks' /\ \A m \in tasks' : m \in tasks \/ m.owner = owner
    BY <1>t, <2>4, AnnouncedIs
  <2>5. tasks \subseteq tasks' /\ \A m \in tasks' : m.owner = owner
    BY <1>n, <2>2, <2>3, <2>4
  <2>6. ASSUME NEW v \in Worker PROVE Hub!NewsOf(v)'
    <3>1. Hub!ToHear(v) => Hub!ToHear(v)'
      BY <2>1, <2>5 DEF Hub!ToHear
    <3>2. cache'[v] \in {None, owner} \/ Hub!ToHear(v)
      BY <1>n, <1>t, <2>2, <2>3 DEF Hub!NewsOf
    <3>3. QED
      BY <1>n, <2>1, <2>3, <3>1, <3>2 DEF Hub!NewsOf
  <2>7. QED
    BY <2>1, <2>5, <2>6
<1>7. ASSUME NEW m \in tasks, Hub!Publish(m) PROVE Goal
  <2>1. /\ UNCHANGED <<owner, changing, cache, overlapped>> /\ tasks' = tasks \ {m}
        /\ \/ Hub!Delivered(m) /\ missed' = (missed \/ listening # Worker)
           \/ missed' = TRUE
    BY <1>7 DEF Hub!Publish, Hub!data
  <2>2. ~overlapped /\ ~missed /\ Hub!Delivered(m) /\ listening = Worker
    BY <2>1, Zenon
  <2>3. m \in Hub!Messages /\ Hub!IsAnnouncement(m) /\ m.owner = owner
    BY <1>n, <1>t, <2>2, HubMessages
  <2>4. ASSUME NEW v \in Worker PROVE Hub!NewsOf(v)'
    <3>1. PICK q \in Seq(Hub!Messages) : q = inbox[v]
      BY <1>t
    <3>2. PICK r : r = Append(q, m)
      OBVIOUS
    <3>3. inbox'[v] = r
      BY <2>2, <2>3, <3>1, <3>2, DeliveredIs
    <3>4. /\ \A i \in DOMAIN r : r[i] = m \/ (i \in DOMAIN q /\ r[i] = q[i])
          /\ \E i \in DOMAIN r : r[i] = m
      <4>1. /\ \A i \in DOMAIN Append(q, m) :
                   Append(q, m)[i] = m \/ (i \in DOMAIN q /\ Append(q, m)[i] = q[i])
            /\ \E i \in DOMAIN Append(q, m) : Append(q, m)[i] = m
        BY <2>3, Appended
      <4>2. QED
        BY <3>2, <4>1
    <3>5. Hub!ToHear(v)'
      BY <2>3, <3>3, <3>4 DEF Hub!ToHear
    <3>6. \A i \in DOMAIN r : Hub!IsAnnouncement(r[i]) => r[i].owner = owner
      BY <1>n, <2>2, <2>3, <3>1, <3>4 DEF Hub!NewsOf
    <3>7. QED
      BY <1>n, <2>1, <2>2, <3>3, <3>5, <3>6 DEF Hub!NewsOf
  <2>5. QED
    BY <1>n, <2>1, <2>2, <2>4
<1>8. ASSUME NEW u \in User, NEW role \in Hub!Roles, Hub!ShareDevice(u, role) PROVE Goal
    BY <1>u, <1>8 DEF Hub!ShareDevice, Hub!bus, Hub!flags
<1>9. ASSUME NEW c \in Conn, Hub!Evict(c) \/ Hub!Disconnect(c) \/ Hub!Prune(c) PROVE Goal
    BY <1>u, <1>9 DEF Hub!Evict, Hub!Disconnect, Hub!Prune, Hub!data, Hub!bus, Hub!flags
<1>10. ASSUME NEW w \in Worker, Hub!Resubscribe(w) PROVE Goal
    BY <1>u, <1>10 DEF Hub!Resubscribe, Hub!data, Hub!flags
<1>11. ASSUME NEW w \in Worker, NEW who \in Hub!Senders, Hub!Send(w, who) PROVE Goal
    BY <1>u, <1>11 DEF Hub!Send, Hub!data, Hub!bus, Hub!flags
<1>12. ASSUME UNCHANGED Hub!vars PROVE Goal
    BY <1>u, <1>12 DEF Hub!vars
<1>13. QED
    BY <1>1, <1>2, <1>3, <1>4, <1>5, <1>6, <1>7, <1>8, <1>9, <1>10, <1>11, <1>12 DEF Hub!Next

\* Every step keeps: there is room for the one that waits, or its victim is still listed.
LEMMA RoomStep ==
    ASSUME Hub!HubConstants, Hub!HubTypes, Hub!HubTypes', Hub!ListsAgree, Hub!ListsAgree',
           Hub!RoomToCome, [Hub!Next]_Hub!vars
    PROVE  Hub!RoomToCome'
<1> SUFFICES ASSUME ~crowded'
             PROVE  /\ \A w \in Worker : Len(conns'[w]) <= Limit
                    /\ \A c \in Conn : socket'[c].at = "evicting" => Hub!RoomFor(c)'
    BY Zenon DEF Hub!RoomToCome
<1> DEFINE Goal == /\ \A w \in Worker : Len(conns'[w]) <= Limit
                   /\ \A c \in Conn : socket'[c].at = "evicting" => Hub!RoomFor(c)'
<1>t. /\ Limit \in Nat \ {0}
      /\ \A w \in Worker : Len(conns[w]) \in Nat /\ Len(conns'[w]) \in Nat
  <2>1. \A w \in Worker : conns[w] \in Seq(Conn) /\ conns'[w] \in Seq(Conn)
    BY DEF Hub!HubTypes
  <2>2. QED
    BY <2>1 DEF Hub!HubConstants
<1>p. \A c \in Conn : socket[c].at = "evicting" => socket[c].worker \in Worker
    BY DEF Hub!ListsAgree, Hub!Placed
<1>n. ASSUME ~crowded
      PROVE  /\ \A w \in Worker : Len(conns[w]) <= Limit
             /\ \A c \in Conn : socket[c].at = "evicting" => Hub!RoomFor(c)
    BY <1>n, Zenon DEF Hub!RoomToCome
<1>u. ASSUME UNCHANGED <<conns, socket, crowded>> PROVE Goal
  <2>1. ~crowded
    BY <1>u, Zenon
  <2>2. QED
    BY <1>n, <1>u, <2>1 DEF Hub!RoomFor, Hub!Members
\* Lists that only lose connections leave the room there was.
<1>s. ASSUME UNCHANGED crowded, \A w \in Worker : \E S : Loses(w, S),
             \A d \in Conn : socket'[d].at = "evicting" => socket'[d] = socket[d]
      PROVE  Goal
  <2>1. ~crowded
    BY <1>s, Zenon
  <2>2. ASSUME NEW w \in Worker PROVE Len(conns'[w]) <= Limit
    <3>1. Len(conns'[w]) <= Len(conns[w])
      BY <1>s DEF Loses
    <3>2. QED
      BY <1>n, <1>t, <2>1, <3>1
  <2>3. ASSUME NEW c \in Conn, socket'[c].at = "evicting" PROVE Hub!RoomFor(c)'
    <3>1. socket'[c] = socket[c] /\ Hub!RoomFor(c)
      BY <1>n, <1>s, <2>1, <2>3
    <3>2. PICK w \in Worker : w = socket[c].worker
      BY <1>p, <2>3, <3>1
    <3>3. PICK S : Loses(w, S)
      BY <1>s
    <3>4. Len(conns'[w]) < Limit \/ socket[c].victim \in Hub!Members(w)'
      <4>1. CASE Len(conns[w]) < Limit
        BY <1>t, <3>3, <4>1 DEF Loses
      <4>2. CASE socket[c].victim \in Hub!Members(w)
        <5>1. socket[c].victim \in Hub!Members(w)' \/ Hub!Members(w) \cap S # {}
          BY <3>3, <4>2 DEF Loses
        <5>2. Hub!Members(w) \cap S # {} => Len(conns'[w]) < Len(conns[w])
          BY <3>3 DEF Loses
        <5>3. Len(conns[w]) <= Limit
          BY <1>n, <2>1
        <5>4. QED
          BY <1>t, <5>1, <5>2, <5>3
      <4>3. QED
        BY <3>1, <3>2, <4>1, <4>2 DEF Hub!RoomFor
    <3>5. \A d \in Conn : socket'[d].at = "evicting" /\ socket'[d].worker = w => d = c
      BY <1>s, <3>1, <3>2 DEF Hub!RoomFor
    <3>6. QED
      BY <3>1, <3>2, <3>4, <3>5 DEF Hub!RoomFor
  <2>4. QED
    BY <2>2, <2>3
<1>1. ASSUME NEW w \in Worker, NEW who \in Hub!Senders, Hub!Send(w, who) PROVE Goal
  <2>1. UNCHANGED crowded
    BY <1>1 DEF Hub!Send, Hub!flags
  <2>2. CASE feeds[w][who].left # <<>>
    <3>1. conns' = conns /\ socket' = socket
      BY <1>1, <2>2, SendGoesOn
    <3>2. QED
      BY <1>u, <2>1, <3>1
  <2>3. CASE feeds[w][who].left = <<>>
    <3>1. /\ Loses(w, feeds[w][who].dead)
          /\ \A v \in Worker \ {w} : conns'[v] = conns[v]
          /\ \A d \in Conn : IF d \in feeds[w][who].dead /\ socket[d].at = "open"
                             THEN socket'[d].at = "deaf" ELSE socket'[d] = socket[d]
      BY <1>1, <2>3, SendEnds
    <3>2. ASSUME NEW v \in Worker, conns'[v] = conns[v] PROVE Loses(v, {})
      <4>1. conns[v] \in Seq(Conn)
        BY DEF Hub!HubTypes
      <4>2. QED
        BY <1>t, <3>2, <4>1 DEF Loses, Hub!Members
    <3>3. \A v \in Worker : \E S : Loses(v, S)
      BY <3>1, <3>2
    <3>4. \A d \in Conn : socket'[d].at = "evicting" => socket'[d] = socket[d]
      BY <3>1
    <3>5. QED
      BY <1>s, <2>1, <3>3, <3>4
  <2>4. QED
    BY <2>2, <2>3
<1>2. ASSUME NEW c \in Conn, Hub!Disconnect(c) \/ Hub!Prune(c) PROVE Goal
  <2>1. PICK at \in {"left", "deaf"} : Hub!Removed(c, at)
    BY <1>2 DEF Hub!Disconnect, Hub!Prune
  <2>2. /\ \A w \in Worker : Loses(w, {c})
        /\ \A d \in Conn \ {c} : socket'[d] = socket[d]
        /\ socket'[c].at = at
    BY <2>1, RemovedIs DEF Hub!Stages
  <2>3. UNCHANGED crowded
    BY <1>2 DEF Hub!Disconnect, Hub!Prune, Hub!flags
  <2>4. \A d \in Conn : socket'[d].at = "evicting" => socket'[d] = socket[d]
    BY <2>1, <2>2
  <2>5. QED
    BY <1>s, <2>2, <2>3, <2>4
<1>3. ASSUME NEW c \in Conn, Hub!Evict(c) PROVE Goal
  <2>1. UNCHANGED crowded
    BY <1>3 DEF Hub!Evict, Hub!flags
  <2>2. ~crowded
    BY <2>1, Zenon
  <2>3. PICK w \in Worker, v \in Conn \ {c} :
            /\ w = socket[c].worker /\ v = socket[c].victim
            /\ socket[c].at = "evicting"
            /\ \A u \in Worker \ {w} : conns'[u] = conns[u]
            /\ Len(conns'[w]) <= Len(conns[w]) + 1
            /\ v \in Hub!Members(w) => Len(conns'[w]) <= Len(conns[w])
            /\ \A d \in Conn \ {c, v} : socket'[d] = socket[d]
            /\ socket'[c].at = "open" /\ socket'[v].at = "left"
    BY <1>3, EvictIs
  <2>4. Hub!RoomFor(c) /\ Len(conns[w]) <= Limit
    BY <1>n, <2>2, <2>3
  <2>5. Len(conns'[w]) <= Limit
    <3>1. Len(conns[w]) < Limit \/ v \in Hub!Members(w)
      BY <2>3, <2>4 DEF Hub!RoomFor
    <3>2. QED
      BY <1>t, <2>3, <2>4, <3>1
  <2>6. \A u \in Worker : Len(conns'[u]) <= Limit
    BY <1>n, <2>2, <2>3, <2>5
  <2>7. ASSUME NEW d \in Conn, socket'[d].at = "evicting" PROVE Hub!RoomFor(d)'
    <3>1. d \notin {c, v} /\ socket'[d] = socket[d]
      BY <2>3, <2>7
    <3>2. Hub!RoomFor(d) /\ socket[d].at = "evicting"
      BY <1>n, <2>2, <2>7, <3>1
    <3>3. PICK u \in Worker : u = socket[d].worker
      BY <1>p, <3>2
    <3>4. u # w
      BY <2>3, <2>4, <3>1, <3>2, <3>3 DEF Hub!RoomFor
    <3>5. conns'[u] = conns[u]
      BY <2>3, <3>4
    <3>6. Hub!Members(u)' = Hub!Members(u)
      BY <3>5 DEF Hub!Members
    <3>7. \A e \in Conn : socket'[e].at = "evicting" /\ socket'[e].worker = u => e = d
      BY <2>3, <3>2, <3>3 DEF Hub!RoomFor
    <3>8. QED
      BY <3>1, <3>2, <3>3, <3>5, <3>6, <3>7 DEF Hub!RoomFor
  <2>8. QED
    BY <2>6, <2>7
<1>4. ASSUME NEW w \in Worker, NEW c \in Conn, NEW u \in User \cup {Admin}, Hub!Connect(c, w, u)
      PROVE  Goal
  <2>1. crowded' = (crowded \/ Hub!Waiting(w))
    BY <1>4 DEF Hub!Connect
  <2>2. ~crowded /\ ~Hub!Waiting(w)
    BY <2>1, Zenon
  <2>3. \A d \in Conn : socket[d].at = "evicting" => socket[d].worker # w
    BY <2>2 DEF Hub!Waiting
  <2>4. /\ socket[c].at = "closed" /\ socket'[c].worker = w
        /\ \A d \in Conn \ {c} : socket'[d] = socket[d]
    BY <1>4, ConnectIs
  <2>5. \/ /\ Len(conns[w]) < Limit /\ socket'[c].at = "open"
           /\ conns'[w] = Append(conns[w], c)
           /\ \A v \in Worker \ {w} : conns'[v] = conns[v]
        \/ /\ socket'[c].at = "evicting"
           /\ conns' = conns /\ conns[w] # <<>> /\ socket'[c].victim = Head(conns[w])
    BY <1>4, ConnectIs
  <2>6. conns[w] \in Seq(Conn)
    BY DEF Hub!HubTypes
  <2>7. Len(Append(conns[w], c)) = Len(conns[w]) + 1
    BY <2>6
  <2>8. \A v \in Worker : Len(conns'[v]) <= Limit
    BY <1>n, <1>t, <2>2, <2>5, <2>7
  <2>9. ASSUME NEW d \in Conn \ {c}, socket'[d].at = "evicting" PROVE Hub!RoomFor(d)'
    <3>1. socket'[d] = socket[d] /\ Hub!RoomFor(d)
      BY <1>n, <2>2, <2>4, <2>9
    <3>2. PICK v \in Worker : v = socket[d].worker /\ v # w
      BY <1>p, <2>3, <2>9, <3>1
    <3>3. conns'[v] = conns[v]
      BY <2>5, <3>2
    <3>4. Hub!Members(v)' = Hub!Members(v)
      BY <3>3 DEF Hub!Members
    <3>5. \A e \in Conn : socket'[e].at = "evicting" /\ socket'[e].worker = v => e = d
      BY <2>4, <3>1, <3>2 DEF Hub!RoomFor
    <3>6. QED
      BY <3>1, <3>2, <3>3, <3>4, <3>5 DEF Hub!RoomFor
  <2>10. ASSUME socket'[c].at = "evicting" PROVE Hub!RoomFor(c)'
    <3>1. conns' = conns /\ conns[w] # <<>> /\ socket'[c].victim = Head(conns[w])
      BY <2>5, <2>10
    <3>2. Head(conns[w]) \in Hub!Members(w)
      BY <2>6, <3>1, Taken DEF Hub!Members
    <3>3. socket'[c].victim \in Hub!Members(w)'
      BY <3>1, <3>2 DEF Hub!Members
    <3>4. \A e \in Conn : socket'[e].at = "evicting" /\ socket'[e].worker = w => e = c
      BY <2>3, <2>4
    <3>5. QED
      BY <2>4, <3>3, <3>4 DEF Hub!RoomFor
  <2>11. QED
    BY <2>8, <2>9, <2>10
<1>5. ASSUME NEW w \in Worker,
             \/ Hub!UpdateOwner(w) \/ Hub!Broadcast(w) \/ Hub!Listen(w) \/ Hub!LoseListener(w)
             \/ Hub!Resubscribe(w)
      PROVE  Goal
    BY <1>5, <1>u DEF Hub!UpdateOwner, Hub!Broadcast, Hub!Listen, Hub!LoseListener, Hub!Resubscribe,
                      Hub!flags
<1>6. ASSUME NEW w \in Worker, NEW o \in User \cup {None}, Hub!CommitOwner(w, o) PROVE Goal
    BY <1>6, <1>u DEF Hub!CommitOwner
<1>7. ASSUME NEW m \in tasks, Hub!Publish(m) PROVE Goal
    BY <1>7, <1>u DEF Hub!Publish
<1>8. ASSUME NEW u \in User, NEW role \in Hub!Roles, Hub!ShareDevice(u, role) PROVE Goal
    BY <1>8, <1>u DEF Hub!ShareDevice, Hub!flags
<1>9. ASSUME UNCHANGED Hub!vars PROVE Goal
    BY <1>9, <1>u DEF Hub!vars
<1>10. QED
    BY <1>1, <1>2, <1>3, <1>4, <1>5, <1>6, <1>7, <1>8, <1>9 DEF Hub!Next

\* Every step keeps: the update is in one place at each worker, before who has not had it.
LEMMA OnePlaceStep ==
    ASSUME Hub!HubConstants, Hub!HubTypes, Hub!HubTypes', Hub!ListsAgree, Hub!InOnePlace,
           [Hub!Next]_Hub!vars
    PROVE  Hub!InOnePlace'
<1> DEFINE Goal == /\ \A c \in Conn : got'[c] <= 1
                   /\ update' = "none" => Hub!Unsent'
                   /\ \A w \in Worker : Hub!OnePlace(w)'
<1> SUFFICES ASSUME ~unanswered' PROVE Goal
    BY Zenon DEF Hub!InOnePlace
<1>t. /\ got \in [Conn -> Nat] /\ inbox \in [Worker -> Seq(Hub!Messages)]
      /\ tasks \subseteq Hub!Announcements /\ conns \in [Worker -> Seq(Conn)]
    BY DEF Hub!HubTypes
<1>a. /\ "handler" \in Hub!Senders /\ "listener" \in Hub!Senders
      /\ \A k \in Hub!Senders : k = "handler" \/ k = "listener"
      /\ Hub!NoFeed \in Hub!Deliveries /\ Hub!NoFeed.left = <<>> /\ DOMAIN <<>> = {}
    BY HubMessages DEF Hub!Senders
<1>n. ASSUME ~unanswered
      PROVE  /\ \A c \in Conn : got[c] <= 1
             /\ update = "none" => Hub!Unsent
             /\ \A w \in Worker : Hub!OnePlace(w)
    BY <1>n, Zenon DEF Hub!InOnePlace
\* Connections stay at their workers, but for those that come and have had nothing.
<1>u. ASSUME UNCHANGED <<got, update, inbox, feeds, unanswered>>,
             \A d \in Conn : socket'[d].worker = socket[d].worker \/ got[d] = 0
      PROVE  Goal
  <2>1. ~unanswered
    BY <1>u, Zenon
  <2>2. \A w \in Worker : Hub!Unread(w)' = Hub!Unread(w)
    BY <1>u DEF Hub!Unread
  <2>3. \A w \in Worker : \A d \in Hub!AtWorker(w)' : d \in Hub!AtWorker(w) \/ got[d] = 0
    BY <1>u DEF Hub!AtWorker
  <2>4. ASSUME NEW w \in Worker PROVE Hub!OnePlace(w)'
    BY <1>n, <1>u, <2>1, <2>2, <2>3 DEF Hub!OnePlace
  <2>5. update = "none" => Hub!Unsent'
    BY <1>n, <1>u, <2>1, <2>2 DEF Hub!Unsent
  <2>6. QED
    BY <1>n, <1>u, <2>1, <2>4, <2>5
\* Only what there is to read changes, and no worker has more updates to read.
<1>r. ASSUME UNCHANGED <<got, update, feeds, unanswered, socket>>,
             \A w \in Worker : \/ Hub!Unread(w)' = Hub!Unread(w)
                               \/ Hub!Unread(w)' = {}
                               \/ /\ \A i, j \in Hub!Unread(w)' : i = j
                                  /\ Hub!Unread(w) # {}
      PROVE  Goal
  <2>1. ~unanswered
    BY <1>r, Zenon
  <2>2. ASSUME NEW w \in Worker PROVE Hub!OnePlace(w)'
    <3>1. Hub!OnePlace(w) /\ Hub!AtWorker(w)' = Hub!AtWorker(w)
      BY <1>n, <1>r, <2>1 DEF Hub!AtWorker
    <3>2. /\ \A i, j \in Hub!Unread(w)' : i = j
          /\ Hub!Unread(w)' # {} => Hub!Unread(w) # {}
      BY <1>r, <3>1 DEF Hub!OnePlace
    <3>3. QED
      BY <1>r, <3>1, <3>2 DEF Hub!OnePlace
  <2>3. update = "none" => Hub!Unsent'
    BY <1>n, <1>r, <2>1 DEF Hub!Unsent
  <2>4. QED
    BY <1>n, <1>r, <2>1, <2>2, <2>3
<1>1. ASSUME NEW m \in tasks, Hub!Publish(m) PROVE Goal
  <2>1. /\ UNCHANGED <<got, update, feeds, unanswered, socket>>
        /\ inbox' = inbox \/ Hub!Delivered(m)
    BY <1>1 DEF Hub!Publish
  <2>2. m \in Hub!Messages /\ Hub!IsAnnouncement(m)
    BY <1>t, HubMessages
  <2>3. ASSUME NEW v \in Worker PROVE Hub!Unread(v)' = Hub!Unread(v)
    <3>1. PICK q \in Seq(Hub!Messages) : q = inbox[v]
      BY <1>t
    <3>2. inbox'[v] = q \/ inbox'[v] = Append(q, m)
      BY <2>1, <2>2, <3>1, DeliveredIs
    <3>3. /\ \A i \in DOMAIN Append(q, m) :
                 Append(q, m)[i] = m \/ (i \in DOMAIN q /\ Append(q, m)[i] = q[i])
          /\ \A i \in DOMAIN q : i \in DOMAIN Append(q, m) /\ Append(q, m)[i] = q[i]
      BY Appended
    <3>4. PICK r : r = inbox'[v]
      OBVIOUS
    <3>5. /\ \A i \in DOMAIN r : r[i] = m \/ (i \in DOMAIN q /\ r[i] = q[i])
          /\ \A i \in DOMAIN q : i \in DOMAIN r /\ r[i] = q[i]
      BY <3>2, <3>3, <3>4
    <3>6. QED
      BY <2>2, <3>1, <3>4, <3>5 DEF Hub!Unread
  <2>4. QED
    BY <1>r, <2>1, <2>3
<1>2. ASSUME NEW w \in Worker, Hub!LoseListener(w) PROVE Goal
  <2>1. /\ UNCHANGED <<got, update, feeds, unanswered, socket>>
        /\ inbox' = [inbox EXCEPT ![w] = <<>>]
    BY <1>2 DEF Hub!LoseListener
  <2>2. inbox'[w] = <<>> /\ \A v \in Worker \ {w} : inbox'[v] = inbox[v]
    BY <1>t, <2>1
  <2>3. \A v \in Worker : Hub!Unread(v)' = Hub!Unread(v) \/ Hub!Unread(v)' = {}
    BY <2>2 DEF Hub!Unread
  <2>4. QED
    BY <1>r, <2>1, <2>3
<1>3. ASSUME NEW w \in Worker, Hub!Broadcast(w) PROVE Goal
  <2>1. PICK o \in Hub!Owners :
            \/ Hub!Published(w, Hub!Update(o))
            \/ Hub!Unpublished(w, Hub!Update(o))
            \/ Hub!Unanswered(w, Hub!Update(o))
    BY <1>3 DEF Hub!Broadcast, Hub!Owners
  <2>2. PICK m \in Hub!Messages : m = Hub!Update(o)
    BY HubMessages
  <2>3. PICK x \in Hub!Deliveries : x = Hub!Feed(w, m)
    BY HubMessages
  <2>4. \/ feeds' = feeds /\ Hub!Delivered(m) /\ UNCHANGED unanswered
        \/ /\ inbox' = inbox /\ feeds' = [feeds EXCEPT ![w]["handler"] = x]
           /\ UNCHANGED unanswered
    <3>1. ~Hub!Unanswered(w, Hub!Update(o))
      BY Zenon DEF Hub!Unanswered
    <3>2. QED
      BY <2>1, <2>2, <2>3, <3>1 DEF Hub!Published, Hub!Unpublished, Hub!DeliverLocally
  <2>5. update = "none" /\ update' = "out" /\ got' = got
    BY <1>3 DEF Hub!Broadcast
  <2>6. ~unanswered
    <3>1. UNCHANGED unanswered
      BY <2>4
    <3>2. QED
      BY <3>1, Zenon
  <2>7. /\ \A v \in Worker : Hub!Unread(v) = {} /\ \A k \in Hub!Senders : feeds[v][k] = Hub!NoFeed
        /\ \A c \in Conn : got'[c] = 0
    BY <1>n, <2>5, <2>6 DEF Hub!Unsent
  <2>8. ASSUME NEW d \in Hub!Deliveries, NEW i \in DOMAIN d.left PROVE got'[d.left[i]] = 0
    <3>1. d.left \in Seq(Conn)
      BY DEF Hub!Deliveries
    <3>2. d.left[i] \in Conn
      BY <2>8, <3>1
    <3>3. QED
      BY <2>7, <3>2
  <2>9. \A v \in Worker, k \in Hub!Senders : feeds'[v][k] \in Hub!Deliveries
    BY DEF Hub!HubTypes
  <2>10. \A c : c \in Conn => got'[c] <= 1
    BY <2>7
  <2>11. CASE feeds' = feeds /\ Hub!Delivered(m)
    <3>1. ASSUME NEW v \in Worker PROVE \A i, j \in Hub!Unread(v)' : i = j
      <4>1. PICK q \in Seq(Hub!Messages) : q = inbox[v]
        BY <1>t
      <4>2. inbox'[v] = q \/ inbox'[v] = Append(q, m)
        BY <2>11, <4>1, DeliveredIs
      <4>3. \A i \in DOMAIN q : Hub!IsAnnouncement(q[i])
        BY <2>7, <4>1 DEF Hub!Unread
      <4>4. /\ \A i \in DOMAIN q : i \in DOMAIN Append(q, m) /\ Append(q, m)[i] = q[i]
            /\ \A i, j \in DOMAIN Append(q, m) : i \in DOMAIN q \/ j \in DOMAIN q \/ i = j
        BY Appended
      <4>5. PICK r : r = inbox'[v]
        OBVIOUS
      <4>6. \A i, j \in DOMAIN r : Hub!IsAnnouncement(r[i]) \/ Hub!IsAnnouncement(r[j]) \/ i = j
        <5>1. CASE r = q
          BY <4>3, <5>1
        <5>2. CASE r = Append(q, m)
          BY <4>3, <4>4, <5>2
        <5>3. QED
          BY <4>2, <4>5, <5>1, <5>2
      <4>7. QED
        BY <4>5, <4>6 DEF Hub!Unread
    <3>2. ASSUME NEW v \in Worker PROVE Hub!OnePlace(v)'
      <4>1. /\ \A k \in Hub!Senders : feeds'[v][k] = Hub!NoFeed
            /\ \A c \in Hub!AtWorker(v)' : got'[c] = 0
        BY <2>7, <2>11 DEF Hub!AtWorker
      <4>2. QED
        BY <1>a, <3>1, <4>1 DEF Hub!OnePlace
    <3>3. QED
      BY <2>5, <2>10, <3>2
  <2>12. CASE inbox' = inbox /\ feeds' = [feeds EXCEPT ![w]["handler"] = x]
    <3>1. \A v \in Worker, k \in Hub!Senders :
              feeds'[v][k] = IF v = w /\ k = "handler" THEN x ELSE feeds[v][k]
      BY <1>a, <2>12, FeedSet
    <3>2. ASSUME NEW v \in Worker PROVE Hub!OnePlace(v)'
      <4>1. Hub!Unread(v)' = {}
        BY <2>7, <2>12 DEF Hub!Unread
      <4>2. \A j, k \in Hub!Senders : j # k => \/ feeds'[v][j] = Hub!NoFeed
                                               \/ feeds'[v][k] = Hub!NoFeed
        BY <2>7, <3>1
      <4>3. QED
        BY <2>8, <2>9, <4>1, <4>2 DEF Hub!OnePlace
    <3>3. QED
      BY <2>5, <2>10, <3>2
  <2>13. QED
    BY <2>4, <2>11, <2>12
<1>4. ASSUME NEW w \in Worker, Hub!Listen(w) PROVE Goal
  <2>1. PICK q \in Seq(Hub!Messages) : q = inbox[w] /\ q # <<>>
    BY <1>4, <1>t DEF Hub!Listen
  <2>2. PICK m \in Hub!Messages, r \in Seq(Hub!Messages) : m = Head(q) /\ r = Tail(q)
    BY <2>1, Taken
  <2>3. /\ 1 \in DOMAIN q /\ m = q[1]
        /\ \A i \in DOMAIN r : i + 1 \in DOMAIN q /\ i + 1 # 1 /\ r[i] = q[i + 1] /\ i \in Nat
    <3>1. /\ 1 \in DOMAIN q /\ Head(q) = q[1]
          /\ \A i \in DOMAIN Tail(q) : i + 1 \in DOMAIN q /\ i + 1 # 1 /\ Tail(q)[i] = q[i + 1]
      BY <2>1, Taken
    <3>2. \A i \in DOMAIN r : i \in Nat
      OBVIOUS
    <3>3. QED
      BY <2>2, <3>1, <3>2
  <2>4. PICK x \in Hub!Deliveries : x = Hub!Feed(w, m) /\ x.left = conns[w]
    BY HubMessages
  <2>5. /\ inbox' = [inbox EXCEPT ![w] = r] /\ feeds[w]["listener"] = Hub!NoFeed
        /\ IF Hub!IsAnnouncement(m) THEN feeds' = feeds
           ELSE feeds' = [feeds EXCEPT ![w]["listener"] = x]
        /\ UNCHANGED <<got, update, unanswered, socket, conns>>
    BY <1>4, <2>1, <2>2, <2>4 DEF Hub!Listen, Hub!flags
  <2>6. ~unanswered
    BY <2>5, Zenon
  <2>7. Hub!OnePlace(w)
    BY <1>n, <2>6
  <2>8. inbox'[w] = r /\ \A v \in Worker \ {w} : inbox'[v] = inbox[v]
    BY <1>t, <2>5
  <2>9. ASSUME NEW i \in Hub!Unread(w)' PROVE i + 1 \in Hub!Unread(w) /\ i \in Nat /\ i + 1 # 1
    BY <2>1, <2>3, <2>8 DEF Hub!Unread
  <2>10. \A i, j \in Hub!Unread(w)' : i = j
    <3>1. ASSUME NEW i \in Hub!Unread(w)', NEW j \in Hub!Unread(w)' PROVE i = j
      <4>1. i + 1 = j + 1
        BY <2>7, <2>9 DEF Hub!OnePlace
      <4>2. QED
        BY <2>9, <4>1
    <3>2. QED
      BY <3>1
  <2>11. \A v \in Worker \ {w} : Hub!Unread(v)' = Hub!Unread(v)
    BY <2>8 DEF Hub!Unread
  <2>12. CASE Hub!IsAnnouncement(m)
    <3>1. feeds' = feeds
      BY <2>5, <2>12
    <3>2. Hub!Unread(w)' = {} \/ Hub!Unread(w) # {}
      BY <2>9
    <3>3. QED
      BY <1>r, <2>5, <2>10, <2>11, <3>1, <3>2
  <2>13. CASE ~Hub!IsAnnouncement(m)
    <3>1. 1 \in Hub!Unread(w)
      BY <2>1, <2>3, <2>13 DEF Hub!Unread
    <3>2. Hub!Unread(w)' = {}
      <4>1. \A i \in Hub!Unread(w)' : FALSE
        BY <2>7, <2>9, <3>1 DEF Hub!OnePlace
      <4>2. QED
        BY <4>1
    <3>3. update # "none"
      BY <1>n, <2>6, <3>1 DEF Hub!Unsent
    <3>4. /\ \A k \in Hub!Senders : feeds[w][k] = Hub!NoFeed
          /\ \A c \in Hub!AtWorker(w) : got[c] = 0
      BY <2>7, <3>1 DEF Hub!OnePlace
    <3>5. \A v \in Worker, k \in Hub!Senders :
              feeds'[v][k] = IF v = w /\ k = "listener" THEN x ELSE feeds[v][k]
      BY <1>a, <2>5, <2>13, FeedSet
    <3>6. \A i \in DOMAIN x.left : got[x.left[i]] = 0
      <4>1. Hub!Members(w) \subseteq Hub!AtWorker(w)
        BY DEF Hub!ListsAgree, Hub!Listed
      <4>2. QED
        BY <2>4, <3>4, <4>1 DEF Hub!Members
    <3>7. Hub!OnePlace(w)'
      <4>1. \A j, k \in Hub!Senders : j # k => \/ feeds'[w][j] = Hub!NoFeed
                                               \/ feeds'[w][k] = Hub!NoFeed
        BY <3>4, <3>5
      <4>2. ASSUME NEW k \in Hub!Senders, NEW left, left = feeds'[w][k].left
            PROVE  \A i \in DOMAIN left : got'[left[i]] = 0
        <5>1. left = x.left \/ left = <<>>
          BY <1>a, <3>4, <3>5, <4>2
        <5>2. QED
          BY <2>5, <3>6, <5>1
      <4>3. QED
        BY <3>2, <4>1, <4>2 DEF Hub!OnePlace
    <3>8. ASSUME NEW v \in Worker \ {w} PROVE Hub!OnePlace(v)'
      <4>1. /\ \A k \in Hub!Senders : feeds'[v][k] = feeds[v][k]
            /\ Hub!Unread(v)' = Hub!Unread(v) /\ Hub!AtWorker(v)' = Hub!AtWorker(v)
        BY <2>5, <2>11, <3>5 DEF Hub!AtWorker
      <4>2. Hub!OnePlace(v)
        BY <1>n, <2>6
      <4>3. QED
        BY <2>5, <4>1, <4>2 DEF Hub!OnePlace
    <3>9. QED
      BY <1>n, <2>5, <2>6, <3>3, <3>7, <3>8
  <2>14. QED
    BY <2>12, <2>13
<1>5. ASSUME NEW w \in Worker, NEW who \in Hub!Senders, Hub!Send(w, who) PROVE Goal
  <2>1. UNCHANGED <<update, inbox, unanswered>>
    BY <1>5 DEF Hub!Send, Hub!bus, Hub!flags
  <2>2. ~unanswered
    BY <2>1, Zenon
  <2>3. /\ feeds[w][who] # Hub!NoFeed /\ Hub!OnePlace(w)
    BY <1>5, <1>n, <2>2 DEF Hub!Send
  <2>4. /\ update # "none" /\ Hub!Unread(w) = {}
        /\ \A k \in Hub!Senders \ {who} : feeds[w][k] = Hub!NoFeed
    BY <1>n, <2>2, <2>3 DEF Hub!Unsent, Hub!OnePlace
  <2>5. \A v \in Worker : Hub!Unread(v)' = Hub!Unread(v)
    BY <2>1 DEF Hub!Unread
  <2>6. CASE feeds[w][who].left = <<>>
    <3>1. feeds' = [feeds EXCEPT ![w][who] = Hub!NoFeed] /\ got' = got /\ \A d \in Conn : Same(d)
      BY <1>5, <2>6, SendEnds
    <3>2. \A v \in Worker, k \in Hub!Senders :
              feeds'[v][k] = IF v = w /\ k = who THEN Hub!NoFeed ELSE feeds[v][k]
      BY <1>a, <3>1, FeedSet
    <3>3. \A v \in Worker : Hub!AtWorker(v)' = Hub!AtWorker(v)
      BY <3>1 DEF Hub!AtWorker, Same
    <3>4. ASSUME NEW v \in Worker PROVE Hub!OnePlace(v)'
      <4>1. \A k \in Hub!Senders : feeds'[v][k] = Hub!NoFeed \/ feeds'[v][k] = feeds[v][k]
        BY <3>2
      <4>2. Hub!OnePlace(v)
        BY <1>n, <2>2
      <4>3. ASSUME NEW k \in Hub!Senders, NEW left, left = feeds'[v][k].left
            PROVE  \A i \in DOMAIN left : got'[left[i]] = 0
        <5>1. left = <<>> \/ left = feeds[v][k].left
          BY <1>a, <4>1, <4>3
        <5>2. QED
          BY <3>1, <4>2, <5>1 DEF Hub!OnePlace
      <4>4. /\ \A i, j \in Hub!Unread(v)' : i = j
            /\ \A j, k \in Hub!Senders : j # k => \/ feeds'[v][j] = Hub!NoFeed
                                                  \/ feeds'[v][k] = Hub!NoFeed
            /\ Hub!Unread(v)' # {} => /\ \A k \in Hub!Senders : feeds'[v][k] = Hub!NoFeed
                                      /\ \A c \in Hub!AtWorker(v)' : got'[c] = 0
        BY <2>5, <3>1, <3>3, <4>1, <4>2 DEF Hub!OnePlace
      <4>5. QED
        BY <4>3, <4>4 DEF Hub!OnePlace
    <3>5. QED
      BY <1>n, <2>1, <2>2, <2>4, <3>1, <3>4
  <2>7. CASE feeds[w][who].left # <<>>
    <3>1. PICK f \in Hub!Deliveries : f = feeds[w][who]
      BY DEF Hub!HubTypes
    <3>2. f.left \in Seq(Conn) /\ f.left # <<>>
      BY <2>7, <3>1 DEF Hub!Deliveries
    <3>3. PICK c \in Conn, q \in Seq(Conn) : c = Head(f.left) /\ q = Tail(f.left)
      BY <3>2, Taken
    <3>4. PICK x \in Hub!Deliveries : feeds' = [feeds EXCEPT ![w][who] = x] /\ x.left = q
      BY <1>5, <2>7, <3>1, <3>3, SendGoesOn
    <3>5. /\ socket' = socket
          /\ \/ got' = got
             \/ c \in Hub!Members(w) /\ got' = [got EXCEPT ![c] = @ + 1]
      BY <1>5, <2>7, <3>1, <3>3, SendGoesOn
    <3>6. /\ Hub!EachOnce(f.left) /\ {f.left[i] : i \in DOMAIN f.left} \subseteq Hub!AtWorker(w)
      BY <3>1 DEF Hub!ListsAgree, Hub!GoesThrough
    <3>7. {f.left[i] : i \in DOMAIN f.left} = {c} \cup {q[i] : i \in DOMAIN q}
      <4>1. {f.left[i] : i \in DOMAIN f.left}
                = {Head(f.left)} \cup {Tail(f.left)[i] : i \in DOMAIN Tail(f.left)}
        BY <3>2, HeadAndTail
      <4>2. QED
        BY <3>3, <4>1
    <3>8. c \notin {q[i] : i \in DOMAIN q}
      <4>1. Head(f.left) \notin {Tail(f.left)[i] : i \in DOMAIN Tail(f.left)}
        BY <3>2, <3>6, Taken
      <4>2. QED
        BY <3>3, <4>1
    <3>9. /\ got[c] = 0 /\ \A i \in DOMAIN q : got[q[i]] = 0
      <4>1. \A d \in {f.left[i] : i \in DOMAIN f.left} : got[d] = 0
        BY <2>3, <3>1 DEF Hub!OnePlace
      <4>2. QED
        BY <3>7, <4>1
    <3>10. got'[c] <= 1 /\ \A d \in Conn \ {c} : got'[d] = got[d]
      BY <1>t, <3>5, <3>9
    <3>11. c \in Hub!AtWorker(w) /\ \A i \in DOMAIN q : q[i] \in Conn \ {c}
      BY <3>6, <3>7, <3>8
    <3>12. \A v \in Worker, k \in Hub!Senders :
               feeds'[v][k] = IF v = w /\ k = who THEN x ELSE feeds[v][k]
      BY <3>4, FeedSet
    <3>13. Hub!OnePlace(w)'
      <4>1. ASSUME NEW k \in Hub!Senders, NEW left, left = feeds'[w][k].left
            PROVE  \A i \in DOMAIN left : got'[left[i]] = 0
        <5>1. left = q \/ left = <<>>
          BY <1>a, <2>4, <3>4, <3>12, <4>1
        <5>2. QED
          BY <3>9, <3>10, <3>11, <5>1
      <4>2. \A j, k \in Hub!Senders : j # k => \/ feeds'[w][j] = Hub!NoFeed
                                               \/ feeds'[w][k] = Hub!NoFeed
        BY <2>4, <3>12
      <4>3. QED
        BY <2>4, <2>5, <4>1, <4>2 DEF Hub!OnePlace
    <3>14. ASSUME NEW v \in Worker \ {w} PROVE Hub!OnePlace(v)'
      <4>1. /\ \A k \in Hub!Senders : feeds'[v][k] = feeds[v][k]
            /\ Hub!Unread(v)' = Hub!Unread(v) /\ Hub!AtWorker(v)' = Hub!AtWorker(v)
        BY <2>5, <3>5, <3>12 DEF Hub!AtWorker
      <4>2. Hub!OnePlace(v) /\ c \notin Hub!AtWorker(v)
        BY <1>n, <2>2, <3>11 DEF Hub!AtWorker
      <4>3. \A d \in Hub!AtWorker(v) : got'[d] = got[d]
        BY <3>10, <4>2 DEF Hub!AtWorker
      <4>4. ASSUME NEW k \in Hub!Senders, NEW left, left = feeds'[v][k].left
            PROVE  \A i \in DOMAIN left : got'[left[i]] = 0
        <5>1. left = feeds[v][k].left
          BY <4>1, <4>4
        <5>2. {left[i] : i \in DOMAIN left} \subseteq Hub!AtWorker(v)
          BY <5>1 DEF Hub!ListsAgree, Hub!GoesThrough
        <5>3. \A i \in DOMAIN left : got[left[i]] = 0
          BY <4>2, <5>1 DEF Hub!OnePlace
        <5>4. QED
          BY <4>3, <5>2, <5>3
      <4>5. /\ \A i, j \in Hub!Unread(v)' : i = j
            /\ Hub!Unread(v)' # {} => /\ \A k \in Hub!Senders : feeds'[v][k] = Hub!NoFeed
                                      /\ \A d \in Hub!AtWorker(v)' : got'[d] = 0
            /\ \A j, k \in Hub!Senders : j # k => \/ feeds'[v][j] = Hub!NoFeed
                                                  \/ feeds'[v][k] = Hub!NoFeed
        BY <4>1, <4>2, <4>3 DEF Hub!OnePlace
      <4>6. \A k \in Hub!Senders : \A i \in DOMAIN feeds'[v][k].left :
                got'[feeds'[v][k].left[i]] = 0
        BY <4>4
      <4>7. QED
        BY <4>5, <4>6 DEF Hub!OnePlace
    <3>15. \A d \in Conn : got'[d] <= 1
      BY <1>n, <2>2, <3>10
    <3>16. QED
      BY <2>1, <2>4, <3>13, <3>14, <3>15
  <2>8. QED
    BY <2>6, <2>7
<1>6. ASSUME NEW w \in Worker, NEW c \in Conn, NEW u \in User \cup {Admin}, Hub!Connect(c, w, u)
      PROVE  Goal
  <2>1. UNCHANGED <<got, update, inbox, feeds, unanswered>>
    BY <1>6 DEF Hub!Connect
  <2>2. socket[c].at = "closed" /\ \A d \in Conn \ {c} : socket'[d] = socket[d]
    BY <1>6, ConnectIs
  <2>3. got[c] = 0
    BY <2>2 DEF Hub!ListsAgree, Hub!Placed
  <2>4. QED
    BY <1>u, <2>1, <2>2, <2>3
<1>7. ASSUME NEW c \in Conn, Hub!Evict(c) PROVE Goal
  <2>1. UNCHANGED <<got, update, inbox, feeds, unanswered>>
    BY <1>7 DEF Hub!Evict, Hub!bus, Hub!flags
  <2>2. PICK w \in Worker, v \in Conn \ {c} :
            /\ w = socket[c].worker /\ socket'[c].worker = w /\ Same(v)
            /\ \A d \in Conn \ {c, v} : socket'[d] = socket[d]
    BY <1>7, EvictIs
  <2>3. QED
    BY <1>u, <2>1, <2>2 DEF Same
<1>8. ASSUME NEW c \in Conn, Hub!Disconnect(c) \/ Hub!Prune(c) PROVE Goal
  <2>1. PICK at \in Hub!Stages : Hub!Removed(c, at)
    BY <1>8 DEF Hub!Disconnect, Hub!Prune, Hub!Stages
  <2>2. UNCHANGED <<got, update, inbox, feeds, unanswered>>
    BY <1>8 DEF Hub!Disconnect, Hub!Prune, Hub!bus, Hub!flags
  <2>3. socket'[c].worker = socket[c].worker /\ \A d \in Conn \ {c} : socket'[d] = socket[d]
    BY <2>1, RemovedIs
  <2>4. QED
    BY <1>u, <2>2, <2>3
<1>9. ASSUME NEW w \in Worker, Hub!UpdateOwner(w) \/ Hub!Resubscribe(w) PROVE Goal
    BY <1>u, <1>9 DEF Hub!UpdateOwner, Hub!Resubscribe, Hub!flags
<1>10. ASSUME NEW w \in Worker, NEW o \in User \cup {None}, Hub!CommitOwner(w, o) PROVE Goal
    BY <1>u, <1>10 DEF Hub!CommitOwner, Hub!bus
<1>11. ASSUME NEW u \in User, NEW role \in Hub!Roles, Hub!ShareDevice(u, role) PROVE Goal
    BY <1>u, <1>11 DEF Hub!ShareDevice, Hub!bus, Hub!flags
<1>12. ASSUME UNCHANGED Hub!vars PROVE Goal
    BY <1>u, <1>12 DEF Hub!vars
<1>13. QED
    BY <1>1, <1>2, <1>3, <1>4, <1>5, <1>6, <1>7, <1>8, <1>9, <1>10, <1>11, <1>12 DEF Hub!Next

\* Initially nothing was sent and nobody is connected.
LEMMA HubStarts == Hub!HubConstants /\ Hub!Init => Hub!HubInv
<1> SUFFICES ASSUME Hub!HubConstants, Hub!Init PROVE Hub!HubInv
    OBVIOUS
<1>1. /\ owner \in Hub!Owners /\ share = [u \in User |-> "none"] /\ changes = 0
      /\ changing = [w \in Worker |-> Hub!Idle] /\ cache = [w \in Worker |-> None]
      /\ tasks = {} /\ inbox = [w \in Worker |-> <<>>] /\ conns = [w \in Worker |-> <<>>]
      /\ socket = [c \in Conn |-> Hub!Closed] /\ got = [c \in Conn |-> 0]
      /\ feeds = [w \in Worker |-> [who \in Hub!Senders |-> Hub!NoFeed]]
      /\ owned = {owner} \ {None}
    BY DEF Hub!Init, Hub!Owners
<1>2. Hub!Closed \in Hub!Sockets /\ Hub!Closed.at = "closed" /\ Hub!Closed.allowed = None
    BY DEF Hub!Closed, Hub!Sockets, Hub!Stages
<1>3. /\ Hub!NoFeed \in Hub!Deliveries /\ Hub!NoFeed.left = <<>> /\ Hub!NoFeed.dead = {}
    BY DEF Hub!NoFeed, Hub!Deliveries
<1>4. /\ \A w \in Worker : /\ conns[w] = <<>> /\ inbox[w] = <<>> /\ cache[w] = None
                           /\ changing[w] = Hub!Idle
      /\ \A w \in Worker, who \in Hub!Senders : feeds[w][who] = Hub!NoFeed
      /\ \A c \in Conn : socket[c] = Hub!Closed /\ got[c] = 0
      /\ DOMAIN <<>> = {} /\ Len(<<>>) = 0
    BY <1>1
<1>5. Hub!HubTypes
  <2>1. owned \subseteq User /\ changes \in Nat /\ share \in [User -> Hub!Roles]
    BY <1>1 DEF Hub!Owners, Hub!Roles
  <2>2. /\ inbox \in [Worker -> Seq(Hub!Messages)] /\ conns \in [Worker -> Seq(Conn)]
        /\ changing \in [Worker -> Hub!Owners \cup {Hub!Idle}]
        /\ cache \in [Worker -> Hub!Owners] /\ got \in [Conn -> Nat]
    BY <1>1 DEF Hub!Owners
  <2>3. socket \in [Conn -> Hub!Sockets] /\ feeds \in [Worker -> [Hub!Senders -> Hub!Deliveries]]
    BY <1>1, <1>2, <1>3
  <2>4. QED
    BY <1>1, <2>1, <2>2, <2>3 DEF Hub!HubTypes
<1>6. Hub!ListsAgree
  <2>1. \A w \in Worker : Hub!Listed(w)
    BY <1>4 DEF Hub!Listed, Hub!Members, Hub!EachOnce
  <2>2. \A w \in Worker, who \in Hub!Senders : Hub!GoesThrough(w, who)
    BY <1>3, <1>4 DEF Hub!GoesThrough, Hub!EachOnce
  <2>3. \A c \in Conn : Hub!Placed(c)
    BY <1>2, <1>4 DEF Hub!Placed
  <2>4. QED
    BY <2>1, <2>2, <2>3 DEF Hub!ListsAgree
<1>7. Hub!OwnersKnown
    BY <1>1, <1>4 DEF Hub!OwnersKnown, Hub!Was, Hub!Owners
<1>8. Hub!ReadWhenSeen
  <2>1. None # TRUE
    BY DEF Hub!HubConstants
  <2>2. Hub!Closed.allowed # TRUE
    BY <1>2, <2>1, Zenon
  <2>3. ASSUME NEW c \in Conn PROVE socket[c].allowed # TRUE /\ ~(got[c] > 0)
    <3>1. socket[c] = Hub!Closed /\ ~(got[c] > 0)
      BY <1>4
    <3>2. QED
      BY <2>2, <3>1, Zenon
  <2>4. QED
    BY <2>3 DEF Hub!ReadWhenSeen
<1>9. Hub!InOnePlace
  <2>1. \A w \in Worker : Hub!Unread(w) = {}
    BY <1>4 DEF Hub!Unread
  <2>2. ASSUME NEW w \in Worker PROVE Hub!OnePlace(w)
    BY <1>3, <1>4, <2>1 DEF Hub!OnePlace
  <2>3. Hub!Unsent /\ \A c \in Conn : got[c] <= 1
    BY <1>4, <2>1 DEF Hub!Unsent
  <2>4. QED
    BY <2>2, <2>3 DEF Hub!InOnePlace
<1>10. Hub!NewsToCome
    BY <1>1, <1>4 DEF Hub!NewsToCome, Hub!NewsOf
<1>11. Hub!RoomToCome
  <2>1. \A w \in Worker : Len(conns[w]) <= Limit
    BY <1>4 DEF Hub!HubConstants
  <2>2. \A c \in Conn : socket[c].at # "evicting"
    BY <1>2, <1>4
  <2>3. QED
    BY <2>1, <2>2 DEF Hub!RoomToCome
<1>12. QED
    BY <1>5, <1>6, <1>7, <1>8, <1>9, <1>10, <1>11 DEF Hub!HubInv

\* Inductive: a worker's lists and deliveries are of its own connections, the update is in
\* one place at each worker, owners that are named are owners there were, a worker that
\* does not know the owner has yet to hear, and there is room for the connection that waits.
THEOREM HubInvHolds == ASSUME Hub!HubConstants PROVE Hub!Spec => []Hub!HubInv
<1>1. Hub!Init => Hub!HubInv
    BY HubStarts, Hub!HubConstants
<1>2. ASSUME Hub!HubInv, [Hub!Next]_Hub!vars PROVE Hub!HubInv'
  <2>1. /\ Hub!HubTypes /\ Hub!ListsAgree /\ Hub!OwnersKnown /\ Hub!ReadWhenSeen
        /\ Hub!InOnePlace /\ Hub!NewsToCome /\ Hub!RoomToCome
    BY <1>2 DEF Hub!HubInv
  <2>2. Hub!HubTypes'
    BY <1>2, <2>1, Hub!HubConstants, HubTypesStep
  <2>3. Hub!ListsAgree'
    BY <1>2, <2>1, Hub!HubConstants, <2>2, ListsAgreeStep
  <2>4. Hub!OwnersKnown'
    BY <1>2, <2>1, Hub!HubConstants, <2>2, OwnersKnownStep
  <2>5. Hub!ReadWhenSeen'
    BY <1>2, <2>1, Hub!HubConstants, <2>2, ReadWhenSeenStep
  <2>6. Hub!InOnePlace'
    BY <1>2, <2>1, Hub!HubConstants, <2>2, OnePlaceStep
  <2>7. Hub!NewsToCome'
    BY <1>2, <2>1, Hub!HubConstants, <2>2, NewsStep
  <2>8. Hub!RoomToCome'
    BY <1>2, <2>1, Hub!HubConstants, <2>2, <2>3, RoomStep
  <2>9. QED
    BY <2>2, <2>3, <2>4, <2>5, <2>6, <2>7, <2>8 DEF Hub!HubInv
<1>3. QED
    BY <1>1, <1>2, PTL DEF Hub!Spec

\* Whatever is published, lost, announced late or evicted in whichever order: a dashboard
\* receives the position only of a device that its account could see since it connected, and
\* once; no cache names another owner when all announcements arrived; and a worker keeps to
\* its limit, unless two dashboards wait for one place.
THEOREM FeedsHold ==
    ASSUME Hub!HubConstants
    PROVE  Hub!Spec => []( /\ Hub!NoForeignFeed /\ Hub!OncePerPublish
                           /\ Hub!CacheAgrees /\ Hub!WithinLimit )
<1>1. ASSUME Hub!HubInv
      PROVE  /\ Hub!NoForeignFeed /\ Hub!OncePerPublish /\ Hub!CacheAgrees /\ Hub!WithinLimit
  <2>1. Hub!NoForeignFeed
    <3>1. ASSUME NEW c \in Conn, got[c] > 0, socket[c].user # Admin
          PROVE  IF socket[c].allowed = None THEN socket[c].user \in owned ELSE c \in seen
      BY <1>1, <3>1 DEF Hub!HubInv, Hub!ReadWhenSeen
    <3>2. QED
      BY <3>1 DEF Hub!NoForeignFeed
  <2>2. Hub!OncePerPublish
    BY <1>1, Zenon DEF Hub!HubInv, Hub!InOnePlace, Hub!OncePerPublish
  <2>3. Hub!CacheAgrees
    <3>1. ASSUME ~overlapped, ~missed, ~Hub!InFlight
          PROVE  \A w \in Worker : cache[w] \in {None, owner}
      <4>1. \A w \in Worker : Hub!NewsOf(w)
        BY <1>1, <3>1, Zenon DEF Hub!HubInv, Hub!NewsToCome
      <4>2. \A w \in Worker : ~Hub!ToHear(w)
        BY <3>1 DEF Hub!ToHear, Hub!InFlight
      <4>3. QED
        BY <4>1, <4>2 DEF Hub!NewsOf
    <3>2. QED
      BY <3>1, Zenon DEF Hub!CacheAgrees
  <2>4. Hub!WithinLimit
    BY <1>1, Zenon DEF Hub!HubInv, Hub!RoomToCome, Hub!WithinLimit
  <2>5. QED
    BY <2>1, <2>2, <2>3, <2>4
<1>2. QED
    BY <1>1, HubInvHolds, Hub!HubConstants, PTL

\* Every variable of BroadcastHub has its type, for any workers, accounts and connections
\* (DashboardManager).
THEOREM FeedsTyped ==
    ASSUME Hub!HubConstants
    PROVE  Hub!Spec => []Hub!TypeOK
<1> DEFINE Published == update \in {"none", "out"}
<1>1. Hub!Init => Published
    BY DEF Hub!Init
<1>2. Published /\ [Hub!Next]_Hub!vars => Published'
  <2> SUFFICES ASSUME Published, [Hub!Next]_Hub!vars PROVE Published'
    OBVIOUS
  <2>1. ASSUME update' = update \/ update' = "out" PROVE Published'
    BY <2>1
  <2>2. ASSUME Hub!Next PROVE update' = update \/ update' = "out"
    BY <2>2 DEF Hub!Next, Hub!UpdateOwner, Hub!CommitOwner, Hub!Broadcast, Hub!Listen,
       Hub!LoseListener, Hub!Resubscribe, Hub!Send, Hub!Connect, Hub!Publish, Hub!ShareDevice,
       Hub!Evict, Hub!Disconnect, Hub!Prune
  <2>3. QED
    BY <2>1, <2>2 DEF Hub!vars
<1>3. Hub!HubInv /\ Published => Hub!TypeOK
  <2> SUFFICES ASSUME Hub!HubInv, Published PROVE Hub!TypeOK
    OBVIOUS
  <2>1. Hub!HubTypes /\ Hub!ListsAgree
    BY DEF Hub!HubInv
  <2>2. \A w \in Worker : Hub!Members(w) \subseteq
            {c \in Conn : socket[c].at = "open" /\ socket[c].worker = w}
    BY <2>1 DEF Hub!ListsAgree, Hub!Listed, Hub!AtWorker
  <2>3. QED
    BY <2>1, <2>2 DEF Hub!HubTypes, Hub!TypeOK, Hub!Owners
<1>4. QED
    BY <1>1, <1>2, <1>3, HubInvHolds, Hub!HubConstants, PTL DEF Hub!Spec
=============================================================================
