------------------------ MODULE TelemetryStoreProofs ------------------------
(***************************************************************************)
(* Proofs about TelemetryStore, for any number of workers, pings and sends,  *)
(* any window and any archiving threshold, and about MCServer: in its run    *)
(* telemetry behaves as TelemetryStore specifies, and what is proved of the  *)
(* other modules holds of the parts that are instances of them.              *)
(***************************************************************************)
EXTENDS MCServer, TLAPS, FiniteSetTheorems, WellFoundedInduction

-----------------------------------------------------------------------------
(* Numbers and sequences *)

\* A set of naturals that is not empty has a least element.
LEMMA Least ==
    ASSUME NEW S \in SUBSET Nat, S # {}
    PROVE  \E m \in S : \A n \in S : m <= n
<1>1. PICK m \in S : \A n \in S : ~(<<n, m>> \in OpToRel(<, Nat))
  <2> HIDE DEF OpToRel
  <2>1. QED
    BY NatLessThanWellFounded, WFMin
<1>2. \A n \in S : ~(n < m)
    BY <1>1 DEF OpToRel
<1>3. QED
    BY <1>2

\* Of finitely many places of a sequence one is the last.
LEMMA Greatest ==
    ASSUME NEW n \in Nat, NEW S \in SUBSET (1..n), S # {}
    PROVE  \E m \in S : \A i \in S : i <= m
<1> DEFINE Mirror == {n - i : i \in S}
<1>1. Mirror \in SUBSET Nat /\ Mirror # {}
  <2>1. \A i \in S : i \in Int /\ i <= n
    OBVIOUS
  <2>2. \A k \in Mirror : k \in Nat
    BY <2>1
  <2>3. PICK i \in S : TRUE
    OBVIOUS
  <2>4. n - i \in Mirror
    BY <2>3
  <2>5. QED
    BY <2>2, <2>4
<1>2. PICK k \in Mirror : \A j \in Mirror : k <= j
    BY <1>1, Least
<1>3. PICK m \in S : k = n - m
    OBVIOUS
<1>4. \A i \in S : n - m <= n - i
    BY <1>2, <1>3
<1>5. QED
    BY <1>4

\* The short sequences of writes the actions build.
LEMMA WriteSeqs ==
    /\ <<>> \in Seq(Write)
    /\ \A x \in Write : <<x>> \in Seq(Write)
    /\ \A x, y \in Write : <<x, y>> \in Seq(Write)
    OBVIOUS

\* The pings of a sequence of writes.
LEMMA PingsOf ==
    /\ Pings(<<>>) = {}
    /\ \A x \in Write : Pings(<<x>>) = {x.ping}
    /\ \A s \in Seq(Write) : Pings(s) \subseteq Ping
    /\ \A s, t \in Seq(Write) : Pings(s \o t) = Pings(s) \cup Pings(t)
    /\ \A s \in Seq(Write), x \in Write : Pings(Append(s, x)) = Pings(s) \cup {x.ping}
    /\ \A s \in Seq(Write) : s # <<>> =>
          Pings(s) = Pings(<<Head(s)>>) \cup Pings(Tail(s))
<1> USE DEF Pings
<1>1. Pings(<<>>) = {}
    OBVIOUS
<1>2. \A x \in Write : Pings(<<x>>) = {x.ping}
    OBVIOUS
<1>3. \A s \in Seq(Write) : Pings(s) \subseteq Ping
  <2> SUFFICES ASSUME NEW s \in Seq(Write), NEW i \in DOMAIN s PROVE s[i].ping \in Ping
    OBVIOUS
  <2>1. s[i] \in Write
    OBVIOUS
  <2>2. QED
    BY <2>1 DEF Write
<1>4. ASSUME NEW s \in Seq(Write), NEW t \in Seq(Write)
      PROVE  Pings(s \o t) = Pings(s) \cup Pings(t)
  <2>1. Pings(s \o t) \subseteq Pings(s) \cup Pings(t)
    OBVIOUS
  <2>2. \A i \in DOMAIN s : i \in DOMAIN (s \o t) /\ (s \o t)[i] = s[i]
    OBVIOUS
  <2>3. \A i \in DOMAIN t : Len(s) + i \in DOMAIN (s \o t) /\ (s \o t)[Len(s) + i] = t[i]
    OBVIOUS
  <2>4. ASSUME NEW i \in DOMAIN s PROVE s[i].ping \in Pings(s \o t)
    BY <2>2
  <2>5. ASSUME NEW i \in DOMAIN t PROVE t[i].ping \in Pings(s \o t)
    BY <2>3
  <2>6. Pings(s) \cup Pings(t) \subseteq Pings(s \o t)
    BY <2>4, <2>5
  <2>7. QED
    BY <2>1, <2>6
<1>5. ASSUME NEW s \in Seq(Write), NEW x \in Write
      PROVE  Pings(Append(s, x)) = Pings(s) \cup {x.ping}
    OBVIOUS
<1>6. ASSUME NEW s \in Seq(Write), s # <<>>
      PROVE  Pings(s) = Pings(<<Head(s)>>) \cup Pings(Tail(s))
  <2>1. Head(s) = s[1] /\ 1 \in DOMAIN s
    BY <1>6
  <2>2. \A i \in DOMAIN Tail(s) : i + 1 \in DOMAIN s /\ Tail(s)[i] = s[i + 1]
    BY <1>6
  <2>3. \A i \in DOMAIN s \ {1} : i - 1 \in DOMAIN Tail(s) /\ Tail(s)[i - 1] = s[i]
    BY <1>6
  <2>4. Pings(<<Head(s)>>) = {s[1].ping}
    BY <2>1
  <2>5. QED
    BY <2>1, <2>2, <2>3, <2>4
<1>7. QED
    BY <1>1, <1>2, <1>3, <1>4, <1>5, <1>6

-----------------------------------------------------------------------------
(* What the two ends of a transaction do *)

\* Begin gives the worker the transaction it says, whose checks hold, and
\* leaves the other workers' alone.
LEMMA BeginStep ==
    ASSUME TypeOK, NEW w \in Worker, NEW of \in {"none", "post", "upload", "flush", "final"},
           NEW s \in Seq(Write), Begin(w, of, s)
    PROVE  /\ tx' \in [Worker -> Tx]
           /\ tx'[w].of = of /\ tx'[w].writes = s /\ tx'[w].first > 0
           /\ \A i \in DOMAIN s : i < tx'[w].first => Stored(s[i].ping)
           /\ \A v \in Worker : v # w => tx'[v] = tx[v]
<1> DEFINE fresh == {i \in DOMAIN s : ~Stored(s[i].ping)}
           first == IF fresh = {} THEN Len(s) + 1
                    ELSE CHOOSE i \in fresh : \A j \in fresh : i <= j
<1>1. fresh \in SUBSET Nat
    OBVIOUS
<1>2. first \in Nat /\ first > 0 /\ \A j \in fresh : first <= j
  <2>1. CASE fresh = {}
    BY <2>1
  <2>2. CASE fresh # {}
    <3>1. \E m \in fresh : \A j \in fresh : m <= j
      BY <1>1, <2>2, Least
    <3>2. QED
      BY <1>1, <2>2, <3>1
  <2>3. QED
    BY <2>1, <2>2
<1>3. \A i \in DOMAIN s : i < first => Stored(s[i].ping)
  <2> SUFFICES ASSUME NEW i \in DOMAIN s, ~Stored(s[i].ping) PROVE ~(i < first)
    OBVIOUS
  <2>1. i \in fresh
    OBVIOUS
  <2>2. QED
    BY <1>1, <1>2, <2>1
<1>4. tx' = [tx EXCEPT ![w] = [of |-> of, writes |-> s, first |-> first]]
    BY DEF Begin
<1>5. [of |-> of, writes |-> s, first |-> first] \in Tx
    BY <1>2 DEF Tx
<1> HIDE DEF first
<1>6. QED
    BY <1>2, <1>3, <1>4, <1>5 DEF TypeOK

\* The writes of a transaction that its commit stores, and those that set
\* last_seen.
New(w) == {i \in DOMAIN tx[w].writes : Inserted(tx[w], i)}

Touching(w) == IF tx[w].of = "upload" THEN DOMAIN tx[w].writes ELSE New(w)

\* Of the writes of one ping a transaction stores one.
LEMMA NewIsFirst ==
    ASSUME TypeOK, NEW w \in Worker, NEW i \in New(w), NEW j \in New(w),
           tx[w].writes[i].ping = tx[w].writes[j].ping
    PROVE  i = j
<1>1. tx[w] \in Tx
    BY DEF TypeOK
<1>2. i \in Nat /\ j \in Nat /\ tx[w].first \in Nat
    BY <1>1 DEF New, Tx
<1>3. Inserted(tx[w], i) /\ Inserted(tx[w], j)
    BY DEF New
<1>4. ~(i < j)
    BY <1>2, <1>3 DEF Inserted
<1>5. ~(j < i)
    BY <1>2, <1>3 DEF Inserted
<1>6. QED
    BY <1>2, <1>4, <1>5

\* What a commit does to the rows: every ping that is new gets one row, with
\* the time of its write, and last_seen takes the time of the last write that
\* touches it.
LEMMA CommitStep ==
    ASSUME TypeOK, NEW w \in Worker, Commit(w)
    PROVE  /\ \A p \in Ping : rows'[p] =
                IF \E i \in New(w) : tx[w].writes[i].ping = p THEN rows[p] + 1 ELSE rows[p]
           /\ \A p \in Ping :
                \/ newest'[p] = newest[p]
                \/ \E i \in New(w) : newest'[p] = tx[w].writes[i].at
           /\ \/ Touching(w) = {} /\ lastSeen' = lastSeen
              \/ \E m \in Touching(w) : /\ lastSeen' = tx[w].writes[m].at
                                        /\ \A i \in Touching(w) : i <= m
           /\ rows' \in [Ping -> Nat] /\ newest' \in [Ping -> Nat] /\ lastSeen' \in Nat
<1>1. /\ tx[w] \in Tx /\ tx[w].writes \in Seq(Write)
      /\ rows \in [Ping -> Nat] /\ newest \in [Ping -> Nat] /\ lastSeen \in Nat
    BY DEF TypeOK, Tx
<1>2. \A i \in DOMAIN tx[w].writes : tx[w].writes[i].at \in Nat
  <2> SUFFICES ASSUME NEW i \in DOMAIN tx[w].writes PROVE tx[w].writes[i].at \in Nat
    OBVIOUS
  <2>1. tx[w].writes[i] \in Write
    BY <1>1
  <2>2. QED
    BY <2>1 DEF Write
<1>3. New(w) \subseteq DOMAIN tx[w].writes /\ Touching(w) \subseteq DOMAIN tx[w].writes
    BY DEF New, Touching
<1>4. ASSUME NEW p \in Ping
      PROVE  Cardinality({i \in New(w) : tx[w].writes[i].ping = p}) =
                IF \E i \in New(w) : tx[w].writes[i].ping = p THEN 1 ELSE 0
  <2> DEFINE its == {i \in New(w) : tx[w].writes[i].ping = p}
  <2>1. CASE \E i \in New(w) : tx[w].writes[i].ping = p
    <3>1. PICK i \in New(w) : tx[w].writes[i].ping = p
      BY <2>1
    <3>2. its = {i}
      BY <3>1, NewIsFirst
    <3>3. QED
      BY <2>1, <3>2, FS_Singleton
  <2>2. CASE ~\E i \in New(w) : tx[w].writes[i].ping = p
    <3>1. its = {}
      BY <2>2
    <3>2. QED
      BY <2>2, <3>1, FS_EmptySet
  <2>3. QED
    BY <2>1, <2>2
<1>5. \A p \in Ping : rows'[p] =
        IF \E i \in New(w) : tx[w].writes[i].ping = p THEN rows[p] + 1 ELSE rows[p]
  <2>1. rows' = [p \in Ping |->
                    rows[p] + Cardinality({i \in New(w) : tx[w].writes[i].ping = p})]
    BY DEF Commit, New
  <2>2. QED
    BY <1>1, <1>4, <2>1
<1>6. rows' \in [Ping -> Nat]
  <2>1. rows' = [p \in Ping |-> rows'[p]]
    BY DEF Commit
  <2>2. \A p \in Ping : rows'[p] \in Nat
    BY <1>1, <1>5
  <2>3. QED
    BY <2>1, <2>2
<1>7. newest' = [p \in Ping |-> IF \E i \in New(w) : tx[w].writes[i].ping = p
                    THEN tx[w].writes[CHOOSE i \in New(w) : tx[w].writes[i].ping = p].at
                    ELSE newest[p]]
    BY DEF Commit, New
<1>8. \A p \in Ping : \/ newest'[p] = newest[p]
                      \/ \E i \in New(w) : newest'[p] = tx[w].writes[i].at
    BY <1>7
<1>9. newest' \in [Ping -> Nat]
  <2>1. \A p \in Ping : newest'[p] \in Nat
    BY <1>1, <1>2, <1>3, <1>8
  <2>2. QED
    BY <1>7, <2>1
<1>10. lastSeen' = IF Touching(w) = {} THEN lastSeen
            ELSE tx[w].writes[CHOOSE i \in Touching(w) : \A j \in Touching(w) : j <= i].at
    BY DEF Commit, Touching, New
<1>11. \/ Touching(w) = {} /\ lastSeen' = lastSeen
       \/ \E m \in Touching(w) : /\ lastSeen' = tx[w].writes[m].at
                                 /\ \A i \in Touching(w) : i <= m
  <2>1. CASE Touching(w) = {}
    BY <1>10, <2>1
  <2>2. CASE Touching(w) # {}
    <3>1. Touching(w) \in SUBSET (1..Len(tx[w].writes)) /\ Len(tx[w].writes) \in Nat
      BY <1>1, <1>3
    <3>2. \E m \in Touching(w) : \A i \in Touching(w) : i <= m
      BY <2>2, <3>1, Greatest
    <3>3. QED
      BY <1>10, <2>2, <3>2
  <2>3. QED
    BY <2>1, <2>2
<1>12. lastSeen' \in Nat
    BY <1>1, <1>2, <1>3, <1>11
<1>13. QED
    BY <1>5, <1>6, <1>8, <1>9, <1>11, <1>12

-----------------------------------------------------------------------------
(* Type correctness *)

\* Everything starts with its type.
LEMMA TypeInit == Init => TypeOK
<1>1. NoTx \in Tx /\ <<>> \in Seq(Write)
    BY WriteSeqs DEF NoTx, Tx
<1> SUFFICES ASSUME Init PROVE TypeOK
    OBVIOUS
<1>2. queue \in [Worker -> Seq(Write)] /\ held \in [Worker -> Seq(Write)] /\ tx \in [Worker -> Tx]
    BY <1>1 DEF Init
<1>3. \A w \in Worker : (held[w] # <<>>) = (writer[w] = "window")
    BY DEF Init
<1>4. /\ rows \in [Ping -> Nat] /\ newest \in [Ping -> Nat] /\ sent \in [Ping -> Nat]
      /\ opened \in [Worker -> Nat]
      /\ writer \in [Worker -> {"waiting", "window", "stopped"}]
    BY DEF Init
<1>5. QED
    BY <1>2, <1>3, <1>4 DEF Init, TypeOK

\* Every step keeps the types.
LEMMA TypeStep == TypeOK /\ [Next]_vars => TypeOK'
<1> SUFFICES ASSUME TypeOK, [Next]_vars PROVE TypeOK'
    OBVIOUS
<1>0. NoTx \in Tx /\ <<>> \in Seq(Write)
    BY WriteSeqs DEF NoTx, Tx
<1>a. ASSUME NEW w \in Worker, NEW p \in Ping, Send(w, p) PROVE sent' \in [Ping -> Nat]
    BY <1>a DEF TypeOK, Send
<1>1. ASSUME NEW w \in Worker, NEW p \in Ping, PostQueued(w, p) PROVE TypeOK'
  <2>1. [ping |-> p, at |-> now] \in Write
    BY DEF TypeOK, Write
  <2>2. queue' \in [Worker -> Seq(Write)]
    BY <1>1, <2>1 DEF TypeOK, PostQueued
  <2>3. sent' \in [Ping -> Nat]
    BY <1>a, <1>1 DEF PostQueued
  <2>4. QED
    BY <1>1, <2>2, <2>3 DEF TypeOK, PostQueued
<1>2. ASSUME NEW w \in Worker, NEW p \in Ping, PostDirect(w, p) PROVE TypeOK'
  <2>1. <<[ping |-> p, at |-> now]>> \in Seq(Write)
    BY DEF TypeOK, Write
  <2>2. tx' \in [Worker -> Tx]
    BY <1>2, <2>1, BeginStep DEF PostDirect
  <2>3. sent' \in [Ping -> Nat]
    BY <1>a, <1>2 DEF PostDirect
  <2>4. QED
    BY <1>2, <2>2, <2>3 DEF TypeOK, PostDirect, table, history
<1>3. ASSUME NEW w \in Worker, NEW p \in Ping, NEW q \in Ping, Upload(w, p, q) PROVE TypeOK'
  <2>1. <<[ping |-> p, at |-> now], [ping |-> q, at |-> now]>> \in Seq(Write)
    BY DEF TypeOK, Write
  <2>2. tx' \in [Worker -> Tx]
    BY <1>3, <2>1, BeginStep DEF Upload
  <2>3. sent' \in [Ping -> Nat]
    BY <1>a, <1>3 DEF Upload
  <2>4. opened' \in [Worker -> Nat]
    BY <1>3 DEF TypeOK, Upload
  <2>5. QED
    BY <1>3, <2>2, <2>3, <2>4 DEF TypeOK, Upload, table, history
<1>4. ASSUME NEW w \in Worker, Heartbeat(w) \/ PostSimple(w) PROVE TypeOK'
    BY <1>4 DEF TypeOK, Heartbeat, PostSimple, writers, history
<1>5. ASSUME NEW w \in Worker, OpenWindow(w) PROVE TypeOK'
  <2>1. Head(queue[w]) \in Write /\ Tail(queue[w]) \in Seq(Write)
    BY <1>5 DEF TypeOK, OpenWindow
  <2>2. queue' \in [Worker -> Seq(Write)] /\ held' \in [Worker -> Seq(Write)]
    BY <1>5, <2>1, WriteSeqs DEF TypeOK, OpenWindow
  <2>3. <<Head(queue[w])>> # <<>>
    OBVIOUS
  <2>4. \A v \in Worker : (held'[v] # <<>>) = (writer'[v] = "window")
    BY <1>5, <2>3 DEF TypeOK, OpenWindow
  <2>5. QED
    BY <1>5, <2>2, <2>4 DEF TypeOK, OpenWindow, table, history
<1>6. ASSUME NEW w \in Worker, CloseWindow(w) PROVE TypeOK'
  <2>1. held[w] \o queue[w] \in Seq(Write)
    BY DEF TypeOK
  <2>2. tx' \in [Worker -> Tx]
    BY <1>6, <2>1, BeginStep DEF CloseWindow
  <2>3. QED
    BY <1>0, <1>6, <2>2 DEF TypeOK, CloseWindow, table, history
<1>7. ASSUME NEW w \in Worker, Commit(w) PROVE TypeOK'
  <2>1. rows' \in [Ping -> Nat] /\ newest' \in [Ping -> Nat] /\ lastSeen' \in Nat
    BY <1>7, CommitStep
  <2>2. tx[w].writes \in Seq(Write) /\ tx' \in [Worker -> Tx]
    BY <1>0, <1>7 DEF TypeOK, Commit, Tx
  <2>3. \A i \in DOMAIN tx[w].writes : tx[w].writes[i].ping \in Ping
    BY <2>2, PingsOf DEF Pings
  <2>4. accepted' \subseteq Ping
    BY <1>7, <2>3 DEF TypeOK, Commit, Pings
  <2>5. raced' \subseteq Ping
    BY <1>7, <2>3 DEF TypeOK, Commit
  <2>6. archived' \in BOOLEAN
    BY <1>7 DEF TypeOK, Commit
  <2>7. UNCHANGED <<now, batched, simple, queue, writer, held, opened, sent, lost>>
    BY <1>7 DEF Commit
  <2>8. QED
    BY <2>1, <2>2, <2>4, <2>5, <2>6, <2>7 DEF TypeOK
<1>8. ASSUME NEW w \in Worker, Rollback(w) PROVE TypeOK'
  <2>1. tx[w].writes \in Seq(Write)
    BY DEF TypeOK, Tx
  <2>2. Pings(tx[w].writes) \subseteq Ping
    BY <2>1, PingsOf
  <2>3. QED
    BY <1>0, <1>8, <2>2 DEF TypeOK, Rollback, table
<1>9. ASSUME NEW w \in Worker, Stop(w) PROVE TypeOK'
  <2>1. queue[w] \in Seq(Write) /\ held[w] \in Seq(Write)
    BY DEF TypeOK
  <2>2. tx' \in [Worker -> Tx]
    BY <1>9, <2>1, BeginStep DEF Stop, TypeOK
  <2>3. Pings(held[w]) \subseteq Ping
    BY <2>1, PingsOf
  <2>4. QED
    BY <1>0, <1>9, <2>2, <2>3 DEF TypeOK, Stop, table
<1>10. ASSUME NEW w \in Worker, Start(w) PROVE TypeOK'
    BY <1>10 DEF TypeOK, Start, table, history
<1>11. ASSUME NEW w \in Worker, Kill(w) PROVE TypeOK'
  <2>1. /\ queue[w] \in Seq(Write) /\ held[w] \in Seq(Write) /\ tx[w].writes \in Seq(Write)
    BY DEF TypeOK, Tx
  <2>2. InHand(w) \in Seq(Write)
    BY <2>1 DEF InHand
  <2>3. Pings(InHand(w)) \subseteq Ping
    BY <2>2, PingsOf
  <2>4. QED
    BY <1>0, <1>11, <2>3 DEF TypeOK, Kill, table
<1>12. CASE Archive
    BY <1>12 DEF TypeOK, Archive, writers, history
<1>13. CASE Tick
    BY <1>13 DEF TypeOK, Tick, table, writers, history
<1>14. CASE UNCHANGED vars
    BY <1>14 DEF TypeOK, vars, table, writers, history
<1>15. QED
    BY <1>1, <1>2, <1>3, <1>4, <1>5, <1>6, <1>7, <1>8, <1>9, <1>10, <1>11, <1>12, <1>13, <1>14
    DEF Next

\* Every variable of the ingestion stays within its type, and a writer holds a
\* write exactly while its window is open.
THEOREM TypeCorrect == Spec => []TypeOK
    BY TypeInit, TypeStep, PTL DEF Spec

-----------------------------------------------------------------------------
(* The windows *)

\* The action of worker w does not touch what the others have in hand.
LEMMA OthersAlone ==
    ASSUME TypeOK, NEW w \in Worker,
           \/ \E p, q \in Ping : PostQueued(w, p) \/ PostDirect(w, p) \/ Upload(w, p, q)
           \/ Heartbeat(w) \/ PostSimple(w) \/ OpenWindow(w) \/ CloseWindow(w)
           \/ Commit(w) \/ Rollback(w)
           \/ Stop(w) \/ Start(w) \/ Kill(w)
    PROVE  /\ now' = now /\ batched' = batched
           /\ \A v \in Worker : v # w =>
                /\ queue'[v] = queue[v] /\ held'[v] = held[v] /\ tx'[v] = tx[v]
                /\ writer'[v] = writer[v] /\ opened'[v] = opened[v]
<1> USE DEF TypeOK, writers
<1>1. ASSUME NEW p \in Ping, NEW q \in Ping, PostQueued(w, p) \/ PostDirect(w, p) \/ Upload(w, p, q)
      PROVE  /\ now' = now /\ batched' = batched
             /\ \A v \in Worker : v # w =>
                  /\ queue'[v] = queue[v] /\ held'[v] = held[v] /\ tx'[v] = tx[v]
                  /\ writer'[v] = writer[v] /\ opened'[v] = opened[v]
    BY <1>1 DEF PostQueued, PostDirect, Upload, Begin
<1>2. CASE Heartbeat(w) \/ PostSimple(w) \/ OpenWindow(w) \/ CloseWindow(w)
    BY <1>2 DEF Heartbeat, PostSimple, OpenWindow, CloseWindow, Begin
<1>3. CASE Commit(w)
    BY <1>3 DEF Commit
<1>4. CASE Rollback(w) \/ Stop(w)
    BY <1>4 DEF Rollback, Stop, Begin
<1>5. CASE Start(w) \/ Kill(w)
    BY <1>5 DEF Start, Kill
<1>6. QED
    BY <1>1, <1>2, <1>3, <1>4, <1>5

\* The times of a sequence of writes.
LEMMA FromOf ==
    ASSUME NEW a \in Nat, NEW b \in Nat, a <= b
    PROVE  /\ From(<<>>, a, b)
           /\ \A p, q \in Ping : /\ From(<<[ping |-> p, at |-> b]>>, a, b)
                                 /\ From(<<[ping |-> p, at |-> b], [ping |-> q, at |-> b]>>, a, b)
           /\ \A s, t \in Seq(Write) : From(s, a, b) /\ From(t, a, b) => From(s \o t, a, b)
           /\ \A s \in Seq(Write), p \in Ping :
                From(s, a, b) => From(Append(s, [ping |-> p, at |-> b]), a, b)
           /\ \A s \in Seq(Write) : From(s, a, b) => From(s, a, b + 1)
           /\ \A s \in Seq(Write) : From(s, b, b) => From(s, a, b)
           /\ \A s \in Seq(Write) : s # <<>> /\ From(s, a, b) =>
                From(<<Head(s)>>, a, b) /\ From(Tail(s), a, b)
<1> USE DEF From
<1>0. ASSUME NEW s \in Seq(Write), NEW i \in DOMAIN s PROVE s[i].at \in Nat
  <2>1. s[i] \in Write
    OBVIOUS
  <2>2. QED
    BY <2>1 DEF Write
<1>1. From(<<>>, a, b)
    OBVIOUS
<1>2. \A p, q \in Ping : /\ From(<<[ping |-> p, at |-> b]>>, a, b)
                         /\ From(<<[ping |-> p, at |-> b], [ping |-> q, at |-> b]>>, a, b)
    OBVIOUS
<1>3. ASSUME NEW s \in Seq(Write), NEW t \in Seq(Write), From(s, a, b), From(t, a, b)
      PROVE  From(s \o t, a, b)
    BY <1>3
<1>4. ASSUME NEW s \in Seq(Write), NEW p \in Ping, From(s, a, b)
      PROVE  From(Append(s, [ping |-> p, at |-> b]), a, b)
    BY <1>4
<1>5. \A s \in Seq(Write) : From(s, a, b) => From(s, a, b + 1)
    BY <1>0
<1>6. \A s \in Seq(Write) : From(s, b, b) => From(s, a, b)
    BY <1>0
<1>7. ASSUME NEW s \in Seq(Write), s # <<>>, From(s, a, b)
      PROVE  From(<<Head(s)>>, a, b) /\ From(Tail(s), a, b)
  <2>1. Head(s) = s[1] /\ 1 \in DOMAIN s
    BY <1>7
  <2>2. \A i \in DOMAIN Tail(s) : i + 1 \in DOMAIN s /\ Tail(s)[i] = s[i + 1]
    BY <1>7
  <2>3. QED
    BY <1>7, <2>1, <2>2
<1>8. QED
    BY <1>1, <1>2, <1>3, <1>4, <1>5, <1>6, <1>7

\* Only a worker that batches uses its queue, whatever the step.
LEMMA QueuesStep == TypeOK /\ QueuesInUse /\ [Next]_vars => QueuesInUse'
<1> SUFFICES ASSUME TypeOK, QueuesInUse, [Next]_vars, NEW v \in Worker
             PROVE  /\ ~batched' => /\ queue'[v] = <<>> /\ writer'[v] = "waiting"
                                    /\ tx'[v].of \notin {"flush", "final"}
                    /\ writer'[v] = "stopped" => queue'[v] = <<>>
                    /\ tx'[v].of = "none" => tx'[v] = NoTx
    BY DEF QueuesInUse
<1> DEFINE Goal == /\ ~batched' => /\ queue'[v] = <<>> /\ writer'[v] = "waiting"
                                   /\ tx'[v].of \notin {"flush", "final"}
                   /\ writer'[v] = "stopped" => queue'[v] = <<>>
                   /\ tx'[v].of = "none" => tx'[v] = NoTx
<1>0. /\ ~batched => /\ queue[v] = <<>> /\ writer[v] = "waiting"
                     /\ tx[v].of \notin {"flush", "final"}
      /\ writer[v] = "stopped" => queue[v] = <<>>
      /\ tx[v].of = "none" => tx[v] = NoTx
    BY DEF QueuesInUse
<1>a. queue[v] \in Seq(Write) /\ held[v] \in Seq(Write) /\ NoTx.of = "none"
    BY DEF TypeOK, NoTx
<1>1. ASSUME NEW w \in Worker, NEW p \in Ping, PostQueued(w, p) PROVE Goal
    BY <1>0, <1>1 DEF PostQueued, Send, Serving, TypeOK
<1>2. ASSUME NEW w \in Worker, NEW p \in Ping, PostDirect(w, p) PROVE Goal
  <2>1. <<[ping |-> p, at |-> now]>> \in Seq(Write)
    BY DEF TypeOK, Write
  <2>2. tx'[w].of = "post" /\ (v # w => tx'[v] = tx[v])
    BY <1>2, <2>1, BeginStep DEF PostDirect
  <2>3. QED
    BY <1>0, <1>2, <2>2 DEF PostDirect, TypeOK
<1>3. ASSUME NEW w \in Worker, NEW p \in Ping, NEW q \in Ping, Upload(w, p, q) PROVE Goal
  <2>1. <<[ping |-> p, at |-> now], [ping |-> q, at |-> now]>> \in Seq(Write)
    BY DEF TypeOK, Write
  <2>2. tx'[w].of = "upload" /\ (v # w => tx'[v] = tx[v])
    BY <1>3, <2>1, BeginStep DEF Upload
  <2>3. QED
    BY <1>0, <1>3, <2>2 DEF Upload, TypeOK
<1>4. ASSUME NEW w \in Worker, Heartbeat(w) \/ PostSimple(w) PROVE Goal
    BY <1>0, <1>4 DEF Heartbeat, PostSimple, writers
<1>5. ASSUME NEW w \in Worker, OpenWindow(w) PROVE Goal
    BY <1>0, <1>5 DEF OpenWindow, TypeOK
<1>6. ASSUME NEW w \in Worker, CloseWindow(w) PROVE Goal
  <2>1. held[w] \o queue[w] \in Seq(Write)
    BY DEF TypeOK
  <2>2. tx'[w].of = "flush" /\ (v # w => tx'[v] = tx[v])
    BY <1>6, <2>1, BeginStep DEF CloseWindow
  <2>3. QED
    BY <1>0, <1>6, <2>2 DEF CloseWindow, TypeOK
<1>7. ASSUME NEW w \in Worker, Commit(w) PROVE Goal
    BY <1>0, <1>a, <1>7 DEF Commit, TypeOK
<1>8. ASSUME NEW w \in Worker, Rollback(w) PROVE Goal
    BY <1>0, <1>a, <1>8 DEF Rollback, TypeOK
<1>9. ASSUME NEW w \in Worker, Stop(w) PROVE Goal
  <2>1. CASE queue[w] = <<>>
    BY <1>0, <1>9, <2>1 DEF Stop, TypeOK
  <2>2. CASE queue[w] # <<>>
    <3>1. queue[w] \in Seq(Write)
      BY DEF TypeOK
    <3>2. tx'[w].of = "final" /\ (v # w => tx'[v] = tx[v])
      BY <1>9, <2>2, <3>1, BeginStep DEF Stop
    <3>3. QED
      BY <1>0, <1>9, <3>2 DEF Stop, TypeOK
  <2>3. QED
    BY <2>1, <2>2
<1>10. ASSUME NEW w \in Worker, Start(w) PROVE Goal
    BY <1>0, <1>10 DEF Start, TypeOK
<1>11. ASSUME NEW w \in Worker, Kill(w) PROVE Goal
    BY <1>0, <1>a, <1>11 DEF Kill, TypeOK
<1>12. CASE Archive
    BY <1>0, <1>12 DEF Archive, writers
<1>13. CASE Tick
    BY <1>0, <1>13 DEF Tick, writers
<1>14. CASE UNCHANGED vars
    BY <1>0, <1>14 DEF vars, writers
<1>15. Goal
    BY <1>1, <1>2, <1>3, <1>4, <1>5, <1>6, <1>7, <1>8, <1>9, <1>10, <1>11, <1>12, <1>13, <1>14
    DEF Next
<1>16. QED
    BY <1>15

\* A worker's window ends at the commit of the writes it took: nothing in its
\* hands gets older than the window, whatever the step.
LEMMA InTimeStep == TypeOK /\ QueuesInUse /\ InTime /\ [Next]_vars => InTime'
<1> SUFFICES ASSUME TypeOK, QueuesInUse, InTime, [Next]_vars PROVE InTime'
    OBVIOUS
<1>0. /\ now \in Nat /\ Window \in Nat /\ lastSeen \in Nat /\ lastSeen <= now
      /\ NoTx.writes = <<>> /\ NoTx.of = "none"
    BY TelemetryConstants DEF TypeOK, InTime, NoTx
<1>a. ASSUME NEW w \in Worker
      PROVE  /\ queue[w] \in Seq(Write) /\ held[w] \in Seq(Write) /\ tx[w].writes \in Seq(Write)
             /\ opened[w] \in Nat /\ opened[w] <= now
             /\ WorkerInTime(w)
             /\ From(<<>>, opened[w], now) /\ From(<<>>, now, now)
             /\ writer[w] # "window" => held[w] = <<>>
    BY <1>0, FromOf DEF TypeOK, Tx, InTime, WorkerInTime
<1>b. ASSUME NEW w \in Worker, now' = now, lastSeen' <= now, WorkerInTime(w)',
             \A v \in Worker : v # w =>
                /\ queue'[v] = queue[v] /\ held'[v] = held[v] /\ tx'[v] = tx[v]
                /\ writer'[v] = writer[v] /\ opened'[v] = opened[v]
      PROVE  InTime'
  <2>1. ASSUME NEW v \in Worker, v # w PROVE WorkerInTime(v)'
    BY <1>a, <1>b, <2>1 DEF WorkerInTime, From
  <2>2. QED
    BY <1>b, <2>1 DEF InTime
<1>1. ASSUME NEW w \in Worker, NEW p \in Ping, PostQueued(w, p) PROVE InTime'
  <2>1. /\ queue'[w] = Append(queue[w], [ping |-> p, at |-> now]) /\ writer[w] # "stopped"
        /\ UNCHANGED <<now, lastSeen, held, tx, writer, opened>>
    BY <1>1 DEF PostQueued, Send, Serving, TypeOK
  <2>2. writer[w] = "waiting" => From(queue'[w], now, now)
    BY <1>0, <1>a, <2>1, FromOf DEF WorkerInTime
  <2>3. writer[w] = "window" => From(queue'[w], opened[w], now)
    BY <1>0, <1>a, <2>1, FromOf DEF WorkerInTime
  <2>4. WorkerInTime(w)'
    BY <1>a, <2>1, <2>2, <2>3 DEF WorkerInTime, From
  <2>5. QED
    BY <1>0, <1>1, <1>b, <2>1, <2>4, OthersAlone
<1>2. ASSUME NEW w \in Worker, NEW p \in Ping, PostDirect(w, p) PROVE InTime'
  <2>1. <<[ping |-> p, at |-> now]>> \in Seq(Write)
    BY DEF TypeOK, Write
  <2>2. tx'[w].writes = <<[ping |-> p, at |-> now]>>
    BY <1>2, <2>1, BeginStep DEF PostDirect
  <2>3. From(tx'[w].writes, now, now)
    BY <1>0, <2>2 DEF From
  <2>4. /\ writer[w] = "waiting" /\ held[w] = <<>> /\ queue[w] = <<>> /\ opened'[w] = now
        /\ UNCHANGED <<now, lastSeen, held, queue, writer>>
    BY <1>2, <1>a DEF PostDirect, QueuesInUse, TypeOK, table
  <2>5. WorkerInTime(w)'
    BY <1>0, <1>a, <2>3, <2>4 DEF WorkerInTime, From
  <2>6. QED
    BY <1>0, <1>2, <1>b, <2>4, <2>5, OthersAlone
<1>3. ASSUME NEW w \in Worker, NEW p \in Ping, NEW q \in Ping, Upload(w, p, q) PROVE InTime'
  <2>1. <<[ping |-> p, at |-> now], [ping |-> q, at |-> now]>> \in Seq(Write)
    BY DEF TypeOK, Write
  <2>2. tx'[w].writes = <<[ping |-> p, at |-> now], [ping |-> q, at |-> now]>>
    BY <1>3, <2>1, BeginStep DEF Upload
  <2>3. /\ opened'[w] = IF writer[w] = "window" THEN opened[w] ELSE now
        /\ writer[w] # "stopped"
        /\ UNCHANGED <<now, lastSeen, held, queue, writer>>
    BY <1>3 DEF Upload, Send, Serving, TypeOK, table
  <2>4. From(tx'[w].writes, opened'[w], now)
    BY <1>0, <1>a, <2>2, <2>3 DEF From
  <2>5. WorkerInTime(w)'
    <3>1. CASE writer[w] = "window"
      BY <1>0, <1>a, <2>3, <2>4, <3>1 DEF WorkerInTime
    <3>2. CASE writer[w] # "window"
      BY <1>0, <1>a, <2>3, <2>4, <3>2 DEF WorkerInTime, From
    <3>3. QED
      BY <3>1, <3>2
  <2>6. QED
    BY <1>0, <1>3, <1>b, <2>3, <2>5, OthersAlone
<1>4. ASSUME NEW w \in Worker, Heartbeat(w) \/ PostSimple(w) PROVE InTime'
  <2>1. lastSeen' <= now' /\ UNCHANGED <<now, writers>>
    BY <1>0, <1>4 DEF Heartbeat, PostSimple
  <2>2. QED
    BY <2>1 DEF InTime, WorkerInTime, From, writers
<1>5. ASSUME NEW w \in Worker, OpenWindow(w) PROVE InTime'
  <2>1. /\ writer[w] = "waiting" /\ queue[w] # <<>> /\ held'[w] = <<Head(queue[w])>>
        /\ queue'[w] = Tail(queue[w]) /\ opened'[w] = now /\ writer'[w] = "window"
        /\ tx[w] = NoTx /\ UNCHANGED <<now, lastSeen, tx>>
    BY <1>5 DEF OpenWindow, Serving, TypeOK, table
  <2>2. From(queue[w], now, now)
    BY <1>a, <2>1 DEF WorkerInTime
  <2>3. From(held'[w], now, now) /\ From(queue'[w], now, now)
    BY <1>0, <1>a, <2>1, <2>2, FromOf
  <2>4. WorkerInTime(w)'
    BY <1>0, <1>a, <2>1, <2>3 DEF WorkerInTime
  <2>5. QED
    BY <1>0, <1>5, <1>b, <2>1, <2>4, OthersAlone
<1>6. ASSUME NEW w \in Worker, CloseWindow(w) PROVE InTime'
  <2>1. held[w] \o queue[w] \in Seq(Write)
    BY DEF TypeOK
  <2>2. tx'[w].writes = held[w] \o queue[w]
    BY <1>6, <2>1, BeginStep DEF CloseWindow
  <2>3. /\ writer[w] = "window" /\ writer'[w] = "waiting"
        /\ held'[w] = <<>> /\ queue'[w] = <<>> /\ UNCHANGED <<now, lastSeen, opened>>
    BY <1>6 DEF CloseWindow, TypeOK, table
  <2>4. From(tx'[w].writes, opened[w], now)
    BY <1>0, <1>a, <2>2, <2>3, FromOf DEF WorkerInTime
  <2>5. WorkerInTime(w)'
    BY <1>0, <1>a, <2>3, <2>4 DEF WorkerInTime
  <2>6. QED
    BY <1>0, <1>6, <1>b, <2>3, <2>5, OthersAlone
<1>7. ASSUME NEW w \in Worker, Commit(w) PROVE InTime'
  <2>1. tx'[w] = NoTx /\ UNCHANGED <<now, queue, writer, held, opened>>
    BY <1>7 DEF Commit, TypeOK
  <2>2. \A i \in DOMAIN tx[w].writes : tx[w].writes[i].at <= now
    BY <1>a DEF WorkerInTime, From
  <2>3. lastSeen' <= now
    BY <1>0, <1>7, <2>2, CommitStep DEF Touching, New
  <2>4. WorkerInTime(w)'
    BY <1>0, <1>a, <2>1 DEF WorkerInTime
  <2>5. QED
    BY <1>7, <1>b, <2>1, <2>3, <2>4, OthersAlone
<1>8. ASSUME NEW w \in Worker, Rollback(w) PROVE InTime'
  <2>1. tx'[w] = NoTx /\ UNCHANGED <<now, lastSeen, queue, writer, held, opened>>
    BY <1>8 DEF Rollback, TypeOK, table
  <2>2. WorkerInTime(w)'
    BY <1>0, <1>a, <2>1 DEF WorkerInTime
  <2>3. QED
    BY <1>0, <1>8, <1>b, <2>1, <2>2, OthersAlone
<1>9. ASSUME NEW w \in Worker, Stop(w) PROVE InTime'
  <2>1. /\ writer'[w] = "stopped" /\ held'[w] = <<>> /\ queue'[w] = <<>>
        /\ opened'[w] = IF writer[w] = "window" THEN opened[w] ELSE now
        /\ writer[w] # "stopped" /\ tx[w] = NoTx
        /\ UNCHANGED <<now, lastSeen>>
    BY <1>9 DEF Stop, Serving, TypeOK, table
  <2>2. CASE queue[w] = <<>>
    <3>1. tx'[w] = NoTx
      BY <1>9, <2>1, <2>2 DEF Stop
    <3>2. WorkerInTime(w)'
      BY <1>0, <1>a, <2>1, <3>1 DEF WorkerInTime, From
    <3>3. QED
      BY <1>0, <1>9, <1>b, <2>1, <3>2, OthersAlone
  <2>3. CASE queue[w] # <<>>
    <3>1. tx'[w].writes = queue[w]
      BY <1>9, <1>a, <2>3, BeginStep DEF Stop
    <3>2. writer[w] = "waiting" \/ writer[w] = "window"
      BY <2>1 DEF TypeOK
    <3>3. From(tx'[w].writes, opened'[w], now)
      BY <1>a, <2>1, <3>1, <3>2 DEF WorkerInTime
    <3>4. opened'[w] <= now /\ now <= opened'[w] + Window
      BY <1>0, <1>a, <2>1 DEF WorkerInTime
    <3>5. WorkerInTime(w)'
      BY <2>1, <3>3, <3>4 DEF WorkerInTime, From
    <3>6. QED
      BY <1>0, <1>9, <1>b, <2>1, <3>5, OthersAlone
  <2>4. QED
    BY <2>2, <2>3
<1>10. ASSUME NEW w \in Worker, Start(w) PROVE InTime'
  <2>1. /\ writer[w] = "stopped" /\ tx[w] = NoTx /\ writer'[w] = "waiting" /\ queue[w] = <<>>
        /\ UNCHANGED <<now, lastSeen, queue, held, opened, tx>>
    BY <1>10 DEF Start, QueuesInUse, TypeOK, table
  <2>2. WorkerInTime(w)'
    BY <1>0, <1>a, <2>1 DEF WorkerInTime
  <2>3. QED
    BY <1>0, <1>10, <1>b, <2>1, <2>2, OthersAlone
<1>11. ASSUME NEW w \in Worker, Kill(w) PROVE InTime'
  <2>1. /\ writer'[w] = "waiting" /\ tx'[w] = NoTx /\ queue'[w] = <<>> /\ held'[w] = <<>>
        /\ UNCHANGED <<now, lastSeen, opened>>
    BY <1>11 DEF Kill, TypeOK, table
  <2>2. WorkerInTime(w)'
    BY <1>0, <1>a, <2>1 DEF WorkerInTime
  <2>3. QED
    BY <1>0, <1>11, <1>b, <2>1, <2>2, OthersAlone
<1>12. CASE Archive
  <2>1. UNCHANGED <<now, lastSeen, queue, writer, held, opened, tx>>
    BY <1>12 DEF Archive, writers
  <2>2. QED
    BY <2>1 DEF InTime, WorkerInTime, From
<1>13. CASE Tick
  <2>1. now' = now + 1 /\ UNCHANGED <<lastSeen, queue, writer, held, opened, tx>>
    BY <1>13 DEF Tick, table, writers
  <2>2. ASSUME NEW w \in Worker PROVE WorkerInTime(w)'
    <3>1. /\ writer[w] = "window" \/ tx[w] # NoTx => now < opened[w] + Window
          /\ writer[w] = "waiting" => queue[w] = <<>>
      BY <1>13 DEF Tick
    <3>2. WorkerInTime(w)
      BY <1>a
    <3>3. \A s \in Seq(Write) : From(s, opened[w], now) => From(s, opened[w], now + 1)
      BY <1>0, <1>a, FromOf
    <3>4. From(<<>>, now + 1, now + 1)
      BY DEF From
    <3>5. QED
      BY <1>0, <1>a, <2>1, <3>1, <3>2, <3>3, <3>4 DEF WorkerInTime
  <2>3. QED
    BY <1>0, <2>1, <2>2 DEF InTime
<1>14. CASE UNCHANGED vars
  <2>1. UNCHANGED <<now, lastSeen, queue, writer, held, opened, tx>>
    BY <1>14 DEF vars, writers, table
  <2>2. QED
    BY <2>1 DEF InTime, WorkerInTime, From
<1>15. QED
    BY <1>1, <1>2, <1>3, <1>4, <1>5, <1>6, <1>7, <1>8, <1>9, <1>10, <1>11, <1>12, <1>13, <1>14
    DEF Next

-----------------------------------------------------------------------------
(* The rows *)

\* A stored ping stays stored.
LEMMA RowsStay ==
    TypeOK /\ [Next]_vars => \A p \in Ping : rows'[p] \in Nat /\ rows'[p] >= rows[p]
<1> SUFFICES ASSUME TypeOK, [Next]_vars, NEW p \in Ping
             PROVE  rows'[p] \in Nat /\ rows'[p] >= rows[p]
    OBVIOUS
<1>0. rows[p] \in Nat
    BY DEF TypeOK
<1>1. ASSUME NEW w \in Worker, Commit(w) PROVE rows'[p] \in Nat /\ rows'[p] >= rows[p]
    BY <1>0, <1>1, CommitStep
<1>2. CASE UNCHANGED rows
    BY <1>0, <1>2
<1>3. QED
    BY <1>1, <1>2 DEF Next, vars, table, PostQueued, PostDirect, Upload, Heartbeat,
       PostSimple, OpenWindow, CloseWindow, Rollback, Stop, Start, Kill, Archive, Tick

\* What Begin found stored is stored until the transaction ends.
LEMMA ChecksStep == TypeOK /\ ChecksHold /\ [Next]_vars => ChecksHold'
<1> SUFFICES ASSUME TypeOK, ChecksHold, [Next]_vars PROVE ChecksHold'
    OBVIOUS
<1>0. \A p \in Ping : rows[p] > 0 => rows'[p] > 0
    BY RowsStay DEF TypeOK
<1>b. ASSUME NEW w \in Worker, tx'[w] = tx[w] PROVE WorkerChecked(w)'
  <2>1. tx[w].writes \in Seq(Write)
    BY DEF TypeOK, Tx
  <2>2. \A i \in DOMAIN tx[w].writes : tx[w].writes[i].ping \in Ping
    BY <2>1, PingsOf DEF Pings
  <2>3. WorkerChecked(w)
    BY DEF ChecksHold
  <2>4. QED
    BY <1>b, <1>0, <2>2, <2>3 DEF WorkerChecked, Stored
<1>c. ASSUME NEW w \in Worker, tx'[w] = NoTx PROVE WorkerChecked(w)'
    BY <1>c DEF NoTx, WorkerChecked
<1>d. ASSUME NEW w \in Worker, NEW of \in {"none", "post", "upload", "flush", "final"},
             NEW s \in Seq(Write), Begin(w, of, s)
      PROVE  ChecksHold'
  <2>1. \A i \in DOMAIN s : s[i].ping \in Ping
    BY PingsOf DEF Pings
  <2>2. /\ tx'[w].writes = s /\ tx'[w].first > 0
        /\ \A i \in DOMAIN s : i < tx'[w].first => rows[s[i].ping] > 0
        /\ \A v \in Worker : v # w => tx'[v] = tx[v]
    BY <1>d, BeginStep DEF Stored
  <2>3. \A i \in DOMAIN s : i < tx'[w].first => rows'[s[i].ping] > 0
    BY <1>0, <2>1, <2>2
  <2>4. WorkerChecked(w)'
    BY <2>2, <2>3 DEF WorkerChecked, Stored
  <2>5. QED
    BY <1>b, <2>2, <2>4 DEF ChecksHold
<1>1. ASSUME NEW w \in Worker, NEW p \in Ping, PostDirect(w, p) PROVE ChecksHold'
  <2>1. <<[ping |-> p, at |-> now]>> \in Seq(Write)
    BY DEF TypeOK, Write
  <2>2. QED
    BY <1>1, <1>d, <2>1 DEF PostDirect
<1>2. ASSUME NEW w \in Worker, NEW p \in Ping, NEW q \in Ping, Upload(w, p, q) PROVE ChecksHold'
  <2>1. <<[ping |-> p, at |-> now], [ping |-> q, at |-> now]>> \in Seq(Write)
    BY DEF TypeOK, Write
  <2>2. QED
    BY <1>2, <1>d, <2>1 DEF Upload
<1>3. ASSUME NEW w \in Worker, CloseWindow(w) PROVE ChecksHold'
  <2>1. held[w] \o queue[w] \in Seq(Write)
    BY DEF TypeOK
  <2>2. QED
    BY <1>3, <1>d, <2>1 DEF CloseWindow
<1>4. ASSUME NEW w \in Worker, Stop(w) PROVE ChecksHold'
  <2>1. queue[w] \in Seq(Write)
    BY DEF TypeOK
  <2>2. CASE queue[w] = <<>>
    BY <1>4, <1>b, <2>2 DEF Stop, ChecksHold
  <2>3. CASE queue[w] # <<>>
    BY <1>4, <1>d, <2>1, <2>3 DEF Stop
  <2>4. QED
    BY <2>2, <2>3
<1>5. ASSUME NEW w \in Worker, Commit(w) \/ Rollback(w) \/ Kill(w) PROVE ChecksHold'
  <2>1. tx' = [tx EXCEPT ![w] = NoTx]
    BY <1>5 DEF Commit, Rollback, Kill
  <2>2. \A v \in Worker : tx'[v] = NoTx \/ tx'[v] = tx[v]
    BY <2>1 DEF TypeOK
  <2>3. QED
    BY <1>b, <1>c, <2>2 DEF ChecksHold
<1>6. CASE UNCHANGED tx
    BY <1>6, <1>b DEF ChecksHold
<1>7. QED
    BY <1>1, <1>2, <1>3, <1>4, <1>5, <1>6 DEF Next, vars, writers, PostQueued, Heartbeat,
       PostSimple, OpenWindow, Start, Archive, Tick

\* A second row of a ping was stored by a transaction that did not see the first.
LEMMA OneRowStep == TypeOK /\ OneRow /\ [Next]_vars => OneRow'
<1> SUFFICES ASSUME TypeOK, OneRow, [Next]_vars PROVE OneRow'
    OBVIOUS
<1>1. ASSUME NEW w \in Worker, Commit(w) PROVE OneRow'
  <2> SUFFICES ASSUME NEW p \in Ping PROVE rows'[p] <= 1 \/ p \in raced'
    BY DEF OneRow
  <2>0. rows[p] \in Nat /\ (rows[p] <= 1 \/ p \in raced)
    BY DEF TypeOK, OneRow
  <2>1. raced' = raced
                 \cup {tx[w].writes[i].ping : i \in {j \in New(w) : Stored(tx[w].writes[j].ping)}}
    BY <1>1 DEF Commit, New
  <2>2. CASE \E i \in New(w) : tx[w].writes[i].ping = p
    <3>1. PICK i \in New(w) : tx[w].writes[i].ping = p
      BY <2>2
    <3>2. rows'[p] = rows[p] + 1
      BY <1>1, <2>2, CommitStep
    <3>3. CASE rows[p] = 0
      BY <3>2, <3>3
    <3>4. CASE rows[p] > 0
      <4>1. Stored(tx[w].writes[i].ping)
        BY <3>1, <3>4 DEF Stored
      <4>2. QED
        BY <2>1, <3>1, <4>1
    <3>5. QED
      BY <2>0, <3>3, <3>4
  <2>3. CASE ~\E i \in New(w) : tx[w].writes[i].ping = p
    <3>1. rows'[p] = rows[p]
      BY <1>1, <2>3, CommitStep
    <3>2. QED
      BY <2>0, <2>1, <3>1
  <2>4. QED
    BY <2>2, <2>3
<1>2. CASE UNCHANGED <<rows, raced>>
    BY <1>2 DEF OneRow
<1>3. QED
    BY <1>1, <1>2 DEF Next, vars, table, history, PostQueued, PostDirect, Upload,
       Heartbeat, PostSimple, OpenWindow, CloseWindow, Rollback, Stop, Start, Kill, Archive, Tick

\* last_seen is at most a window behind the newest row, and never goes back by
\* more than a window.
LEMMA NewestStep ==
    TypeOK /\ QueuesInUse /\ InTime /\ NewestSeen /\ [Next]_vars =>
        NewestSeen' /\ lastSeen' + Window >= lastSeen
<1> SUFFICES ASSUME TypeOK, QueuesInUse, InTime, NewestSeen, [Next]_vars
             PROVE  NewestSeen' /\ lastSeen' + Window >= lastSeen
    OBVIOUS
<1>0. /\ now \in Nat /\ Window \in Nat /\ lastSeen \in Nat /\ lastSeen <= now
      /\ \A p \in Ping : newest[p] \in Nat /\ newest[p] <= now /\ newest[p] <= lastSeen + Window
      /\ simple \in Nat /\ simple <= now /\ simple <= lastSeen + Window
    BY TelemetryConstants DEF TypeOK, InTime, NewestSeen
<1>a. now \in Nat /\ Window \in Nat /\ lastSeen \in Nat /\ lastSeen <= now
    BY <1>0
<1>1. ASSUME NEW w \in Worker, Commit(w) PROVE NewestSeen' /\ lastSeen' + Window >= lastSeen
  <2>1. /\ opened[w] \in Nat /\ now <= opened[w] + Window /\ now' = now
        /\ From(tx[w].writes, opened[w], now)
    <3>1. tx[w] # NoTx
      BY <1>1 DEF Commit, NoTx
    <3>2. QED
      BY <1>1, <3>1 DEF Commit, InTime, WorkerInTime, TypeOK
  <2>2. \A i \in DOMAIN tx[w].writes : /\ tx[w].writes[i].at \in Nat
                                       /\ opened[w] <= tx[w].writes[i].at
                                       /\ tx[w].writes[i].at <= now
    <3>1. tx[w].writes \in Seq(Write)
      BY DEF TypeOK, Tx
    <3>2. \A i \in DOMAIN tx[w].writes : tx[w].writes[i] \in Write
      BY <3>1
    <3>3. QED
      BY <2>1, <3>2 DEF From, Write
  <2>3. New(w) \subseteq Touching(w) /\ Touching(w) \subseteq DOMAIN tx[w].writes
    BY DEF New, Touching
  <2>4. CASE Touching(w) = {}
    <3>1. lastSeen' = lastSeen /\ simple' = simple
      BY <1>1, <2>4, CommitStep DEF Commit
    <3>2. \A p \in Ping : newest'[p] = newest[p]
      BY <1>1, <2>3, <2>4, CommitStep
    <3>3. QED
      BY <1>0, <2>1, <3>1, <3>2 DEF NewestSeen
  <2>5. CASE Touching(w) # {}
    <3>1. lastSeen' \in Nat /\ now <= lastSeen' + Window
      <4>1. PICK m \in Touching(w) : lastSeen' = tx[w].writes[m].at
        BY <1>1, <2>5, CommitStep
      <4>2. QED
        BY <1>0, <2>1, <2>2, <2>3, <4>1
    <3>2. \A p \in Ping : newest'[p] \in Nat /\ newest'[p] <= now
      BY <1>0, <1>1, <2>2, <2>3, CommitStep
    <3>3. NewestSeen'
      <4>1. simple' = simple
        BY <1>1 DEF Commit
      <4>2. QED
        BY <1>0, <2>1, <3>1, <3>2, <4>1 DEF NewestSeen
    <3>4. lastSeen' + Window >= lastSeen
      <4>1. \A a, b, c, d \in Nat : a <= b /\ b <= c + d => c + d >= a
        OBVIOUS
      <4>2. QED
        BY <1>a, <3>1, <4>1
    <3>5. QED
      BY <3>3, <3>4
  <2>6. QED
    BY <2>4, <2>5
<1>2. ASSUME NEW w \in Worker, Heartbeat(w) \/ PostSimple(w)
      PROVE  NewestSeen' /\ lastSeen' + Window >= lastSeen
  <2>1. lastSeen' = now /\ now' = now /\ newest' = newest /\ simple' \in {simple, now}
    BY <1>2 DEF Heartbeat, PostSimple
  <2>2. QED
    BY <1>0, <2>1 DEF NewestSeen
<1>3. CASE Tick
  <2>1. lastSeen' = lastSeen /\ now' = now + 1 /\ newest' = newest /\ simple' = simple
    BY <1>3 DEF Tick, table
  <2>2. QED
    BY <1>0, <2>1 DEF NewestSeen
<1>4. CASE UNCHANGED <<lastSeen, newest, simple, now>>
    BY <1>0, <1>4 DEF NewestSeen
<1>5. QED
    BY <1>1, <1>2, <1>3, <1>4 DEF Next, vars, table, PostQueued, PostDirect, Upload,
       OpenWindow, CloseWindow, Rollback, Stop, Start, Kill, Archive

\* Without the write queue every commit un-archives: only the sweep hides, and
\* only a device whose last_seen, and so whose newest row, is old.
LEMMA HiddenStep ==
    TypeOK /\ QueuesInUse /\ NewestSeen /\ HiddenIsSilent /\ [Next]_vars => HiddenIsSilent'
<1> SUFFICES ASSUME TypeOK, QueuesInUse, NewestSeen, HiddenIsSilent, [Next]_vars
             PROVE  HiddenIsSilent'
    OBVIOUS
<1>0. /\ now \in Nat /\ Window \in Nat /\ ArchiveAfter \in Nat /\ lastSeen \in Nat
      /\ \A p \in Ping : newest[p] \in Nat /\ newest[p] <= lastSeen + Window
      /\ simple \in Nat /\ simple <= lastSeen + Window
    BY TelemetryConstants DEF TypeOK, NewestSeen
<1>1. CASE Archive
  <2>1. lastSeen + ArchiveAfter < now /\ UNCHANGED <<now, newest, simple>>
    BY <1>1 DEF Archive
  <2>2. QED
    BY <1>0, <2>1 DEF HiddenIsSilent
<1>2. ASSUME NEW w \in Worker, Commit(w) PROVE HiddenIsSilent'
  <2>1. tx[w].of \in {"post", "upload", "flush", "final"}
    BY <1>2 DEF Commit, TypeOK, Tx
  <2>2. /\ batched' = batched
        /\ archived' = (archived /\ ~(tx[w].of \in {"post", "upload"}))
    BY <1>2 DEF Commit
  <2>3. batched' \/ ~archived'
    BY <2>1, <2>2 DEF QueuesInUse
  <2>4. QED
    BY <2>3 DEF HiddenIsSilent
<1>3. ASSUME ~archived' PROVE HiddenIsSilent'
    BY <1>3 DEF HiddenIsSilent
<1>4. CASE Tick
  <2>1. now' = now + 1 /\ UNCHANGED <<batched, rows, newest, simple, archived>>
    BY <1>4 DEF Tick, table
  <2>2. QED
    BY <1>0, <2>1 DEF HiddenIsSilent, Stored
<1>5. CASE UNCHANGED <<now, batched, rows, newest, simple, archived>>
    BY <1>5 DEF HiddenIsSilent, Stored
<1>6. ASSUME NEW w \in Worker, PostSimple(w), archived' PROVE HiddenIsSilent'
  <2>1. UNCHANGED <<now, batched, rows, newest, simple, archived>>
    BY <1>6 DEF PostSimple
  <2>2. QED
    BY <2>1 DEF HiddenIsSilent, Stored
<1>7. QED
    BY <1>1, <1>2, <1>3, <1>4, <1>5, <1>6 DEF Next, vars, table, PostQueued, PostDirect, Upload,
       Heartbeat, OpenWindow, CloseWindow, Rollback, Stop, Start, Kill

-----------------------------------------------------------------------------
(* The accepted pings *)

\* A commit leaves no ping of its transaction without a row: the write that
\* Inserted passes over has its ping in the table, or stored by the same
\* transaction.
LEMMA CommitStores ==
    ASSUME TypeOK, ChecksHold, NEW w \in Worker, Commit(w), NEW i \in DOMAIN tx[w].writes
    PROVE  rows'[tx[w].writes[i].ping] > 0
<1> DEFINE t == tx[w]
           p == t.writes[i].ping
           same == {j \in DOMAIN t.writes : j >= t.first /\ t.writes[j].ping = p}
<1>1. t \in Tx /\ t.writes \in Seq(Write) /\ t.first \in Nat
    BY DEF TypeOK, Tx
<1>2. t.first > 0 /\ (i < t.first => rows[p] > 0)
    BY DEF ChecksHold, WorkerChecked, Commit, Stored
<1>3. p \in Ping
    BY <1>1, PingsOf DEF Pings
<1>4. rows[p] \in Nat
    BY <1>3 DEF TypeOK
<1>5. rows'[p] = IF \E j \in New(w) : t.writes[j].ping = p THEN rows[p] + 1 ELSE rows[p]
    BY <1>3, CommitStep
<1>6. CASE rows[p] > 0
    BY <1>4, <1>5, <1>6
<1>7. CASE ~(rows[p] > 0)
  <2>1. i \in same /\ same \in SUBSET Nat
    BY <1>1, <1>2, <1>7
  <2>2. PICK m \in same : \A j \in same : m <= j
    BY <2>1, Least
  <2>3. \A j \in t.first..(m - 1) : j \in DOMAIN t.writes /\ j \notin same /\ j >= t.first
    BY <1>1, <1>2, <2>1, <2>2
  <2>4. \A j \in t.first..(m - 1) : t.writes[j].ping # t.writes[m].ping
    BY <2>2, <2>3
  <2>5. m \in DOMAIN t.writes /\ m >= t.first /\ t.writes[m].ping = p /\ ~Stored(p) /\ m \in Nat
    BY <1>7, <2>1, <2>2 DEF Stored
  <2>6. Inserted(t, m)
    BY <1>1, <2>4, <2>5 DEF Inserted
  <2>7. m \in New(w) /\ t.writes[m].ping = p
    BY <2>5, <2>6 DEF New
  <2>8. QED
    BY <1>4, <1>5, <2>7
<1>8. QED
    BY <1>6, <1>7

\* What a worker has in hand is queued, held, or in a transaction of the queue.
LEMMA HandOf ==
    ASSUME NEW q \in Seq(Write), NEW h \in Seq(Write), NEW s \in Seq(Write)
    PROVE  Pings(q \o h \o s) = Pings(q) \cup Pings(h) \cup Pings(s)
<1>1. q \o h \in Seq(Write)
    OBVIOUS
<1>2. Pings(q \o h) = Pings(q) \cup Pings(h)
    BY PingsOf
<1>3. Pings((q \o h) \o s) = Pings(q \o h) \cup Pings(s)
    BY <1>1, PingsOf
<1>4. QED
    BY <1>2, <1>3

\* A ping that was answered 'ok' is stored, in hand or lost, whatever the step.
LEMMA AccountedStep ==
    TypeOK /\ TypeOK' /\ QueuesInUse /\ ChecksHold /\ Accounted /\ [Next]_vars => Accounted'
<1> DEFINE Batch(t) == IF t.of \in {"flush", "final"} THEN t.writes ELSE <<>>
<1> SUFFICES ASSUME TypeOK, TypeOK', QueuesInUse, ChecksHold, Accounted, [Next]_vars
             PROVE  Accounted'
    OBVIOUS
<1>0. NoTx.of = "none" /\ NoTx.writes = <<>> /\ Pings(<<>>) = {} /\ Batch(NoTx) = <<>>
    BY PingsOf DEF NoTx
<1>a. ASSUME NEW w \in Worker
      PROVE  /\ queue[w] \in Seq(Write) /\ held[w] \in Seq(Write) /\ tx[w].writes \in Seq(Write)
             /\ Batch(tx[w]) \in Seq(Write)
             /\ Pings(InHand(w)) = Pings(queue[w]) \cup Pings(held[w]) \cup Pings(Batch(tx[w]))
             /\ Pings(InHand(w))' = Pings(queue'[w]) \cup Pings(held'[w]) \cup Pings(Batch(tx'[w]))
  <2>1. queue[w] \in Seq(Write) /\ held[w] \in Seq(Write) /\ tx[w].writes \in Seq(Write)
    BY DEF TypeOK, Tx
  <2>2. queue'[w] \in Seq(Write) /\ held'[w] \in Seq(Write) /\ tx'[w].writes \in Seq(Write)
    BY DEF TypeOK, Tx
  <2>3. Batch(tx[w]) \in Seq(Write) /\ Batch(tx'[w]) \in Seq(Write)
    BY <2>1, <2>2, WriteSeqs
  <2>4. /\ InHand(w) = queue[w] \o held[w] \o Batch(tx[w])
        /\ InHand(w)' = queue'[w] \o held'[w] \o Batch(tx'[w])
    BY DEF InHand
  <2> HIDE DEF Batch
  <2>5. /\ Pings(InHand(w)) = Pings(queue[w]) \cup Pings(held[w]) \cup Pings(Batch(tx[w]))
        /\ Pings(queue'[w] \o held'[w] \o Batch(tx'[w])) =
                Pings(queue'[w]) \cup Pings(held'[w]) \cup Pings(Batch(tx'[w]))
    BY <2>1, <2>2, <2>3, <2>4, HandOf
  <2>6. Pings(InHand(w))' = Pings(queue'[w] \o held'[w] \o Batch(tx'[w]))
    BY <2>4 DEF Pings
  <2>7. QED
    BY <2>1, <2>3, <2>5, <2>6
<1> HIDE DEF Batch
\* It is enough to follow the pings in the hand of the worker that acts.
<1>b. ASSUME NEW w \in Worker,
             lost \subseteq lost',
             \A v \in Worker : v # w =>
                queue'[v] = queue[v] /\ held'[v] = held[v] /\ tx'[v] = tx[v],
             \A p \in Pings(InHand(w)) :
                rows'[p] > 0 \/ p \in lost' \/ p \in Pings(InHand(w))',
             \A p \in accepted' \ accepted : rows'[p] > 0 \/ p \in Pings(InHand(w))'
      PROVE  Accounted'
  <2> SUFFICES ASSUME NEW p \in accepted'
               PROVE  rows'[p] > 0 \/ p \in lost' \/ \E v \in Worker : p \in Pings(InHand(v))'
    BY DEF Accounted, Stored
  <2>1. p \in Ping
    BY DEF TypeOK
  <2>2. CASE p \notin accepted
    BY <1>b, <2>2
  <2>3. CASE p \in accepted
    <3>1. CASE rows[p] > 0
      BY <2>1, <3>1, RowsStay DEF TypeOK
    <3>2. CASE p \in lost
      BY <1>b, <3>2
    <3>3. ASSUME NEW v \in Worker, p \in Pings(InHand(v)), v # w
          PROVE  p \in Pings(InHand(v))'
      BY <1>a, <1>b, <3>3
    <3>4. CASE p \in Pings(InHand(w))
      BY <1>b, <3>4
    <3>5. rows[p] > 0 \/ p \in lost \/ \E v \in Worker : p \in Pings(InHand(v))
      BY <2>3 DEF Accounted, Stored
    <3>6. QED
      BY <3>1, <3>2, <3>3, <3>4, <3>5
  <2>4. QED
    BY <2>2, <2>3
<1>1. ASSUME NEW w \in Worker, NEW p \in Ping, PostQueued(w, p) PROVE Accounted'
  <2>1. [ping |-> p, at |-> now] \in Write
    BY DEF TypeOK, Write
  <2>2. queue'[w] = Append(queue[w], [ping |-> p, at |-> now])
    BY <1>1 DEF PostQueued, TypeOK
  <2>3. Pings(queue'[w]) = Pings(queue[w]) \cup {p}
    BY <1>a, <2>1, <2>2, PingsOf
  <2>4. held' = held /\ tx' = tx /\ lost' = lost /\ accepted' = accepted \cup {p}
    BY <1>1 DEF PostQueued
  <2>5. Pings(InHand(w))' = Pings(InHand(w)) \cup {p}
    BY <1>a, <2>3, <2>4
  <2>6. \A v \in Worker : v # w => queue'[v] = queue[v]
    BY <1>1 DEF PostQueued, TypeOK
  <2>7. QED
    BY <1>b, <2>4, <2>5, <2>6
<1>c. ASSUME NEW w \in Worker, tx[w] = NoTx, Pings(queue[w]) \subseteq Pings(queue'[w]),
             Pings(held[w]) \subseteq Pings(held'[w])
      PROVE  Pings(InHand(w)) \subseteq Pings(InHand(w))'
    BY <1>0, <1>a, <1>c
<1>2. ASSUME NEW w \in Worker, NEW p \in Ping, NEW q \in Ping, PostDirect(w, p) \/ Upload(w, p, q)
      PROVE Accounted'
  <2>1. /\ tx[w] = NoTx /\ queue' = queue /\ held' = held
        /\ lost' = lost /\ accepted' = accepted
    BY <1>2 DEF PostDirect, Upload, Send, Serving, history
  <2>2. Pings(InHand(w)) \subseteq Pings(InHand(w))'
    BY <1>c, <2>1
  <2>3. \A v \in Worker : v # w => tx'[v] = tx[v]
    BY <1>2, OthersAlone
  <2>4. QED
    BY <1>b, <2>1, <2>2, <2>3
<1>3. ASSUME NEW w \in Worker, OpenWindow(w) PROVE Accounted'
  <2>1. /\ queue[w] # <<>> /\ held'[w] = <<Head(queue[w])>> /\ queue'[w] = Tail(queue[w])
        /\ writer[w] = "waiting" /\ tx' = tx /\ lost' = lost /\ accepted' = accepted
    BY <1>3 DEF OpenWindow, TypeOK, history
  <2>2. Pings(queue[w]) = Pings(held'[w]) \cup Pings(queue'[w])
    BY <1>a, <2>1, PingsOf
  <2>3. held[w] = <<>>
    BY <2>1 DEF TypeOK
  <2>4. Pings(InHand(w)) \subseteq Pings(InHand(w))'
    BY <1>0, <1>a, <2>1, <2>2, <2>3
  <2>5. QED
    BY <1>3, <1>b, <2>1, <2>4, OthersAlone
<1>4. ASSUME NEW w \in Worker, CloseWindow(w) PROVE Accounted'
  <2>1. held[w] \o queue[w] \in Seq(Write)
    BY DEF TypeOK
  <2>2. tx'[w].of = "flush" /\ tx'[w].writes = held[w] \o queue[w]
    BY <1>4, <2>1, BeginStep DEF CloseWindow
  <2>3. Pings(Batch(tx'[w])) = Pings(held[w]) \cup Pings(queue[w])
    BY <1>a, <2>2, PingsOf DEF Batch
  <2>4. tx[w] = NoTx /\ lost' = lost /\ accepted' = accepted
    BY <1>4 DEF CloseWindow, Serving, history
  <2>5. Pings(InHand(w)) \subseteq Pings(InHand(w))'
    BY <1>0, <1>a, <2>3, <2>4
  <2>6. QED
    BY <1>4, <1>b, <2>4, <2>5, OthersAlone
<1>5. ASSUME NEW w \in Worker, Commit(w) PROVE Accounted'
  <2>1. tx'[w] = NoTx /\ queue' = queue /\ held' = held /\ lost' = lost
    BY <1>5 DEF Commit, TypeOK
  <2>2. \A p \in Pings(tx[w].writes) : rows'[p] > 0
    BY <1>5, CommitStores DEF Pings
  <2>3. Pings(Batch(tx[w])) \subseteq Pings(tx[w].writes)
    BY <1>0 DEF Batch
  <2>4. accepted' \subseteq accepted \cup Pings(tx[w].writes)
    BY <1>5 DEF Commit
  <2>5. \A p \in Pings(InHand(w)) : rows'[p] > 0 \/ p \in Pings(InHand(w))'
    BY <1>a, <2>1, <2>2, <2>3
  <2>6. \A p \in accepted' \ accepted : rows'[p] > 0
    BY <2>2, <2>4
  <2>7. QED
    BY <1>5, <1>b, <2>1, <2>5, <2>6, OthersAlone
<1>6. ASSUME NEW w \in Worker, Rollback(w) PROVE Accounted'
  <2>1. queue' = queue /\ held' = held /\ accepted' = accepted
    BY <1>6 DEF Rollback
  <2>2. lost \subseteq lost' /\ Pings(Batch(tx[w])) \subseteq lost'
    BY <1>0, <1>6 DEF Rollback, Batch
  <2>3. \A p \in Pings(InHand(w)) : p \in lost' \/ p \in Pings(InHand(w))'
    BY <1>a, <2>1, <2>2
  <2>4. QED
    BY <1>6, <1>b, <2>1, <2>2, <2>3, OthersAlone
<1>7. ASSUME NEW w \in Worker, Stop(w) PROVE Accounted'
  <2>1. tx[w] = NoTx /\ lost' = lost \cup Pings(held[w]) /\ accepted' = accepted
    BY <1>7 DEF Stop, Serving
  <2>2. Pings(queue[w]) \subseteq Pings(Batch(tx'[w]))
    <3>1. CASE queue[w] = <<>>
      BY <1>0, <3>1
    <3>2. CASE queue[w] # <<>>
      <4>1. tx'[w].of = "final" /\ tx'[w].writes = queue[w]
        BY <1>7, <1>a, <3>2, BeginStep DEF Stop
      <4>2. QED
        BY <4>1 DEF Batch
    <3>3. QED
      BY <3>1, <3>2
  <2>3. \A p \in Pings(InHand(w)) : p \in lost' \/ p \in Pings(InHand(w))'
    BY <1>0, <1>a, <2>1, <2>2
  <2>4. QED
    BY <1>7, <1>b, <2>1, <2>3, OthersAlone
<1>8. ASSUME NEW w \in Worker, Kill(w) PROVE Accounted'
  <2>1. lost' = lost \cup Pings(InHand(w)) /\ accepted' = accepted
    BY <1>8 DEF Kill
  <2>2. QED
    BY <1>8, <1>b, <2>1, OthersAlone
<1>9. CASE UNCHANGED <<queue, held, tx, lost, accepted>>
  <2> SUFFICES ASSUME NEW p \in accepted
               PROVE  rows'[p] > 0 \/ p \in lost \/ \E v \in Worker : p \in Pings(InHand(v))'
    BY <1>9 DEF Accounted, Stored
  <2>1. \A v \in Worker : Pings(InHand(v))' = Pings(InHand(v))
    BY <1>9, <1>a
  <2>2. p \in Ping
    BY DEF TypeOK
  <2>3. rows[p] > 0 => rows'[p] > 0
    BY <2>2, RowsStay DEF TypeOK
  <2>4. QED
    BY <2>1, <2>3 DEF Accounted, Stored
<1>10. QED
    BY <1>1, <1>2, <1>3, <1>4, <1>5, <1>6, <1>7, <1>8, <1>9 DEF Next, vars, history, writers,
       Heartbeat, PostSimple, Start, Archive, Tick

-----------------------------------------------------------------------------
(* The theorems *)

\* The invariant on which the others rest is inductive.
THEOREM StoreInvHolds == Spec => []StoreInv
<1>1. Init => StoreInv
  <2> SUFFICES ASSUME Init PROVE StoreInv
    OBVIOUS
  <2>1. TypeOK
    BY TypeInit
  <2>2. QueuesInUse /\ ChecksHold
    BY DEF Init, QueuesInUse, ChecksHold, WorkerChecked, NoTx
  <2>3. InTime
    BY TelemetryConstants DEF Init, InTime, WorkerInTime, From, NoTx
  <2>4. NewestSeen /\ OneRow /\ HiddenIsSilent /\ Accounted
    BY TelemetryConstants DEF Init, NewestSeen, OneRow, HiddenIsSilent, Accounted
  <2>5. QED
    BY <2>1, <2>2, <2>3, <2>4 DEF StoreInv
<1>2. StoreInv /\ [Next]_vars => StoreInv'
    BY TypeStep, QueuesStep, InTimeStep, ChecksStep, NewestStep, OneRowStep, AccountedStep,
       HiddenStep DEF StoreInv
<1>3. QED
    BY <1>1, <1>2, PTL DEF Spec

\* However often, to whichever workers and by whichever endpoint the device
\* sends a ping, it has one row, unless a row was stored between the check and
\* the INSERT (_persist_location).
THEOREM OneRowHolds == Spec => []OneRow
<1>1. StoreInv => OneRow
    BY DEF StoreInv
<1>2. QED
    BY <1>1, StoreInvHolds, PTL

\* A ping that post_location answered 'ok' to is stored, in the hand of a
\* worker, or was in a failed transaction, a killed process or a cancelled
\* writer.
THEOREM AccountedHolds == Spec => []Accounted
<1>1. StoreInv => Accounted
    BY DEF StoreInv
<1>2. QED
    BY <1>1, StoreInvHolds, PTL

\* Without the write queue, archive_stale_devices hides no device that has a row
\* newer than the threshold.
THEOREM HiddenIsSilentHolds == Spec => []HiddenIsSilent
<1>1. StoreInv => HiddenIsSilent
    BY DEF StoreInv
<1>2. QED
    BY <1>1, StoreInvHolds, PTL

\* Whatever overtakes what, last_seen never goes back by more than one window.
THEOREM SeenHoldsOnHolds == Spec => SeenHoldsOn
<1>1. StoreInv /\ [Next]_vars => [lastSeen' + Window >= lastSeen]_vars
    BY NewestStep DEF StoreInv
<1>2. QED
    BY <1>1, StoreInvHolds, PTL DEF Spec, SeenHoldsOn

-----------------------------------------------------------------------------
(* The run of MCServer: one part of it, chosen at the start *)

all == <<part, vars, registers>>

\* Whichever part runs, telemetry behaves as TelemetryStore specifies: it is left
\* alone while another part moves.
THEOREM TelemetryInRun == PartSpec => Spec
<1>1. PartInit => Init
    BY DEF PartInit, Resting
<1>2. [PartNext]_all => [Next]_vars
    BY DEF PartNext, all
<1>3. QED
    BY <1>1, <1>2, PTL DEF PartSpec, Spec, all

(* The part is the same for ever, and the registers behave as its module specifies: *)
(* each of the parts in turn.                                                       *)

\* The offline monitor: chosen at the start, or never.
LEMMA WatchInRun ==
    PartSpec => []~(part = "watch") \/ ([](part = "watch") /\ Watch!Spec)
<1>1. PartInit /\ part = "watch" => Watch!Init
    BY DEF PartInit
<1>2. part = "watch" /\ [PartNext]_all => (part = "watch")' /\ [Watch!Next]_Watch!vars
  <2> SUFFICES ASSUME part = "watch", [PartNext]_all
               PROVE  part' = "watch" /\ [Watch!Next]_Watch!vars
    OBVIOUS
  <2>1. CASE UNCHANGED all
        BY <2>1 DEF all, registers, Watch!lockVars, Watch!devices, Watch!sweeps, Watch!history,
            Watch!vars
  <2>2. CASE Watch!Next /\ UNCHANGED part
    BY <2>2
  <2>3. QED
    BY <2>1, <2>2 DEF PartNext
<1>3. ~(part = "watch") /\ [PartNext]_all => ~(part = "watch")'
    BY DEF PartNext, all
<1>4. QED
    BY <1>1, <1>2, <1>3, PTL DEF PartSpec, Watch!Spec, all

\* The feed of one device: chosen at the start, or never.
LEMMA FeedInRun ==
    PartSpec => []~(part = "feed") \/ ([](part = "feed") /\ Feed!Spec)
<1>1. PartInit /\ part = "feed" => Feed!Init
    BY DEF PartInit
<1>2. part = "feed" /\ [PartNext]_all => (part = "feed")' /\ [Feed!Next]_Feed!vars
  <2> SUFFICES ASSUME part = "feed", [PartNext]_all
               PROVE  part' = "feed" /\ [Feed!Next]_Feed!vars
    OBVIOUS
  <2>1. CASE UNCHANGED all
        BY <2>1 DEF all, registers, Feed!vars
  <2>2. CASE Feed!Next /\ UNCHANGED part
    BY <2>2
  <2>3. QED
    BY <2>1, <2>2 DEF PartNext
<1>3. ~(part = "feed") /\ [PartNext]_all => ~(part = "feed")'
    BY DEF PartNext, all
<1>4. QED
    BY <1>1, <1>2, <1>3, PTL DEF PartSpec, Feed!Spec, all

\* The feed of a device that changes hands: chosen at the start, or never.
LEMMA OwnersInRun ==
    PartSpec => []~(part = "owners") \/ ([](part = "owners") /\ Owners!Spec)
<1>1. PartInit /\ part = "owners" => Owners!Init
    BY DEF PartInit
<1>2. part = "owners" /\ [PartNext]_all => (part = "owners")' /\ [Owners!Next]_Owners!vars
  <2> SUFFICES ASSUME part = "owners", [PartNext]_all
               PROVE  part' = "owners" /\ [Owners!Next]_Owners!vars
    OBVIOUS
  <2>1. CASE UNCHANGED all
        BY <2>1 DEF all, registers, Owners!vars
  <2>2. CASE Owners!Next /\ UNCHANGED part
    BY <2>2
  <2>3. QED
    BY <2>1, <2>2 DEF PartNext
<1>3. ~(part = "owners") /\ [PartNext]_all => ~(part = "owners")'
    BY DEF PartNext, all
<1>4. QED
    BY <1>1, <1>2, <1>3, PTL DEF PartSpec, Owners!Spec, all

\* Devices and plans: chosen at the start, or never.
LEMMA PlansInRun ==
    PartSpec => []~(part = "plans") \/ ([](part = "plans") /\ Plans!Spec)
<1>1. PartInit /\ part = "plans" => Plans!Init
    BY DEF PartInit
<1>2. part = "plans" /\ [PartNext]_all => (part = "plans")' /\ [Plans!Next]_Plans!vars
  <2> SUFFICES ASSUME part = "plans", [PartNext]_all
               PROVE  part' = "plans" /\ [Plans!Next]_Plans!vars
    OBVIOUS
  <2>1. CASE UNCHANGED all
        BY <2>1 DEF all, registers, Plans!vars
  <2>2. CASE Plans!Next /\ UNCHANGED part
    BY <2>2
  <2>3. QED
    BY <2>1, <2>2 DEF PartNext
<1>3. ~(part = "plans") /\ [PartNext]_all => ~(part = "plans")'
    BY DEF PartNext, all
<1>4. QED
    BY <1>1, <1>2, <1>3, PTL DEF PartSpec, Plans!Spec, all

\* Claims and shares: chosen at the start, or never.
LEMMA GrantsInRun ==
    PartSpec => []~(part = "grants") \/ ([](part = "grants") /\ Grants!Spec)
<1>1. PartInit /\ part = "grants" => Grants!Init
    BY DEF PartInit
<1>2. part = "grants" /\ [PartNext]_all => (part = "grants")' /\ [Grants!Next]_Grants!vars
  <2> SUFFICES ASSUME part = "grants", [PartNext]_all
               PROVE  part' = "grants" /\ [Grants!Next]_Grants!vars
    OBVIOUS
  <2>1. CASE UNCHANGED all
        BY <2>1 DEF all, registers, Grants!vars
  <2>2. CASE Grants!Next /\ UNCHANGED part
    BY <2>2
  <2>3. QED
    BY <2>1, <2>2 DEF PartNext
<1>3. ~(part = "grants") /\ [PartNext]_all => ~(part = "grants")'
    BY DEF PartNext, all
<1>4. QED
    BY <1>1, <1>2, <1>3, PTL DEF PartSpec, Grants!Spec, all

\* Links and tokens: chosen at the start, or never.
LEMMA LinksInRun ==
    PartSpec => []~(part = "links") \/ ([](part = "links") /\ Links!Spec)
<1>1. PartInit /\ part = "links" => Links!Init
    BY DEF PartInit
<1>2. part = "links" /\ [PartNext]_all => (part = "links")' /\ [Links!Next]_Links!vars
  <2> SUFFICES ASSUME part = "links", [PartNext]_all
               PROVE  part' = "links" /\ [Links!Next]_Links!vars
    OBVIOUS
  <2>1. CASE UNCHANGED all
        BY <2>1 DEF all, registers, Links!vars
  <2>2. CASE Links!Next /\ UNCHANGED part
    BY <2>2
  <2>3. QED
    BY <2>1, <2>2 DEF PartNext
<1>3. ~(part = "links") /\ [PartNext]_all => ~(part = "links")'
    BY DEF PartNext, all
<1>4. QED
    BY <1>1, <1>2, <1>3, PTL DEF PartSpec, Links!Spec, all

\* The second factor: chosen at the start, or never.
LEMMA CodesInRun ==
    PartSpec => []~(part = "codes") \/ ([](part = "codes") /\ Codes!Spec)
<1>1. PartInit /\ part = "codes" => Codes!Init
    BY DEF PartInit
<1>2. part = "codes" /\ [PartNext]_all => (part = "codes")' /\ [Codes!Next]_Codes!vars
  <2> SUFFICES ASSUME part = "codes", [PartNext]_all
               PROVE  part' = "codes" /\ [Codes!Next]_Codes!vars
    OBVIOUS
  <2>1. CASE UNCHANGED all
        BY <2>1 DEF all, registers, Codes!vars
  <2>2. CASE Codes!Next /\ UNCHANGED part
    BY <2>2
  <2>3. QED
    BY <2>1, <2>2 DEF PartNext
<1>3. ~(part = "codes") /\ [PartNext]_all => ~(part = "codes")'
    BY DEF PartNext, all
<1>4. QED
    BY <1>1, <1>2, <1>3, PTL DEF PartSpec, Codes!Spec, all

\* The limiter with rows: chosen at the start, or never.
LEMMA RowsInRun ==
    PartSpec => []~(part = "rows") \/ ([](part = "rows") /\ Rows!Spec)
<1>1. PartInit /\ part = "rows" => Rows!Init
    BY DEF PartInit
<1>2. part = "rows" /\ [PartNext]_all => (part = "rows")' /\ [Rows!Next]_Rows!vars
  <2> SUFFICES ASSUME part = "rows", [PartNext]_all
               PROVE  part' = "rows" /\ [Rows!Next]_Rows!vars
    OBVIOUS
  <2>1. CASE UNCHANGED all
        BY <2>1 DEF all, registers, Rows!vars
  <2>2. CASE Rows!Next /\ UNCHANGED part
    BY <2>2
  <2>3. QED
    BY <2>1, <2>2 DEF PartNext
<1>3. ~(part = "rows") /\ [PartNext]_all => ~(part = "rows")'
    BY DEF PartNext, all
<1>4. QED
    BY <1>1, <1>2, <1>3, PTL DEF PartSpec, Rows!Spec, all

\* The limiter in memory: chosen at the start, or never.
LEMMA MemoryInRun ==
    PartSpec => []~(part = "memory") \/ ([](part = "memory") /\ Memory!Spec)
<1>1. PartInit /\ part = "memory" => Memory!Init
    BY DEF PartInit
<1>2. part = "memory" /\ [PartNext]_all => (part = "memory")' /\ [Memory!Next]_Memory!vars
  <2> SUFFICES ASSUME part = "memory", [PartNext]_all
               PROVE  part' = "memory" /\ [Memory!Next]_Memory!vars
    OBVIOUS
  <2>1. CASE UNCHANGED all
        BY <2>1 DEF all, registers, Memory!vars
  <2>2. CASE Memory!Next /\ UNCHANGED part
    BY <2>2
  <2>3. QED
    BY <2>1, <2>2 DEF PartNext
<1>3. ~(part = "memory") /\ [PartNext]_all => ~(part = "memory")'
    BY DEF PartNext, all
<1>4. QED
    BY <1>1, <1>2, <1>3, PTL DEF PartSpec, Memory!Spec, all

\* Circles: chosen at the start, or never.
LEMMA CircleInRun ==
    PartSpec => []~(part = "circle") \/ ([](part = "circle") /\ Circle!Spec)
<1>1. PartInit /\ part = "circle" => Circle!Init
    BY DEF PartInit
<1>2. part = "circle" /\ [PartNext]_all => (part = "circle")' /\ [Circle!Next]_Circle!vars
  <2> SUFFICES ASSUME part = "circle", [PartNext]_all
               PROVE  part' = "circle" /\ [Circle!Next]_Circle!vars
    OBVIOUS
  <2>1. CASE UNCHANGED all
        BY <2>1 DEF all, registers, Circle!vars
  <2>2. CASE Circle!Next /\ UNCHANGED part
    BY <2>2
  <2>3. QED
    BY <2>1, <2>2 DEF PartNext
<1>3. ~(part = "circle") /\ [PartNext]_all => ~(part = "circle")'
    BY DEF PartNext, all
<1>4. QED
    BY <1>1, <1>2, <1>3, PTL DEF PartSpec, Circle!Spec, all

\* Start-up: chosen at the start, or never.
LEMMA BootInRun ==
    PartSpec => []~(part = "start") \/ ([](part = "start") /\ Boot!Spec)
<1>1. PartInit /\ part = "start" => Boot!Init
    BY DEF PartInit
<1>2. part = "start" /\ [PartNext]_all => (part = "start")' /\ [Boot!Next]_Boot!vars
  <2> SUFFICES ASSUME part = "start", [PartNext]_all
               PROVE  part' = "start" /\ [Boot!Next]_Boot!vars
    OBVIOUS
  <2>1. CASE UNCHANGED all
        BY <2>1 DEF all, registers, Boot!vars
  <2>2. CASE Boot!Next /\ UNCHANGED part
    BY <2>2
  <2>3. QED
    BY <2>1, <2>2 DEF PartNext
<1>3. ~(part = "start") /\ [PartNext]_all => ~(part = "start")'
    BY DEF PartNext, all
<1>4. QED
    BY <1>1, <1>2, <1>3, PTL DEF PartSpec, Boot!Spec, all

\* Start-up of one worker that may fail: chosen at the start, or never.
LEMMA AloneInRun ==
    PartSpec => []~(part = "alone") \/ ([](part = "alone") /\ Alone!Spec)
<1>1. PartInit /\ part = "alone" => Alone!Init
    BY DEF PartInit
<1>2. part = "alone" /\ [PartNext]_all => (part = "alone")' /\ [Alone!Next]_Alone!vars
  <2> SUFFICES ASSUME part = "alone", [PartNext]_all
               PROVE  part' = "alone" /\ [Alone!Next]_Alone!vars
    OBVIOUS
  <2>1. CASE UNCHANGED all
        BY <2>1 DEF all, registers, Alone!vars
  <2>2. CASE Alone!Next /\ UNCHANGED part
    BY <2>2
  <2>3. QED
    BY <2>1, <2>2 DEF PartNext
<1>3. ~(part = "alone") /\ [PartNext]_all => ~(part = "alone")'
    BY DEF PartNext, all
<1>4. QED
    BY <1>1, <1>2, <1>3, PTL DEF PartSpec, Alone!Spec, all

\* Flags: chosen at the start, or never.
LEMMA FlaggedInRun ==
    PartSpec => []~(part = "flags") \/ ([](part = "flags") /\ Flagged!Spec)
<1>1. PartInit /\ part = "flags" => Flagged!Init
    BY DEF PartInit
<1>2. part = "flags" /\ [PartNext]_all => (part = "flags")' /\ [Flagged!Next]_Flagged!vars
  <2> SUFFICES ASSUME part = "flags", [PartNext]_all
               PROVE  part' = "flags" /\ [Flagged!Next]_Flagged!vars
    OBVIOUS
  <2>1. CASE UNCHANGED all
        BY <2>1 DEF all, registers, Flagged!vars
  <2>2. CASE Flagged!Next /\ UNCHANGED part
    BY <2>2
  <2>3. QED
    BY <2>1, <2>2 DEF PartNext
<1>3. ~(part = "flags") /\ [PartNext]_all => ~(part = "flags")'
    BY DEF PartNext, all
<1>4. QED
    BY <1>1, <1>2, <1>3, PTL DEF PartSpec, Flagged!Spec, all

\* Release digests: chosen at the start, or never.
LEMMA ReleaseInRun ==
    PartSpec => []~(part = "release") \/ ([](part = "release") /\ Release!Spec)
<1>1. PartInit /\ part = "release" => Release!Init
    BY DEF PartInit
<1>2. part = "release" /\ [PartNext]_all => (part = "release")' /\ [Release!Next]_Release!vars
  <2> SUFFICES ASSUME part = "release", [PartNext]_all
               PROVE  part' = "release" /\ [Release!Next]_Release!vars
    OBVIOUS
  <2>1. CASE UNCHANGED all
        BY <2>1 DEF all, registers, Release!vars
  <2>2. CASE Release!Next /\ UNCHANGED part
    BY <2>2
  <2>3. QED
    BY <2>1, <2>2 DEF PartNext
<1>3. ~(part = "release") /\ [PartNext]_all => ~(part = "release")'
    BY DEF PartNext, all
<1>4. QED
    BY <1>1, <1>2, <1>3, PTL DEF PartSpec, Release!Spec, all

\* The routing of alerts: chosen at the start, or never.
LEMMA RoutesInRun ==
    PartSpec => []~(part = "routes") \/ ([](part = "routes") /\ Routes!Spec)
<1>1. PartInit /\ part = "routes" => Routes!Init
    BY DEF PartInit
<1>2. part = "routes" /\ [PartNext]_all => (part = "routes")' /\ [Routes!Next]_Routes!vars
  <2> SUFFICES ASSUME part = "routes", [PartNext]_all
               PROVE  part' = "routes" /\ [Routes!Next]_Routes!vars
    OBVIOUS
  <2>1. CASE UNCHANGED all
        BY <2>1 DEF all, registers, Routes!vars
  <2>2. CASE Routes!Next /\ UNCHANGED part
    BY <2>2
  <2>3. QED
    BY <2>1, <2>2 DEF PartNext
<1>3. ~(part = "routes") /\ [PartNext]_all => ~(part = "routes")'
    BY DEF PartNext, all
<1>4. QED
    BY <1>1, <1>2, <1>3, PTL DEF PartSpec, Routes!Spec, all

\* The pool: chosen at the start, or never.
LEMMA PoolsInRun ==
    PartSpec => []~(part = "pool") \/ ([](part = "pool") /\ Pools!Spec)
<1>1. PartInit /\ part = "pool" => Pools!Init
    BY DEF PartInit
<1>2. part = "pool" /\ [PartNext]_all => (part = "pool")' /\ [Pools!Next]_Pools!vars
  <2> SUFFICES ASSUME part = "pool", [PartNext]_all
               PROVE  part' = "pool" /\ [Pools!Next]_Pools!vars
    OBVIOUS
  <2>1. CASE UNCHANGED all
        BY <2>1 DEF all, registers, Pools!vars
  <2>2. CASE Pools!Next /\ UNCHANGED part
    BY <2>2
  <2>3. QED
    BY <2>1, <2>2 DEF PartNext
<1>3. ~(part = "pool") /\ [PartNext]_all => ~(part = "pool")'
    BY DEF PartNext, all
<1>4. QED
    BY <1>1, <1>2, <1>3, PTL DEF PartSpec, Pools!Spec, all

\* Statements: chosen at the start, or never.
LEMMA SqlInRun ==
    PartSpec => []~(part = "sql") \/ ([](part = "sql") /\ Sql!Spec)
<1>1. PartInit /\ part = "sql" => Sql!Init
    BY DEF PartInit
<1>2. part = "sql" /\ [PartNext]_all => (part = "sql")' /\ [Sql!Next]_Sql!vars
  <2> SUFFICES ASSUME part = "sql", [PartNext]_all
               PROVE  part' = "sql" /\ [Sql!Next]_Sql!vars
    OBVIOUS
  <2>1. CASE UNCHANGED all
        BY <2>1 DEF all, registers, Sql!vars
  <2>2. CASE Sql!Next /\ UNCHANGED part
    BY <2>2
  <2>3. QED
    BY <2>1, <2>2 DEF PartNext
<1>3. ~(part = "sql") /\ [PartNext]_all => ~(part = "sql")'
    BY DEF PartNext, all
<1>4. QED
    BY <1>1, <1>2, <1>3, PTL DEF PartSpec, Sql!Spec, all

-----------------------------------------------------------------------------
(* The offline monitor *)

\* What is proved of a module holds of a part of MCServer that is an instance of it
\* if the constants are as the proofs ask for; it is stated of a copy of the part,
\* which starts and steps as the part does.
WatchProofs == INSTANCE OfflineMonitorProofs WITH
    Worker <- Box, Connected <- Linked, Device <- Lone, TTL <- 1, MaxTask <- 1, MaxFaults <- 0,
    Threshold <- 1, Channels <- 1, MaxLapses <- 1,
    lock <- r1, leader <- r2, faults <- r3, silent <- r4, watched <- r5, marked <- r6,
    todo <- r7, current <- r8, left <- r9, stale <- r10, told <- r11, genuine <- r12,
    lapses <- r13

\* Watch starts and steps as the copy of it that the proofs about OfflineMonitor speak of.
LEMMA SameWatchSteps ==
    (Watch!Init <=> WatchProofs!Init) /\ (Watch!Next <=> WatchProofs!Next)
<1> USE DEF Watch!None, WatchProofs!None, Watch!lockVars, WatchProofs!lockVars, Watch!NoLock,
    WatchProofs!NoLock, Watch!Waiting, WatchProofs!Waiting, Watch!Running, WatchProofs!Running,
    Watch!FreshToken, WatchProofs!FreshToken, Watch!Acquisition, WatchProofs!Acquisition,
    Watch!Taken, WatchProofs!Taken, Watch!AcquireLocal, WatchProofs!AcquireLocal, Watch!Acquire,
    WatchProofs!Acquire, Watch!AcquireDegraded, WatchProofs!AcquireDegraded, Watch!Released,
    WatchProofs!Released, Watch!Release, WatchProofs!Release, Watch!ReleaseFails,
    WatchProofs!ReleaseFails, Watch!WorkerDies, WatchProofs!WorkerDies, Watch!LockLater,
    WatchProofs!LockLater, Watch!LockTick, WatchProofs!LockTick, Watch!LockInit,
    WatchProofs!LockInit, Watch!devices, WatchProofs!devices, Watch!sweeps, WatchProofs!sweeps,
    Watch!history, WatchProofs!history, Watch!Lapses, WatchProofs!Lapses, Watch!Overdue,
    WatchProofs!Overdue, Watch!Sweeping, WatchProofs!Sweeping, Watch!StartSweep,
    WatchProofs!StartSweep, Watch!BeginAlert, WatchProofs!BeginAlert, Watch!LogAlert,
    WatchProofs!LogAlert, Watch!NextChannel, WatchProofs!NextChannel, Watch!EndSweep,
    WatchProofs!EndSweep, Watch!Die, WatchProofs!Die, Watch!Report, WatchProofs!Report,
    Watch!Watch, WatchProofs!Watch, Watch!Tick, WatchProofs!Tick, Watch!Init, WatchProofs!Init,
    Watch!Next, WatchProofs!Next, Watch!Cardinality, WatchProofs!Cardinality
<1>1. Watch!Init <=> WatchProofs!Init
    BY Zenon
<1>2. Watch!Next <=> WatchProofs!Next
    BY Zenon
<1>3. QED
    BY ONLY <1>1, <1>2

\* So they have the same behaviours.
LEMMA SameWatch == Watch!Spec <=> WatchProofs!Spec
    BY SameWatchSteps, PTL DEF Watch!Spec, WatchProofs!Spec, Watch!lockVars, WatchProofs!lockVars,
        Watch!devices, WatchProofs!devices, Watch!sweeps, WatchProofs!sweeps, Watch!history,
        WatchProofs!history, Watch!vars, WatchProofs!vars

\* The constants of the monitor are those that its proofs ask for.
LEMMA WatchBounds ==
    /\ WatchProofs!LockConstants
    /\ WatchProofs!MonitorConstants
<1> USE ServerConstants DEF ServerConstants
<1>1. WatchProofs!LockConstants
  <2>1. Watch!LockConstants <=> WatchProofs!LockConstants
    BY ONLY Zenon DEF Watch!None, WatchProofs!None, Watch!LockConstants, WatchProofs!LockConstants
  <2>2. QED
    BY <2>1
<1>2. WatchProofs!MonitorConstants
  <2>1. Watch!MonitorConstants <=> WatchProofs!MonitorConstants
    BY ONLY Zenon DEF Watch!None, WatchProofs!None, Watch!MonitorConstants,
        WatchProofs!MonitorConstants, Watch!IsFiniteSet, WatchProofs!IsFiniteSet
  <2>2. QED
    BY <2>1
<1>3. QED
    BY ONLY <1>1, <1>2

\* The offline monitor, as proved of OfflineMonitor.
LEMMA WatchHolds ==
    Watch!Spec => []Watch!TypeOK
<1>1. WatchProofs!Spec => []WatchProofs!TypeOK
    BY WatchProofs!MonitorTypeCorrect, WatchBounds
<1>2. WatchProofs!TypeOK <=> Watch!TypeOK
    BY Zenon DEF WatchProofs!None, Watch!None, WatchProofs!LockTypeOK, Watch!LockTypeOK,
        WatchProofs!Running, Watch!Running, WatchProofs!TypeOK, Watch!TypeOK
<1>3. QED
    BY <1>1, <1>2, SameWatch, PTL

-----------------------------------------------------------------------------
(* The dashboards and the routing of alerts *)

FeedProofs == INSTANCE DeliveryProofs WITH
    None <- Nobody, Admin <- "admin", User <- Solo, Conn <- Dash, Limit <- 1, WithRedis <- {TRUE},
    MaxChanges <- 0, MaxFaults <- 1, Reports <- Signals, Inputs <- Settings, Hours <- 2,
    EnvPhone <- FALSE, redis <- r1, owner <- r2, share <- r3, changes <- r4, changing <- r5,
    tasks <- r6, inbox <- r7, listening <- r8, cache <- r9, conns <- r10, socket <- r11,
    update <- r12, feeds <- r13, failures <- r14, got <- r15, seen <- r16, owned <- r17,
    overlapped <- r18, missed <- r19, unanswered <- r20, crowded <- r21, settings <- r1,
    hour <- r2, tokens <- r3, rows <- r4, job <- r5, open <- r6, told <- r7, excused <- r8,
    faults <- r9

OwnersProofs == INSTANCE DeliveryProofs WITH
    None <- Nobody, Admin <- "admin", Conn <- Tab, Limit <- 1, WithRedis <- BOOLEAN,
    MaxChanges <- 1, MaxFaults <- 0, redis <- r1, owner <- r2, share <- r3, changes <- r4,
    changing <- r5, tasks <- r6, inbox <- r7, listening <- r8, cache <- r9, conns <- r10,
    socket <- r11, update <- r12, feeds <- r13, failures <- r14, got <- r15, seen <- r16,
    owned <- r17, overlapped <- r18, missed <- r19, unanswered <- r20, crowded <- r21,
    Reports <- {}, Inputs <- {}, Hours <- 2, EnvPhone <- FALSE, settings <- 0, hour <- 0,
    tokens <- 0, rows <- 0, job <- 0, open <- 0, told <- 0, excused <- 0, faults <- 0

\* Feed starts and steps as the copy of it that the proofs about BroadcastHub speak of.
LEMMA SameFeedSteps ==
    (Feed!Init <=> FeedProofs!Hub!Init) /\ (Feed!Next <=> FeedProofs!Hub!Next)
<1> USE DEF Feed!Places, FeedProofs!Hub!Places, Feed!UpTo, FeedProofs!Hub!UpTo, Feed!Kept,
    FeedProofs!Hub!Kept, Feed!Roles, FeedProofs!Hub!Roles, Feed!Idle, FeedProofs!Hub!Idle,
    Feed!Senders, FeedProofs!Hub!Senders, Feed!data, FeedProofs!Hub!data, Feed!bus,
    FeedProofs!Hub!bus, Feed!flags, FeedProofs!Hub!flags, Feed!NoFeed, FeedProofs!Hub!NoFeed,
    Feed!Closed, FeedProofs!Hub!Closed, Feed!Init, FeedProofs!Hub!Init, Feed!Fails,
    FeedProofs!Hub!Fails, Feed!Announcement, FeedProofs!Hub!Announcement, Feed!IsAnnouncement,
    FeedProofs!Hub!IsAnnouncement, Feed!InFlight, FeedProofs!Hub!InFlight, Feed!ListShows,
    FeedProofs!Hub!ListShows, Feed!Witnessed, FeedProofs!Hub!Witnessed, Feed!CommitOwner,
    FeedProofs!Hub!CommitOwner, Feed!Announced, FeedProofs!Hub!Announced, Feed!UpdateOwner,
    FeedProofs!Hub!UpdateOwner, Feed!Delivered, FeedProofs!Hub!Delivered, Feed!Publish,
    FeedProofs!Hub!Publish, Feed!ShareDevice, FeedProofs!Hub!ShareDevice, Feed!Members,
    FeedProofs!Hub!Members, Feed!AllowedSet, FeedProofs!Hub!AllowedSet, Feed!Hydrate,
    FeedProofs!Hub!Hydrate, Feed!Opened, FeedProofs!Hub!Opened, Feed!HasRoom,
    FeedProofs!Hub!HasRoom, Feed!Add, FeedProofs!Hub!Add, Feed!EvictFirst,
    FeedProofs!Hub!EvictFirst, Feed!Waiting, FeedProofs!Hub!Waiting, Feed!Connect,
    FeedProofs!Hub!Connect, Feed!Evict, FeedProofs!Hub!Evict, Feed!Removed, FeedProofs!Hub!Removed,
    Feed!Disconnect, FeedProofs!Hub!Disconnect, Feed!Prune, FeedProofs!Hub!Prune, Feed!Scope,
    FeedProofs!Hub!Scope, Feed!Update, FeedProofs!Hub!Update, Feed!Feed, FeedProofs!Hub!Feed,
    Feed!DeliverLocally, FeedProofs!Hub!DeliverLocally, Feed!Published, FeedProofs!Hub!Published,
    Feed!Unpublished, FeedProofs!Hub!Unpublished, Feed!Unanswered, FeedProofs!Hub!Unanswered,
    Feed!Broadcast, FeedProofs!Hub!Broadcast, Feed!Heard, FeedProofs!Hub!Heard, Feed!Listen,
    FeedProofs!Hub!Listen, Feed!LoseListener, FeedProofs!Hub!LoseListener, Feed!Resubscribe,
    FeedProofs!Hub!Resubscribe, Feed!CanReceive, FeedProofs!Hub!CanReceive, Feed!Send,
    FeedProofs!Hub!Send, Feed!Runs, FeedProofs!Hub!Runs, Feed!Next, FeedProofs!Hub!Next,
    Feed!Cardinality, FeedProofs!Hub!Cardinality
<1>1. Feed!Init <=> FeedProofs!Hub!Init
    BY Zenon
<1>2. Feed!Next <=> FeedProofs!Hub!Next
    BY Zenon
<1>3. QED
    BY ONLY <1>1, <1>2

\* So they have the same behaviours.
LEMMA SameFeed == Feed!Spec <=> FeedProofs!Hub!Spec
    BY SameFeedSteps, PTL DEF Feed!Spec, FeedProofs!Hub!Spec, Feed!vars, FeedProofs!Hub!vars

\* Owners starts and steps as the copy of it that the proofs about BroadcastHub speak of.
LEMMA SameOwnersSteps ==
    (Owners!Init <=> OwnersProofs!Hub!Init) /\ (Owners!Next <=> OwnersProofs!Hub!Next)
<1> USE DEF Owners!Places, OwnersProofs!Hub!Places, Owners!UpTo, OwnersProofs!Hub!UpTo,
    Owners!Kept, OwnersProofs!Hub!Kept, Owners!Roles, OwnersProofs!Hub!Roles, Owners!Idle,
    OwnersProofs!Hub!Idle, Owners!Senders, OwnersProofs!Hub!Senders, Owners!data,
    OwnersProofs!Hub!data, Owners!bus, OwnersProofs!Hub!bus, Owners!flags, OwnersProofs!Hub!flags,
    Owners!NoFeed, OwnersProofs!Hub!NoFeed, Owners!Closed, OwnersProofs!Hub!Closed, Owners!Init,
    OwnersProofs!Hub!Init, Owners!Fails, OwnersProofs!Hub!Fails, Owners!Announcement,
    OwnersProofs!Hub!Announcement, Owners!IsAnnouncement, OwnersProofs!Hub!IsAnnouncement,
    Owners!InFlight, OwnersProofs!Hub!InFlight, Owners!ListShows, OwnersProofs!Hub!ListShows,
    Owners!Witnessed, OwnersProofs!Hub!Witnessed, Owners!CommitOwner, OwnersProofs!Hub!CommitOwner,
    Owners!Announced, OwnersProofs!Hub!Announced, Owners!UpdateOwner, OwnersProofs!Hub!UpdateOwner,
    Owners!Delivered, OwnersProofs!Hub!Delivered, Owners!Publish, OwnersProofs!Hub!Publish,
    Owners!ShareDevice, OwnersProofs!Hub!ShareDevice, Owners!Members, OwnersProofs!Hub!Members,
    Owners!AllowedSet, OwnersProofs!Hub!AllowedSet, Owners!Hydrate, OwnersProofs!Hub!Hydrate,
    Owners!Opened, OwnersProofs!Hub!Opened, Owners!HasRoom, OwnersProofs!Hub!HasRoom, Owners!Add,
    OwnersProofs!Hub!Add, Owners!EvictFirst, OwnersProofs!Hub!EvictFirst, Owners!Waiting,
    OwnersProofs!Hub!Waiting, Owners!Connect, OwnersProofs!Hub!Connect, Owners!Evict,
    OwnersProofs!Hub!Evict, Owners!Removed, OwnersProofs!Hub!Removed, Owners!Disconnect,
    OwnersProofs!Hub!Disconnect, Owners!Prune, OwnersProofs!Hub!Prune, Owners!Scope,
    OwnersProofs!Hub!Scope, Owners!Update, OwnersProofs!Hub!Update, Owners!Feed,
    OwnersProofs!Hub!Feed, Owners!DeliverLocally, OwnersProofs!Hub!DeliverLocally,
    Owners!Published, OwnersProofs!Hub!Published, Owners!Unpublished, OwnersProofs!Hub!Unpublished,
    Owners!Unanswered, OwnersProofs!Hub!Unanswered, Owners!Broadcast, OwnersProofs!Hub!Broadcast,
    Owners!Heard, OwnersProofs!Hub!Heard, Owners!Listen, OwnersProofs!Hub!Listen,
    Owners!LoseListener, OwnersProofs!Hub!LoseListener, Owners!Resubscribe,
    OwnersProofs!Hub!Resubscribe, Owners!CanReceive, OwnersProofs!Hub!CanReceive, Owners!Send,
    OwnersProofs!Hub!Send, Owners!Runs, OwnersProofs!Hub!Runs, Owners!Next, OwnersProofs!Hub!Next,
    Owners!Cardinality, OwnersProofs!Hub!Cardinality
<1>1. Owners!Init <=> OwnersProofs!Hub!Init
    BY Zenon
<1>2. Owners!Next <=> OwnersProofs!Hub!Next
    BY Zenon
<1>3. QED
    BY ONLY <1>1, <1>2

\* So they have the same behaviours.
LEMMA SameOwners == Owners!Spec <=> OwnersProofs!Hub!Spec
    BY SameOwnersSteps, PTL DEF Owners!Spec, OwnersProofs!Hub!Spec, Owners!vars,
        OwnersProofs!Hub!vars

\* Routes starts and steps as the copy of it that the proofs about AlertRouting speak of.
LEMMA SameRoutesSteps ==
    (Routes!Init <=> FeedProofs!Routes!Init) /\ (Routes!Next <=> FeedProofs!Routes!Next)
<1> USE DEF Routes!Places, FeedProofs!Routes!Places, Routes!UpTo, FeedProofs!Routes!UpTo,
    Routes!Kept, FeedProofs!Routes!Kept, Routes!Channels, FeedProofs!Routes!Channels,
    Routes!Channel, FeedProofs!Routes!Channel, Routes!Toggles, FeedProofs!Routes!Toggles,
    Routes!Always, FeedProofs!Routes!Always, Routes!Repeats, FeedProofs!Routes!Repeats,
    Routes!LocationOrder, FeedProofs!Routes!LocationOrder, Routes!HeartbeatOrder,
    FeedProofs!Routes!HeartbeatOrder, Routes!Defaults, FeedProofs!Routes!Defaults, Routes!Idle,
    FeedProofs!Routes!Idle, Routes!Init, FeedProofs!Routes!Init, Routes!Accepted,
    FeedProofs!Routes!Accepted, Routes!Stored, FeedProofs!Routes!Stored, Routes!ChangeSettings,
    FeedProofs!Routes!ChangeSettings, Routes!ChangeTokens, FeedProofs!Routes!ChangeTokens,
    Routes!InQuiet, FeedProofs!Routes!InQuiet, Routes!Suppressed, FeedProofs!Routes!Suppressed,
    Routes!Allowed, FeedProofs!Routes!Allowed, Routes!Reachable, FeedProofs!Routes!Reachable,
    Routes!Better, FeedProofs!Routes!Better, Routes!Begins, FeedProofs!Routes!Begins,
    Routes!Sending, FeedProofs!Routes!Sending, Routes!Logged, FeedProofs!Routes!Logged,
    Routes!SendChannel, FeedProofs!Routes!SendChannel, Routes!Ends, FeedProofs!Routes!Ends,
    Routes!Receive, FeedProofs!Routes!Receive, Routes!Write, FeedProofs!Routes!Write,
    Routes!Commit, FeedProofs!Routes!Commit, Routes!AtAlert, FeedProofs!Routes!AtAlert,
    Routes!Recent, FeedProofs!Routes!Recent, Routes!SkipRepeat, FeedProofs!Routes!SkipRepeat,
    Routes!Alert, FeedProofs!Routes!Alert, Routes!Finish, FeedProofs!Routes!Finish, Routes!Die,
    FeedProofs!Routes!Die, Routes!Lapse, FeedProofs!Routes!Lapse, Routes!Strike,
    FeedProofs!Routes!Strike, Routes!Next, FeedProofs!Routes!Next, Routes!Cardinality,
    FeedProofs!Routes!Cardinality
<1>1. Routes!Init <=> FeedProofs!Routes!Init
    BY Zenon
<1>2. Routes!Next <=> FeedProofs!Routes!Next
    BY Zenon
<1>3. QED
    BY ONLY <1>1, <1>2

\* So they have the same behaviours.
LEMMA SameRoutes == Routes!Spec <=> FeedProofs!Routes!Spec
    BY SameRoutesSteps, PTL DEF Routes!Spec, FeedProofs!Routes!Spec, Routes!vars,
        FeedProofs!Routes!vars

\* The constants of the feeds are those that the proofs ask for.
LEMMA FeedBounds ==
    /\ FeedProofs!Hub!HubConstants
    /\ OwnersProofs!Hub!HubConstants
<1> USE ServerConstants DEF ServerConstants
<1>1. FeedProofs!Hub!HubConstants
  <2>1. Feed!HubConstants <=> FeedProofs!Hub!HubConstants
    BY ONLY Zenon DEF Feed!Idle, FeedProofs!Hub!Idle, Feed!HubConstants,
        FeedProofs!Hub!HubConstants, Feed!IsFiniteSet, FeedProofs!Hub!IsFiniteSet
  <2>2. QED
    BY <2>1
<1>2. OwnersProofs!Hub!HubConstants
  <2>1. Owners!HubConstants <=> OwnersProofs!Hub!HubConstants
    BY ONLY Zenon DEF Owners!Idle, OwnersProofs!Hub!Idle, Owners!HubConstants,
        OwnersProofs!Hub!HubConstants, Owners!IsFiniteSet, OwnersProofs!Hub!IsFiniteSet
  <2>2. QED
    BY <2>1
<1>3. QED
    BY ONLY <1>1, <1>2

\* The feed of one device, as proved of BroadcastHub.
LEMMA FeedHolds ==
    Feed!Spec =>
        [](Feed!TypeOK /\ Feed!NoForeignFeed /\ Feed!OncePerPublish
           /\ Feed!CacheAgrees /\ Feed!WithinLimit)
<1>1. FeedProofs!Hub!Spec =>
        []( /\ FeedProofs!Hub!NoForeignFeed /\ FeedProofs!Hub!OncePerPublish
            /\ FeedProofs!Hub!CacheAgrees /\ FeedProofs!Hub!WithinLimit )
    BY FeedProofs!FeedsHold, FeedBounds
<1>2. FeedProofs!Hub!Spec => []FeedProofs!Hub!TypeOK
    BY FeedProofs!FeedsTyped, FeedBounds
<1>3. FeedProofs!Hub!TypeOK <=> Feed!TypeOK
    BY Zenon DEF FeedProofs!Hub!Roles, Feed!Roles, FeedProofs!Hub!Idle, Feed!Idle,
        FeedProofs!Hub!Members, Feed!Members, FeedProofs!Hub!TypeOK, Feed!TypeOK
<1>4. FeedProofs!Hub!NoForeignFeed <=> Feed!NoForeignFeed
    BY Zenon DEF FeedProofs!Hub!NoForeignFeed, Feed!NoForeignFeed
<1>5. FeedProofs!Hub!OncePerPublish <=> Feed!OncePerPublish
    BY Zenon DEF FeedProofs!Hub!OncePerPublish, Feed!OncePerPublish
<1>6. FeedProofs!Hub!CacheAgrees <=> Feed!CacheAgrees
    BY Zenon DEF FeedProofs!Hub!Idle, Feed!Idle, FeedProofs!Hub!IsAnnouncement,
        Feed!IsAnnouncement, FeedProofs!Hub!InFlight, Feed!InFlight, FeedProofs!Hub!CacheAgrees,
        Feed!CacheAgrees
<1>7. FeedProofs!Hub!WithinLimit <=> Feed!WithinLimit
    BY Zenon DEF FeedProofs!Hub!WithinLimit, Feed!WithinLimit
<1>8. QED
    BY <1>1, <1>2, <1>3, <1>4, <1>5, <1>6, <1>7, SameFeed, PTL

\* The feed of a device that changes hands, as proved of BroadcastHub.
LEMMA OwnersHolds ==
    Owners!Spec =>
        [](Owners!TypeOK /\ Owners!NoForeignFeed /\ Owners!OncePerPublish
           /\ Owners!CacheAgrees /\ Owners!WithinLimit)
<1>1. OwnersProofs!Hub!Spec =>
        []( /\ OwnersProofs!Hub!NoForeignFeed /\ OwnersProofs!Hub!OncePerPublish
            /\ OwnersProofs!Hub!CacheAgrees /\ OwnersProofs!Hub!WithinLimit )
    BY OwnersProofs!FeedsHold, FeedBounds
<1>2. OwnersProofs!Hub!Spec => []OwnersProofs!Hub!TypeOK
    BY OwnersProofs!FeedsTyped, FeedBounds
<1>3. OwnersProofs!Hub!TypeOK <=> Owners!TypeOK
    BY Zenon DEF OwnersProofs!Hub!Roles, Owners!Roles, OwnersProofs!Hub!Idle, Owners!Idle,
        OwnersProofs!Hub!Members, Owners!Members, OwnersProofs!Hub!TypeOK, Owners!TypeOK
<1>4. OwnersProofs!Hub!NoForeignFeed <=> Owners!NoForeignFeed
    BY Zenon DEF OwnersProofs!Hub!NoForeignFeed, Owners!NoForeignFeed
<1>5. OwnersProofs!Hub!OncePerPublish <=> Owners!OncePerPublish
    BY Zenon DEF OwnersProofs!Hub!OncePerPublish, Owners!OncePerPublish
<1>6. OwnersProofs!Hub!CacheAgrees <=> Owners!CacheAgrees
    BY Zenon DEF OwnersProofs!Hub!Idle, Owners!Idle, OwnersProofs!Hub!IsAnnouncement,
        Owners!IsAnnouncement, OwnersProofs!Hub!InFlight, Owners!InFlight,
        OwnersProofs!Hub!CacheAgrees, Owners!CacheAgrees
<1>7. OwnersProofs!Hub!WithinLimit <=> Owners!WithinLimit
    BY Zenon DEF OwnersProofs!Hub!WithinLimit, Owners!WithinLimit
<1>8. QED
    BY <1>1, <1>2, <1>3, <1>4, <1>5, <1>6, <1>7, SameOwners, PTL

\* The routing of alerts, as proved of AlertRouting.
LEMMA RoutesHolds ==
    Routes!Spec => [](Routes!TypeOK /\ Routes!OneAlert /\ Routes!NotSilenced)
<1>1. FeedProofs!Routes!Spec => [](FeedProofs!Routes!OneAlert /\ FeedProofs!Routes!NotSilenced)
    BY FeedProofs!OneAlertHolds, FeedBounds
<1>2. FeedProofs!Routes!Spec => []FeedProofs!Routes!TypeOK
    BY FeedProofs!ReportsTyped, FeedBounds
<1>3. FeedProofs!Routes!TypeOK <=> Routes!TypeOK
    BY Zenon DEF FeedProofs!Routes!Channel, Routes!Channel, FeedProofs!Routes!Toggles,
        Routes!Toggles, FeedProofs!Routes!Repeats, Routes!Repeats, FeedProofs!Routes!TypeOK,
        Routes!TypeOK, FeedProofs!Routes!Cardinality, Routes!Cardinality
<1>4. FeedProofs!Routes!OneAlert <=> Routes!OneAlert
    BY Zenon DEF FeedProofs!Routes!Repeats, Routes!Repeats, FeedProofs!Routes!OneAlert,
        Routes!OneAlert
<1>5. FeedProofs!Routes!NotSilenced <=> Routes!NotSilenced
    BY Zenon DEF FeedProofs!Routes!Always, Routes!Always, FeedProofs!Routes!NotSilenced,
        Routes!NotSilenced
<1>6. QED
    BY <1>1, <1>2, <1>3, <1>4, <1>5, SameRoutes, PTL

\* A dashboard receives only devices its account could see since it connected, on
\* one connection or two (_connection_can_receive).
THEOREM NoForeignFeedInRun == PartSpec => []NoForeignFeed
<1>1. NoForeignFeed <=> /\ ~(part = "feed") \/ Feed!NoForeignFeed
                        /\ ~(part = "owners") \/ Owners!NoForeignFeed
    BY DEF NoForeignFeed
<1>2. QED
    BY <1>1, FeedHolds, FeedInRun, OwnersHolds, OwnersInRun, PTL

\* An update reaches a connection once, the caches of the owner settle on what the
\* table says, a worker keeps to its limit (broadcast_to_dashboards,
\* update_device_owner, dashboard_websocket); one incident is alerted once, and an
\* emergency over every channel its owner allows (_alert_recent, send_all).
THEOREM ToldOnceInRun == PartSpec => []ToldOnce
<1>1. ToldOnce <=>
        /\ ~(part = "feed") \/ (Feed!OncePerPublish /\ Feed!CacheAgrees /\ Feed!WithinLimit)
        /\ ~(part = "owners")
           \/ (Owners!OncePerPublish /\ Owners!CacheAgrees /\ Owners!WithinLimit)
        /\ ~(part = "routes") \/ (Routes!OneAlert /\ Routes!NotSilenced)
    BY DEF ToldOnce
<1>2. QED
    BY <1>1, FeedHolds, FeedInRun, OwnersHolds, OwnersInRun, RoutesHolds, RoutesInRun, PTL

-----------------------------------------------------------------------------
(* The second factor, and the limiter in memory *)

\* What ServerProofs says of modules that are not among these is not used: their
\* constants and variables get no values.  The same for its two instances below.
CodeProofs == INSTANCE ServerProofs WITH
    None <- Nobody, ResetLink <- {}, VerifyLink <- {}, Token <- {}, MaxSecrets <- 2,
    MaxPeriod <- 4, MaxLogins <- 2, Limiter <- {}, Most <- <<>>, Window <- <<>>, KeepRows <- 3,
    MemoryMost <- 2, MaxTime <- 4,
    cred <- r1, verified <- r2, period <- r3, secret <- r4, setups <- r5, enabled <- r6,
    last <- r7, challenge <- r8, asked <- r9, uses <- r10, accepted <- r11, proved <- r12,
    raced <- r13, postgres <- r1, now <- r2, rows <- r3, checking <- r4, bucket <- r5,
    granted <- r6, passed <- r7, beaten <- r8,
    Handler <- {}, Positions <- {}, Weight <- {}, Threshold <- {}, HighBar <- {}, CapScore <- {},
    Capped <- {}, Confirm <- {}, Policies <- {}, MaxCases <- {}, MaxSame <- {}, Item <- {},
    Deleter <- {}, Payloads <- {}, MaxLoad <- {}, MaxText <- {}, Thread <- {}, MaxPools <- {},
    User <- {}, Operator <- {}, Device <- {}, Phone <- {}, Allowances <- {}, MaxUnowned <- {},
    MaxGrants <- {}, Flag <- {}, Keep <- {}, MaxEdits <- {}, Query <- {}, MaxDeploys <- {},
    MaxFaults <- {}, MaxCodes <- {}, MaxChanges <- {}, mode <- 0, scores <- 0, cases <- 0,
    commands <- 0, recent <- 0, policy <- 0, lastInside <- 0, job <- 0, streak <- 0, media <- 0,
    listed <- 0, case <- 0, chain <- 0, count <- 0, upload <- 0, delete <- 0, old <- 0,
    purge <- 0, rushed <- 0, drifted <- 0, db <- 0, open <- 0, made <- 0, lock <- 0, thread <- 0,
    orphans <- 0, closing <- 0, account <- 0, allowance <- 0, row <- 0, share <- 0, grants <- 0,
    req <- 0, best <- 0, late <- 0, file <- 0, cache <- 0, age <- 0, quiet <- 0, edits <- 0,
    files <- 0, digests <- 0, hashing <- 0, deploys <- 0, tables <- 0, columns <- 0, worker <- 0,
    faults <- 0, circle <- 0, owner <- 0, code <- 0, members <- 0, shared <- 0, living <- 0,
    holder <- 0, admins <- 0, changes <- 0, posed <- 0, overtaken <- 0

\* Codes starts and steps as the copy of it that the proofs about Accounts speak of.
LEMMA SameCodesSteps ==
    (Codes!Init <=> CodeProofs!SignIn!Init) /\ (Codes!Next <=> CodeProofs!SignIn!Next)
<1> USE DEF Codes!Credential, CodeProofs!SignIn!Credential, Codes!links, CodeProofs!SignIn!links,
    Codes!factor, CodeProofs!SignIn!factor, Codes!NoRequest, CodeProofs!SignIn!NoRequest,
    Codes!Request, CodeProofs!SignIn!Request, Codes!Init, CodeProofs!SignIn!Init, Codes!Decides,
    CodeProofs!SignIn!Decides, Codes!CommitsAs, CodeProofs!SignIn!CommitsAs, Codes!Commits,
    CodeProofs!SignIn!Commits, Codes!Counted, CodeProofs!SignIn!Counted, Codes!Issue,
    CodeProofs!SignIn!Issue, Codes!SendLink, CodeProofs!SignIn!SendLink, Codes!Expire,
    CodeProofs!SignIn!Expire, Codes!LookReset, CodeProofs!SignIn!LookReset, Codes!Consumed,
    CodeProofs!SignIn!Consumed, Codes!ConsumeReset, CodeProofs!SignIn!ConsumeReset,
    Codes!SetPassword, CodeProofs!SignIn!SetPassword, Codes!LookVerify,
    CodeProofs!SignIn!LookVerify, Codes!WriteVerify, CodeProofs!SignIn!WriteVerify,
    Codes!LookRefresh, CodeProofs!SignIn!LookRefresh, Codes!WriteRefresh,
    CodeProofs!SignIn!WriteRefresh, Codes!Starts, CodeProofs!SignIn!Starts, Codes!Setup,
    CodeProofs!SignIn!Setup, Codes!LookEnable, CodeProofs!SignIn!LookEnable, Codes!WriteEnable,
    CodeProofs!SignIn!WriteEnable, Codes!Disable, CodeProofs!SignIn!Disable, Codes!Login,
    CodeProofs!SignIn!Login, Codes!ValidSteps, CodeProofs!SignIn!ValidSteps, Codes!Unused,
    CodeProofs!SignIn!Unused, Codes!LookCode, CodeProofs!SignIn!LookCode, Codes!WriteCode,
    CodeProofs!SignIn!WriteCode, Codes!Tick, CodeProofs!SignIn!Tick, Codes!Next,
    CodeProofs!SignIn!Next
<1>1. Codes!Init <=> CodeProofs!SignIn!Init
    BY Zenon
<1>2. Codes!Next <=> CodeProofs!SignIn!Next
    BY Zenon
<1>3. QED
    BY ONLY <1>1, <1>2

\* So they have the same behaviours.
LEMMA SameCodes == Codes!Spec <=> CodeProofs!SignIn!Spec
    BY SameCodesSteps, PTL DEF Codes!Spec, CodeProofs!SignIn!Spec, Codes!vars,
        CodeProofs!SignIn!vars

\* Memory starts and steps as the copy of it that the proofs about RateLimits speak of.
LEMMA SameMemorySteps ==
    (Memory!Init <=> CodeProofs!Limits!Init) /\ (Memory!Next <=> CodeProofs!Limits!Next)
<1> USE DEF Memory!Time, CodeProofs!Limits!Time, Memory!Never, CodeProofs!Limits!Never,
    Memory!NoCheck, CodeProofs!Limits!NoCheck, Memory!At, CodeProofs!Limits!At, Memory!Attempts,
    CodeProofs!Limits!Attempts, Memory!Total, CodeProofs!Limits!Total, Memory!Init,
    CodeProofs!Limits!Init, Memory!Since, CodeProofs!Limits!Since, Memory!Kept,
    CodeProofs!Limits!Kept, Memory!Check, CodeProofs!Limits!Check, Memory!Delete,
    CodeProofs!Limits!Delete, Memory!Count, CodeProofs!Limits!Count, Memory!Insert,
    CodeProofs!Limits!Insert, Memory!CleanUp, CodeProofs!Limits!CleanUp, Memory!CheckMemory,
    CodeProofs!Limits!CheckMemory, Memory!Sweep, CodeProofs!Limits!Sweep, Memory!Tick,
    CodeProofs!Limits!Tick, Memory!Next, CodeProofs!Limits!Next, Memory!Cardinality,
    CodeProofs!Limits!Cardinality
<1>1. Memory!Init <=> CodeProofs!Limits!Init
    BY Zenon
<1>2. Memory!Next <=> CodeProofs!Limits!Next
    BY Zenon
<1>3. QED
    BY ONLY <1>1, <1>2

\* So they have the same behaviours.
LEMMA SameMemory == Memory!Spec <=> CodeProofs!Limits!Spec
    BY SameMemorySteps, PTL DEF Memory!Spec, CodeProofs!Limits!Spec, Memory!vars,
        CodeProofs!Limits!vars

\* Their constants are those that the proofs ask for.
LEMMA CodeBounds ==
    /\ CodeProofs!SignIn!AccountsConstants
    /\ CodeProofs!Limits!RateConstants
<1> USE ServerConstants DEF ServerConstants
<1>1. CodeProofs!SignIn!AccountsConstants
  <2>1. Codes!AccountsConstants <=> CodeProofs!SignIn!AccountsConstants
    BY ONLY Zenon DEF Codes!AccountsConstants, CodeProofs!SignIn!AccountsConstants
  <2>2. QED
    BY <2>1
<1>2. CodeProofs!Limits!RateConstants
  <2>1. Memory!RateConstants <=> CodeProofs!Limits!RateConstants
    BY ONLY Zenon DEF Memory!RateConstants, CodeProofs!Limits!RateConstants
  <2>2. QED
    BY <2>1
<1>3. QED
    BY ONLY <1>1, <1>2

\* The second factor, as proved of Accounts.
LEMMA CodesHolds ==
    Codes!Spec => [](Codes!TypeOK /\ Codes!EnabledIsProved /\ Codes!CodeSpaced)
<1>1. CodeProofs!SignIn!Spec =>
        [](CodeProofs!SignIn!TypeOK /\ CodeProofs!SignIn!HonouredOnce
           /\ CodeProofs!SignIn!EnabledIsProved /\ CodeProofs!SignIn!CodeSpaced)
    BY CodeProofs!SignInGuardedHolds, CodeBounds
<1>2. CodeProofs!SignIn!TypeOK <=> Codes!TypeOK
    BY Zenon DEF CodeProofs!SignIn!Credential, Codes!Credential, CodeProofs!SignIn!TypeOK,
        Codes!TypeOK
<1>3. CodeProofs!SignIn!EnabledIsProved <=> Codes!EnabledIsProved
    BY Zenon DEF CodeProofs!SignIn!EnabledIsProved, Codes!EnabledIsProved
<1>4. CodeProofs!SignIn!CodeSpaced <=> Codes!CodeSpaced
    BY Zenon DEF CodeProofs!SignIn!CodeSpaced, Codes!CodeSpaced
<1>5. QED
    BY <1>1, <1>2, <1>3, <1>4, SameCodes, PTL

\* The limiter in memory, as proved of RateLimits.
LEMMA MemoryHolds ==
    Memory!Spec => [](Memory!TypeOK /\ Memory!LimitHolds)
<1>1. CodeProofs!Limits!Spec => [](CodeProofs!Limits!TypeOK /\ CodeProofs!Limits!LimitHolds)
    BY CodeProofs!LimitsKept, CodeBounds
<1>2. CodeProofs!Limits!TypeOK <=> Memory!TypeOK
    BY Zenon DEF CodeProofs!Limits!Time, Memory!Time, CodeProofs!Limits!TypeOK, Memory!TypeOK
<1>3. CodeProofs!Limits!LimitHolds <=> Memory!LimitHolds
    BY Zenon DEF CodeProofs!Limits!Time, Memory!Time, CodeProofs!Limits!Attempts, Memory!Attempts,
        CodeProofs!Limits!Total, Memory!Total, CodeProofs!Limits!Within, Memory!Within,
        CodeProofs!Limits!In, Memory!In, CodeProofs!Limits!Holds, Memory!Holds,
        CodeProofs!Limits!Narrowest, Memory!Narrowest, CodeProofs!Limits!LimitHolds,
        Memory!LimitHolds, CodeProofs!Limits!Cardinality, Memory!Cardinality
<1>4. QED
    BY <1>1, <1>2, <1>3, SameMemory, PTL

-----------------------------------------------------------------------------
(* Where there is one worker *)

LoneProofs == INSTANCE ServerProofs WITH
    Worker <- Lone, Operator <- "operator", Phone <- [d \in Device |-> "phone"],
    Allowances <- {1, 2}, MaxUnowned <- 1, MaxGrants <- 1, None <- Nobody, MaxDeploys <- 2,
    MaxFaults <- 1,
    account <- r1, allowance <- r2, row <- r3, share <- r4, grants <- r5, req <- r6, best <- r7,
    late <- r8, postgres <- r1, tables <- r2, columns <- r3, worker <- r4, faults <- r5,
    files <- r1, digests <- r2, hashing <- r3, deploys <- r4,
    Handler <- {}, Positions <- {}, Weight <- {}, Threshold <- {}, HighBar <- {}, CapScore <- {},
    Capped <- {}, Confirm <- {}, Policies <- {}, MaxCases <- {}, MaxSame <- {}, Item <- {},
    Deleter <- {}, Payloads <- {}, MaxLoad <- {}, MaxText <- {}, Thread <- {}, MaxPools <- {},
    ResetLink <- {}, VerifyLink <- {}, Token <- {}, MaxSecrets <- {}, MaxPeriod <- {},
    MaxLogins <- {}, Flag <- {}, Keep <- {}, MaxEdits <- {}, MaxCodes <- {}, MaxChanges <- {},
    Limiter <- {}, Most <- {}, Window <- {}, KeepRows <- {}, MemoryMost <- {}, MaxTime <- {},
    mode <- 0, scores <- 0, cases <- 0, commands <- 0, recent <- 0, policy <- 0, lastInside <- 0,
    job <- 0, streak <- 0, media <- 0, listed <- 0, case <- 0, chain <- 0, count <- 0,
    upload <- 0, delete <- 0, old <- 0, purge <- 0, rushed <- 0, drifted <- 0, db <- 0, open <- 0,
    made <- 0, lock <- 0, thread <- 0, orphans <- 0, closing <- 0, cred <- 0, verified <- 0,
    period <- 0, secret <- 0, setups <- 0, enabled <- 0, last <- 0, challenge <- 0, asked <- 0,
    uses <- 0, accepted <- 0, proved <- 0, raced <- 0, file <- 0, cache <- 0, age <- 0,
    quiet <- 0, edits <- 0, circle <- 0, owner <- 0, code <- 0, members <- 0, shared <- 0,
    living <- 0, holder <- 0, admins <- 0, changes <- 0, posed <- 0, overtaken <- 0, now <- 0,
    rows <- 0, checking <- 0, bucket <- 0, granted <- 0, passed <- 0, beaten <- 0

\* Plans starts and steps as the copy of it that the proofs about DeviceAccess speak of.
LEMMA SamePlansSteps ==
    (Plans!Init <=> LoneProofs!Access!Init) /\ (Plans!Next <=> LoneProofs!Access!Next)
<1> USE DEF Plans!Absent, LoneProofs!Access!Absent, Plans!Fresh, LoneProofs!Access!Fresh,
    Plans!NoShare, LoneProofs!Access!NoShare, Plans!NoRequest, LoneProofs!Access!NoRequest,
    Plans!Present, LoneProofs!Access!Present, Plans!Owned, LoneProofs!Access!Owned, Plans!Init,
    LoneProofs!Access!Init, Plans!Decides, LoneProofs!Access!Decides, Plans!Commits,
    LoneProofs!Access!Commits, Plans!Takeable, LoneProofs!Access!Takeable, Plans!WithinAllowance,
    LoneProofs!Access!WithinAllowance, Plans!LookClaim, LoneProofs!Access!LookClaim,
    Plans!WriteClaim, LoneProofs!Access!WriteClaim, Plans!Adoptable, LoneProofs!Access!Adoptable,
    Plans!Candidates, LoneProofs!Access!Candidates, Plans!Targets, LoneProofs!Access!Targets,
    Plans!LookRegister, LoneProofs!Access!LookRegister, Plans!Registered,
    LoneProofs!Access!Registered, Plans!WriteRegister, LoneProofs!Access!WriteRegister,
    Plans!Silence, LoneProofs!Access!Silence, Plans!Report, LoneProofs!Access!Report,
    Plans!LookDelete, LoneProofs!Access!LookDelete, Plans!LookDeleteArchived,
    LoneProofs!Access!LookDeleteArchived, Plans!LookDeleteAccount,
    LoneProofs!Access!LookDeleteAccount, Plans!Cascade, LoneProofs!Access!Cascade,
    Plans!WriteDelete, LoneProofs!Access!WriteDelete, Plans!Closes, LoneProofs!Access!Closes,
    Plans!WriteDeleteAccount, LoneProofs!Access!WriteDeleteAccount, Plans!SetPlan,
    LoneProofs!Access!SetPlan, Plans!Role, LoneProofs!Access!Role, Plans!LookGrant,
    LoneProofs!Access!LookGrant, Plans!WriteGrant, LoneProofs!Access!WriteGrant, Plans!LookRevoke,
    LoneProofs!Access!LookRevoke, Plans!WriteRevoke, LoneProofs!Access!WriteRevoke, Plans!Next,
    LoneProofs!Access!Next, Plans!Cardinality, LoneProofs!Access!Cardinality
<1>1. Plans!Init <=> LoneProofs!Access!Init
    BY Zenon
<1>2. Plans!Next <=> LoneProofs!Access!Next
    BY Zenon
<1>3. QED
    BY ONLY <1>1, <1>2

\* So they have the same behaviours.
LEMMA SamePlans == Plans!Spec <=> LoneProofs!Access!Spec
    BY SamePlansSteps, PTL DEF Plans!Spec, LoneProofs!Access!Spec, Plans!vars,
        LoneProofs!Access!vars

\* Alone starts and steps as the copy of it that the proofs about Startup speak of.
LEMMA SameAloneSteps ==
    (Alone!Init <=> LoneProofs!Boot!Init) /\ (Alone!Next <=> LoneProofs!Boot!Next)
<1> USE DEF Alone!Of, LoneProofs!Boot!Of, Alone!FirstTables, LoneProofs!Boot!FirstTables,
    Alone!EarlyColumns, LoneProofs!Boot!EarlyColumns, Alone!LateColumns,
    LoneProofs!Boot!LateColumns, Alone!Altered, LoneProofs!Boot!Altered, Alone!TokenTables,
    LoneProofs!Boot!TokenTables, Alone!TelemetryTables, LoneProofs!Boot!TelemetryTables,
    Alone!SharingTables, LoneProofs!Boot!SharingTables, Alone!ComplianceTables,
    LoneProofs!Boot!ComplianceTables, Alone!ReportTables, LoneProofs!Boot!ReportTables,
    Alone!CircleTables, LoneProofs!Boot!CircleTables, Alone!Scripts, LoneProofs!Boot!Scripts,
    Alone!Tables, LoneProofs!Boot!Tables, Alone!ColumnsOf, LoneProofs!Boot!ColumnsOf,
    Alone!PostgresDevices, LoneProofs!Boot!PostgresDevices, Alone!PostgresAccounts,
    LoneProofs!Boot!PostgresAccounts, Alone!PostgresReports, LoneProofs!Boot!PostgresReports,
    Alone!PostgresConsents, LoneProofs!Boot!PostgresConsents, Alone!PostgresTables,
    LoneProofs!Boot!PostgresTables, Alone!RequiredTables, LoneProofs!Boot!RequiredTables,
    Alone!ExpectedColumns, LoneProofs!Boot!ExpectedColumns, Alone!Columns, LoneProofs!Boot!Columns,
    Alone!Down, LoneProofs!Boot!Down, Alone!Init, LoneProofs!Boot!Init, Alone!Moves,
    LoneProofs!Boot!Moves, Alone!Create, LoneProofs!Boot!Create, Alone!Current,
    LoneProofs!Boot!Current, Alone!Begin, LoneProofs!Boot!Begin, Alone!CreateFirst,
    LoneProofs!Boot!CreateFirst, Alone!NextColumn, LoneProofs!Boot!NextColumn, Alone!Alter,
    LoneProofs!Boot!Alter, Alone!Busy, LoneProofs!Boot!Busy, Alone!AlterTimesOut,
    LoneProofs!Boot!AlterTimesOut, Alone!Runs, LoneProofs!Boot!Runs, Alone!CreateLater,
    LoneProofs!Boot!CreateLater, Alone!ScriptFails, LoneProofs!Boot!ScriptFails, Alone!StartQueue,
    LoneProofs!Boot!StartQueue, Alone!Validate, LoneProofs!Boot!Validate, Alone!Connect,
    LoneProofs!Boot!Connect, Alone!Commit, LoneProofs!Boot!Commit, Alone!DuplicateType,
    LoneProofs!Boot!DuplicateType, Alone!SetupFails, LoneProofs!Boot!SetupFails, Alone!StopQueue,
    LoneProofs!Boot!StopQueue, Alone!Close, LoneProofs!Boot!Close, Alone!Dies,
    LoneProofs!Boot!Dies, Alone!Next, LoneProofs!Boot!Next
<1>1. Alone!Init <=> LoneProofs!Boot!Init
    BY Zenon
<1>2. Alone!Next <=> LoneProofs!Boot!Next
    BY Zenon
<1>3. QED
    BY ONLY <1>1, <1>2

\* So they have the same behaviours.
LEMMA SameAlone == Alone!Spec <=> LoneProofs!Boot!Spec
    BY SameAloneSteps, PTL DEF Alone!Spec, LoneProofs!Boot!Spec, Alone!vars, LoneProofs!Boot!vars

\* Release starts and steps as the copy of it that the proofs about Releases speak of.
LEMMA SameReleaseSteps ==
    (Release!Init <=> LoneProofs!Release!Init) /\ (Release!Next <=> LoneProofs!Release!Next)
<1> USE DEF Release!Candidates, LoneProofs!Release!Candidates, Release!Path,
    LoneProofs!Release!Path, Release!Job, LoneProofs!Release!Job, Release!None,
    LoneProofs!Release!None, Release!NoJob, LoneProofs!Release!NoJob, Release!Init,
    LoneProofs!Release!Init, Release!Exists, LoneProofs!Release!Exists, Release!Served,
    LoneProofs!Release!Served, Release!Resolve, LoneProofs!Release!Resolve, Release!Done,
    LoneProofs!Release!Done, Release!Stat, LoneProofs!Release!Stat, Release!Hash,
    LoneProofs!Release!Hash, Release!Key, LoneProofs!Release!Key, Release!Store,
    LoneProofs!Release!Store, Release!Change, LoneProofs!Release!Change, Release!Deploy,
    LoneProofs!Release!Deploy, Release!Restart, LoneProofs!Release!Restart, Release!Next,
    LoneProofs!Release!Next
<1>1. Release!Init <=> LoneProofs!Release!Init
    BY Zenon
<1>2. Release!Next <=> LoneProofs!Release!Next
    BY Zenon
<1>3. QED
    BY ONLY <1>1, <1>2

\* So they have the same behaviours.
LEMMA SameRelease == Release!Spec <=> LoneProofs!Release!Spec
    BY SameReleaseSteps, PTL DEF Release!Spec, LoneProofs!Release!Spec, Release!vars,
        LoneProofs!Release!vars

\* Their constants are those that the proofs ask for.
LEMMA LoneBounds ==
    /\ LoneProofs!Access!DeviceAccessConstants
    /\ LoneProofs!Release!ReleasesConstants
<1> USE ServerConstants DEF ServerConstants
<1>1. LoneProofs!Access!DeviceAccessConstants
  <2>1. Plans!DeviceAccessConstants <=> LoneProofs!Access!DeviceAccessConstants
    BY ONLY Zenon DEF Plans!DeviceAccessConstants, LoneProofs!Access!DeviceAccessConstants,
        Plans!IsFiniteSet, LoneProofs!Access!IsFiniteSet
  <2>2. QED
    BY <2>1
<1>2. LoneProofs!Release!ReleasesConstants
  <2>1. Release!ReleasesConstants <=> LoneProofs!Release!ReleasesConstants
    BY ONLY Zenon DEF Release!ReleasesConstants, LoneProofs!Release!ReleasesConstants
  <2>2. QED
    BY <2>1
<1>3. QED
    BY ONLY <1>1, <1>2

\* Devices and plans, as proved of DeviceAccess.
LEMMA PlansHolds ==
    Plans!Spec =>
        /\ [][Plans!OwnerKeptStep]_(Plans!vars)
        /\ [](Plans!TypeOK /\ Plans!AllowanceHeld /\ Plans!LinksAgree)
<1>1. LoneProofs!Access!Spec =>
        /\ LoneProofs!Access!OwnerKept
        /\ [](LoneProofs!Access!TypeOK /\ LoneProofs!Access!AllowanceHeld
              /\ LoneProofs!Access!LinksAgree)
    BY LoneProofs!OwnerKeptHolds, LoneBounds
<1>2. LoneProofs!Access!TypeOK <=> Plans!TypeOK
    BY Zenon DEF LoneProofs!Access!TypeOK, Plans!TypeOK
<1>3. LoneProofs!Access!AllowanceHeld <=> Plans!AllowanceHeld
    BY Zenon DEF LoneProofs!Access!Present, Plans!Present, LoneProofs!Access!Owned, Plans!Owned,
        LoneProofs!Access!AllowanceHeld, Plans!AllowanceHeld, LoneProofs!Access!Cardinality,
        Plans!Cardinality
<1>4. LoneProofs!Access!LinksAgree <=> Plans!LinksAgree
    BY Zenon DEF LoneProofs!Access!NoShare, Plans!NoShare, LoneProofs!Access!Present,
        Plans!Present, LoneProofs!Access!LinksAgree, Plans!LinksAgree
<1>5. [LoneProofs!Access!OwnerKeptStep]_(LoneProofs!Access!vars)
      <=> [Plans!OwnerKeptStep]_(Plans!vars)
    BY Zenon DEF LoneProofs!Access!vars, Plans!vars, LoneProofs!Access!OwnerKeptStep,
        Plans!OwnerKeptStep
<1>6. QED
    BY <1>1, <1>2, <1>3, <1>4, <1>5, SamePlans, PTL DEF LoneProofs!Access!OwnerKept

\* Start-up of one worker that may fail, as proved of Startup.
LEMMA AloneHolds ==
    Alone!Spec => [](Alone!TypeOK /\ Alone!ServesCurrentSchema)
<1>1. LoneProofs!Boot!Spec => []LoneProofs!Boot!ServesCurrentSchema
    BY LoneProofs!ServesSchemaHolds, LoneBounds
<1>2. LoneProofs!Boot!Spec => []LoneProofs!Boot!TypeOK
    BY LoneProofs!StartupTyped, LoneBounds
<1>3. LoneProofs!Boot!TypeOK <=> Alone!TypeOK
    BY Zenon DEF LoneProofs!Boot!Of, Alone!Of, LoneProofs!Boot!FirstTables, Alone!FirstTables,
        LoneProofs!Boot!EarlyColumns, Alone!EarlyColumns, LoneProofs!Boot!LateColumns,
        Alone!LateColumns, LoneProofs!Boot!Altered, Alone!Altered, LoneProofs!Boot!TokenTables,
        Alone!TokenTables, LoneProofs!Boot!TelemetryTables, Alone!TelemetryTables,
        LoneProofs!Boot!SharingTables, Alone!SharingTables, LoneProofs!Boot!ComplianceTables,
        Alone!ComplianceTables, LoneProofs!Boot!ReportTables, Alone!ReportTables,
        LoneProofs!Boot!CircleTables, Alone!CircleTables, LoneProofs!Boot!Scripts, Alone!Scripts,
        LoneProofs!Boot!Tables, Alone!Tables, LoneProofs!Boot!ColumnsOf, Alone!ColumnsOf,
        LoneProofs!Boot!TypeOK, Alone!TypeOK
<1>4. LoneProofs!Boot!ServesCurrentSchema <=> Alone!ServesCurrentSchema
    BY Zenon DEF LoneProofs!Boot!Of, Alone!Of, LoneProofs!Boot!FirstTables, Alone!FirstTables,
        LoneProofs!Boot!EarlyColumns, Alone!EarlyColumns, LoneProofs!Boot!LateColumns,
        Alone!LateColumns, LoneProofs!Boot!Altered, Alone!Altered, LoneProofs!Boot!TokenTables,
        Alone!TokenTables, LoneProofs!Boot!TelemetryTables, Alone!TelemetryTables,
        LoneProofs!Boot!SharingTables, Alone!SharingTables, LoneProofs!Boot!ComplianceTables,
        Alone!ComplianceTables, LoneProofs!Boot!ReportTables, Alone!ReportTables,
        LoneProofs!Boot!CircleTables, Alone!CircleTables, LoneProofs!Boot!Scripts, Alone!Scripts,
        LoneProofs!Boot!Tables, Alone!Tables, LoneProofs!Boot!ColumnsOf, Alone!ColumnsOf,
        LoneProofs!Boot!PostgresDevices, Alone!PostgresDevices, LoneProofs!Boot!PostgresAccounts,
        Alone!PostgresAccounts, LoneProofs!Boot!PostgresReports, Alone!PostgresReports,
        LoneProofs!Boot!PostgresConsents, Alone!PostgresConsents, LoneProofs!Boot!PostgresTables,
        Alone!PostgresTables, LoneProofs!Boot!RequiredTables, Alone!RequiredTables,
        LoneProofs!Boot!ExpectedColumns, Alone!ExpectedColumns,
        LoneProofs!Boot!ServesCurrentSchema, Alone!ServesCurrentSchema
<1>5. QED
    BY <1>1, <1>2, <1>3, <1>4, SameAlone, PTL

\* Release digests, as proved of Releases.
LEMMA ReleaseHolds ==
    Release!Spec => [](Release!TypeOK /\ Release!DigestTrue)
<1>1. LoneProofs!Release!Spec => [](LoneProofs!Release!TypeOK /\ LoneProofs!Release!DigestTrue)
    BY LoneProofs!DigestTrueHolds, LoneBounds
<1>2. LoneProofs!Release!TypeOK <=> Release!TypeOK
    BY Zenon DEF LoneProofs!Release!Candidates, Release!Candidates, LoneProofs!Release!Path,
        Release!Path, LoneProofs!Release!Job, Release!Job, LoneProofs!Release!Version,
        Release!Version, LoneProofs!Release!TypeOK, Release!TypeOK
<1>3. LoneProofs!Release!DigestTrue <=> Release!DigestTrue
    BY Zenon DEF LoneProofs!Release!Candidates, Release!Candidates, LoneProofs!Release!Path,
        Release!Path, LoneProofs!Release!Job, Release!Job, LoneProofs!Release!None, Release!None,
        LoneProofs!Release!Exists, Release!Exists, LoneProofs!Release!DigestTrue,
        Release!DigestTrue
<1>4. QED
    BY <1>1, <1>2, <1>3, SameRelease, PTL

-----------------------------------------------------------------------------
(* The other parts of the server *)

Proofs == INSTANCE ServerProofs WITH
    MaxPools <- 3, Operator <- "operator", Device <- Lone, Phone <- [d \in Lone |-> "phone"],
    Allowances <- {1}, MaxUnowned <- 1, MaxGrants <- 1, None <- Nobody, MaxSecrets <- 0,
    MaxPeriod <- 1, MaxLogins <- 0, Flag <- {"maintenance_mode", "community_watch"}, Keep <- 2,
    MaxEdits <- 3, MaxFaults <- 0, MaxCodes <- 2, MaxChanges <- 2,
    Limiter <- {"minute", "quarter"}, Most <- [minute |-> 1, quarter |-> 1],
    Window <- [minute |-> 1, quarter |-> 3], KeepRows <- 3, MemoryMost <- 0, MaxTime <- 4,
    account <- r1, allowance <- r2, row <- r3, share <- r4, grants <- r5, req <- r6, best <- r7,
    late <- r8, cred <- r1, verified <- r2, period <- r3, secret <- r4, setups <- r5,
    enabled <- r6, last <- r7, challenge <- r8, asked <- r9, uses <- r10, accepted <- r11,
    proved <- r12, raced <- r13, file <- r1, cache <- r2, age <- r3, quiet <- r4, edits <- r5,
    postgres <- r1, tables <- r2, columns <- r3, worker <- r4, faults <- r5, circle <- r2,
    owner <- r3, code <- r4, members <- r5, shared <- r6, living <- r7, holder <- r8,
    admins <- r9, changes <- r10, posed <- r11, overtaken <- r12, now <- r2, rows <- r3,
    checking <- r4, bucket <- r5, granted <- r6, passed <- r7, beaten <- r8, db <- r1, open <- r2,
    made <- r3, lock <- r4, thread <- r5, orphans <- r6, closing <- r7,
    Handler <- {}, Positions <- {}, Weight <- {}, Threshold <- {}, HighBar <- {}, CapScore <- {},
    Capped <- {}, Confirm <- {}, Policies <- {}, MaxCases <- {}, MaxSame <- {}, Item <- {},
    Deleter <- {}, Payloads <- {}, MaxLoad <- {}, MaxText <- {}, Query <- {}, MaxDeploys <- {},
    mode <- 0, scores <- 0, cases <- 0, commands <- 0, recent <- 0, policy <- 0, lastInside <- 0,
    job <- 0, streak <- 0, media <- 0, listed <- 0, case <- 0, chain <- 0, count <- 0,
    upload <- 0, delete <- 0, old <- 0, purge <- 0, rushed <- 0, drifted <- 0, files <- 0,
    digests <- 0, hashing <- 0, deploys <- 0

\* Grants starts and steps as the copy of it that the proofs about DeviceAccess speak of.
LEMMA SameGrantsSteps ==
    (Grants!Init <=> Proofs!Access!Init) /\ (Grants!Next <=> Proofs!Access!Next)
<1> USE DEF Grants!Absent, Proofs!Access!Absent, Grants!Fresh, Proofs!Access!Fresh, Grants!NoShare,
    Proofs!Access!NoShare, Grants!NoRequest, Proofs!Access!NoRequest, Grants!Present,
    Proofs!Access!Present, Grants!Owned, Proofs!Access!Owned, Grants!Init, Proofs!Access!Init,
    Grants!Decides, Proofs!Access!Decides, Grants!Commits, Proofs!Access!Commits, Grants!Takeable,
    Proofs!Access!Takeable, Grants!WithinAllowance, Proofs!Access!WithinAllowance,
    Grants!LookClaim, Proofs!Access!LookClaim, Grants!WriteClaim, Proofs!Access!WriteClaim,
    Grants!Adoptable, Proofs!Access!Adoptable, Grants!Candidates, Proofs!Access!Candidates,
    Grants!Targets, Proofs!Access!Targets, Grants!LookRegister, Proofs!Access!LookRegister,
    Grants!Registered, Proofs!Access!Registered, Grants!WriteRegister, Proofs!Access!WriteRegister,
    Grants!Silence, Proofs!Access!Silence, Grants!Report, Proofs!Access!Report, Grants!LookDelete,
    Proofs!Access!LookDelete, Grants!LookDeleteArchived, Proofs!Access!LookDeleteArchived,
    Grants!LookDeleteAccount, Proofs!Access!LookDeleteAccount, Grants!Cascade,
    Proofs!Access!Cascade, Grants!WriteDelete, Proofs!Access!WriteDelete, Grants!Closes,
    Proofs!Access!Closes, Grants!WriteDeleteAccount, Proofs!Access!WriteDeleteAccount,
    Grants!SetPlan, Proofs!Access!SetPlan, Grants!Role, Proofs!Access!Role, Grants!LookGrant,
    Proofs!Access!LookGrant, Grants!WriteGrant, Proofs!Access!WriteGrant, Grants!LookRevoke,
    Proofs!Access!LookRevoke, Grants!WriteRevoke, Proofs!Access!WriteRevoke, Grants!Next,
    Proofs!Access!Next, Grants!Cardinality, Proofs!Access!Cardinality
<1>1. Grants!Init <=> Proofs!Access!Init
    BY Zenon
<1>2. Grants!Next <=> Proofs!Access!Next
    BY Zenon
<1>3. QED
    BY ONLY <1>1, <1>2

\* So they have the same behaviours.
LEMMA SameGrants == Grants!Spec <=> Proofs!Access!Spec
    BY SameGrantsSteps, PTL DEF Grants!Spec, Proofs!Access!Spec, Grants!vars, Proofs!Access!vars

\* Links starts and steps as the copy of it that the proofs about Accounts speak of.
LEMMA SameLinksSteps ==
    (Links!Init <=> Proofs!SignIn!Init) /\ (Links!Next <=> Proofs!SignIn!Next)
<1> USE DEF Links!Credential, Proofs!SignIn!Credential, Links!links, Proofs!SignIn!links,
    Links!factor, Proofs!SignIn!factor, Links!NoRequest, Proofs!SignIn!NoRequest, Links!Request,
    Proofs!SignIn!Request, Links!Init, Proofs!SignIn!Init, Links!Decides, Proofs!SignIn!Decides,
    Links!CommitsAs, Proofs!SignIn!CommitsAs, Links!Commits, Proofs!SignIn!Commits, Links!Counted,
    Proofs!SignIn!Counted, Links!Issue, Proofs!SignIn!Issue, Links!SendLink,
    Proofs!SignIn!SendLink, Links!Expire, Proofs!SignIn!Expire, Links!LookReset,
    Proofs!SignIn!LookReset, Links!Consumed, Proofs!SignIn!Consumed, Links!ConsumeReset,
    Proofs!SignIn!ConsumeReset, Links!SetPassword, Proofs!SignIn!SetPassword, Links!LookVerify,
    Proofs!SignIn!LookVerify, Links!WriteVerify, Proofs!SignIn!WriteVerify, Links!LookRefresh,
    Proofs!SignIn!LookRefresh, Links!WriteRefresh, Proofs!SignIn!WriteRefresh, Links!Starts,
    Proofs!SignIn!Starts, Links!Setup, Proofs!SignIn!Setup, Links!LookEnable,
    Proofs!SignIn!LookEnable, Links!WriteEnable, Proofs!SignIn!WriteEnable, Links!Disable,
    Proofs!SignIn!Disable, Links!Login, Proofs!SignIn!Login, Links!ValidSteps,
    Proofs!SignIn!ValidSteps, Links!Unused, Proofs!SignIn!Unused, Links!LookCode,
    Proofs!SignIn!LookCode, Links!WriteCode, Proofs!SignIn!WriteCode, Links!Tick,
    Proofs!SignIn!Tick, Links!Next, Proofs!SignIn!Next
<1>1. Links!Init <=> Proofs!SignIn!Init
    BY Zenon
<1>2. Links!Next <=> Proofs!SignIn!Next
    BY Zenon
<1>3. QED
    BY ONLY <1>1, <1>2

\* So they have the same behaviours.
LEMMA SameLinks == Links!Spec <=> Proofs!SignIn!Spec
    BY SameLinksSteps, PTL DEF Links!Spec, Proofs!SignIn!Spec, Links!vars, Proofs!SignIn!vars

\* Rows starts and steps as the copy of it that the proofs about RateLimits speak of.
LEMMA SameRowsSteps ==
    (Rows!Init <=> Proofs!Limits!Init) /\ (Rows!Next <=> Proofs!Limits!Next)
<1> USE DEF Rows!Time, Proofs!Limits!Time, Rows!Never, Proofs!Limits!Never, Rows!NoCheck,
    Proofs!Limits!NoCheck, Rows!At, Proofs!Limits!At, Rows!Attempts, Proofs!Limits!Attempts,
    Rows!Total, Proofs!Limits!Total, Rows!Init, Proofs!Limits!Init, Rows!Since,
    Proofs!Limits!Since, Rows!Kept, Proofs!Limits!Kept, Rows!Check, Proofs!Limits!Check,
    Rows!Delete, Proofs!Limits!Delete, Rows!Count, Proofs!Limits!Count, Rows!Insert,
    Proofs!Limits!Insert, Rows!CleanUp, Proofs!Limits!CleanUp, Rows!CheckMemory,
    Proofs!Limits!CheckMemory, Rows!Sweep, Proofs!Limits!Sweep, Rows!Tick, Proofs!Limits!Tick,
    Rows!Next, Proofs!Limits!Next, Rows!Cardinality, Proofs!Limits!Cardinality
<1>1. Rows!Init <=> Proofs!Limits!Init
    BY Zenon
<1>2. Rows!Next <=> Proofs!Limits!Next
    BY Zenon
<1>3. QED
    BY ONLY <1>1, <1>2

\* So they have the same behaviours.
LEMMA SameRows == Rows!Spec <=> Proofs!Limits!Spec
    BY SameRowsSteps, PTL DEF Rows!Spec, Proofs!Limits!Spec, Rows!vars, Proofs!Limits!vars

\* Circle starts and steps as the copy of it that the proofs about Circles speak of.
LEMMA SameCircleSteps ==
    (Circle!Init <=> Proofs!Circle!Init) /\ (Circle!Next <=> Proofs!Circle!Next)
<1> USE DEF Circle!NoRequest, Proofs!Circle!NoRequest, Circle!Init, Proofs!Circle!Init,
    Circle!Decides, Proofs!Circle!Decides, Circle!CommitsAs, Proofs!Circle!CommitsAs,
    Circle!Commits, Proofs!Circle!Commits, Circle!Create, Proofs!Circle!Create, Circle!LookJoin,
    Proofs!Circle!LookJoin, Circle!WriteJoin, Proofs!Circle!WriteJoin, Circle!LookShare,
    Proofs!Circle!LookShare, Circle!WriteShare, Proofs!Circle!WriteShare, Circle!LookUnshare,
    Proofs!Circle!LookUnshare, Circle!WriteUnshare, Proofs!Circle!WriteUnshare, Circle!LookPart,
    Proofs!Circle!LookPart, Circle!Parts, Proofs!Circle!Parts, Circle!WritePart,
    Proofs!Circle!WritePart, Circle!LookDelete, Proofs!Circle!LookDelete, Circle!WriteDelete,
    Proofs!Circle!WriteDelete, Circle!LookRefresh, Proofs!Circle!LookRefresh, Circle!WriteRefresh,
    Proofs!Circle!WriteRefresh, Circle!Administer, Proofs!Circle!Administer, Circle!WithoutDevices,
    Proofs!Circle!WithoutDevices, Circle!DeleteDevice, Proofs!Circle!DeleteDevice, Circle!Held,
    Proofs!Circle!Held, Circle!Referenced, Proofs!Circle!Referenced, Circle!DeleteAccount,
    Proofs!Circle!DeleteAccount, Circle!DeleteDevices, Proofs!Circle!DeleteDevices, Circle!Dropped,
    Proofs!Circle!Dropped, Circle!DeleteUser, Proofs!Circle!DeleteUser, Circle!Next,
    Proofs!Circle!Next
<1>1. Circle!Init <=> Proofs!Circle!Init
    BY Zenon
<1>2. Circle!Next <=> Proofs!Circle!Next
    BY Zenon
<1>3. QED
    BY ONLY <1>1, <1>2

\* So they have the same behaviours.
LEMMA SameCircle == Circle!Spec <=> Proofs!Circle!Spec
    BY SameCircleSteps, PTL DEF Circle!Spec, Proofs!Circle!Spec, Circle!vars, Proofs!Circle!vars

\* Boot starts and steps as the copy of it that the proofs about Startup speak of.
LEMMA SameBootSteps ==
    (Boot!Init <=> Proofs!Boot!Init) /\ (Boot!Next <=> Proofs!Boot!Next)
<1> USE DEF Boot!Of, Proofs!Boot!Of, Boot!FirstTables, Proofs!Boot!FirstTables, Boot!EarlyColumns,
    Proofs!Boot!EarlyColumns, Boot!LateColumns, Proofs!Boot!LateColumns, Boot!Altered,
    Proofs!Boot!Altered, Boot!TokenTables, Proofs!Boot!TokenTables, Boot!TelemetryTables,
    Proofs!Boot!TelemetryTables, Boot!SharingTables, Proofs!Boot!SharingTables,
    Boot!ComplianceTables, Proofs!Boot!ComplianceTables, Boot!ReportTables,
    Proofs!Boot!ReportTables, Boot!CircleTables, Proofs!Boot!CircleTables, Boot!Scripts,
    Proofs!Boot!Scripts, Boot!Tables, Proofs!Boot!Tables, Boot!ColumnsOf, Proofs!Boot!ColumnsOf,
    Boot!PostgresDevices, Proofs!Boot!PostgresDevices, Boot!PostgresAccounts,
    Proofs!Boot!PostgresAccounts, Boot!PostgresReports, Proofs!Boot!PostgresReports,
    Boot!PostgresConsents, Proofs!Boot!PostgresConsents, Boot!PostgresTables,
    Proofs!Boot!PostgresTables, Boot!RequiredTables, Proofs!Boot!RequiredTables,
    Boot!ExpectedColumns, Proofs!Boot!ExpectedColumns, Boot!Columns, Proofs!Boot!Columns,
    Boot!Down, Proofs!Boot!Down, Boot!Init, Proofs!Boot!Init, Boot!Moves, Proofs!Boot!Moves,
    Boot!Create, Proofs!Boot!Create, Boot!Current, Proofs!Boot!Current, Boot!Begin,
    Proofs!Boot!Begin, Boot!CreateFirst, Proofs!Boot!CreateFirst, Boot!NextColumn,
    Proofs!Boot!NextColumn, Boot!Alter, Proofs!Boot!Alter, Boot!Busy, Proofs!Boot!Busy,
    Boot!AlterTimesOut, Proofs!Boot!AlterTimesOut, Boot!Runs, Proofs!Boot!Runs, Boot!CreateLater,
    Proofs!Boot!CreateLater, Boot!ScriptFails, Proofs!Boot!ScriptFails, Boot!StartQueue,
    Proofs!Boot!StartQueue, Boot!Validate, Proofs!Boot!Validate, Boot!Connect, Proofs!Boot!Connect,
    Boot!Commit, Proofs!Boot!Commit, Boot!DuplicateType, Proofs!Boot!DuplicateType,
    Boot!SetupFails, Proofs!Boot!SetupFails, Boot!StopQueue, Proofs!Boot!StopQueue, Boot!Close,
    Proofs!Boot!Close, Boot!Dies, Proofs!Boot!Dies, Boot!Next, Proofs!Boot!Next
<1>1. Boot!Init <=> Proofs!Boot!Init
    BY Zenon
<1>2. Boot!Next <=> Proofs!Boot!Next
    BY Zenon
<1>3. QED
    BY ONLY <1>1, <1>2

\* So they have the same behaviours.
LEMMA SameBoot == Boot!Spec <=> Proofs!Boot!Spec
    BY SameBootSteps, PTL DEF Boot!Spec, Proofs!Boot!Spec, Boot!vars, Proofs!Boot!vars

\* Flagged starts and steps as the copy of it that the proofs about Flags speak of.
LEMMA SameFlaggedSteps ==
    (Flagged!Init <=> Proofs!Flagged!Init) /\ (Flagged!Next <=> Proofs!Flagged!Next)
<1> USE DEF Flagged!OnOff, Proofs!Flagged!OnOff, Flagged!Nothing, Proofs!Flagged!Nothing,
    Flagged!Init, Proofs!Flagged!Init, Flagged!Good, Proofs!Flagged!Good, Flagged!Seen,
    Proofs!Flagged!Seen, Flagged!Request, Proofs!Flagged!Request, Flagged!Truncate,
    Proofs!Flagged!Truncate, Flagged!Write, Proofs!Flagged!Write, Flagged!Restart,
    Proofs!Flagged!Restart, Flagged!Older, Proofs!Flagged!Older, Flagged!Tick, Proofs!Flagged!Tick,
    Flagged!Next, Proofs!Flagged!Next
<1>1. Flagged!Init <=> Proofs!Flagged!Init
    BY Zenon
<1>2. Flagged!Next <=> Proofs!Flagged!Next
    BY Zenon
<1>3. QED
    BY ONLY <1>1, <1>2

\* So they have the same behaviours.
LEMMA SameFlagged == Flagged!Spec <=> Proofs!Flagged!Spec
    BY SameFlaggedSteps, PTL DEF Flagged!Spec, Proofs!Flagged!Spec, Flagged!vars,
        Proofs!Flagged!vars

\* Pools starts and steps as the copy of it that the proofs about PgPool speak of.
LEMMA SamePoolsSteps ==
    (Pools!Init <=> Proofs!Pool!Init) /\ (Pools!Next <=> Proofs!Pool!Next)
<1> USE DEF Pools!Idle, Proofs!Pool!Idle, Pools!Free, Proofs!Pool!Free, Pools!Shutdown,
    Proofs!Pool!Shutdown, Pools!Init, Proofs!Pool!Init, Pools!At, Proofs!Pool!At, Pools!To,
    Proofs!Pool!To, Pools!Look, Proofs!Pool!Look, Pools!Lock, Proofs!Pool!Lock, Pools!Missing,
    Proofs!Pool!Missing, Pools!Check, Proofs!Pool!Check, Pools!Connect, Proofs!Pool!Connect,
    Pools!ConnectFails, Proofs!Pool!ConnectFails, Pools!GivesUp, Proofs!Pool!GivesUp,
    Pools!LateConnect, Proofs!Pool!LateConnect, Pools!Return, Proofs!Pool!Return, Pools!Execute,
    Proofs!Pool!Execute, Pools!BeginClose, Proofs!Pool!BeginClose, Pools!Close, Proofs!Pool!Close,
    Pools!Next, Proofs!Pool!Next
<1>1. Pools!Init <=> Proofs!Pool!Init
    BY Zenon
<1>2. Pools!Next <=> Proofs!Pool!Next
    BY Zenon
<1>3. QED
    BY ONLY <1>1, <1>2

\* So they have the same behaviours.
LEMMA SamePools == Pools!Spec <=> Proofs!Pool!Spec
    BY SamePoolsSteps, PTL DEF Pools!Spec, Proofs!Pool!Spec, Pools!vars, Proofs!Pool!vars

\* Their constants are those that the proofs ask for.
LEMMA ServerBounds ==
    /\ Proofs!Access!DeviceAccessConstants
    /\ Proofs!SignIn!AccountsConstants
    /\ Proofs!Limits!RateConstants
    /\ Proofs!Circle!CirclesConstants
    /\ Proofs!Flagged!FlagsConstants
    /\ Proofs!Pool!PoolConstants
<1> USE ServerConstants DEF ServerConstants
<1>1. Proofs!Access!DeviceAccessConstants
  <2>1. Grants!DeviceAccessConstants <=> Proofs!Access!DeviceAccessConstants
    BY ONLY Zenon DEF Grants!DeviceAccessConstants, Proofs!Access!DeviceAccessConstants,
        Grants!IsFiniteSet, Proofs!Access!IsFiniteSet
  <2>2. QED
    BY <2>1
<1>2. Proofs!SignIn!AccountsConstants
  <2>1. Links!AccountsConstants <=> Proofs!SignIn!AccountsConstants
    BY ONLY Zenon DEF Links!AccountsConstants, Proofs!SignIn!AccountsConstants
  <2>2. QED
    BY <2>1
<1>3. Proofs!Limits!RateConstants
  <2>1. Rows!RateConstants <=> Proofs!Limits!RateConstants
    BY ONLY Zenon DEF Rows!RateConstants, Proofs!Limits!RateConstants
  <2>2. QED
    BY <2>1
<1>4. Proofs!Circle!CirclesConstants
  <2>1. Circle!CirclesConstants <=> Proofs!Circle!CirclesConstants
    BY ONLY Zenon DEF Circle!CirclesConstants, Proofs!Circle!CirclesConstants
  <2>2. QED
    BY <2>1
<1>5. Proofs!Flagged!FlagsConstants
  <2>1. Flagged!FlagsConstants <=> Proofs!Flagged!FlagsConstants
    BY ONLY Zenon DEF Flagged!FlagsConstants, Proofs!Flagged!FlagsConstants
  <2>2. QED
    BY <2>1
<1>6. Proofs!Pool!PoolConstants
  <2>1. Pools!PoolConstants <=> Proofs!Pool!PoolConstants
    BY ONLY Zenon DEF Pools!Free, Proofs!Pool!Free, Pools!Shutdown, Proofs!Pool!Shutdown,
        Pools!PoolConstants, Proofs!Pool!PoolConstants
  <2>2. QED
    BY <2>1
<1>7. QED
    BY ONLY <1>1, <1>2, <1>3, <1>4, <1>5, <1>6

\* Claims and shares, as proved of DeviceAccess.
LEMMA GrantsHolds ==
    Grants!Spec =>
        /\ [][Grants!OwnerKeptStep]_(Grants!vars)
        /\ [](Grants!TypeOK /\ Grants!AllowanceHeld /\ Grants!LinksAgree)
<1>1. Proofs!Access!Spec =>
        /\ Proofs!Access!OwnerKept
        /\ [](Proofs!Access!TypeOK /\ Proofs!Access!AllowanceHeld
              /\ Proofs!Access!LinksAgree)
    BY Proofs!OwnerKeptHolds, ServerBounds
<1>2. Proofs!Access!TypeOK <=> Grants!TypeOK
    BY Zenon DEF Proofs!Access!TypeOK, Grants!TypeOK
<1>3. Proofs!Access!AllowanceHeld <=> Grants!AllowanceHeld
    BY Zenon DEF Proofs!Access!Present, Grants!Present, Proofs!Access!Owned, Grants!Owned,
        Proofs!Access!AllowanceHeld, Grants!AllowanceHeld, Proofs!Access!Cardinality,
        Grants!Cardinality
<1>4. Proofs!Access!LinksAgree <=> Grants!LinksAgree
    BY Zenon DEF Proofs!Access!NoShare, Grants!NoShare, Proofs!Access!Present, Grants!Present,
        Proofs!Access!LinksAgree, Grants!LinksAgree
<1>5. [Proofs!Access!OwnerKeptStep]_(Proofs!Access!vars) <=> [Grants!OwnerKeptStep]_(Grants!vars)
    BY Zenon DEF Proofs!Access!vars, Grants!vars, Proofs!Access!OwnerKeptStep,
        Grants!OwnerKeptStep
<1>6. QED
    BY <1>1, <1>2, <1>3, <1>4, <1>5, SameGrants, PTL DEF Proofs!Access!OwnerKept

\* Links and tokens, as proved of Accounts.
LEMMA LinksHolds ==
    Links!Spec => [](Links!TypeOK /\ Links!HonouredOnce)
<1>1. Proofs!SignIn!Spec =>
        [](Proofs!SignIn!TypeOK /\ Proofs!SignIn!HonouredOnce
           /\ Proofs!SignIn!EnabledIsProved /\ Proofs!SignIn!CodeSpaced)
    BY Proofs!SignInGuardedHolds, ServerBounds
<1>2. Proofs!SignIn!TypeOK <=> Links!TypeOK
    BY Zenon DEF Proofs!SignIn!Credential, Links!Credential, Proofs!SignIn!TypeOK, Links!TypeOK
<1>3. Proofs!SignIn!HonouredOnce <=> Links!HonouredOnce
    BY Zenon DEF Proofs!SignIn!Credential, Links!Credential, Proofs!SignIn!HonouredOnce,
        Links!HonouredOnce
<1>4. QED
    BY <1>1, <1>2, <1>3, SameLinks, PTL

\* The limiter with rows, as proved of RateLimits.
LEMMA RowsHolds ==
    Rows!Spec => [](Rows!TypeOK /\ Rows!LimitHolds)
<1>1. Proofs!Limits!Spec => [](Proofs!Limits!TypeOK /\ Proofs!Limits!LimitHolds)
    BY Proofs!LimitsKept, ServerBounds
<1>2. Proofs!Limits!TypeOK <=> Rows!TypeOK
    BY Zenon DEF Proofs!Limits!Time, Rows!Time, Proofs!Limits!TypeOK, Rows!TypeOK
<1>3. Proofs!Limits!LimitHolds <=> Rows!LimitHolds
    BY Zenon DEF Proofs!Limits!Time, Rows!Time, Proofs!Limits!Attempts, Rows!Attempts,
        Proofs!Limits!Total, Rows!Total, Proofs!Limits!Within, Rows!Within, Proofs!Limits!In,
        Rows!In, Proofs!Limits!Holds, Rows!Holds, Proofs!Limits!Narrowest, Rows!Narrowest,
        Proofs!Limits!LimitHolds, Rows!LimitHolds, Proofs!Limits!Cardinality, Rows!Cardinality
<1>4. QED
    BY <1>1, <1>2, <1>3, SameRows, PTL

\* Circles, as proved of Circles.
LEMMA CircleHolds ==
    Circle!Spec => [](Circle!TypeOK /\ Circle!SharersAreMembers)
<1>1. Proofs!Circle!Spec => [](Proofs!Circle!TypeOK /\ Proofs!Circle!SharersAreMembers)
    BY Proofs!SharersAreMembersHolds, ServerBounds
<1>2. Proofs!Circle!TypeOK <=> Circle!TypeOK
    BY Zenon DEF Proofs!Circle!TypeOK, Circle!TypeOK
<1>3. Proofs!Circle!SharersAreMembers <=> Circle!SharersAreMembers
    BY Zenon DEF Proofs!Circle!SharersAreMembers, Circle!SharersAreMembers
<1>4. QED
    BY <1>1, <1>2, <1>3, SameCircle, PTL

\* Start-up, as proved of Startup.
LEMMA BootHolds ==
    Boot!Spec => [](Boot!TypeOK /\ Boot!ServesCurrentSchema)
<1>1. Proofs!Boot!Spec => []Proofs!Boot!ServesCurrentSchema
    BY Proofs!ServesSchemaHolds, ServerBounds
<1>2. Proofs!Boot!Spec => []Proofs!Boot!TypeOK
    BY Proofs!StartupTyped, ServerBounds
<1>3. Proofs!Boot!TypeOK <=> Boot!TypeOK
    BY Zenon DEF Proofs!Boot!Of, Boot!Of, Proofs!Boot!FirstTables, Boot!FirstTables,
        Proofs!Boot!EarlyColumns, Boot!EarlyColumns, Proofs!Boot!LateColumns, Boot!LateColumns,
        Proofs!Boot!Altered, Boot!Altered, Proofs!Boot!TokenTables, Boot!TokenTables,
        Proofs!Boot!TelemetryTables, Boot!TelemetryTables, Proofs!Boot!SharingTables,
        Boot!SharingTables, Proofs!Boot!ComplianceTables, Boot!ComplianceTables,
        Proofs!Boot!ReportTables, Boot!ReportTables, Proofs!Boot!CircleTables, Boot!CircleTables,
        Proofs!Boot!Scripts, Boot!Scripts, Proofs!Boot!Tables, Boot!Tables, Proofs!Boot!ColumnsOf,
        Boot!ColumnsOf, Proofs!Boot!TypeOK, Boot!TypeOK
<1>4. Proofs!Boot!ServesCurrentSchema <=> Boot!ServesCurrentSchema
    BY Zenon DEF Proofs!Boot!Of, Boot!Of, Proofs!Boot!FirstTables, Boot!FirstTables,
        Proofs!Boot!EarlyColumns, Boot!EarlyColumns, Proofs!Boot!LateColumns, Boot!LateColumns,
        Proofs!Boot!Altered, Boot!Altered, Proofs!Boot!TokenTables, Boot!TokenTables,
        Proofs!Boot!TelemetryTables, Boot!TelemetryTables, Proofs!Boot!SharingTables,
        Boot!SharingTables, Proofs!Boot!ComplianceTables, Boot!ComplianceTables,
        Proofs!Boot!ReportTables, Boot!ReportTables, Proofs!Boot!CircleTables, Boot!CircleTables,
        Proofs!Boot!Scripts, Boot!Scripts, Proofs!Boot!Tables, Boot!Tables, Proofs!Boot!ColumnsOf,
        Boot!ColumnsOf, Proofs!Boot!PostgresDevices, Boot!PostgresDevices,
        Proofs!Boot!PostgresAccounts, Boot!PostgresAccounts, Proofs!Boot!PostgresReports,
        Boot!PostgresReports, Proofs!Boot!PostgresConsents, Boot!PostgresConsents,
        Proofs!Boot!PostgresTables, Boot!PostgresTables, Proofs!Boot!RequiredTables,
        Boot!RequiredTables, Proofs!Boot!ExpectedColumns, Boot!ExpectedColumns,
        Proofs!Boot!ServesCurrentSchema, Boot!ServesCurrentSchema
<1>5. QED
    BY <1>1, <1>2, <1>3, <1>4, SameBoot, PTL

\* Flags, as proved of Flags.
LEMMA FlaggedHolds ==
    Flagged!Spec => [](Flagged!TypeOK /\ Flagged!FlagsSettle)
<1>1. Proofs!Flagged!Spec => [](Proofs!Flagged!TypeOK /\ Proofs!Flagged!FlagsSettle)
    BY Proofs!FlagsSettleHolds, ServerBounds
<1>2. Proofs!Flagged!TypeOK <=> Flagged!TypeOK
    BY Zenon DEF Proofs!Flagged!OnOff, Flagged!OnOff, Proofs!Flagged!Nothing, Flagged!Nothing,
        Proofs!Flagged!TypeOK, Flagged!TypeOK
<1>3. Proofs!Flagged!FlagsSettle <=> Flagged!FlagsSettle
    BY Zenon DEF Proofs!Flagged!Nothing, Flagged!Nothing, Proofs!Flagged!Good, Flagged!Good,
        Proofs!Flagged!Seen, Flagged!Seen, Proofs!Flagged!FlagsSettle, Flagged!FlagsSettle
<1>4. QED
    BY <1>1, <1>2, <1>3, SameFlagged, PTL

\* The pool, as proved of PgPool.
LEMMA PoolsHolds ==
    Pools!Spec => [](Pools!TypeOK /\ Pools!OnePool)
<1>1. Proofs!Pool!Spec => [](Proofs!Pool!TypeOK /\ Proofs!Pool!OnePool)
    BY Proofs!OnePoolHolds, ServerBounds
<1>2. Proofs!Pool!TypeOK <=> Pools!TypeOK
    BY Zenon DEF Proofs!Pool!Pool, Pools!Pool, Proofs!Pool!Free, Pools!Free, Proofs!Pool!Shutdown,
        Pools!Shutdown, Proofs!Pool!TypeOK, Pools!TypeOK
<1>3. Proofs!Pool!OnePool <=> Pools!OnePool
    BY Zenon DEF Proofs!Pool!At, Pools!At, Proofs!Pool!OnePool, Pools!OnePool
<1>4. QED
    BY <1>1, <1>2, <1>3, SamePools, PTL

\* Statements: a verb stays one of those that PostgreSQL is sent.
LEMMA SqlTyped == Sql!Spec => []Sql!TypeOK
<1> DEFINE Verbs == {"insert", "upsert", "replace", "ignore", "update", "delete", "select"}
           Worded(s) == "verb" \in DOMAIN s /\ s.verb \in Verbs
<1>1. \A s \in Live : "verb" \in DOMAIN s /\ s.verb \in Verbs
  <2>1. \A columns, values, keyed, rest : \A verb \in Verbs :
           /\ Worded([verb |-> verb, column |-> columns, value |-> values, keyed |-> keyed,
                      rest |-> rest])
           /\ Worded([verb |-> verb, column |-> columns, keyed |-> keyed, value |-> values,
                      rest |-> rest])
    OBVIOUS
  <2>2. {"insert", "replace", "ignore", "update", "select"} \subseteq Verbs
    OBVIOUS
  <2>3. \A s \in Live : Worded(s)
    <3> HIDE DEF Worded, Verbs
    <3>1. QED
      BY <2>1, <2>2, Zenon DEF Live
  <2>4. QED
    BY <2>3
<1>2. Sql!Init => Sql!TypeOK
    BY DEF Sql!Init, Sql!TypeOK
<1>3. Sql!TypeOK /\ [Sql!Next]_(Sql!vars) => Sql!TypeOK'
  <2> SUFFICES ASSUME Sql!TypeOK, [Sql!Next]_(Sql!vars) PROVE Sql!TypeOK'
    OBVIOUS
  <2>1. CASE Sql!Execute
    <3>1. Sql!Verb(r1) \in Verbs
      BY <1>1 DEF Sql!Verb, Sql!TypeOK
    <3>2. Sql!Rewritten(r1).verb = Sql!Verb(r1)
      BY <1>1 DEF Sql!Rewritten, Sql!TypeOK
    <3>3. r3'.verb = Sql!Rewritten(r1).verb /\ r1' = r1 /\ r2' = r2
      BY <2>1 DEF Sql!Execute
    <3>4. QED
      BY <3>1, <3>2, <3>3 DEF Sql!TypeOK
  <2>2. CASE UNCHANGED Sql!vars
    BY <2>2 DEF Sql!vars, Sql!TypeOK
  <2>3. QED
    BY <2>1, <2>2 DEF Sql!Next
<1>4. QED
    BY <1>2, <1>3, PTL DEF Sql!Spec

-----------------------------------------------------------------------------
(* What the run checks of accounts, limits and stores, and of all parts *)

\* Links and tokens are honoured once, a second factor is enabled only for a secret
\* that was shown, its codes are spaced, and attempts keep to the limit
\* (_consume_email_token, enable_2fa, login_with_two_factor, check_rate_limit).
THEOREM SignInGuardedInRun == PartSpec => []SignInGuarded
<1>1. SignInGuarded <=>
        /\ ~(part = "links") \/ Links!HonouredOnce
        /\ ~(part = "codes") \/ (Codes!EnabledIsProved /\ Codes!CodeSpaced)
        /\ ~(part = "rows") \/ Rows!LimitHolds
        /\ ~(part = "memory") \/ Memory!LimitHolds
    BY DEF SignInGuarded
<1>2. QED
    BY <1>1, LinksHolds, LinksInRun, CodesHolds, CodesInRun, RowsHolds, RowsInRun,
       MemoryHolds, MemoryInRun, PTL

\* A device changes hands only by an overtaken request, accounts keep to their
\* plans, owners and shares refer to accounts that may hold them, and a device is in
\* a circle only for a member who shared it (register_device, claim_device,
\* delete_device_cascade, leave_circle).
THEOREM OwnerKeptInRun == PartSpec => OwnerKept
<1> DEFINE PlansStep ==
             part = "plans" => Plans!OwnerKeptStep /\ Plans!AllowanceHeld /\ Plans!LinksAgree
           GrantsStep ==
             part = "grants" => Grants!OwnerKeptStep /\ Grants!AllowanceHeld /\ Grants!LinksAgree
           CircleStep == part = "circle" => Circle!SharersAreMembers
<1>1. PartSpec => [][PlansStep]_registers
  <2>1. /\ [Plans!OwnerKeptStep]_(Plans!vars) /\ Plans!AllowanceHeld /\ Plans!LinksAgree
        /\ part = "plans" /\ [PartNext]_all
        => [PlansStep]_registers
    <3> SUFFICES ASSUME Plans!AllowanceHeld, Plans!LinksAgree, part = "plans", [PartNext]_all,
                        UNCHANGED Plans!vars
                 PROVE  UNCHANGED registers
      OBVIOUS
    <3>1. CASE UNCHANGED all
      BY <3>1 DEF all
    <3>2. CASE UNCHANGED After8
      BY <3>2 DEF After8, registers, Plans!vars
    <3>3. QED
      BY <3>1, <3>2 DEF PartNext
  <2>2. ~(part = "plans") => [PlansStep]_registers
    OBVIOUS
  <2>3. QED
    BY <2>1, <2>2, PlansHolds, PlansInRun, PTL DEF PartSpec, all
<1>2. PartSpec => [][GrantsStep]_registers
  <2>1. /\ [Grants!OwnerKeptStep]_(Grants!vars) /\ Grants!AllowanceHeld /\ Grants!LinksAgree
        /\ part = "grants" /\ [PartNext]_all
        => [GrantsStep]_registers
    <3> SUFFICES ASSUME Grants!AllowanceHeld, Grants!LinksAgree, part = "grants", [PartNext]_all,
                        UNCHANGED Grants!vars
                 PROVE  UNCHANGED registers
      OBVIOUS
    <3>1. CASE UNCHANGED all
      BY <3>1 DEF all
    <3>2. CASE UNCHANGED After8
      BY <3>2 DEF After8, registers, Grants!vars
    <3>3. QED
      BY <3>1, <3>2 DEF PartNext
  <2>2. ~(part = "grants") => [GrantsStep]_registers
    OBVIOUS
  <2>3. QED
    BY <2>1, <2>2, GrantsHolds, GrantsInRun, PTL DEF PartSpec, all
<1>3. PartSpec => [][CircleStep]_registers
  <2>1. Circle!SharersAreMembers \/ ~(part = "circle") => [CircleStep]_registers
    OBVIOUS
  <2>2. QED
    BY <2>1, CircleHolds, CircleInRun, PTL
<1>4. [PlansStep]_registers /\ [GrantsStep]_registers /\ [CircleStep]_registers
      => [/\ part = "plans" => Plans!OwnerKeptStep /\ Plans!AllowanceHeld /\ Plans!LinksAgree
          /\ part = "grants" => Grants!OwnerKeptStep /\ Grants!AllowanceHeld /\ Grants!LinksAgree
          /\ part = "circle" => Circle!SharersAreMembers
         ]_registers
    OBVIOUS
<1>5. QED
    BY <1>1, <1>2, <1>3, <1>4, PTL DEF OwnerKept

\* Every worker goes by the flags in the file, and the digests of a release are
\* those of the file in place (feature_flags.py, _get_apk_checksum).
THEOREM OneVersionInRun == PartSpec => []OneVersion
<1>1. OneVersion <=> /\ ~(part = "flags") \/ Flagged!FlagsSettle
                     /\ ~(part = "release") \/ Release!DigestTrue
    BY DEF OneVersion
<1>2. QED
    BY <1>1, FlaggedHolds, FlaggedInRun, ReleaseHolds, ReleaseInRun, PTL

\* A worker that serves has the current schema, whether it can fail or another
\* starts beside it, and there is one pool (ensure_initialized, _ensure_started):
\* StoreServes, but for the parameters of the statements.
THEOREM StoreServesInRun == PartSpec => [](~(part = "sql") => StoreServes)
<1>1. (~(part = "sql") => StoreServes) <=>
        \/ part = "sql"
        \/ /\ ~(part = "start") \/ Boot!ServesCurrentSchema
           /\ ~(part = "alone") \/ Alone!ServesCurrentSchema
           /\ ~(part = "pool") \/ Pools!OnePool
    BY DEF StoreServes
<1>2. QED
    BY <1>1, BootHolds, BootInRun, AloneHolds, AloneInRun, PoolsHolds, PoolsInRun, PTL

\* Every variable of every part has its type.
THEOREM AllTypesInRun == PartSpec => []AllTypes
<1> DEFINE Delivery == /\ ~(part = "watch") \/ Watch!TypeOK
                       /\ ~(part = "feed") \/ Feed!TypeOK
                       /\ ~(part = "owners") \/ Owners!TypeOK
                       /\ ~(part = "routes") \/ Routes!TypeOK
           People == /\ ~(part = "plans") \/ Plans!TypeOK
                     /\ ~(part = "grants") \/ Grants!TypeOK
                     /\ ~(part = "links") \/ Links!TypeOK
                     /\ ~(part = "codes") \/ Codes!TypeOK
                     /\ ~(part = "circle") \/ Circle!TypeOK
           Limiters == /\ ~(part = "rows") \/ Rows!TypeOK
                       /\ ~(part = "memory") \/ Memory!TypeOK
           Stores == /\ ~(part = "start") \/ Boot!TypeOK
                     /\ ~(part = "alone") \/ Alone!TypeOK
                     /\ ~(part = "sql") \/ Sql!TypeOK
                     /\ ~(part = "pool") \/ Pools!TypeOK
           Versions == /\ ~(part = "flags") \/ Flagged!TypeOK
                       /\ ~(part = "release") \/ Release!TypeOK
<1>1. PartSpec => []TypeOK
    BY TelemetryInRun, TypeCorrect, PTL
<1>2. PartSpec => []Delivery
    BY WatchHolds, WatchInRun, FeedHolds, FeedInRun, OwnersHolds, OwnersInRun, RoutesHolds,
       RoutesInRun, PTL
<1>3. PartSpec => []People
    BY PlansHolds, PlansInRun, GrantsHolds, GrantsInRun, LinksHolds, LinksInRun, CodesHolds,
       CodesInRun, CircleHolds, CircleInRun, PTL
<1>4. PartSpec => []Limiters
    BY RowsHolds, RowsInRun, MemoryHolds, MemoryInRun, PTL
<1>5. PartSpec => []Stores
    BY BootHolds, BootInRun, AloneHolds, AloneInRun, SqlTyped, SqlInRun, PoolsHolds,
       PoolsInRun, PTL
<1>6. PartSpec => []Versions
    BY FlaggedHolds, FlaggedInRun, ReleaseHolds, ReleaseInRun, PTL
<1>7. AllTypes <=> TypeOK /\ Delivery /\ People /\ Limiters /\ Stores /\ Versions
    BY DEF AllTypes
<1> HIDE DEF Delivery, People, Limiters, Stores, Versions
<1>8. QED
    BY <1>1, <1>2, <1>3, <1>4, <1>5, <1>6, <1>7, PTL
=============================================================================
