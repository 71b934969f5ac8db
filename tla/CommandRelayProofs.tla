------------------------- MODULE CommandRelayProofs -------------------------
(***************************************************************************)
(* Proofs about CommandRelay, for every number of commands, every length   *)
(* of the windows and every number of process deaths.                      *)
(***************************************************************************)
EXTENDS CommandRelay, TLAPS

-----------------------------------------------------------------------------
(* Operators *)

\* What Lifetime gives a row: a natural number, or no expiry at all.
LEMMA LifetimeType ==
    ASSUME NEW k \in Kind, NEW s \in Source
    PROVE  Lifetime(k, s) \in Nat \cup {NoExpiry}
BY RelayConstants DEF Lifetime, PollExpires, Sources, Kinds, NoExpiry

\* An update of the tracker is well typed, and so is what it writes.
LEMMA NoteType ==
    ASSUME TypeOK, NEW w \in {"loop", "capture"}, NEW c \in Cmd, NEW s \in Outcome, Note(w, c, s)
    PROVE  edits' \subseteq Edit
<1>1. [status |-> s, at |-> now] \in Record
    BY DEF TypeOK, Record, Outcome, None
<1>2. [by |-> w, cmd |-> c, record |-> [status |-> s, at |-> now], read |-> tracker] \in Edit
    BY <1>1 DEF TypeOK, Edit
<1>3. QED
    BY <1>2 DEF Note, TypeOK

LEMMA PutType ==
    ASSUME NEW e \in Edit
    PROVE  /\ Put(e) \in [Cmd -> Record]
           /\ e.cmd \in Cmd /\ Put(e)[e.cmd] = e.record
           /\ \A d \in Cmd : d # e.cmd => Put(e)[d] = e.read[d]
BY DEF Put, Edit

LEMMA PrunedType ==
    ASSUME TypeOK, NEW seen \in [Cmd -> Record]
    PROVE  Pruned(seen) \in [Cmd -> Record]
<1>1. NoRecord \in Record
    BY DEF NoRecord, Record, None
<1>2. QED
    BY <1>1 DEF Pruned

\* A status looked up is an outcome or None.
LEMMA StatusOfType ==
    ASSUME TypeOK, NEW c \in Cmd
    PROVE  StatusOf(c) \in Outcome \cup {None}
BY DEF StatusOf, TypeOK, Record

\* The server's UPDATE keeps the table well formed.
LEMMA AckedType ==
    ASSUME TypeOK, NEW c \in Cmd, NEW s \in Outcome
    PROVE  Acked(c, s) \in [Cmd -> Row]
BY DEF Acked, TypeOK, Row, Status

\* The effect of a POST on the server and on the registration is well typed.
LEMMA PostedType ==
    ASSUME TypeOK, NEW c \in Cmd, NEW s \in Outcome, NEW r \in Reply, Posted(c, s, r)
    PROVE  /\ row' \in [Cmd -> Row]
           /\ wire' \subseteq Cmd \X Outcome
           /\ registered' \in BOOLEAN
BY AckedType DEF Posted, TypeOK

-----------------------------------------------------------------------------
(* Type correctness *)

\* Every step of every process keeps the table, the loop, the capture service,
\* the tracker, the outbox and the counters of their types.
LEMMA TypeStep == TypeOK /\ [Next]_vars => TypeOK'
<1>1. TypeOK /\ [Next]_vars => TypeOK'
  <2> SUFFICES ASSUME TypeOK, [Next]_vars PROVE TypeOK'
    OBVIOUS
  <2> USE DEF TypeOK
  <2>1. ASSUME NEW c \in Cmd, NEW k \in Kind, NEW s \in Source, Issue(c, k, s) PROVE TypeOK'
    <3>1. Deadline(Lifetime(k, s)) \in Int
        BY LifetimeType DEF Deadline, NoExpiry
    <3>2. [status |-> "pending", kind |-> k, expires |-> Deadline(Lifetime(k, s)),
           channel |-> "poll"] \in Row
        BY <3>1, RelayConstants DEF Row, Status
    <3>3. QED
        BY <2>1, <3>2 DEF Issue, loop, memory, history
  <2>2. CASE ReadHistory
    <3>1. \A c \in Cmd : [row[c] EXCEPT !.status = "expired"] \in Row
        BY DEF Row, Status
    <3>2. row' \in [Cmd -> Row]
        BY <2>2, <3>1 DEF ReadHistory
    <3>3. QED
        BY <2>2, <3>2 DEF ReadHistory, loop, memory, history
  <2>3. ASSUME NEW D \in SUBSET Cmd, Delete(D) PROVE TypeOK'
    <3>1. row' \in [Cmd -> Row]
        BY <2>3 DEF Delete, Row, Status
    <3>2. QED
        BY <2>3, <3>1 DEF Delete, loop, memory, history
  <2>4. ASSUME NEW m \in wire, LateAck(m) PROVE TypeOK'
    <3>1. m[1] \in Cmd /\ m[2] \in Outcome
        BY <2>4
    <3>2. row' \in [Cmd -> Row]
        BY <2>4, <3>1, AckedType DEF LateAck
    <3>3. QED
        BY <2>4, <3>2 DEF LateAck, loop, memory, history
  <2>5. CASE StartLoop
        BY <2>5, RelayConstants DEF StartLoop, Take, server, memory, history, PC, NoAcks
  <2>6. CASE Poll
        BY <2>6 DEF Poll, server, memory, history, PC
  <2>7. CASE PollFails
        BY <2>7 DEF PollFails, server, memory, history, PC
  <2>8. CASE EndBatch
        BY <2>8 DEF EndBatch, server, memory, history, PC
  <2>9. CASE Erase
    <3>1. cur \in Cmd
        BY <2>9 DEF Erase
    <3>2. edits' \subseteq Edit
        BY <2>9, <3>1, NoteType DEF Erase, Outcome
    <3>3. QED
        BY <2>9, <3>1, <3>2 DEF Erase, server, history, PC, NoAcks, Outcome
  <2>10. ASSUME NEW c \in Cmd, SkipBusy(c) PROVE TypeOK'
        BY <2>10 DEF SkipBusy, NextInBatch, server, memory, history
  <2>11. ASSUME NEW c \in Cmd, ReAck(c) PROVE TypeOK'
    <3>1. StatusOf(c) \in Outcome
        BY <2>11, StatusOfType DEF ReAck
    <3>2. edits' \subseteq Edit
        BY <2>11, <3>1, NoteType DEF ReAck
    <3>3. QED
        BY <2>11, <3>1, <3>2 DEF ReAck, NextInBatch, server, history, PC
  <2>12. ASSUME NEW c \in Cmd, RunInline(c) PROVE TypeOK'
        BY <2>12 DEF RunInline, Fresh, NextInBatch, server, memory, PC
  <2>13. ASSUME NEW s \in Outcome, FinishInline(s) PROVE TypeOK'
    <3>1. cur \in Cmd
        BY <2>13 DEF FinishInline
    <3>2. edits' \subseteq Edit
        BY <2>13, <3>1, NoteType DEF FinishInline
    <3>3. QED
        BY <2>13, <3>1, <3>2 DEF FinishInline, server, history, PC
  <2>14. ASSUME NEW c \in Cmd, Refuse(c) PROVE TypeOK'
    <3>1. edits' \subseteq Edit
        BY <2>14, NoteType DEF Refuse, Outcome
    <3>2. QED
        BY <2>14, <3>1 DEF Refuse, Fresh, NextInBatch, server, history, PC, Outcome
  <2>15. ASSUME NEW c \in Cmd, StartCapture(c) PROVE TypeOK'
        BY <2>15 DEF StartCapture, Fresh, NextInBatch, server, memory, history, CaptureState
  <2>16. ASSUME NEW c \in Cmd, StartWipe(c) PROVE TypeOK'
    <3>1. edits' \subseteq Edit
        BY <2>16, NoteType DEF StartWipe, Outcome
    <3>2. QED
        BY <2>16, <3>1 DEF StartWipe, Fresh, NextInBatch, server, history, PC, Outcome
  <2>17. ASSUME NEW r \in Reply, PostAck(r) PROVE TypeOK'
    <3>1. cur \in Cmd /\ out \in Outcome
        BY <2>17 DEF PostAck
    <3>2. /\ row' \in [Cmd -> Row]
          /\ wire' \subseteq Cmd \X Outcome
          /\ registered' \in BOOLEAN
        BY <2>17, <3>1, PostedType DEF PostAck
    <3>3. outbox' \in [Cmd -> Outcome \cup {None}]
        BY <2>17, <3>1 DEF PostAck
    <3>4. QED
        BY <2>17, <3>1, <3>2, <3>3 DEF PostAck, memory, history, PC
  <2>18. CASE Register
        BY <2>18 DEF Register, server, memory, history, PC
  <2>19. CASE SaveTracker
        BY <2>19 DEF SaveTracker, server, loop, history
  <2>20. CASE HeartbeatFlush
        BY <2>20 DEF HeartbeatFlush, Take, server, loop, memory, history, NoAcks
  <2>21. ASSUME NEW f \in Flushers, NEW c \in Cmd, NEW r \in Reply, FlushPost(f, c, r)
         PROVE TypeOK'
    <3>1. taken[f][c] \in Outcome
        BY <2>21 DEF FlushPost
    <3>2. /\ row' \in [Cmd -> Row]
          /\ wire' \subseteq Cmd \X Outcome
          /\ registered' \in BOOLEAN
        BY <2>21, <3>1, PostedType DEF FlushPost
    <3>3. taken' \in [Flushers -> [Cmd -> Outcome \cup {None}]]
        BY <2>21, <3>1 DEF FlushPost, NoAcks
    <3>4. outbox' \in [Cmd -> Outcome \cup {None}]
        BY <2>21, <3>1 DEF FlushPost
    <3>5. QED
        BY <2>21, <3>2, <3>3, <3>4 DEF FlushPost, loop, memory, history
  <2>22. ASSUME NEW c \in Cmd, CaptureStarts(c) PROVE TypeOK'
        BY <2>22 DEF CaptureStarts, server, loop, memory, CaptureState
  <2>23. ASSUME NEW c \in Cmd, CaptureRefused(c) PROVE TypeOK'
    <3>1. edits' \subseteq Edit
        BY <2>23, NoteType DEF CaptureRefused, Outcome
    <3>2. QED
        BY <2>23, <3>1 DEF CaptureRefused, server, loop, history, CaptureState
  <2>24. ASSUME NEW c \in Cmd, NEW s \in Outcome, CaptureEnds(c, s) PROVE TypeOK'
    <3>1. edits' \subseteq Edit
        BY <2>24, NoteType DEF CaptureEnds
    <3>2. QED
        BY <2>24, <3>1 DEF CaptureEnds, server, loop, history, CaptureState
  <2>25. ASSUME NEW c \in Cmd, NEW r \in Reply, CapturePost(c, r) PROVE TypeOK'
    <3>1. (IF capture[c] = "refused" THEN "failed" ELSE capture[c]) \in Outcome
        BY <2>25 DEF CapturePost, Outcome
    <3>2. /\ row' \in [Cmd -> Row]
          /\ wire' \subseteq Cmd \X Outcome
          /\ registered' \in BOOLEAN
        BY <2>25, <3>1, PostedType DEF CapturePost
    <3>3. QED
        BY <2>25, <3>2 DEF CapturePost, loop, memory, history, CaptureState
  <2>30. ASSUME NEW c \in Cmd, CaptureAborted(c) PROVE TypeOK'
    <3>1. capture' \in [Cmd -> CaptureState] /\ forgot' \in [Cmd -> Nat]
        BY <2>30 DEF CaptureAborted, CaptureState
    <3>2. QED
        BY <2>30, <3>1 DEF CaptureAborted, server, loop, memory
  <2>31. ASSUME NEW e \in edits, WriteBack(e) PROVE TypeOK'
    <3>1. tracker' \in [Cmd -> Record]
        BY <2>31, PutType, PrunedType DEF WriteBack
    <3>2. forgot' \in [Cmd -> Nat]
        BY <2>31 DEF WriteBack
    <3>3. QED
        BY <2>31, <3>1, <3>2 DEF WriteBack, server, loop
  <2>26. CASE Tick
        BY <2>26 DEF Tick, server, loop, memory, history
  <2>27. CASE Crash
    <3>1. forgot' \in [Cmd -> Nat]
        BY <2>27 DEF Crash
    <3>2. /\ capture' \in [Cmd -> CaptureState]
          /\ taken' \in [Flushers -> [Cmd -> Outcome \cup {None}]]
        BY <2>27 DEF Crash, CaptureState, NoAcks
    <3>3. /\ pc' = "off" /\ batch' = {} /\ fetched' = 0 /\ cur' = None /\ out' = None
          /\ registered' = FALSE /\ tracker' = saved /\ edits' = {} /\ crashes' = crashes + 1
          /\ UNCHANGED <<now, row, wire, saved, outbox, runs>>
        BY <2>27 DEF Crash, server
    <3>4. registered' \in BOOLEAN
        BY <3>3
    <3>5. crashes' \in Nat
        BY <3>3
    <3>6. tracker' \in [Cmd -> Record] /\ saved' \in [Cmd -> Record]
        BY <3>3
    <3>7. /\ pc' \in PC /\ pc' \notin {"running", "acking", "ackingWipe", "erasing"}
          /\ batch' \subseteq Cmd /\ fetched' \in Nat
          /\ cur' \in Cmd \cup {None} /\ out' \in Outcome \cup {None}
        BY <3>3 DEF PC
    <3>8. QED
        BY <3>1, <3>2, <3>3, <3>4, <3>5, <3>6, <3>7
  <2>28. CASE UNCHANGED vars
        BY <2>28 DEF vars, server, loop, memory, history
  <2>29. QED
    <3>1. ASSUME NEW c \in Cmd, DeleteCommand(c) PROVE TypeOK'
        BY <3>1, <2>3 DEF DeleteCommand
    <3>2. ASSUME NEW b \in BOOLEAN, ClearHistory(b) PROVE TypeOK'
        BY <3>2, <2>3 DEF ClearHistory
    <3>3. CASE ServerStep
        BY <3>3, <3>1, <3>2, <2>1, <2>2, <2>4 DEF ServerStep
    <3>4. CASE LoopStep
        BY <3>4, <2>5, <2>6, <2>7, <2>8, <2>9, <2>10, <2>11, <2>12, <2>13, <2>14, <2>15,
           <2>16, <2>17 DEF LoopStep
    <3>5. CASE OtherPhoneStep
        BY <3>5, <2>18, <2>19, <2>20, <2>21, <2>22, <2>23, <2>24, <2>25, <2>30, <2>31
        DEF OtherPhoneStep
    <3>6. QED
        BY <3>3, <3>4, <3>5, <2>26, <2>27, <2>28 DEF Next
<1>2. QED
    BY <1>1

\* Everything starts with its type.
LEMMA TypeInit == Init => TypeOK
BY DEF Init, TypeOK, NoRow, NoRecord, NoAcks, Row, Record, Status, PC, CaptureState, None, Outcome

\* No command, timeout, retry or process death ever puts a value of the wrong
\* type into the table, the loop, the tracker or the outbox.
THEOREM TypeCorrect == Spec => []TypeOK
<1>1. Init => TypeOK
    BY TypeInit
<1>2. TypeOK /\ [Next]_vars => TypeOK'
    BY TypeStep
<1>3. QED
    BY <1>1, <1>2, PTL DEF Spec

-----------------------------------------------------------------------------
(* At most once *)

\* Under WindowFits a row issued now expires before the record of a run made
\* now does.
LEMMA FittingLifetime ==
    ASSUME WindowFits, NEW k \in Kind, NEW s \in Source, k \in Queues(s)
    PROVE  /\ Lifetime(k, s) \in Nat
           /\ Lifetime(k, s) + MaxBatch <= Retention + 1
BY LifetimeType DEF WindowFits, NoExpiry

\* A record too old to be asked for is of a command no response can bring.
LEMMA OldIsTooLate ==
    ASSUME AtMostOnceInv, NEW c \in Cmd, NEW r \in Record, GoodRecord(c, r), r # NoRecord,
           now - r.at > Retention
    PROVE  TooLate(c)
<1>1. Issued(c) /\ row[c].expires + MaxBatch <= r.at + Retention + 1
    BY DEF GoodRecord
<1>2. row[c].expires \in Nat /\ r.at \in Nat /\ now \in Nat
    BY <1>1 DEF AtMostOnceInv, RowsExpire, TypeOK, Record
<1>3. QED
    BY <1>1, <1>2, RelayConstants DEF TooLate

\* A command that comes as a new one has no run left that counts.
LEMMA FreshHasNoRun ==
    ASSUME AtMostOnceInv, NEW c \in Cmd, Fresh(c)
    PROVE  /\ runs[c] <= forgot[c]
           /\ Issued(c)
           /\ ~TooLate(c)
           /\ capture[c] = "refused" \/ capture[c] = None
           /\ pc = "working" /\ c \in batch
           /\ ~Known(c)
<1> USE RelayConstants DEF AtMostOnceInv, TypeOK
<1>1. pc = "working" /\ c \in batch /\ ~Busy(c) /\ StatusOf(c) = None
    BY DEF Fresh, NextInBatch
<1>2. Issued(c) /\ fetched < row[c].expires /\ capture[c] # "starting" /\ now <= fetched + MaxBatch
    BY <1>1 DEF LoopInTime
<1>3. row[c].expires \in Nat
    BY <1>2 DEF RowsExpire
<1>4. ~TooLate(c)
    BY <1>2, <1>3 DEF TooLate
<1>5. tracker[c] = NoRecord
  <2> SUFFICES ASSUME tracker[c] # NoRecord PROVE FALSE
    OBVIOUS
  <2>1. tracker[c].status # None /\ GoodRecord(c, tracker[c])
    BY DEF RecordsOutlive, GoodRecord
  <2>2. tracker[c].at \in Nat
    BY DEF Record
  <2>3. now - tracker[c].at > Retention
    BY <1>1, <2>1, <2>2 DEF StatusOf
  <2>4. QED
    BY <1>4, <2>1, <2>3, OldIsTooLate
<1>6. capture[c] \in {None, "refused"}
    BY <1>1, <1>2 DEF Busy, CaptureState
<1>7. ~InProgress(c)
    BY <1>1, <1>6 DEF InProgress, None
<1>8. ~Known(c)
    BY <1>1, <1>5, <1>6 DEF Known, Noting, EditsStand, Edit, Outcome, None
<1>9. runs[c] <= forgot[c]
    BY <1>4, <1>7, <1>8 DEF NoSecondRun
<1>10. QED
    BY <1>1, <1>2, <1>4, <1>6, <1>8, <1>9

\* An update is about to write a record that outlives its command's responses,
\* and the other records as they were.
LEMMA NoteStands ==
    ASSUME AtMostOnceInv, NEW w \in {"loop", "capture"}, NEW c \in Cmd, NEW s \in Outcome,
           Issued(c), Note(w, c, s), UNCHANGED tracker
    PROVE  /\ \A d \in Cmd : \A e \in edits' : GoodRecord(d, Put(e)[d])
           /\ Known(c)'
           /\ \A d \in Cmd : Known(d) => Known(d)'
<1> USE RelayConstants DEF AtMostOnceInv, TypeOK
<1> DEFINE r == [status |-> s, at |-> now]
           new == [by |-> w, cmd |-> c, record |-> r, read |-> tracker]
<1>1. r \in Record /\ r # NoRecord /\ new \in Edit
    BY DEF Record, Edit, NoRecord, Outcome, None
<1>2. GoodRecord(c, r)
    BY DEF GoodRecord, RowsExpire, Outcome, None
<1>3. ASSUME NEW d \in Cmd PROVE GoodRecord(d, Put(new)[d])
  <2>1. Put(new)[d] = IF d = c THEN r ELSE tracker[d]
    BY <1>1, PutType
  <2>2. QED
    BY <1>2, <2>1 DEF RecordsOutlive
<1>4. edits' = edits \cup {new}
    BY DEF Note
<1>5. \A d \in Cmd : \A e \in edits' : GoodRecord(d, Put(e)[d])
    BY <1>3, <1>4 DEF RecordsOutlive
<1>6. new.cmd = c
    OBVIOUS
<1>7. QED
    BY <1>4, <1>5, <1>6 DEF Known, Noting

\* Writing an update back keeps the records good, and drops only what no
\* response can ask for any more and what the update had not seen.
LEMMA WriteStands ==
    ASSUME AtMostOnceInv, NEW e \in edits, WriteBack(e)
    PROVE  /\ \A d \in Cmd : GoodRecord(d, tracker'[d])
           /\ \A d \in Cmd : Known(d) => \/ Known(d)'
                                         \/ TooLate(d)
                                         \/ forgot'[d] = forgot[d] + 1
<1> USE RelayConstants DEF AtMostOnceInv, TypeOK
<1>1. /\ e \in Edit /\ e.cmd \in Cmd /\ Put(e) \in [Cmd -> Record]
      /\ Put(e)[e.cmd] = e.record
      /\ \A d \in Cmd : d # e.cmd => Put(e)[d] = e.read[d]
    BY PutType
<1>2. \A d \in Cmd : GoodRecord(d, Put(e)[d])
    BY DEF RecordsOutlive
<1>3. \A d \in Cmd : tracker'[d] = IF Put(e)[d].at < now - 2 * Retention THEN NoRecord ELSE Put(e)[d]
    BY DEF WriteBack, Pruned
<1>4. \A d \in Cmd : GoodRecord(d, tracker'[d])
    BY <1>2, <1>3 DEF GoodRecord
<1>5. ASSUME NEW d \in Cmd, Put(e)[d] # NoRecord PROVE Known(d)' \/ TooLate(d)
  <2>1. CASE tracker'[d] # NoRecord
    BY <2>1 DEF Known
  <2>2. CASE tracker'[d] = NoRecord
    <3>1. Put(e)[d].at < now - 2 * Retention /\ Put(e)[d] \in Record
      BY <1>1, <1>3, <1>5, <2>2
    <3>2. Put(e)[d].at \in Nat
      BY <3>1 DEF Record
    <3>3. now - Put(e)[d].at > Retention
      BY <3>1, <3>2
    <3>4. QED
      BY <1>2, <1>5, <3>1, <3>3, OldIsTooLate
  <2>3. QED
    BY <2>1, <2>2
<1>6. ASSUME NEW d \in Cmd, Known(d)
      PROVE  Known(d)' \/ TooLate(d) \/ forgot'[d] = forgot[d] + 1
  <2>1. CASE Put(e)[d] # NoRecord
    BY <1>5, <2>1
  <2>2. CASE Put(e)[d] = NoRecord
    <3>1. e.record # NoRecord
      BY DEF EditsStand, NoRecord
    <3>2. d # e.cmd /\ e.read[d] = NoRecord
      BY <1>1, <2>2, <3>1
    <3>3. CASE Noting(d)
      <4>1. PICK f \in edits : f.cmd = d
        BY <3>3 DEF Noting
      <4>2. f \in edits'
        BY <3>2, <4>1 DEF WriteBack
      <4>3. QED
        BY <4>1, <4>2 DEF Known, Noting
    <3>4. CASE tracker[d] # NoRecord /\ StatusOf(d) = None
      <4>1. GoodRecord(d, tracker[d]) /\ tracker[d].status # None /\ tracker[d] \in Record
        BY <3>4 DEF RecordsOutlive, GoodRecord
      <4>2. tracker[d].at \in Nat
        BY <4>1 DEF Record
      <4>3. now - tracker[d].at > Retention
        BY <3>4, <4>1, <4>2 DEF StatusOf
      <4>4. QED
        BY <3>4, <4>1, <4>3, OldIsTooLate
    <3>5. CASE StatusOf(d) # None
      <4>1. d \in Unseen(e)
        BY <3>2, <3>5 DEF Unseen
      <4>2. QED
        BY <4>1 DEF WriteBack
    <3>6. QED
      BY <1>6, <3>3, <3>4, <3>5 DEF Known
  <2>3. QED
    BY <2>1, <2>2
<1>7. QED
    BY <1>4, <1>6

\* A step that issues nothing: rows keep their expiry and kind, whatever
\* becomes of their status.
SameRows ==
    \A d \in Cmd : /\ row'[d].expires = row[d].expires
                   /\ row'[d].kind = row[d].kind
                   /\ row'[d].status = "unissued" <=> row[d].status = "unissued"

\* An acknowledgement touches no row's expiry, kind or existence.
LEMMA AckedSameRows ==
    ASSUME TypeOK, NEW c \in Cmd, NEW s \in Outcome,
           row' = row \/ row' = Acked(c, s)
    PROVE  SameRows
<1>1. CASE row' = row
    BY <1>1 DEF SameRows
<1>2. CASE row' = Acked(c, s)
    BY <1>2 DEF SameRows, Acked, InTable, TypeOK, Row, Outcome
<1>3. QED
    BY <1>1, <1>2

\* What such a step leaves of RowsExpire, of TooLate and of Issued.
LEMMA RowsKeep ==
    ASSUME AtMostOnceInv, SameRows, now' \in Nat, now' >= now
    PROVE  /\ RowsExpire'
           /\ \A d \in Cmd : Issued(d)' <=> Issued(d)
           /\ \A d \in Cmd : TooLate(d) => TooLate(d)'
           /\ \A d \in Cmd : row'[d].kind = row[d].kind
<1> USE RelayConstants DEF AtMostOnceInv, TypeOK
<1>1. \A d \in Cmd : Issued(d)' <=> Issued(d)
    BY DEF SameRows, Issued
<1>2. RowsExpire'
    BY <1>1 DEF SameRows, RowsExpire
<1>3. \A d \in Cmd : TooLate(d) => TooLate(d)'
    BY DEF SameRows, TooLate, Row
<1>4. QED
    BY <1>1, <1>2, <1>3 DEF SameRows

\* ... and of RecordsOutlive, when every record it ends with was already good.
LEMMA RecordsKeep ==
    ASSUME AtMostOnceInv, SameRows, now' \in Nat, now' >= now,
           \A d \in Cmd : GoodRecord(d, tracker'[d]) /\ GoodRecord(d, saved'[d]),
           \A d \in Cmd : \A e \in edits' : GoodRecord(d, Put(e)[d]),
           tracker' \in [Cmd -> Record], saved' \in [Cmd -> Record], edits' \subseteq Edit
    PROVE  RecordsOutlive'
<1> USE DEF AtMostOnceInv, TypeOK
<1>1. ASSUME NEW d \in Cmd, NEW r \in Record, GoodRecord(d, r), r # NoRecord
      PROVE  /\ Issued(d)'
             /\ r.status # None
             /\ r.at <= now'
             /\ row'[d].expires + MaxBatch <= r.at + Retention + 1
  <2>1. Issued(d) /\ r.status # None /\ r.at <= now
        /\ row[d].expires + MaxBatch <= r.at + Retention + 1
    BY <1>1 DEF GoodRecord
  <2>2. Issued(d)' /\ row'[d].expires = row[d].expires
    BY <2>1, RowsKeep DEF SameRows
  <2>3. r.at \in Nat
    BY DEF Record
  <2>4. QED
    BY <2>1, <2>2, <2>3
<1>2. \A d \in Cmd : \A e \in edits' : Put(e)[d] \in Record
    BY PutType
<1>3. QED
    BY <1>1, <1>2 DEF RecordsOutlive, GoodRecord

\* ... and of NoSecondRun, when nothing is run and nothing known is lost.
LEMMA RunsKeep ==
    ASSUME AtMostOnceInv, SameRows, now' \in Nat, now' >= now, UNCHANGED <<runs, forgot>>,
           \A d \in Cmd : Known(d) => Known(d)' \/ TooLate(d),
           \A d \in Cmd : InProgress(d) => InProgress(d)' \/ Known(d)',
           \A d \in Cmd : capture'[d] = "starting" =>
                              capture[d] = "starting" \/ runs[d] <= forgot[d],
           \A d \in Cmd : pc' \in {"ackingWipe", "erasing"} /\ cur' = d =>
                              UnrunYet(d) \/ (runs[d] <= forgot[d] /\ Known(d)')
    PROVE  NoSecondRun'
<1> SUFFICES ASSUME NEW d \in Cmd
             PROVE  /\ runs[d] <= forgot[d] + 1
                    /\ ~Issued(d)' => runs[d] <= forgot[d]
                    /\ ~Known(d)' /\ ~InProgress(d)' /\ ~TooLate(d)' => runs[d] <= forgot[d]
                    /\ capture'[d] = "starting" => runs[d] <= forgot[d]
                    /\ pc' \in {"ackingWipe", "erasing"} /\ cur' = d =>
                           \/ runs[d] <= forgot[d] /\ (Known(d)' \/ TooLate(d)')
                           \/ runs[d] + 1 <= forgot[d]
    BY DEF NoSecondRun, UnrunYet
<1>1. NoSecondRun
    BY DEF AtMostOnceInv
<1>2. (Issued(d)' <=> Issued(d)) /\ (TooLate(d) => TooLate(d)')
    BY RowsKeep
<1>3. QED
    BY <1>1, <1>2 DEF NoSecondRun, UnrunYet

\* What is left of EditsStand when no update is added: the loop stays where it
\* is while it updates the tracker, and so does a capture.
LEMMA EditsKeep ==
    ASSUME AtMostOnceInv, edits' \subseteq edits,
           \A e \in edits : e.by = "loop" => UNCHANGED <<pc, cur>>,
           \A e \in edits : e.by = "capture" => capture'[e.cmd] = capture[e.cmd],
           \A d \in batch' : d \in batch \/ ~(capture[d] = "refused" /\ Noting(d))
    PROVE  EditsStand'
<1>1. ASSUME NEW e \in edits'
      PROVE  /\ e.record.status # None
             /\ e.by = "loop" => pc' \in {"acking", "ackingWipe"} /\ cur' = e.cmd
             /\ e.by = "capture" => \/ capture'[e.cmd] \in Outcome
                                    \/ capture'[e.cmd] = "refused" /\ e.cmd \notin batch'
  <2>1. e \in edits
    BY <1>1
  <2>2. QED
    BY <2>1 DEF AtMostOnceInv, EditsStand, Noting
<1>2. QED
    BY <1>1 DEF EditsStand

\* The steps that only move messages, acknowledgements and the loop's place:
\* nothing is issued, run, recorded or forgotten.
LEMMA QuietStep ==
    ASSUME AtMostOnceInv, TypeOK', SameRows, now' >= now, UNCHANGED <<memory, runs, forgot>>,
           LoopInTime', EditsStand',
           \A d \in Cmd : InProgress(d) => InProgress(d)',
           \A d \in Cmd : capture'[d] = "starting" =>
                              capture[d] = "starting" \/ runs[d] <= forgot[d],
           \A d \in Cmd : pc' \in {"ackingWipe", "erasing"} /\ cur' = d => UnrunYet(d)
    PROVE  AtMostOnceInv'
<1>1. /\ now' \in Nat /\ tracker' \in [Cmd -> Record] /\ saved' \in [Cmd -> Record]
      /\ edits' \subseteq Edit
    BY DEF TypeOK
<1>2. RowsExpire'
    BY <1>1, RowsKeep
<1>3. /\ \A d \in Cmd : GoodRecord(d, tracker'[d]) /\ GoodRecord(d, saved'[d])
      /\ \A d \in Cmd : \A e \in edits' : GoodRecord(d, Put(e)[d])
    BY DEF AtMostOnceInv, RecordsOutlive, memory
<1>4. RecordsOutlive'
    BY <1>1, <1>3, RecordsKeep
<1>5. \A d \in Cmd : Known(d)' <=> Known(d)
    BY DEF Known, Noting, memory
<1>6. NoSecondRun'
    BY <1>1, <1>5, RunsKeep
<1>7. QED
    BY <1>2, <1>4, <1>6 DEF AtMostOnceInv

\* The steps that record an outcome of an issued command.
LEMMA RecordingStep ==
    ASSUME AtMostOnceInv, TypeOK', NEW w \in {"loop", "capture"}, NEW c \in Cmd, NEW s \in Outcome,
           Issued(c), Note(w, c, s), UNCHANGED <<now, row, tracker, saved, runs, forgot>>,
           LoopInTime', EditsStand',
           \A d \in Cmd : InProgress(d) => InProgress(d)' \/ d = c,
           \A d \in Cmd : capture'[d] = "starting" => capture[d] = "starting",
           \A d \in Cmd : pc' \in {"ackingWipe", "erasing"} /\ cur' = d =>
                              UnrunYet(d) \/ (runs[d] <= forgot[d] /\ d = c)
    PROVE  AtMostOnceInv'
<1>1. /\ now' \in Nat /\ now' >= now
      /\ tracker' \in [Cmd -> Record] /\ saved' \in [Cmd -> Record] /\ edits' \subseteq Edit
    BY DEF TypeOK, AtMostOnceInv
<1>2. SameRows
    BY DEF SameRows
<1>3. RowsExpire'
    BY <1>1, <1>2, RowsKeep
<1>4. /\ \A d \in Cmd : GoodRecord(d, tracker'[d]) /\ GoodRecord(d, saved'[d])
      /\ \A d \in Cmd : \A e \in edits' : GoodRecord(d, Put(e)[d])
    BY NoteStands DEF AtMostOnceInv, RecordsOutlive
<1>5. RecordsOutlive'
    BY <1>1, <1>2, <1>4, RecordsKeep
<1>6. Known(c)' /\ \A d \in Cmd : Known(d) => Known(d)'
    BY NoteStands
<1>7. NoSecondRun'
    BY <1>1, <1>2, <1>6, RunsKeep
<1>8. QED
    BY <1>3, <1>5, <1>7 DEF AtMostOnceInv

\* The end of an update: what it overwrote counts as forgotten.
LEMMA WriteStep ==
    ASSUME AtMostOnceInv, TypeOK', NEW e \in edits, WriteBack(e)
    PROVE  AtMostOnceInv'
<1> USE DEF AtMostOnceInv, TypeOK
<1>1. /\ UNCHANGED <<now, row, pc, batch, cur, capture, saved, runs>>
      /\ fetched' = fetched
      /\ edits' = edits \ {e}
    BY DEF WriteBack, server, loop
<1>2. SameRows
    BY <1>1 DEF SameRows
<1>3. RowsExpire'
    BY <1>1, <1>2, RowsKeep
<1>4. /\ \A d \in Cmd : GoodRecord(d, tracker'[d]) /\ GoodRecord(d, saved'[d])
      /\ \A d \in Cmd : \A f \in edits' : GoodRecord(d, Put(f)[d])
    BY <1>1, WriteStands DEF RecordsOutlive
<1>5. RecordsOutlive'
    BY <1>1, <1>2, <1>4, RecordsKeep
<1>6. LoopInTime'
    BY <1>1 DEF LoopInTime, Issued
<1>7. EditsStand'
    BY <1>1, EditsKeep
<1>8. NoSecondRun'
  <2> SUFFICES ASSUME NEW d \in Cmd
               PROVE  /\ runs[d] <= forgot'[d] + 1
                      /\ ~Issued(d) => runs[d] <= forgot'[d]
                      /\ ~Known(d)' /\ ~InProgress(d) /\ ~TooLate(d) => runs[d] <= forgot'[d]
                      /\ capture[d] = "starting" => runs[d] <= forgot'[d]
                      /\ pc \in {"ackingWipe", "erasing"} /\ cur = d =>
                             \/ runs[d] <= forgot'[d] /\ (Known(d)' \/ TooLate(d))
                             \/ runs[d] + 1 <= forgot'[d]
    BY <1>1 DEF NoSecondRun, UnrunYet, Issued, TooLate, InProgress
  <2>1. forgot'[d] \in {forgot[d], forgot[d] + 1} /\ forgot[d] \in Nat /\ runs[d] \in Nat
    BY DEF WriteBack
  <2>2. Known(d) => Known(d)' \/ TooLate(d) \/ forgot'[d] = forgot[d] + 1
    BY WriteStands
  <2>3. QED
    BY <2>1, <2>2 DEF NoSecondRun, UnrunYet
<1>9. QED
    BY <1>3, <1>5, <1>6, <1>7, <1>8

\* A new row: its id was never run, nor remembered, nor in the loop's hands.
LEMMA IssueStep ==
    ASSUME WindowFits, AtMostOnceInv, TypeOK', NEW c \in Cmd, NEW k \in Kind, NEW s \in Source,
           Issue(c, k, s)
    PROVE  AtMostOnceInv'
<1> USE RelayConstants DEF AtMostOnceInv, TypeOK
<1>1. /\ ~Issued(c)
      /\ k \in Queues(s)
      /\ row' = [row EXCEPT ![c] = [status |-> "pending", kind |-> k,
                                    expires |-> now + Lifetime(k, s), channel |-> "poll"]]
      /\ UNCHANGED <<now, loop, capture, memory, history>>
  <2>1. row[c].status = "unissued" /\ k \in Queues(s)
        /\ UNCHANGED <<now, loop, capture, memory, history>>
    BY DEF Issue
  <2>2. Deadline(Lifetime(k, s)) = now + Lifetime(k, s)
    BY <2>1, FittingLifetime DEF Deadline, NoExpiry
  <2>3. QED
    BY <2>1, <2>2 DEF Issue, Issued
<1>2. /\ row'[c].expires \in Nat
      /\ row'[c].expires + MaxBatch <= now + Retention + 1
    BY <1>1, FittingLifetime
<1>3. \A d \in Cmd : d # c => row'[d] = row[d]
    BY <1>1
<1>4. \A d \in Cmd : Issued(d) => d # c /\ Issued(d)'
    BY <1>1, <1>3 DEF Issued
<1>5. RowsExpire'
    BY <1>1, <1>2, <1>3 DEF RowsExpire, Issued
<1>6. RecordsOutlive'
  <2>1. \A d \in Cmd : GoodRecord(d, tracker[d]) /\ GoodRecord(d, saved[d])
    BY DEF RecordsOutlive
  <2>2. \A d \in Cmd : GoodRecord(d, tracker[d])' /\ GoodRecord(d, saved[d])'
    BY <1>1, <1>3, <1>4, <2>1 DEF GoodRecord, memory
  <2>3. ASSUME NEW d \in Cmd, NEW e \in edits' PROVE GoodRecord(d, Put(e)[d])'
    <3>1. e \in edits /\ GoodRecord(d, Put(e)[d])
      BY <1>1, <2>3 DEF RecordsOutlive, memory
    <3>2. QED
      BY <1>1, <1>3, <1>4, <3>1 DEF GoodRecord, Put
  <2>4. QED
    BY <2>2, <2>3 DEF RecordsOutlive
<1>7. LoopInTime'
  <2>1. UNCHANGED <<now, pc, batch, fetched, cur, capture>>
    BY <1>1 DEF loop
  <2>2. QED
    BY <1>3, <1>4, <2>1 DEF LoopInTime
<1>8. NoSecondRun'
  <2>1. UNCHANGED <<now, pc, cur, capture, tracker, edits, runs, forgot>>
    BY <1>1 DEF loop, memory, history
  <2>2. runs[c] <= forgot[c]
    BY <1>1 DEF NoSecondRun
  <2>3. \A d \in Cmd : d # c => (Issued(d)' <=> Issued(d)) /\ (TooLate(d)' <=> TooLate(d))
    BY <1>3, <2>1 DEF Issued, TooLate
  <2>4. \A d \in Cmd : (InProgress(d)' <=> InProgress(d)) /\ (Known(d)' <=> Known(d))
    BY <2>1 DEF InProgress, Known, Noting
  <2>5. ~(pc \in {"ackingWipe", "erasing"} /\ cur = c)
    BY <1>1 DEF LoopInTime
  <2>6. QED
    BY <2>1, <2>2, <2>3, <2>4, <2>5 DEF NoSecondRun, UnrunYet
<1>9. EditsStand'
  <2>1. edits' \subseteq edits /\ UNCHANGED <<pc, cur, batch, capture>>
    BY <1>1 DEF loop, memory
  <2>2. QED
    BY <2>1, EditsKeep
<1>10. QED
    BY <1>5, <1>6, <1>7, <1>8, <1>9

\* A process death: whatever counts as a run and is not on disk is forgotten.
LEMMA CrashStep ==
    ASSUME AtMostOnceInv, TypeOK', Crash
    PROVE  AtMostOnceInv'
<1> USE RelayConstants DEF AtMostOnceInv, TypeOK
<1>1. /\ pc' = "off" /\ batch' = {} /\ cur' = None
      /\ capture' = [d \in Cmd |-> None]
      /\ tracker' = saved /\ edits' = {}
      /\ UNCHANGED <<now, row, saved, runs>>
    BY DEF Crash, server
<1>2. \A d \in Cmd : forgot'[d] = IF Amnesia(d) THEN forgot[d] + 1 ELSE forgot[d]
    BY DEF Crash
<1>3. SameRows
    BY <1>1 DEF SameRows
<1>4. RowsExpire'
    BY <1>1, <1>3, RowsKeep
<1>5. RecordsOutlive'
    BY <1>1, <1>3, RecordsKeep DEF RecordsOutlive
<1>6. LoopInTime'
    BY <1>1 DEF LoopInTime, None
<1>9. EditsStand'
    BY <1>1 DEF EditsStand
<1>7. NoSecondRun'
  <2> SUFFICES ASSUME NEW d \in Cmd
               PROVE  /\ runs[d] <= forgot'[d] + 1
                      /\ ~Issued(d) => runs[d] <= forgot'[d]
                      /\ saved[d] = NoRecord /\ ~TooLate(d) => runs[d] <= forgot'[d]
    BY <1>1 DEF NoSecondRun, Issued, TooLate, Known, Noting, None
  <2>1. /\ runs[d] <= forgot[d] + 1
        /\ ~Issued(d) => runs[d] <= forgot[d]
        /\ ~Known(d) /\ ~InProgress(d) /\ ~TooLate(d) => runs[d] <= forgot[d]
    BY DEF NoSecondRun
  <2>2. saved[d] = NoRecord /\ (Known(d) \/ InProgress(d)) => Amnesia(d)
    BY DEF Amnesia, InProgress, Known
  <2>3. forgot'[d] \in Nat /\ forgot[d] \in Nat /\ runs[d] \in Nat
    OBVIOUS
  <2>4. QED
    BY <1>2, <2>1, <2>2, <2>3
<1>8. QED
    BY <1>4, <1>5, <1>6, <1>7, <1>9

\* The effects of a command: only one that has no run to its name is run.
LEMMA EffectStep ==
    ASSUME AtMostOnceInv, TypeOK', NEW c \in Cmd, Issued(c),
           UNCHANGED <<now, row, tracker, saved, forgot>>, LoopInTime', EditsStand',
           runs' = [runs EXCEPT ![c] = @ + 1],
           \/ edits' = edits /\ InProgress(c)' /\ runs[c] <= forgot[c]
           \/ edits' = edits /\ UnrunYet(c)
           \/ runs[c] <= forgot[c] /\ \E s \in Outcome : Note("loop", c, s),
           capture'[c] # "starting",
           ~(pc' \in {"ackingWipe", "erasing"} /\ cur' = c),
           \A d \in Cmd : d # c =>
               /\ InProgress(d) => InProgress(d)'
               /\ capture'[d] = "starting" => capture[d] = "starting"
               /\ pc' \in {"ackingWipe", "erasing"} /\ cur' = d => UnrunYet(d)
    PROVE  AtMostOnceInv'
<1> USE DEF AtMostOnceInv, TypeOK
<1>1. SameRows
    BY DEF SameRows
<1>2. RowsExpire'
    BY <1>1, RowsKeep
<1>3. /\ \A d \in Cmd : \A e \in edits' : GoodRecord(d, Put(e)[d])
      /\ \A d \in Cmd : Known(d) => Known(d)'
      /\ edits' = edits \/ Known(c)'
  <2>1. CASE edits' = edits
    BY <2>1 DEF RecordsOutlive, Known, Noting
  <2>2. CASE \E s \in Outcome : Note("loop", c, s)
    BY <2>2, NoteStands
  <2>3. QED
    BY <2>1, <2>2
<1>4. RecordsOutlive'
    BY <1>1, <1>3, RecordsKeep DEF RecordsOutlive
<1>5. NoSecondRun'
  <2>1. \A d \in Cmd : (Issued(d)' <=> Issued(d)) /\ (TooLate(d)' <=> TooLate(d))
    BY DEF Issued, TooLate
  <2>2. \A d \in Cmd : d # c => runs'[d] = runs[d]
    OBVIOUS
  <2>3. /\ runs'[c] = runs[c] + 1 /\ runs[c] \in Nat /\ forgot[c] \in Nat
        /\ runs[c] <= forgot[c]
        /\ InProgress(c)' \/ Known(c)' \/ TooLate(c) \/ runs[c] + 1 <= forgot[c]
    <3>1. runs'[c] = runs[c] + 1 /\ runs[c] \in Nat /\ forgot[c] \in Nat
      OBVIOUS
    <3>2. CASE edits' = edits /\ InProgress(c)' /\ runs[c] <= forgot[c]
      BY <3>1, <3>2
    <3>3. CASE edits' = edits /\ UnrunYet(c)
      BY <1>3, <3>1, <3>3 DEF UnrunYet
    <3>4. CASE runs[c] <= forgot[c] /\ \E s \in Outcome : Note("loop", c, s)
      <4>1. Known(c)'
        BY <3>4, NoteStands
      <4>2. QED
        BY <3>1, <3>4, <4>1
    <3>5. QED
      BY <3>2, <3>3, <3>4
  <2>4. ASSUME NEW d \in Cmd
        PROVE  /\ runs'[d] <= forgot'[d] + 1
               /\ ~Issued(d)' => runs'[d] <= forgot'[d]
               /\ ~Known(d)' /\ ~InProgress(d)' /\ ~TooLate(d)' => runs'[d] <= forgot'[d]
               /\ capture'[d] = "starting" => runs'[d] <= forgot'[d]
               /\ pc' \in {"ackingWipe", "erasing"} /\ cur' = d => UnrunYet(d)'
    <3>1. CASE d = c
      BY <2>1, <2>3, <3>1
    <3>2. CASE d # c
      BY <1>3, <2>1, <2>2, <3>2 DEF NoSecondRun, UnrunYet
    <3>3. QED
      BY <3>1, <3>2
  <2>5. QED
    BY <2>4 DEF NoSecondRun
<1>6. QED
    BY <1>2, <1>4, <1>5

\* Steps that leave the loop and the captures alone and issue nothing.
LEMMA LoopUntouched ==
    ASSUME AtMostOnceInv, SameRows, UNCHANGED <<now, loop, capture>>
    PROVE  LoopInTime'
<1>1. \A d \in Cmd : /\ Issued(d)' <=> Issued(d)
                     /\ row'[d].expires = row[d].expires
                     /\ row'[d].kind = row[d].kind
    BY DEF SameRows, Issued
<1>2. UNCHANGED <<now, pc, batch, fetched, cur, capture>>
    BY DEF loop
<1>3. QED
    BY <1>1, <1>2 DEF LoopInTime, AtMostOnceInv, TypeOK

\* Steps of the server and of the phone's helpers: the loop, the captures and
\* the phone's memory stay as they are.
LEMMA BesideTheLoop ==
    ASSUME AtMostOnceInv, TypeOK', SameRows,
           UNCHANGED <<now, loop, capture, memory, runs, forgot>>
    PROVE  AtMostOnceInv'
<1>1. LoopInTime'
    BY LoopUntouched
<1>2. now' >= now /\ UNCHANGED <<pc, cur, capture>>
    BY DEF loop, AtMostOnceInv, TypeOK
<1>3. \A d \in Cmd : InProgress(d) => InProgress(d)'
    BY <1>2 DEF InProgress
<1>4. \A d \in Cmd : pc' \in {"ackingWipe", "erasing"} /\ cur' = d => UnrunYet(d)
    BY <1>2 DEF AtMostOnceInv, NoSecondRun
<1>5. EditsStand'
    BY <1>2, EditsKeep DEF loop, memory
<1>6. QED
    BY <1>1, <1>2, <1>3, <1>4, <1>5, QuietStep

\* The server's steps keep the at-most-once invariant: they do not touch the loop,
\* and a row's expiry is only set when the command is issued.
LEMMA ServerKeeps ==
    ASSUME WindowFits, AtMostOnceInv, TypeOK', ServerStep
    PROVE  AtMostOnceInv'
<1> USE DEF AtMostOnceInv
<1>1. ASSUME NEW c \in Cmd, NEW k \in Kind, NEW s \in Source, Issue(c, k, s)
      PROVE  AtMostOnceInv'
    BY <1>1, IssueStep
<1>2. CASE ReadHistory
  <2>1. SameRows
    BY <1>2 DEF ReadHistory, SameRows, TypeOK, Row
  <2>2. QED
    BY <1>2, <2>1, BesideTheLoop DEF ReadHistory, history
<1>3. ASSUME NEW D \in SUBSET Cmd, Delete(D), \A d \in D : InTable(d) PROVE AtMostOnceInv'
  <2>1. SameRows
    BY <1>3 DEF Delete, SameRows, TypeOK, Row, InTable
  <2>2. QED
    BY <1>3, <2>1, BesideTheLoop DEF Delete, history
<1>4. ASSUME NEW c \in Cmd, DeleteCommand(c) PROVE AtMostOnceInv'
    BY <1>3, <1>4 DEF DeleteCommand
<1>5. ASSUME NEW b \in BOOLEAN, ClearHistory(b) PROVE AtMostOnceInv'
    BY <1>3, <1>5 DEF ClearHistory
<1>6. ASSUME NEW m \in wire, LateAck(m) PROVE AtMostOnceInv'
  <2>1. m[1] \in Cmd /\ m[2] \in Outcome
    BY DEF TypeOK
  <2>2. SameRows
    BY <1>6, <2>1, AckedSameRows DEF LateAck
  <2>3. QED
    BY <1>6, <2>2, BesideTheLoop DEF LateAck, history
<1>7. QED
    BY <1>1, <1>2, <1>4, <1>5, <1>6 DEF ServerStep

\* So do the phone's steps beside the command loop: registration, capture, outbox.
LEMMA PhoneHelpersKeep ==
    ASSUME AtMostOnceInv, TypeOK', OtherPhoneStep
    PROVE  AtMostOnceInv'
<1> USE DEF AtMostOnceInv
<1>1. CASE Register
  <2>1. /\ UNCHANGED <<now, row, batch, fetched, cur, capture, memory, runs, forgot>>
        /\ pc' = IF pc = "off" THEN "idle" ELSE pc
    BY <1>1 DEF Register, server, history
  <2>2. SameRows /\ now' >= now
    BY <2>1 DEF SameRows, TypeOK
  <2>3. LoopInTime'
    BY <2>1 DEF LoopInTime, Issued
  <2>4. \A d \in Cmd : InProgress(d) => InProgress(d)'
    BY <2>1 DEF InProgress
  <2>5. \A d \in Cmd : pc' \in {"ackingWipe", "erasing"} /\ cur' = d => UnrunYet(d)
    BY <2>1 DEF NoSecondRun
  <2>6. EditsStand'
    <3>1. \A e \in edits : e.by = "loop" => pc # "off"
      BY DEF EditsStand
    <3>2. edits' \subseteq edits
      BY <2>1 DEF memory
    <3>3. QED
      BY <2>1, <3>1, <3>2, EditsKeep
  <2>7. QED
    BY <2>1, <2>2, <2>3, <2>4, <2>5, <2>6, QuietStep
<1>2. CASE SaveTracker
  <2>1. UNCHANGED <<now, row, loop, capture, tracker, edits, runs, forgot>> /\ saved' = tracker
    BY <1>2 DEF SaveTracker, server, history
  <2>2. SameRows /\ now' \in Nat /\ now' >= now
    BY <2>1 DEF SameRows, TypeOK
  <2>3. RowsExpire' /\ LoopInTime'
    BY <2>1, <2>2, RowsKeep, LoopUntouched
  <2>4. RecordsOutlive'
    BY <2>1, <2>2, RecordsKeep DEF RecordsOutlive, TypeOK
  <2>5. \A d \in Cmd : (InProgress(d)' <=> InProgress(d)) /\ (TooLate(d)' <=> TooLate(d))
                       /\ (Issued(d)' <=> Issued(d)) /\ (Known(d)' <=> Known(d))
    BY <2>1 DEF InProgress, TooLate, Issued, Known, Noting, loop
  <2>6. NoSecondRun'
    BY <2>1, <2>5 DEF NoSecondRun, UnrunYet, loop
  <2>7. EditsStand'
    BY <2>1, EditsKeep DEF loop
  <2>8. QED
    BY <2>3, <2>4, <2>6, <2>7
<1>3. CASE HeartbeatFlush
  <2>1. SameRows
    BY <1>3 DEF HeartbeatFlush, server, SameRows
  <2>2. QED
    BY <1>3, <2>1, BesideTheLoop DEF HeartbeatFlush, history
<1>4. ASSUME NEW f \in Flushers, NEW c \in Cmd, NEW r \in Reply, FlushPost(f, c, r)
      PROVE  AtMostOnceInv'
  <2>1. taken[f][c] \in Outcome
    BY <1>4 DEF FlushPost, TypeOK
  <2>2. SameRows
    BY <1>4, <2>1, AckedSameRows DEF FlushPost, Posted
  <2>3. QED
    BY <1>4, <2>2, BesideTheLoop DEF FlushPost, history
<1>5. ASSUME NEW c \in Cmd, CaptureStarts(c) PROVE AtMostOnceInv'
  <2>1. /\ capture[c] = "starting"
        /\ capture' = [capture EXCEPT ![c] = "active"]
        /\ runs' = [runs EXCEPT ![c] = @ + 1]
        /\ UNCHANGED <<now, row, pc, batch, fetched, cur, tracker, saved, edits, forgot>>
    BY <1>5 DEF CaptureStarts, server, loop, memory
  <2>2. Issued(c) /\ runs[c] <= forgot[c] /\ row[c].kind = "capture"
    BY <2>1 DEF LoopInTime, NoSecondRun, None
  <2>3. \A d \in Cmd : d # c => capture'[d] = capture[d]
    BY <2>1 DEF TypeOK
  <2>4. capture'[c] = "active"
    BY <2>1 DEF TypeOK
  <2>5. LoopInTime'
    BY <2>1, <2>2, <2>3, <2>4 DEF LoopInTime, TypeOK, Issued, None
  <2>6. InProgress(c)'
    BY <2>4 DEF InProgress
  <2>7. \A d \in Cmd : d # c =>
               /\ InProgress(d) => InProgress(d)'
               /\ capture'[d] = "starting" => capture[d] = "starting"
    BY <2>1, <2>3 DEF InProgress
  <2>8. \A d \in Cmd : pc' \in {"ackingWipe", "erasing"} /\ cur' = d =>
               d # c /\ UnrunYet(d)
    BY <2>1, <2>2 DEF NoSecondRun, LoopInTime
  <2>9. EditsStand'
    <3>1. \A e \in edits : e.by = "capture" => e.cmd # c
      BY <2>1 DEF EditsStand, Outcome
    <3>2. \A e \in edits : e.by = "capture" => capture'[e.cmd] = capture[e.cmd]
      BY <2>3, <3>1 DEF TypeOK, Edit
    <3>3. QED
      BY <2>1, <3>2, EditsKeep
  <2>10. QED
    BY <2>1, <2>2, <2>4, <2>5, <2>6, <2>7, <2>8, <2>9, EffectStep
<1>6. ASSUME NEW c \in Cmd, NEW s \in Outcome, NEW st \in {"refused"} \cup Outcome,
             capture[c] # None, st = "refused" => c \notin batch,
             capture[c] \notin Outcome \cup {"refused"},
             capture' = [capture EXCEPT ![c] = st], Note("capture", c, s),
             UNCHANGED <<now, server, loop, tracker, saved, history>>
      PROVE  AtMostOnceInv'
  <2>1. UNCHANGED <<now, row, pc, batch, fetched, cur, tracker, saved, runs, forgot>>
    BY <1>6 DEF server, loop, history
  <2>2. Issued(c) /\ row[c].kind = "capture"
    BY <1>6 DEF LoopInTime
  <2>3. /\ \A d \in Cmd : d # c => capture'[d] = capture[d]
        /\ capture'[c] # "starting"
    BY <1>6 DEF TypeOK, Outcome
  <2>4. LoopInTime'
    BY <2>1, <2>2, <2>3 DEF LoopInTime, TypeOK, Issued
  <2>5. \A d \in Cmd : InProgress(d) => InProgress(d)' \/ d = c
    BY <2>1, <2>3 DEF InProgress
  <2>6. \A d \in Cmd : capture'[d] = "starting" => capture[d] = "starting"
    BY <2>3
  <2>7. \A d \in Cmd : pc' \in {"ackingWipe", "erasing"} /\ cur' = d => UnrunYet(d)
    BY <2>1 DEF NoSecondRun
  <2>8. EditsStand'
    <3>1. ASSUME NEW e \in edits'
          PROVE  /\ e.record.status # None
                 /\ e.by = "loop" => pc \in {"acking", "ackingWipe"} /\ cur = e.cmd
                 /\ e.by = "capture" => \/ capture'[e.cmd] \in Outcome
                                        \/ capture'[e.cmd] = "refused" /\ e.cmd \notin batch
      <4>1. CASE e \in edits
        <5>1. /\ e.cmd \in Cmd /\ e.record.status # None
              /\ e.by = "loop" => pc \in {"acking", "ackingWipe"} /\ cur = e.cmd
              /\ e.by = "capture" => \/ capture[e.cmd] \in Outcome
                                     \/ capture[e.cmd] = "refused" /\ e.cmd \notin batch
          BY <4>1 DEF EditsStand, TypeOK, Edit
        <5>2. e.by = "capture" => e.cmd # c
          BY <1>6, <5>1
        <5>3. QED
          BY <2>3, <5>1, <5>2
      <4>2. CASE e = [by |-> "capture", cmd |-> c, record |-> [status |-> s, at |-> now],
                      read |-> tracker]
        <5>1. capture'[c] = st
          BY <1>6 DEF TypeOK
        <5>2. e.by = "capture" /\ e.cmd = c /\ e.record.status = s
          BY <4>2
        <5>3. QED
          BY <1>6, <5>1, <5>2 DEF Outcome, None
      <4>3. QED
        BY <1>6, <4>1, <4>2 DEF Note
    <3>2. QED
      BY <2>1, <3>1 DEF EditsStand
  <2>9. QED
    BY <1>6, <2>1, <2>2, <2>4, <2>5, <2>6, <2>7, <2>8, RecordingStep
<1>7. ASSUME NEW c \in Cmd, CaptureRefused(c) PROVE AtMostOnceInv'
  <2>1. c \notin batch
    BY <1>7 DEF CaptureRefused, LoopInTime
  <2>2. QED
    BY <1>6, <1>7, <2>1 DEF CaptureRefused, Outcome, None
<1>8. ASSUME NEW c \in Cmd, NEW s \in Outcome, CaptureEnds(c, s) PROVE AtMostOnceInv'
    BY <1>6, <1>8 DEF CaptureEnds, Outcome, None
<1>9. ASSUME NEW c \in Cmd, NEW r \in Reply, CapturePost(c, r) PROVE AtMostOnceInv'
  <2>1. /\ capture[c] \in Outcome \cup {"refused"}
        /\ capture' = [capture EXCEPT ![c] = None]
        /\ UNCHANGED <<now, pc, batch, fetched, cur, memory, runs, forgot>>
    BY <1>9 DEF CapturePost, loop, history
  <2>2. SameRows
    BY <1>9, AckedSameRows DEF CapturePost, Posted, Outcome
  <2>3. \A d \in Cmd : /\ Issued(d)' <=> Issued(d)
                       /\ row'[d].expires = row[d].expires
                       /\ row'[d].kind = row[d].kind
    BY <2>2 DEF SameRows, Issued
  <2>4. /\ \A d \in Cmd : d # c => capture'[d] = capture[d]
        /\ capture'[c] = None
    BY <2>1 DEF TypeOK
  <2>5. LoopInTime'
    BY <2>1, <2>3, <2>4 DEF LoopInTime, TypeOK, None
  <2>6. /\ \A d \in Cmd : InProgress(d) => InProgress(d)'
        /\ \A d \in Cmd : capture'[d] = "starting" => capture[d] = "starting"
    BY <2>1, <2>4 DEF InProgress, None, Outcome
  <2>7. \A d \in Cmd : pc' \in {"ackingWipe", "erasing"} /\ cur' = d => UnrunYet(d)
    BY <2>1 DEF NoSecondRun
  <2>8. EditsStand'
    <3>1. \A e \in edits : e.by = "capture" => e.cmd # c
      BY <1>9 DEF CapturePost, Remembering
    <3>2. \A e \in edits : e.by = "capture" => capture'[e.cmd] = capture[e.cmd]
      BY <2>4, <3>1 DEF TypeOK, Edit
    <3>3. edits' \subseteq edits
      BY <2>1 DEF memory
    <3>4. QED
      BY <2>1, <3>2, <3>3, EditsKeep
  <2>9. QED
    BY <2>1, <2>2, <2>5, <2>6, <2>7, <2>8, QuietStep DEF TypeOK
<1>10. ASSUME NEW c \in Cmd, CaptureAborted(c) PROVE AtMostOnceInv'
  <2>1. /\ capture[c] = "active"
        /\ capture' = [capture EXCEPT ![c] = None]
        /\ forgot' = [forgot EXCEPT ![c] = @ + 1]
        /\ UNCHANGED <<now, row, pc, batch, fetched, cur, tracker, saved, edits, runs>>
    BY <1>10 DEF CaptureAborted, server, loop, memory
  <2>2. /\ \A d \in Cmd : d # c => capture'[d] = capture[d] /\ forgot'[d] = forgot[d]
        /\ capture'[c] = None /\ forgot'[c] = forgot[c] + 1
    BY <2>1 DEF TypeOK
  <2>3. SameRows
    BY <2>1 DEF SameRows
  <2>4. RowsExpire' /\ RecordsOutlive'
    BY <2>1, <2>3, RowsKeep, RecordsKeep DEF RecordsOutlive, TypeOK
  <2>5. LoopInTime'
    BY <2>1, <2>2 DEF LoopInTime, Issued, None
  <2>6. \A d \in Cmd : d # c => (InProgress(d)' <=> InProgress(d))
    BY <2>1, <2>2 DEF InProgress
  <2>7. runs[c] <= forgot'[c] /\ forgot[c] \in Nat /\ runs[c] \in Nat
    BY <2>2 DEF NoSecondRun, TypeOK
  <2>8. NoSecondRun'
    <3>1. ASSUME NEW d \in Cmd, d # c
          PROVE  /\ forgot'[d] = forgot[d] /\ capture'[d] = capture[d] /\ runs'[d] = runs[d]
                 /\ Issued(d)' <=> Issued(d)
                 /\ TooLate(d)' <=> TooLate(d)
                 /\ InProgress(d)' <=> InProgress(d)
                 /\ Known(d)' <=> Known(d)
      BY <2>1, <2>2, <2>6, <3>1 DEF Issued, TooLate, Known, Noting
    <3>2. (TooLate(c)' <=> TooLate(c)) /\ (Known(c)' <=> Known(c))
      BY <2>1 DEF TooLate, Known, Noting
    <3>3. ~(pc \in {"ackingWipe", "erasing"} /\ cur = c)
      BY <2>1 DEF LoopInTime, None
    <3>4. QED
      BY <2>1, <2>2, <2>7, <3>1, <3>2, <3>3 DEF NoSecondRun, UnrunYet
  <2>9. EditsStand'
    <3>1. \A e \in edits : e.by = "capture" => e.cmd # c
      BY <2>1 DEF EditsStand, Outcome
    <3>2. \A e \in edits : e.by = "capture" => capture'[e.cmd] = capture[e.cmd]
      BY <2>2, <3>1 DEF TypeOK, Edit
    <3>3. QED
      BY <2>1, <3>2, EditsKeep
  <2>10. QED
    BY <2>4, <2>5, <2>8, <2>9
<1>12. ASSUME NEW e \in edits, WriteBack(e) PROVE AtMostOnceInv'
    BY <1>12, WriteStep
<1>11. QED
    BY <1>1, <1>2, <1>3, <1>4, <1>5, <1>7, <1>8, <1>9, <1>10, <1>12 DEF OtherPhoneStep

\* The loop's own steps.  The table may change only by an acknowledgement.
LEMMA LoopKeeps ==
    ASSUME AtMostOnceInv, TypeOK', LoopStep
    PROVE  AtMostOnceInv'
<1> USE DEF AtMostOnceInv
<1>1. ASSUME UNCHANGED <<now, row, memory, runs, forgot, capture>>, LoopInTime',
             pc' \notin {"running", "ackingWipe", "erasing"},
             pc \notin {"running", "acking", "ackingWipe"},
             \A d \in batch' : d \in batch \/ ~(capture[d] = "refused" /\ Noting(d))
      PROVE  AtMostOnceInv'
  <2>1. SameRows /\ now' >= now
    BY <1>1 DEF SameRows, TypeOK
  <2>2. \A d \in Cmd : InProgress(d) => InProgress(d)'
    BY <1>1 DEF InProgress
  <2>3. EditsStand'
    <3>1. \A e \in edits : e.by # "loop"
      BY <1>1 DEF EditsStand
    <3>2. edits' \subseteq edits /\ \A d \in Cmd : capture'[d] = capture[d]
      BY <1>1 DEF memory
    <3>3. QED
      BY <1>1, <3>1, <3>2, EditsKeep DEF TypeOK, Edit
  <2>4. QED
    BY <1>1, <2>1, <2>2, <2>3, QuietStep
<1>2. CASE StartLoop
  <2>1. /\ pc = "idle" /\ pc' = "flushing"
        /\ UNCHANGED <<now, row, memory, runs, forgot, batch, fetched, cur, capture>>
    BY <1>2 DEF StartLoop, server, history
  <2>2. LoopInTime'
    BY <2>1 DEF LoopInTime, Issued
  <2>3. QED
    BY <1>1, <2>1, <2>2
<1>3. CASE Poll
  <2>1. /\ pc = "flushing" /\ pc' = "working" /\ fetched' = now
        /\ batch' = {d \in Cmd : Deliverable(d)}
        /\ \A d \in Cmd : capture[d] # "starting" /\ ~(capture[d] = "refused" /\ Noting(d))
        /\ UNCHANGED <<now, row, memory, runs, forgot, cur, capture>>
    BY <1>3 DEF Poll, server, history
  <2>2. \A d \in batch' : Issued(d) /\ now < row[d].expires
    <3>1. ASSUME NEW d \in Cmd, Deliverable(d) PROVE Issued(d) /\ now < row[d].expires
      <4>1. Issued(d)
        BY <3>1 DEF Deliverable, Issued
      <4>2. row[d].expires \in Nat
        BY <4>1 DEF RowsExpire
      <4>3. QED
        BY <3>1, <4>1, <4>2 DEF Deliverable, Unexpired, NoExpiry
    <3>2. QED
      BY <2>1, <3>1
  <2>3. now' <= fetched' + MaxBatch
    BY <2>1, RelayConstants DEF TypeOK
  <2>4. LoopInTime'
    BY <2>1, <2>2, <2>3 DEF LoopInTime, Issued
  <2>5. QED
    BY <1>1, <2>1, <2>4 DEF TypeOK
<1>4. CASE PollFails
  <2>1. /\ pc = "flushing" /\ pc' = "idle"
        /\ UNCHANGED <<now, row, memory, runs, forgot, batch, fetched, cur, capture>>
    BY <1>4 DEF PollFails, server, history
  <2>2. LoopInTime'
    BY <2>1 DEF LoopInTime, Issued
  <2>3. QED
    BY <1>1, <2>1, <2>2
<1>5. CASE EndBatch
  <2>1. /\ pc = "working" /\ pc' = "idle" /\ batch = {}
        /\ UNCHANGED <<now, row, memory, runs, forgot, batch, cur, capture>>
    BY <1>5 DEF EndBatch, server, history
  <2>2. LoopInTime'
    BY <2>1 DEF LoopInTime, Issued
  <2>3. QED
    BY <1>1, <2>1, <2>2
<1>6. ASSUME NEW c \in Cmd, SkipBusy(c) PROVE AtMostOnceInv'
  <2>1. /\ pc = "working" /\ pc' = pc /\ batch' = batch \ {c}
        /\ UNCHANGED <<now, row, memory, runs, forgot, fetched, cur, capture>>
    BY <1>6 DEF SkipBusy, NextInBatch, server, history
  <2>2. LoopInTime'
    BY <2>1 DEF LoopInTime, Issued
  <2>3. QED
    BY <1>1, <2>1, <2>2
<1>17. ASSUME NEW c \in Cmd, NEW s \in Outcome, Note("loop", c, s),
              pc \notin {"acking", "ackingWipe"}, pc' \in {"acking", "ackingWipe"}, cur' = c,
              batch' \subseteq batch, UNCHANGED capture
       PROVE  EditsStand'
  <2>1. ASSUME NEW e \in edits'
        PROVE  /\ e.record.status # None
               /\ e.by = "loop" => cur' = e.cmd
               /\ e.by = "capture" => \/ capture[e.cmd] \in Outcome
                                      \/ capture[e.cmd] = "refused" /\ e.cmd \notin batch'
    <3>1. CASE e \in edits
      BY <1>17, <3>1 DEF EditsStand
    <3>2. CASE e = [by |-> "loop", cmd |-> c, record |-> [status |-> s, at |-> now],
                    read |-> tracker]
      <4>1. e.by = "loop" /\ e.cmd = c /\ e.record.status = s
        BY <3>2
      <4>2. QED
        BY <1>17, <4>1 DEF Outcome, None
    <3>3. QED
      BY <1>17, <3>1, <3>2 DEF Note
  <2>2. QED
    BY <1>17, <2>1 DEF EditsStand
<1>7. ASSUME NEW c \in Cmd, NEW s \in Outcome, c \in batch, pc = "working",
             pc' \in {"acking", "ackingWipe"}, cur' = c, batch' = batch \ {c},
             Note("loop", c, s),
             pc' = "ackingWipe" => runs[c] <= forgot[c] /\ row[c].kind = "wipe",
             UNCHANGED <<now, server, fetched, capture, tracker, saved, history>>
      PROVE  AtMostOnceInv'
  <2>1. UNCHANGED <<now, row, fetched, capture, tracker, saved, runs, forgot>>
    BY <1>7 DEF server, history
  <2>2. Issued(c)
    BY <1>7 DEF LoopInTime
  <2>3. LoopInTime'
    BY <1>7, <2>1, <2>2 DEF LoopInTime, Issued
  <2>4. \A d \in Cmd : InProgress(d) => InProgress(d)' \/ d = c
    BY <1>7 DEF InProgress
  <2>5. \A d \in Cmd : pc' \in {"ackingWipe", "erasing"} /\ cur' = d =>
               UnrunYet(d) \/ (runs[d] <= forgot[d] /\ d = c)
    BY <1>7
  <2>6. EditsStand'
    BY <1>7, <1>17
  <2>7. QED
    BY <1>7, <2>1, <2>2, <2>3, <2>4, <2>5, <2>6, RecordingStep
<1>8. ASSUME NEW c \in Cmd, ReAck(c) PROVE AtMostOnceInv'
  <2>1. StatusOf(c) \in Outcome
    BY <1>8, StatusOfType DEF ReAck
  <2>2. QED
    BY <1>7, <1>8, <2>1 DEF ReAck, NextInBatch
<1>9. ASSUME NEW c \in Cmd, Refuse(c) PROVE AtMostOnceInv'
    BY <1>7, <1>9 DEF Refuse, Fresh, NextInBatch, Outcome
<1>10. ASSUME NEW c \in Cmd, StartWipe(c) PROVE AtMostOnceInv'
    BY <1>7, <1>10, FreshHasNoRun DEF StartWipe, Outcome
<1>11. ASSUME NEW c \in Cmd, RunInline(c) PROVE AtMostOnceInv'
  <2>1. /\ pc = "working" /\ pc' = "running" /\ cur' = c
        /\ c \in batch /\ batch' = batch \ {c}
        /\ runs' = [runs EXCEPT ![c] = @ + 1]
        /\ UNCHANGED <<now, row, fetched, capture, tracker, saved, edits, forgot>>
    BY <1>11, FreshHasNoRun DEF RunInline, server, memory
  <2>2. Issued(c) /\ runs[c] <= forgot[c] /\ capture[c] # "starting"
    BY <1>11, FreshHasNoRun DEF RunInline, None
  <2>3. LoopInTime'
    BY <2>1, <2>2 DEF LoopInTime, Issued
  <2>4. InProgress(c)'
    BY <2>1 DEF InProgress
  <2>5. \A d \in Cmd : d # c => (InProgress(d) => InProgress(d)')
    BY <2>1 DEF InProgress
  <2>6. EditsStand'
    <3>1. \A e \in edits : e.by # "loop"
      BY <2>1 DEF EditsStand
    <3>2. \A e \in edits : e.by = "capture" => capture'[e.cmd] = capture[e.cmd]
      BY <2>1
    <3>3. QED
      BY <2>1, <3>1, <3>2, EditsKeep
  <2>7. QED
    BY <2>1, <2>2, <2>3, <2>4, <2>5, <2>6, EffectStep
<1>12. ASSUME NEW s \in Outcome, FinishInline(s) PROVE AtMostOnceInv'
  <2>1. /\ pc = "running" /\ pc' = "acking" /\ cur \in Cmd
        /\ Note("loop", cur, s)
        /\ UNCHANGED <<now, row, batch, fetched, cur, capture, tracker, saved, runs, forgot>>
    BY <1>12 DEF FinishInline, TypeOK, server, history
  <2>2. Issued(cur)
    BY <2>1 DEF LoopInTime
  <2>3. LoopInTime'
    BY <2>1 DEF LoopInTime, Issued
  <2>4. \A d \in Cmd : InProgress(d) => InProgress(d)' \/ d = cur
    BY <2>1 DEF InProgress
  <2>5. EditsStand'
    BY <1>17, <2>1
  <2>6. QED
    BY <2>1, <2>2, <2>3, <2>4, <2>5, RecordingStep
<1>13. CASE StartLoop \/ \E c \in Cmd : StartCapture(c)
  <2>1. ASSUME NEW c \in Cmd, StartCapture(c) PROVE AtMostOnceInv'
    <3>1. /\ pc = "working" /\ batch' = batch \ {c} /\ c \in batch
          /\ row[c].kind = "capture"
          /\ capture' = [capture EXCEPT ![c] = "starting"]
          /\ UNCHANGED <<now, row, pc, fetched, cur, memory, runs, forgot>>
      BY <2>1, FreshHasNoRun DEF StartCapture, server, history
    <3>2. Issued(c) /\ runs[c] <= forgot[c] /\ capture[c] # "active" /\ ~Known(c)
      BY <2>1, FreshHasNoRun DEF StartCapture, None
    <3>3. /\ \A d \in Cmd : d # c => capture'[d] = capture[d]
          /\ capture'[c] = "starting"
      BY <3>1 DEF TypeOK
    <3>4. LoopInTime'
      BY <3>1, <3>2, <3>3 DEF LoopInTime, Issued
    <3>5. SameRows /\ now' >= now
      BY <3>1 DEF SameRows, TypeOK
    <3>6. \A d \in Cmd : InProgress(d) => InProgress(d)'
      BY <3>1, <3>2, <3>3 DEF InProgress
    <3>7. EditsStand'
      <4>1. \A e \in edits : e.cmd # c
        BY <3>2 DEF Known, Noting
      <4>2. \A e \in edits : e.by = "capture" => capture'[e.cmd] = capture[e.cmd]
        BY <3>3, <4>1 DEF TypeOK, Edit
      <4>3. edits' \subseteq edits
        BY <3>1 DEF memory
      <4>4. QED
        BY <3>1, <4>2, <4>3, EditsKeep
    <3>8. QED
      BY <3>1, <3>2, <3>3, <3>4, <3>5, <3>6, <3>7, QuietStep
  <2>2. QED
    BY <1>2, <1>13, <2>1
<1>14. ASSUME NEW r \in Reply, PostAck(r) PROVE AtMostOnceInv'
  <2>1. /\ cur \in Cmd /\ out \in Outcome
        /\ UNCHANGED <<now, batch, fetched, capture, memory, runs, forgot>>
        /\ \/ pc = "acking" /\ pc' = "working"
           \/ pc = "ackingWipe" /\ pc' = "erasing" /\ cur' = cur
    BY <1>14 DEF PostAck, TypeOK, history
  <2>2. SameRows
    BY <1>14, <2>1, AckedSameRows DEF PostAck, Posted
  <2>3. \A d \in Cmd : /\ Issued(d)' <=> Issued(d)
                       /\ row'[d].expires = row[d].expires
                       /\ row'[d].kind = row[d].kind
    BY <2>2 DEF SameRows, Issued
  <2>4. LoopInTime'
    <3>1. \A d \in batch : Issued(d)' /\ fetched < row'[d].expires
      BY <2>3 DEF LoopInTime, TypeOK
    <3>4. row'[cur].kind = row[cur].kind
      BY <2>1, <2>3
    <3>5. row'[cur].status # "unissued"
      BY <2>1, <2>2 DEF LoopInTime, SameRows, Issued
    <3>2. \A d \in Cmd : capture[d] # None => Issued(d)' /\ row'[d].kind = "capture"
      BY <2>3 DEF LoopInTime
    <3>3. QED
      BY <2>1, <3>1, <3>2, <3>4, <3>5 DEF LoopInTime, Issued
  <2>5. now' >= now /\ \A d \in Cmd : InProgress(d) => InProgress(d)'
    BY <2>1 DEF InProgress, TypeOK
  <2>6. \A d \in Cmd : pc' \in {"ackingWipe", "erasing"} /\ cur' = d =>
               UnrunYet(d)
    BY <2>1 DEF NoSecondRun
  <2>7. EditsStand'
    <3>1. \A e \in edits : e.by # "loop"
      <4>1. \A e \in edits : e.by = "loop" => e.cmd = cur
        BY DEF EditsStand
      <4>2. QED
        BY <1>14, <4>1 DEF PostAck, Remembering
    <3>2. edits' \subseteq edits /\ \A e \in edits : capture'[e.cmd] = capture[e.cmd]
      BY <2>1 DEF memory
    <3>3. QED
      BY <2>1, <3>1, <3>2, EditsKeep
  <2>8. QED
    BY <2>1, <2>2, <2>4, <2>5, <2>6, <2>7, QuietStep
<1>15. CASE Erase
  <2>1. /\ pc = "erasing" /\ cur \in Cmd
        /\ runs' = [runs EXCEPT ![cur] = @ + 1]
        /\ UNCHANGED <<now, row, batch, fetched, capture, tracker, saved, forgot>>
        /\ \/ pc' = "working" /\ edits' = edits
           \/ pc' = "acking" /\ cur' = cur /\ Note("loop", cur, "failed")
    BY <1>15 DEF Erase, TypeOK, server
  <2>2. /\ Issued(cur) /\ row[cur].kind = "wipe" /\ capture[cur] # "starting"
        /\ UnrunYet(cur)
    BY <2>1 DEF LoopInTime, NoSecondRun, None
  <2>3. LoopInTime'
    BY <2>1, <2>2 DEF LoopInTime, Issued
  <2>4. \A d \in Cmd : d # cur => (InProgress(d) => InProgress(d)')
    BY <2>1 DEF InProgress
  <2>5. "failed" \in Outcome /\ runs[cur] <= forgot[cur]
    <3>1. runs[cur] \in Nat /\ forgot[cur] \in Nat
      BY <2>1 DEF TypeOK
    <3>2. QED
      BY <2>2, <3>1 DEF UnrunYet, Outcome
  <2>6. EditsStand'
    <3>1. CASE pc' = "working" /\ edits' = edits
      <4>1. \A e \in edits : e.by # "loop"
        BY <2>1 DEF EditsStand
      <4>2. \A e \in edits : capture'[e.cmd] = capture[e.cmd]
        BY <2>1
      <4>3. QED
        BY <2>1, <3>1, <4>1, <4>2, EditsKeep
    <3>2. CASE pc' = "acking" /\ cur' = cur /\ Note("loop", cur, "failed")
      BY <1>17, <2>1, <2>5, <3>2
    <3>3. QED
      BY <2>1, <3>1, <3>2
  <2>7. /\ \/ edits' = edits /\ UnrunYet(cur)
           \/ runs[cur] <= forgot[cur] /\ \E s \in Outcome : Note("loop", cur, s)
        /\ capture'[cur] # "starting"
        /\ pc' \notin {"ackingWipe", "erasing"}
    BY <2>1, <2>2, <2>5
  <2>8. QED
    BY <2>1, <2>2, <2>3, <2>4, <2>6, <2>7, EffectStep
<1>16. QED
    BY <1>2, <1>3, <1>4, <1>5, <1>6, <1>8, <1>9, <1>10, <1>11, <1>12, <1>13, <1>14, <1>15
    DEF LoopStep

\* The clock: a command that is in hand does not get older than its batch may.
LEMMA TickKeeps ==
    ASSUME AtMostOnceInv, TypeOK', Tick
    PROVE  AtMostOnceInv'
<1> USE DEF AtMostOnceInv
<1>1. /\ now' = now + 1
      /\ pc \notin {"off", "idle", "flushing"} => now < fetched + MaxBatch
      /\ UNCHANGED <<row, pc, batch, fetched, cur, capture, memory, runs, forgot>>
    BY DEF Tick, server, loop, history
<1>2. SameRows /\ now' >= now
    BY <1>1 DEF SameRows, TypeOK
<1>3. LoopInTime'
    BY <1>1, RelayConstants DEF LoopInTime, Issued, TypeOK
<1>4. \A d \in Cmd : InProgress(d) => InProgress(d)'
    BY <1>1 DEF InProgress
<1>5. \A d \in Cmd : pc' \in {"ackingWipe", "erasing"} /\ cur' = d => UnrunYet(d)
    BY <1>1 DEF NoSecondRun
<1>6. EditsStand'
    BY <1>1, EditsKeep DEF memory
<1>7. QED
    BY <1>1, <1>2, <1>3, <1>4, <1>5, <1>6, QuietStep

\* The strengthening holds of every reachable state when the windows fit.
THEOREM AtMostOnceInvHolds == ASSUME WindowFits PROVE Spec => []AtMostOnceInv
<1>1. Init => AtMostOnceInv
  <2>1. Init => TypeOK
    BY TypeInit
  <2>2. Init => RowsExpire /\ RecordsOutlive
    BY DEF Init, RowsExpire, RecordsOutlive, GoodRecord, Issued, NoRow
  <2>3. Init => LoopInTime /\ EditsStand /\ NoSecondRun
    BY DEF Init, LoopInTime, EditsStand, NoSecondRun, None
  <2>4. QED
    BY <2>1, <2>2, <2>3 DEF AtMostOnceInv
<1>2. AtMostOnceInv /\ [Next]_vars => AtMostOnceInv'
  <2> SUFFICES ASSUME AtMostOnceInv, [Next]_vars PROVE AtMostOnceInv'
    OBVIOUS
  <2>1. TypeOK'
    BY TypeStep DEF AtMostOnceInv
  <2>2. CASE UNCHANGED vars
    <3>1. SameRows /\ UNCHANGED <<now, loop, capture, memory, runs, forgot>>
      BY <2>2 DEF vars, server, history, SameRows
    <3>2. QED
      BY <2>1, <3>1, BesideTheLoop
  <2>3. QED
    BY <2>1, <2>2, ServerKeeps, LoopKeeps, PhoneHelpersKeep, TickKeeps, CrashStep DEF Next
<1>3. QED
    BY <1>1, <1>2, PTL DEF Spec

\* The phone carries no command out twice, however the polls, acks, flushes
\* and process deaths interleave, as long as every command's lifetime plus
\* the time one poll response is worked on fits into the retention window;
\* only a death that takes the memory of a command along, or an update of the
\* tracker that overwrites its record, buys it another run.
THEOREM AtMostOnceHolds == ASSUME WindowFits PROVE Spec => []AtMostOnce
<1>1. AtMostOnceInv => AtMostOnce
    BY DEF AtMostOnceInv, NoSecondRun, AtMostOnce
<1>2. QED
    BY <1>1, AtMostOnceInvHolds, PTL

-----------------------------------------------------------------------------
(* What every step leaves alone *)

\* Only a new row changes what a command is and when it expires.
LEMMA RowsStand ==
    ASSUME TypeOK, [Next]_vars, NEW d \in Cmd, Issued(d)
    PROVE  Issued(d)' /\ row'[d].kind = row[d].kind /\ row'[d].expires = row[d].expires
<1> USE DEF TypeOK
<1>1. ASSUME NEW c \in Cmd, NEW k \in Kind, NEW s \in Source, Issue(c, k, s)
      PROVE  row'[d] = row[d]
    BY <1>1 DEF Issue, Issued
<1>2. ASSUME NEW c \in Cmd, NEW s \in Outcome, row' = row \/ row' = Acked(c, s)
      PROVE  SameRows
    BY <1>2, AckedSameRows
<1>3. CASE ReadHistory
    BY <1>3 DEF ReadHistory, Issued, Row
<1>4. ASSUME NEW D \in SUBSET Cmd, Delete(D)
      PROVE  Issued(d)' /\ row'[d].kind = row[d].kind /\ row'[d].expires = row[d].expires
    BY <1>4 DEF Delete, Issued, Row
<1>5. ASSUME NEW c \in Cmd, NEW s \in Outcome, NEW r \in Reply, Posted(c, s, r)
      PROVE  SameRows
    BY <1>2, <1>5 DEF Posted
<1>6. CASE UNCHANGED row
    BY <1>6 DEF Issued
<1>7. SameRows => Issued(d)' /\ row'[d].kind = row[d].kind /\ row'[d].expires = row[d].expires
    BY DEF SameRows, Issued
<1>8. CASE ServerStep
  <2>1. ASSUME NEW c \in Cmd, DeleteCommand(c)
        PROVE  Issued(d)' /\ row'[d].kind = row[d].kind /\ row'[d].expires = row[d].expires
    BY <1>4, <2>1 DEF DeleteCommand
  <2>2. ASSUME NEW b \in BOOLEAN, ClearHistory(b)
        PROVE  Issued(d)' /\ row'[d].kind = row[d].kind /\ row'[d].expires = row[d].expires
    BY <1>4, <2>2 DEF ClearHistory
  <2>3. ASSUME NEW m \in wire, LateAck(m) PROVE SameRows
    BY <1>2, <2>3 DEF LateAck
  <2>4. ASSUME NEW c \in Cmd, NEW k \in Kind, NEW s \in Source, Issue(c, k, s)
        PROVE  Issued(d)' /\ row'[d].kind = row[d].kind /\ row'[d].expires = row[d].expires
    BY <1>1, <2>4 DEF Issued
  <2>5. QED
    BY <1>3, <1>7, <1>8, <2>1, <2>2, <2>3, <2>4 DEF ServerStep
<1>9. CASE LoopStep
  <2>1. ASSUME NEW r \in Reply, PostAck(r) PROVE SameRows
    BY <1>5, <2>1 DEF PostAck
  <2>2. QED
    BY <1>6, <1>7, <1>9, <2>1 DEF LoopStep, StartLoop, Poll, PollFails, EndBatch, Erase, SkipBusy,
       ReAck, RunInline, Refuse, StartCapture, StartWipe, FinishInline, server
<1>10. CASE OtherPhoneStep
  <2>1. ASSUME NEW f \in Flushers, NEW c \in Cmd, NEW r \in Reply, FlushPost(f, c, r)
        PROVE  SameRows
    BY <1>5, <2>1 DEF FlushPost
  <2>2. ASSUME NEW c \in Cmd, NEW r \in Reply, CapturePost(c, r) PROVE SameRows
    BY <1>5, <2>2 DEF CapturePost, Outcome
  <2>3. QED
    BY <1>6, <1>7, <1>10, <2>1, <2>2 DEF OtherPhoneStep, Register, SaveTracker, HeartbeatFlush, WriteBack,
       CaptureStarts, CaptureRefused, CaptureAborted, CaptureEnds, server
<1>11. CASE Tick \/ Crash \/ UNCHANGED vars
    BY <1>6, <1>11 DEF Tick, Crash, vars, server
<1>12. QED
    BY <1>8, <1>9, <1>10, <1>11 DEF Next

\* Runs and forgotten runs are only added to, one command and one of the two
\* at a time.
LEMMA HistoryGrows ==
    ASSUME TypeOK, [Next]_vars, NEW d \in Cmd
    PROVE  /\ \/ runs'[d] = runs[d]
              \/ /\ runs'[d] = runs[d] + 1 /\ forgot' = forgot
                 /\ RunInline(d) \/ CaptureStarts(d) \/ (Erase /\ cur = d)
           /\ forgot'[d] \in {forgot[d], forgot[d] + 1}
           /\ forgot'[d] # forgot[d] =>
                 Crash \/ CaptureAborted(d) \/ \E e \in edits : WriteBack(e)
<1> USE DEF TypeOK
<1>1. CASE UNCHANGED <<runs, forgot>>
    BY <1>1
<1>2. ASSUME NEW c \in Cmd, runs' = [runs EXCEPT ![c] = @ + 1], forgot' = forgot,
             RunInline(c) \/ CaptureStarts(c) \/ (Erase /\ cur = c)
      PROVE  /\ \/ runs'[d] = runs[d]
                \/ /\ runs'[d] = runs[d] + 1
                   /\ RunInline(d) \/ CaptureStarts(d) \/ (Erase /\ cur = d)
             /\ forgot'[d] = forgot[d]
    BY <1>2
<1>3. CASE ServerStep
    BY <1>1, <1>3 DEF ServerStep, Issue, ReadHistory, DeleteCommand, ClearHistory, Delete, LateAck, history
<1>4. CASE LoopStep
  <2>1. ASSUME NEW c \in Cmd, RunInline(c) PROVE runs' = [runs EXCEPT ![c] = @ + 1] /\ forgot' = forgot
    BY <2>1 DEF RunInline
  <2>2. ASSUME Erase PROVE runs' = [runs EXCEPT ![cur] = @ + 1] /\ forgot' = forgot /\ cur \in Cmd
    BY <2>2 DEF Erase
  <2>3. QED
    BY <1>1, <1>2, <1>4, <2>1, <2>2 DEF LoopStep, StartLoop, Poll, PollFails, EndBatch, SkipBusy,
       ReAck, Refuse, StartCapture, StartWipe, FinishInline, PostAck, history
<1>5. CASE OtherPhoneStep
  <2>1. ASSUME NEW c \in Cmd, CaptureStarts(c)
        PROVE runs' = [runs EXCEPT ![c] = @ + 1] /\ forgot' = forgot
    BY <2>1 DEF CaptureStarts
  <2>2. ASSUME NEW c \in Cmd, CaptureAborted(c)
        PROVE  runs' = runs /\ forgot'[d] \in {forgot[d], forgot[d] + 1}
               /\ (forgot'[d] # forgot[d] => CaptureAborted(d))
    BY <2>2 DEF CaptureAborted
  <2>3. ASSUME NEW e \in edits, WriteBack(e)
        PROVE  runs' = runs /\ forgot'[d] \in {forgot[d], forgot[d] + 1}
    BY <2>3 DEF WriteBack
  <2>4. QED
    BY <1>1, <1>2, <1>5, <2>1, <2>2, <2>3 DEF OtherPhoneStep, Register, SaveTracker,
       HeartbeatFlush, FlushPost, CaptureRefused, CaptureEnds, CapturePost, history
<1>6. CASE Tick \/ UNCHANGED vars
    BY <1>1, <1>6 DEF Tick, vars, history
<1>7. CASE Crash
    BY <1>7 DEF Crash
<1>8. QED
    BY <1>3, <1>4, <1>5, <1>6, <1>7 DEF Next

-----------------------------------------------------------------------------
(* Where copies of an outcome come from *)

\* The steps that decide an outcome; all others only move or drop copies.
Decides(d, s) ==
    \/ FinishInline(s) /\ cur = d
    \/ (Refuse(d) \/ CaptureRefused(d)) /\ s = "failed"
    \/ CaptureEnds(d, s)
    \/ StartWipe(d)
    \/ Erase /\ cur = d

\* remember notes one outcome and invents none ...
LEMMA NoteCopies ==
    ASSUME TypeOK, NEW w \in {"loop", "capture"}, NEW c \in Cmd, NEW s \in Outcome, Note(w, c, s),
           NEW d \in Cmd, NEW t \in Outcome, NEW e \in edits', Put(e)[d].status = t
    PROVE  \/ d = c /\ t = s
           \/ tracker[d].status = t
           \/ \E f \in edits : Put(f)[d].status = t
<1> DEFINE new == [by |-> w, cmd |-> c, record |-> [status |-> s, at |-> now], read |-> tracker]
<1>1. CASE e \in edits
  BY <1>1
<1>2. CASE e = new
  <2>1. Put(e)[d] = IF d = c THEN [status |-> s, at |-> now] ELSE tracker[d]
    BY <1>2 DEF Put, TypeOK
  <2>2. QED
    BY <2>1
<1>3. QED
    BY <1>1, <1>2 DEF Note

\* ... and what is written back was read, or is the outcome noted.
LEMMA WriteCopies ==
    ASSUME TypeOK, NEW e \in edits, WriteBack(e), NEW d \in Cmd, NEW t \in Outcome,
           tracker'[d].status = t
    PROVE  Put(e)[d].status = t
<1>1. tracker'[d] = IF Put(e)[d].at < now - 2 * Retention THEN NoRecord ELSE Put(e)[d]
    BY DEF WriteBack, Pruned
<1>2. NoRecord.status # t
    BY DEF NoRecord, Outcome, None
<1>3. QED
    BY <1>1, <1>2

\* A POST, at once or late, brings no other outcome than its own.
LEMMA AckedCopies ==
    ASSUME TypeOK, NEW c \in Cmd, NEW s \in Outcome, NEW d \in Cmd, NEW t \in Outcome,
           Acked(c, s)[d].status = t
    PROVE  (d = c /\ t = s) \/ row[d].status = t
BY DEF Acked, TypeOK, Row

\* A report that is posted copies its own outcome only, to the wire or to the row.
LEMMA PostedCopies ==
    ASSUME TypeOK, NEW c \in Cmd, NEW s \in Outcome, NEW r \in Reply, Posted(c, s, r),
           NEW d \in Cmd, NEW t \in Outcome
    PROVE  /\ row'[d].status = t => (d = c /\ t = s) \/ row[d].status = t
           /\ <<d, t>> \in wire' => (d = c /\ t = s) \/ <<d, t>> \in wire
BY AckedCopies DEF Posted

\* Only the steps that decide it make a copy of an outcome there was none of.
LEMMA NewCopy ==
    ASSUME TypeOK, [Next]_vars, NEW d \in Cmd, NEW s \in Outcome, Carries(d, s)'
    PROVE  Carries(d, s) \/ Decides(d, s)
<1> USE DEF TypeOK
<1>0. s # None /\ s \in {"executed", "failed"}
    BY DEF Outcome, None
<1>2. CASE ServerStep
  <2>1. UNCHANGED <<tracker, saved, edits, outbox, taken, pc, cur, out, capture>>
    BY <1>2 DEF ServerStep, Issue, ReadHistory, DeleteCommand, ClearHistory, Delete, LateAck,
       loop, memory
  <2>2. row'[d].status = s => Carries(d, s)
    <3>1. ASSUME NEW c \in Cmd, NEW k \in Kind, NEW x \in Source, Issue(c, k, x), row'[d].status = s
          PROVE  row[d].status = s
      BY <1>0, <3>1 DEF Issue
    <3>2. ASSUME ReadHistory, row'[d].status = s PROVE row[d].status = s
      BY <1>0, <3>2 DEF ReadHistory, Row
    <3>3. ASSUME NEW D \in SUBSET Cmd, Delete(D), row'[d].status = s PROVE row[d].status = s
      BY <1>0, <3>3 DEF Delete, Row
    <3>4. ASSUME NEW m \in wire, LateAck(m), row'[d].status = s PROVE Carries(d, s)
      <4>1. m[1] \in Cmd /\ m[2] \in Outcome /\ m = <<m[1], m[2]>>
        BY <3>4
      <4>2. (d = m[1] /\ s = m[2]) \/ row[d].status = s
        BY <3>4, <4>1, AckedCopies DEF LateAck
      <4>3. QED
        BY <4>1, <4>2 DEF Carries
    <3>5. QED
      BY <1>2, <3>1, <3>2, <3>3, <3>4 DEF ServerStep, DeleteCommand, ClearHistory, Carries
  <2>3. wire' \subseteq wire
    BY <1>2 DEF ServerStep, Issue, ReadHistory, DeleteCommand, ClearHistory, Delete, LateAck, server
  <2>4. QED
    BY <2>1, <2>2, <2>3 DEF Carries
<1>3. CASE LoopStep
  <2>1. CASE StartLoop
    BY <1>0, <2>1 DEF StartLoop, Take, Carries, NoAcks, server, memory
  <2>2. CASE Poll \/ PollFails \/ EndBatch
    BY <2>2 DEF Poll, PollFails, EndBatch, Carries, server, memory
  <2>3. ASSUME NEW c \in Cmd, SkipBusy(c) \/ RunInline(c) \/ StartCapture(c)
        PROVE  Carries(d, s)
    BY <1>0, <2>3 DEF SkipBusy, RunInline, StartCapture, Fresh, NextInBatch, Carries, server, memory
  <2>4. ASSUME NEW c \in Cmd, NEW t \in Outcome, Note("loop", c, t), cur' = c, out' = t,
               UNCHANGED <<row, wire, tracker, saved, outbox, taken, capture>>
        PROVE  Carries(d, s) \/ (d = c /\ s = t)
    <3>1. (\E e \in edits' : Put(e)[d].status = s) => Carries(d, s) \/ (d = c /\ s = t)
      BY <2>4, NoteCopies DEF Carries
    <3>2. QED
      BY <2>4, <3>1 DEF Carries
  <2>5. ASSUME NEW c \in Cmd, ReAck(c) PROVE Carries(d, s)
    <3>1. StatusOf(c) \in Outcome /\ tracker[c].status = StatusOf(c)
      BY <2>5, StatusOfType DEF ReAck, StatusOf
    <3>2. QED
      BY <2>4, <2>5, <3>1 DEF ReAck, Carries, server
  <2>6. ASSUME NEW c \in Cmd, Refuse(c) \/ StartWipe(c) PROVE Carries(d, s) \/ Decides(d, s)
    BY <2>4, <2>6 DEF Refuse, StartWipe, Decides, server, Outcome
  <2>7. ASSUME NEW t \in Outcome, FinishInline(t) PROVE Carries(d, s) \/ Decides(d, s)
    BY <2>4, <2>7 DEF FinishInline, Decides, server
  <2>8. ASSUME NEW r \in Reply, PostAck(r) PROVE Carries(d, s)
    <3>1. cur \in Cmd /\ out \in Outcome /\ Posted(cur, out, r) /\ pc \in {"acking", "ackingWipe"}
      BY <2>8 DEF PostAck
    <3>2. /\ row'[d].status = s => (d = cur /\ s = out) \/ row[d].status = s
          /\ <<d, s>> \in wire' => (d = cur /\ s = out) \/ <<d, s>> \in wire
      BY <3>1, PostedCopies
    <3>3. UNCHANGED <<tracker, saved, edits, taken, capture>> /\ out' = None
      BY <2>8 DEF PostAck, memory
    <3>4. outbox'[d] = s => (d = cur /\ s = out) \/ outbox[d] = s
      BY <2>8, <3>1 DEF PostAck
    <3>5. QED
      BY <1>0, <3>1, <3>2, <3>3, <3>4 DEF Carries
  <2>9. CASE Erase
    <3>1. \/ pc' = "working" /\ edits' = edits
          \/ cur \in Cmd /\ cur' = cur /\ Note("loop", cur, "failed") /\ "failed" \in Outcome
      BY <2>9 DEF Erase, Outcome
    <3>2. UNCHANGED <<row, wire, tracker, saved, taken, capture>> /\ outbox' = NoAcks
      BY <2>9 DEF Erase, server
    <3>3. (\E e \in edits' : Put(e)[d].status = s) => cur = d \/ Carries(d, s)
      BY <3>1, NoteCopies DEF Carries
    <3>4. pc' \in {"acking", "ackingWipe"} /\ cur' = d => cur = d
      BY <3>1
    <3>5. outbox'[d] # s
      BY <1>0, <3>2 DEF NoAcks
    <3>6. QED
      BY <2>9, <3>2, <3>3, <3>4, <3>5 DEF Carries, Decides
  <2>10. QED
    BY <1>3, <2>1, <2>2, <2>3, <2>5, <2>6, <2>7, <2>8, <2>9 DEF LoopStep
<1>4. CASE OtherPhoneStep
  <2>1. CASE Register
    BY <2>1 DEF Register, Carries, server, memory
  <2>2. CASE SaveTracker
    BY <2>2 DEF SaveTracker, Carries, server, loop
  <2>3. CASE HeartbeatFlush
    BY <1>0, <2>3 DEF HeartbeatFlush, Take, Carries, NoAcks, server, loop, memory
  <2>4. ASSUME NEW f \in Flushers, NEW c \in Cmd, NEW r \in Reply, FlushPost(f, c, r)
        PROVE  Carries(d, s)
    <3>1. taken[f][c] \in Outcome /\ Posted(c, taken[f][c], r)
      BY <2>4 DEF FlushPost
    <3>2. /\ row'[d].status = s => (d = c /\ s = taken[f][c]) \/ row[d].status = s
          /\ <<d, s>> \in wire' => (d = c /\ s = taken[f][c]) \/ <<d, s>> \in wire
      BY <3>1, PostedCopies
    <3>3. UNCHANGED <<tracker, saved, edits, pc, cur, out, capture>>
      BY <2>4 DEF FlushPost, memory, loop
    <3>4. outbox'[d] = s => outbox[d] = s \/ taken[f][d] = s
      BY <1>0, <2>4 DEF FlushPost
    <3>5. \A g \in Flushers : taken'[g][d] = s => taken[g][d] = s
      BY <1>0, <2>4 DEF FlushPost, NoAcks
    <3>6. QED
      BY <3>1, <3>2, <3>3, <3>4, <3>5 DEF Carries
  <2>5. ASSUME NEW c \in Cmd, CaptureStarts(c) \/ CaptureAborted(c) PROVE Carries(d, s)
    BY <1>0, <2>5 DEF CaptureStarts, CaptureAborted, Carries, server, loop, memory, None
  <2>9. ASSUME NEW e \in edits, WriteBack(e) PROVE Carries(d, s)
    <3>1. UNCHANGED <<row, wire, saved, outbox, taken, pc, cur, out, capture>> /\ edits' \subseteq edits
      BY <2>9 DEF WriteBack, server, loop
    <3>2. tracker'[d].status = s => Carries(d, s)
      BY <2>9, WriteCopies DEF Carries
    <3>3. QED
      BY <3>1, <3>2 DEF Carries
  <2>6. ASSUME NEW c \in Cmd, NEW t \in Outcome, Note("capture", c, t),
               (CaptureRefused(c) /\ t = "failed") \/ CaptureEnds(c, t)
        PROVE  Carries(d, s) \/ Decides(d, s)
    <3>1. UNCHANGED <<row, wire, tracker, saved, outbox, taken, pc, cur, out>>
      BY <2>6 DEF CaptureRefused, CaptureEnds, server, loop
    <3>2. (\E e \in edits' : Put(e)[d].status = s) => (d = c /\ s = t) \/ Carries(d, s)
      BY <2>6, NoteCopies DEF Carries
    <3>3. capture'[d] = s \/ (capture'[d] = "refused" /\ s = "failed") =>
             (d = c /\ s = t) \/ capture[d] = s \/ (capture[d] = "refused" /\ s = "failed")
      BY <1>0, <2>6 DEF CaptureRefused, CaptureEnds, Outcome
    <3>4. Carries(d, s) \/ (d = c /\ s = t)
      BY <3>1, <3>2, <3>3 DEF Carries
    <3>5. QED
      BY <2>6, <3>4 DEF Decides
  <2>7. ASSUME NEW c \in Cmd, NEW r \in Reply, CapturePost(c, r) PROVE Carries(d, s)
    <3> DEFINE t == IF capture[c] = "refused" THEN "failed" ELSE capture[c]
    <3>1. t \in Outcome /\ Posted(c, t, r)
      BY <2>7 DEF CapturePost, Outcome
    <3>2. /\ row'[d].status = s => (d = c /\ s = t) \/ row[d].status = s
          /\ <<d, s>> \in wire' => (d = c /\ s = t) \/ <<d, s>> \in wire
      BY <3>1, PostedCopies
    <3>3. UNCHANGED <<tracker, saved, edits, outbox, taken, pc, cur, out>>
      BY <2>7 DEF CapturePost, memory, loop
    <3>4. capture'[d] = s \/ (capture'[d] = "refused" /\ s = "failed") =>
             capture[d] = s \/ (capture[d] = "refused" /\ s = "failed")
      BY <1>0, <2>7 DEF CapturePost, None
    <3>5. QED
      BY <3>2, <3>3, <3>4 DEF Carries
  <2>8. QED
    BY <1>4, <2>1, <2>2, <2>3, <2>4, <2>5, <2>6, <2>7, <2>9
    DEF OtherPhoneStep, CaptureRefused, CaptureEnds, Outcome
<1>5. CASE Tick \/ UNCHANGED vars
    BY <1>5 DEF Tick, vars, Carries, server, loop, memory
<1>6. CASE Crash
    BY <1>0, <1>6 DEF Crash, Carries, NoAcks, server, None
<1>7. QED
    BY <1>2, <1>3, <1>4, <1>5, <1>6 DEF Next

-----------------------------------------------------------------------------
(* Honest outcomes, and runs inside the window: for every lifetime *)

\* A command gets into the phone's hands by a poll response only.
LEMMA HandsStep ==
    ASSUME TypeOK, [Next]_vars, NEW d \in Cmd
    PROVE  /\ d \in batch' => d \in batch \/ (Poll /\ Deliverable(d))
           /\ capture'[d] # None => capture[d] # None \/ StartCapture(d)
           /\ pc' \in {"running", "acking", "ackingWipe", "erasing"} /\ cur' = d =>
                 (pc \in {"running", "acking", "ackingWipe", "erasing"} /\ cur = d) \/ d \in batch
<1> USE DEF TypeOK
<1>1. CASE ServerStep
    BY <1>1 DEF ServerStep, Issue, ReadHistory, DeleteCommand, ClearHistory, Delete, LateAck, loop
<1>2. CASE LoopStep
  <2>1. CASE StartLoop \/ Poll \/ PollFails \/ EndBatch
    BY <2>1 DEF StartLoop, Poll, PollFails, EndBatch
  <2>2. CASE Erase
    BY <2>2 DEF Erase
  <2>3. ASSUME NEW c \in Cmd, SkipBusy(c) \/ ReAck(c) \/ RunInline(c) \/ Refuse(c) \/ StartWipe(c)
        PROVE  /\ d \in batch' => d \in batch
               /\ capture' = capture
               /\ pc' \in {"running", "acking", "ackingWipe", "erasing"} /\ cur' = d => d \in batch
    BY <2>3 DEF SkipBusy, ReAck, RunInline, Refuse, StartWipe, Fresh, NextInBatch
  <2>4. ASSUME NEW c \in Cmd, StartCapture(c)
        PROVE  /\ d \in batch' => d \in batch
               /\ capture'[d] # None => capture[d] # None \/ StartCapture(d)
               /\ pc' = pc /\ cur' = cur
    BY <2>4 DEF StartCapture
  <2>5. CASE \E s \in Outcome : FinishInline(s)
    BY <2>5 DEF FinishInline
  <2>6. CASE \E r \in Reply : PostAck(r)
    BY <2>6 DEF PostAck
  <2>7. QED
    BY <1>2, <2>1, <2>2, <2>3, <2>4, <2>5, <2>6 DEF LoopStep
<1>3. CASE OtherPhoneStep
  <2>1. CASE Register
    BY <2>1 DEF Register
  <2>2. CASE \/ SaveTracker \/ HeartbeatFlush \/ \E e \in edits : WriteBack(e)
             \/ \E f \in Flushers, c \in Cmd, r \in Reply : FlushPost(f, c, r)
    BY <2>2 DEF SaveTracker, HeartbeatFlush, WriteBack, FlushPost, loop
  <2>3. ASSUME NEW c \in Cmd, CaptureStarts(c) \/ CaptureRefused(c) \/ CaptureAborted(c)
        PROVE  UNCHANGED <<batch, pc, cur>> /\ (capture'[d] # None => capture[d] # None)
    BY <2>3 DEF CaptureStarts, CaptureRefused, CaptureAborted, loop, None
  <2>4. ASSUME NEW c \in Cmd, NEW s \in Outcome, CaptureEnds(c, s)
        PROVE  UNCHANGED <<batch, pc, cur>> /\ (capture'[d] # None => capture[d] # None)
    BY <2>4 DEF CaptureEnds, loop, None
  <2>5. ASSUME NEW c \in Cmd, NEW r \in Reply, CapturePost(c, r)
        PROVE  UNCHANGED <<batch, pc, cur>> /\ (capture'[d] # None => capture[d] # None)
    BY <2>5 DEF CapturePost, loop, None
  <2>6. QED
    BY <1>3, <2>1, <2>2, <2>3, <2>4, <2>5 DEF OtherPhoneStep
<1>4. CASE Tick \/ UNCHANGED vars
    BY <1>4 DEF Tick, vars, loop
<1>5. CASE Crash
    BY <1>5 DEF Crash
<1>6. QED
    BY <1>1, <1>2, <1>3, <1>4, <1>5 DEF Next

\* Every command anything is known of was issued.
LEMMA IssuedStep ==
    ASSUME RelayInv, [Next]_vars
    PROVE  HeldWereIssued'
<1> SUFFICES ASSUME NEW d \in Cmd, Held(d)' PROVE Issued(d)'
    BY DEF HeldWereIssued
<1> USE DEF RelayInv
<1>1. Issued(d) => Issued(d)'
    BY RowsStand
<1>2. Held(d) => Issued(d)
    BY DEF HeldWereIssued
<1>3. ASSUME d \in batch' PROVE Issued(d)
    BY <1>2, <1>3, HandsStep DEF Held, Deliverable, Issued
<1>4. ASSUME capture'[d] # None PROVE Issued(d)
    BY <1>2, <1>4, HandsStep DEF Held, StartCapture, Fresh, NextInBatch
<1>5. ASSUME pc' \in {"running", "acking", "ackingWipe", "erasing"}, cur' = d PROVE Issued(d)
    BY <1>2, <1>5, HandsStep DEF Held
<1>6. ASSUME NEW s \in Outcome, Carries(d, s)' PROVE Issued(d)
  <2>1. Carries(d, s) \/ Decides(d, s)
    BY <1>6, NewCopy
  <2>2. Decides(d, s) => Held(d)
    BY DEF Decides, FinishInline, Refuse, CaptureRefused, CaptureEnds, StartWipe, Erase, Fresh,
           NextInBatch, Held, None
  <2>3. QED
    BY <1>2, <2>1, <2>2 DEF Held
<1>7. QED
    BY <1>1, <1>3, <1>4, <1>5, <1>6 DEF Held

\* How the loop's place, its response and the clock move.
LEMMA LoopMoves ==
    ASSUME TypeOK, [Next]_vars
    PROVE  \/ Poll
           \/ batch' = {} /\ pc' \in {"off", "idle"} /\ UNCHANGED <<now, row>>
              /\ (capture' = capture \/ capture' = [c \in Cmd |-> None])
           \/ /\ fetched' = fetched /\ batch' \subseteq batch
              /\ pc' \notin {"off", "idle", "flushing"} => pc \notin {"off", "idle", "flushing"}
              /\ pc' \in {"ackingWipe", "erasing"} =>
                    \/ pc \in {"ackingWipe", "erasing"} /\ cur' = cur
                    \/ cur' \in batch /\ row[cur'].kind = "wipe" /\ StartWipe(cur')
              /\ now' = now \/ Tick
<1> USE DEF TypeOK
<1>1. CASE ServerStep
    BY <1>1 DEF ServerStep, Issue, ReadHistory, DeleteCommand, ClearHistory, Delete, LateAck, loop
<1>2. CASE LoopStep
  <2>1. CASE StartLoop \/ PollFails
    BY <2>1 DEF StartLoop, PollFails
  <2>2. CASE EndBatch
    BY <2>2 DEF EndBatch, server
  <2>3. CASE Erase
    BY <2>3 DEF Erase
  <2>4. CASE \E c \in Cmd : SkipBusy(c) \/ ReAck(c) \/ RunInline(c) \/ Refuse(c) \/ StartCapture(c)
    BY <2>4 DEF SkipBusy, ReAck, RunInline, Refuse, StartCapture, Fresh, NextInBatch
  <2>5. ASSUME NEW c \in Cmd, StartWipe(c)
        PROVE  /\ fetched' = fetched /\ batch' \subseteq batch /\ now' = now
               /\ pc = "working" /\ cur' \in batch /\ row[cur'].kind = "wipe" /\ StartWipe(cur')
    BY <2>5 DEF StartWipe, Fresh, NextInBatch
  <2>6. CASE \E s \in Outcome : FinishInline(s)
    BY <2>6 DEF FinishInline
  <2>7. CASE \E r \in Reply : PostAck(r)
    BY <2>7 DEF PostAck
  <2>8. QED
    BY <1>2, <2>1, <2>2, <2>3, <2>4, <2>5, <2>6, <2>7 DEF LoopStep
<1>3. CASE OtherPhoneStep
    BY <1>3 DEF OtherPhoneStep, Register, SaveTracker, HeartbeatFlush, WriteBack, FlushPost, CaptureStarts,
       CaptureRefused, CaptureAborted, CaptureEnds, CapturePost, loop
<1>4. CASE Tick \/ UNCHANGED vars
    BY <1>4 DEF Tick, vars, loop
<1>5. CASE Crash
    BY <1>5 DEF Crash, server
<1>6. QED
    BY <1>1, <1>2, <1>3, <1>4, <1>5 DEF Next

\* Only the steps that count a run, and the sending of a capture intent, put a
\* command in progress.
LEMMA ProgressStep ==
    ASSUME TypeOK, [Next]_vars, NEW d \in Cmd
    PROVE  /\ pc' = "running" /\ cur' = d => (pc = "running" /\ cur = d) \/ RunInline(d)
           /\ capture'[d] = "active" => capture[d] = "active" \/ CaptureStarts(d)
           /\ capture'[d] = "starting" => (capture[d] = "starting" /\ now' = now) \/ StartCapture(d)
<1> USE DEF TypeOK
<1>1. CASE ServerStep
    BY <1>1 DEF ServerStep, Issue, ReadHistory, DeleteCommand, ClearHistory, Delete, LateAck, loop
<1>2. CASE LoopStep
  <2>1. CASE StartLoop \/ Poll \/ PollFails \/ EndBatch \/ Erase
    BY <2>1 DEF StartLoop, Poll, PollFails, EndBatch, Erase
  <2>2. ASSUME NEW c \in Cmd, SkipBusy(c) \/ ReAck(c) \/ Refuse(c) \/ StartWipe(c) \/ RunInline(c)
        PROVE  /\ capture' = capture /\ now' = now
               /\ pc' = "running" /\ cur' = d => (pc = "running" /\ cur = d) \/ RunInline(d)
    BY <2>2 DEF SkipBusy, ReAck, RunInline, Refuse, StartWipe
  <2>3. ASSUME NEW c \in Cmd, StartCapture(c)
        PROVE  /\ capture'[d] = "active" => capture[d] = "active"
               /\ capture'[d] = "starting" => (capture[d] = "starting" /\ now' = now) \/ StartCapture(d)
               /\ pc' = pc /\ cur' = cur
    BY <2>3 DEF StartCapture
  <2>4. CASE \E s \in Outcome : FinishInline(s)
    BY <2>4 DEF FinishInline
  <2>5. CASE \E r \in Reply : PostAck(r)
    BY <2>5 DEF PostAck
  <2>6. QED
    BY <1>2, <2>1, <2>2, <2>3, <2>4, <2>5 DEF LoopStep
<1>3. CASE OtherPhoneStep
  <2>1. CASE Register
    BY <2>1 DEF Register
  <2>2. CASE \/ SaveTracker \/ HeartbeatFlush \/ \E e \in edits : WriteBack(e)
             \/ \E f \in Flushers, c \in Cmd, r \in Reply : FlushPost(f, c, r)
    BY <2>2 DEF SaveTracker, HeartbeatFlush, WriteBack, FlushPost, loop
  <2>3. ASSUME NEW c \in Cmd, CaptureStarts(c) \/ CaptureRefused(c) \/ CaptureAborted(c)
        PROVE  /\ UNCHANGED <<now, pc, cur>>
               /\ capture'[d] = "active" => capture[d] = "active" \/ CaptureStarts(d)
               /\ capture'[d] = "starting" => capture[d] = "starting"
    BY <2>3 DEF CaptureStarts, CaptureRefused, CaptureAborted, loop, None
  <2>4. ASSUME NEW c \in Cmd, NEW s \in Outcome, CaptureEnds(c, s)
        PROVE  /\ UNCHANGED <<now, pc, cur>>
               /\ capture'[d] = "active" => capture[d] = "active"
               /\ capture'[d] = "starting" => capture[d] = "starting"
    BY <2>4 DEF CaptureEnds, loop, Outcome
  <2>5. ASSUME NEW c \in Cmd, NEW r \in Reply, CapturePost(c, r)
        PROVE  /\ UNCHANGED <<now, pc, cur>>
               /\ capture'[d] = "active" => capture[d] = "active"
               /\ capture'[d] = "starting" => capture[d] = "starting"
    BY <2>5 DEF CapturePost, loop, None
  <2>6. QED
    BY <1>3, <2>1, <2>2, <2>3, <2>4, <2>5 DEF OtherPhoneStep
<1>4. CASE Tick
    BY <1>4 DEF Tick, loop
<1>5. CASE UNCHANGED vars
    BY <1>5 DEF vars, loop
<1>6. CASE Crash
    BY <1>6 DEF Crash, None
<1>7. QED
    BY <1>1, <1>2, <1>3, <1>4, <1>5, <1>6 DEF Next

\* 'executed' is said of nothing that was not carried out.
LEMMA HonestStep ==
    ASSUME RelayInv, [Next]_vars
    PROVE  HonestCopies'
<1> USE DEF RelayInv
<1>1. TypeOK /\ TypeOK'
    BY TypeStep
<1>2. pc' \in {"ackingWipe", "erasing"} => row'[cur'].kind = "wipe"
  <2> SUFFICES ASSUME pc' \in {"ackingWipe", "erasing"} PROVE row'[cur'].kind = "wipe"
    OBVIOUS
  <2>1. cur' \in Cmd
    BY <1>1 DEF TypeOK
  <2>2. \/ pc \in {"ackingWipe", "erasing"} /\ cur' = cur
        \/ cur' \in batch /\ row[cur'].kind = "wipe"
    BY <1>1, LoopMoves DEF Poll
  <2>3. row[cur'].kind = "wipe"
    BY <2>2 DEF HonestCopies
  <2>4. Issued(cur')
    BY <2>1, <2>2 DEF HeldWereIssued, Held
  <2>5. QED
    BY <1>1, <2>1, <2>3, <2>4, RowsStand
<1>3. ASSUME NEW d \in Cmd, InProgress(d)' \/ (Carries(d, "executed")' /\ row'[d].kind # "wipe")
      PROVE  runs'[d] > 0
  <2>1. /\ runs[d] \in Nat
        /\ runs'[d] = runs[d] \/ runs'[d] = runs[d] + 1
        /\ RunInline(d) \/ CaptureStarts(d) => runs'[d] = runs[d] + 1
    BY <1>1, HistoryGrows DEF TypeOK, RunInline, CaptureStarts
  <2>2. runs[d] > 0 => runs'[d] > 0
    BY <2>1
  <2>3. ASSUME InProgress(d)' PROVE runs'[d] > 0
    <3>1. InProgress(d) \/ RunInline(d) \/ CaptureStarts(d)
      BY <1>1, <2>3, ProgressStep DEF InProgress
    <3>2. QED
      BY <2>1, <2>2, <3>1 DEF HonestCopies
  <2>4. ASSUME Carries(d, "executed")', row'[d].kind # "wipe" PROVE runs'[d] > 0
    <3>1. Carries(d, "executed") \/ Decides(d, "executed")
      BY <1>1, <2>4, NewCopy DEF Outcome
    <3>2. Held(d)
      BY <3>1 DEF Decides, FinishInline, Refuse, CaptureRefused, CaptureEnds, StartWipe, Erase,
         Fresh, NextInBatch, Held, None, Outcome
    <3>3. row[d].kind # "wipe"
      BY <1>1, <2>4, <3>2, RowsStand DEF HeldWereIssued
    <3>4. ASSUME Decides(d, "executed") PROVE InProgress(d)
      BY <3>3, <3>4 DEF Decides, FinishInline, CaptureEnds, StartWipe, Erase, InProgress, HonestCopies
    <3>5. runs[d] > 0
      BY <3>1, <3>3, <3>4 DEF HonestCopies
    <3>6. QED
      BY <2>2, <3>5
  <2>5. QED
    BY <1>3, <2>3, <2>4
<1>4. QED
    BY <1>2, <1>3 DEF HonestCopies

\* What waits to be run is still inside its window.
LEMMA WindowStep ==
    ASSUME RelayInv, [Next]_vars
    PROVE  WaitsInWindow'
<1> USE DEF RelayInv
<1>1. /\ TypeOK /\ TypeOK' /\ now \in Nat /\ fetched \in Nat /\ MaxBatch \in Nat
      /\ \A d \in Cmd : row[d].expires \in Int
    BY TypeStep, RelayConstants DEF TypeOK, Row
<1>2. ASSUME NEW d \in Cmd, Held(d), NEW t, InWindow(d, t) PROVE InWindow(d, t)'
    BY <1>1, <1>2, RowsStand DEF HeldWereIssued, InWindow
<1>3. \A d \in batch : d \in Cmd /\ Held(d)
    BY <1>1 DEF TypeOK, Held
<1>4. ASSUME NEW d \in Cmd, capture'[d] = "starting"
      PROVE  InWindow(d, now - MaxBatch)' /\ now' = now
  <2>1. CASE capture[d] = "starting" /\ now' = now
    <3>1. Held(d) /\ InWindow(d, now - MaxBatch)
      BY <2>1 DEF Held, None, WaitsInWindow
    <3>2. row'[d].expires = row[d].expires
      BY <1>1, <3>1, RowsStand DEF HeldWereIssued
    <3>3. QED
      BY <2>1, <3>1, <3>2 DEF InWindow
  <2>2. CASE StartCapture(d)
    <3>1. d \in batch /\ pc = "working" /\ row' = row /\ now' = now
      BY <2>2 DEF StartCapture, Fresh, NextInBatch, server
    <3>2. InWindow(d, fetched) /\ now <= fetched + MaxBatch
      BY <3>1 DEF WaitsInWindow
    <3>3. InWindow(d, now - MaxBatch)
      BY <1>1, <3>2 DEF InWindow
    <3>4. QED
      BY <3>1, <3>3 DEF InWindow
  <2>3. QED
    BY <1>1, <1>4, <2>1, <2>2, ProgressStep
<1>5. CASE Poll
  <2>1. /\ pc' = "working" /\ fetched' = now /\ now' = now /\ row' = row
        /\ batch' = {c \in Cmd : Deliverable(c)}
    BY <1>5 DEF Poll, server
  <2>2. \A d \in batch' : InWindow(d, fetched)'
    BY <1>1, <2>1 DEF InWindow, Deliverable, Unexpired
  <2>3. QED
    BY <1>1, <1>4, <2>1, <2>2 DEF WaitsInWindow
<1>6. CASE batch' = {} /\ pc' \in {"off", "idle"}
    BY <1>4, <1>6 DEF WaitsInWindow
<1>7. CASE /\ fetched' = fetched /\ batch' \subseteq batch
           /\ pc' \notin {"off", "idle", "flushing"} => pc \notin {"off", "idle", "flushing"}
           /\ pc' \in {"ackingWipe", "erasing"} =>
                 \/ pc \in {"ackingWipe", "erasing"} /\ cur' = cur
                 \/ cur' \in batch /\ row[cur'].kind = "wipe" /\ StartWipe(cur')
           /\ now' = now \/ Tick
  <2>1. pc' \notin {"off", "idle", "flushing"} => now' <= fetched' + MaxBatch
    <3>1. CASE now' = now
      BY <1>7, <3>1 DEF WaitsInWindow
    <3>2. CASE Tick
      BY <1>1, <1>7, <3>2 DEF Tick, loop
    <3>3. QED
      BY <1>7, <3>1, <3>2
  <2>2. \A d \in batch' : InWindow(d, fetched)'
    <3>1. ASSUME NEW d \in batch' PROVE InWindow(d, fetched)'
      <4>1. d \in batch /\ InWindow(d, fetched)
        BY <1>7, <3>1 DEF WaitsInWindow
      <4>2. d \in Cmd /\ row'[d].expires = row[d].expires
        BY <1>1, <1>3, <4>1, RowsStand DEF HeldWereIssued
      <4>3. QED
        BY <1>7, <4>1, <4>2 DEF InWindow
    <3>2. QED
      BY <3>1
  <2>3. ASSUME pc' \in {"ackingWipe", "erasing"} PROVE InWindow(cur, fetched)'
    <3>1. cur' \in Cmd /\ Held(cur') /\ InWindow(cur', fetched)
      <4>1. CASE pc \in {"ackingWipe", "erasing"} /\ cur' = cur
        BY <1>1, <4>1 DEF Held, WaitsInWindow, TypeOK
      <4>2. CASE cur' \in batch
        BY <1>3, <4>2 DEF WaitsInWindow
      <4>3. QED
        BY <1>7, <2>3, <4>1, <4>2
    <3>2. row'[cur'].expires = row[cur'].expires
      BY <1>1, <3>1, RowsStand DEF HeldWereIssued
    <3>3. QED
      BY <1>7, <3>1, <3>2 DEF InWindow
  <2>4. QED
    BY <1>4, <2>1, <2>2, <2>3 DEF WaitsInWindow
<1>8. QED
    BY <1>1, <1>5, <1>6, <1>7, LoopMoves

\* What the relay holds of any command, whatever its lifetime.
THEOREM RelayInvHolds == Spec => []RelayInv
<1>1. Init => RelayInv
  <2> SUFFICES ASSUME Init PROVE RelayInv
    OBVIOUS
  <2>1. TypeOK
    BY TypeInit
  <2>2. \A c \in Cmd : ~Held(c) /\ ~InProgress(c) /\ capture[c] = None /\ ~Carries(c, "executed")
    BY DEF Init, Held, InProgress, Carries, NoRow, NoRecord, NoAcks, Outcome, None
  <2>3. QED
    BY <2>1, <2>2 DEF Init, RelayInv, HeldWereIssued, HonestCopies, WaitsInWindow, None
<1>2. RelayInv /\ [Next]_vars => RelayInv'
    BY TypeStep, IssuedStep, HonestStep, WindowStep DEF RelayInv
<1>3. QED
    BY <1>1, <1>2, PTL DEF Spec

\* The dashboard shows 'executed' only for what the phone carried out, for any
\* number of commands, flushers, process deaths and late requests, and for
\* commands without an expiry too.
THEOREM HonestExecutedHolds == Spec => []HonestExecuted
<1>1. RelayInv => HonestExecuted
    BY DEF RelayInv, HonestCopies, HonestExecuted, Carries
<1>2. QED
    BY <1>1, RelayInvHolds, PTL

\* The poll channel starts no run later than MaxBatch after the expiry,
\* whichever response the command came in.
THEOREM RunsInsideWindowHolds == Spec => RunsInsideWindow
<1>1. ASSUME RelayInv, [Next]_vars, NEW c \in Cmd, runs'[c] # runs[c]
      PROVE  row[c].expires = NoExpiry \/ now <= row[c].expires + MaxBatch
  <2> USE DEF RelayInv
  <2>1. now \in Nat /\ fetched \in Nat /\ MaxBatch \in Nat /\ row[c].expires \in Int
    BY <1>1, RelayConstants DEF TypeOK, Row
  <2>2. RunInline(c) \/ CaptureStarts(c) \/ (Erase /\ cur = c)
    BY <1>1, HistoryGrows
  <2>3. CASE RunInline(c)
    <3>1. InWindow(c, fetched) /\ now <= fetched + MaxBatch
      BY <1>1, <2>3 DEF RunInline, Fresh, NextInBatch, WaitsInWindow
    <3>2. QED
      BY <2>1, <3>1 DEF InWindow
  <2>4. CASE CaptureStarts(c)
    <3>1. InWindow(c, now - MaxBatch)
      BY <1>1, <2>4 DEF CaptureStarts, WaitsInWindow
    <3>2. QED
      BY <2>1, <3>1 DEF InWindow
  <2>5. CASE Erase /\ cur = c
    <3>1. InWindow(c, fetched) /\ now <= fetched + MaxBatch
      BY <1>1, <2>5 DEF Erase, WaitsInWindow
    <3>2. QED
      BY <2>1, <3>1 DEF InWindow
  <2>6. QED
    BY <2>2, <2>3, <2>4, <2>5
<1>2. RelayInv /\ [Next]_vars =>
        [\A c \in Cmd :
            runs'[c] # runs[c] =>
                row[c].expires = NoExpiry \/ now <= row[c].expires + MaxBatch]_vars
    BY <1>1
<1>3. QED
    BY <1>2, RelayInvHolds, PTL DEF Spec, RunsInsideWindow

-----------------------------------------------------------------------------
(* One outcome for each command, when the windows fit *)

\* The phone forgets a command, finished or not, only by a death or by an
\* update that overwrites its record.
LEMMA MemoryStep ==
    ASSUME AtMostOnceInv, [Next]_vars, NEW d \in Cmd, Known(d), ~TooLate(d),
           forgot'[d] = forgot[d]
    PROVE  Known(d)'
<1> USE DEF AtMostOnceInv, TypeOK
<1>1. CASE tracker' = tracker /\ edits \subseteq edits'
    BY <1>1 DEF Known, Noting
<1>2. CASE ServerStep
    BY <1>1, <1>2 DEF ServerStep, Issue, ReadHistory, DeleteCommand, ClearHistory, Delete, LateAck,
       memory
<1>3. CASE LoopStep
    BY <1>1, <1>3 DEF LoopStep, StartLoop, Poll, PollFails, EndBatch, Erase, SkipBusy, ReAck,
       RunInline, Refuse, StartCapture, StartWipe, FinishInline, PostAck, Note, memory
<1>4. CASE OtherPhoneStep
  <2>1. ASSUME NEW e \in edits, WriteBack(e) PROVE Known(d)'
    BY <2>1, WriteStands
  <2>2. QED
    BY <1>1, <1>4, <2>1 DEF OtherPhoneStep, Register, SaveTracker, HeartbeatFlush, FlushPost,
       CaptureStarts, CaptureRefused, CaptureAborted, CaptureEnds, CapturePost, Note, memory
<1>5. CASE Tick \/ UNCHANGED vars
    BY <1>1, <1>5 DEF Tick, vars, memory
<1>6. CASE Crash
  <2>1. tracker' = saved /\ (Amnesia(d) => forgot'[d] = forgot[d] + 1) /\ forgot[d] \in Nat
    BY <1>6 DEF Crash
  <2>2. saved[d] # NoRecord
    BY <2>1 DEF Amnesia, Known
  <2>3. QED
    BY <2>1, <2>2 DEF Known
<1>7. QED
    BY <1>2, <1>3, <1>4, <1>5, <1>6 DEF Next

\* The clock does not run backwards.
LEMMA ClockStep ==
    ASSUME TypeOK, [Next]_vars
    PROVE  now' = now \/ now' = now + 1
BY DEF Next, ServerStep, LoopStep, OtherPhoneStep, Issue, ReadHistory, DeleteCommand, ClearHistory,
   Delete, LateAck, StartLoop, Poll, PollFails, EndBatch, Erase, SkipBusy, ReAck, RunInline, Refuse,
   StartCapture, StartWipe, FinishInline, PostAck, Register, SaveTracker, HeartbeatFlush, WriteBack,
   FlushPost,
   CaptureStarts, CaptureRefused, CaptureAborted, CaptureEnds, CapturePost, Tick, Crash, vars

\* What is decided in a step was undecided, and is remembered.
LEMMA DecidesOnce ==
    ASSUME OutcomeInv, NEW d \in Cmd, NEW s \in Outcome, Decides(d, s), row[d].kind # "wipe"
    PROVE  /\ Undecided(d) /\ Held(d)
           /\ Known(d)'
           /\ ~(pc' = "running" /\ cur' = d) /\ capture'[d] \notin {"starting", "active"}
<1> USE DEF OutcomeInv
<1>1. AtMostOnceInv /\ TypeOK
    BY DEF AtMostOnceInv
<1>2. ASSUME NEW w \in {"loop", "capture"}, Note(w, d, s) PROVE Known(d)'
  <2>1. [by |-> w, cmd |-> d, record |-> [status |-> s, at |-> now], read |-> tracker] \in edits'
    BY <1>2 DEF Note
  <2>2. QED
    BY <2>1 DEF Known, Noting
<1>3. CASE FinishInline(s) /\ cur = d
    BY <1>1, <1>2, <1>3 DEF FinishInline, Undecided, InProgress, Held, OneOutcome
<1>4. CASE Refuse(d) /\ s = "failed"
  <2>1. Fresh(d) /\ Note("loop", d, s) /\ pc' = "acking" /\ capture' = capture
    BY <1>4 DEF Refuse
  <2>2. /\ ~TooLate(d) /\ ~Known(d) /\ d \in batch
        /\ capture[d] = "refused" \/ capture[d] = None
    BY <1>1, <2>1, FreshHasNoRun
  <2>3. QED
    BY <1>2, <2>1, <2>2 DEF Undecided, Held, None
<1>5. CASE CaptureRefused(d) /\ s = "failed"
    BY <1>1, <1>2, <1>5 DEF CaptureRefused, Undecided, Held, OneOutcome, loop, TypeOK, None
<1>6. CASE CaptureEnds(d, s)
    BY <1>1, <1>2, <1>6 DEF CaptureEnds, Undecided, InProgress, Held, OneOutcome, loop, TypeOK,
       None, Outcome
<1>7. ~StartWipe(d)
    BY DEF StartWipe
<1>8. ~(Erase /\ cur = d)
    BY DEF Erase, RelayInv, HonestCopies
<1>9. QED
    BY <1>3, <1>4, <1>5, <1>6, <1>7, <1>8 DEF Decides

\* A step decides one outcome of a command at most.
LEMMA SameDecision ==
    ASSUME OutcomeInv, NEW d \in Cmd, row[d].kind # "wipe",
           NEW s \in Outcome, NEW t \in Outcome, Decides(d, s), Decides(d, t)
    PROVE  s = t
<1> USE DEF OutcomeInv
<1>1. ~StartWipe(d) /\ ~(Erase /\ cur = d)
    BY DEF StartWipe, Erase, RelayInv, HonestCopies
<1>2. QED
    BY <1>1 DEF Decides, FinishInline, Refuse, Fresh, NextInBatch, CaptureRefused, CaptureEnds,
       Outcome, loop, RelayInv, TypeOK

\* A command that is undecided after a step in which nothing of it was
\* forgotten was undecided before.
LEMMA UndecidedStep ==
    ASSUME OutcomeInv, [Next]_vars, NEW d \in Cmd, Issued(d), forgot'[d] = forgot[d], Undecided(d)'
    PROVE  Undecided(d)
<1> USE DEF OutcomeInv
<1>1. AtMostOnceInv /\ TypeOK /\ HeldWereIssued
    BY DEF AtMostOnceInv, RelayInv
<1>2. ASSUME Fresh(d) PROVE Undecided(d)
    BY <1>1, <1>2, FreshHasNoRun DEF Undecided
<1>3. ASSUME InProgress(d)' PROVE Undecided(d)
    BY <1>1, <1>2, <1>3, ProgressStep DEF InProgress, Undecided, RunInline, CaptureStarts
<1>4. ASSUME capture'[d] = "starting" PROVE Undecided(d)
    BY <1>1, <1>2, <1>4, ProgressStep DEF Undecided, StartCapture
<1>5. ASSUME ~Known(d)', ~TooLate(d)' PROVE Undecided(d)
  <2>1. ~TooLate(d)
    <3>1. row'[d].expires = row[d].expires /\ now' >= now /\ now \in Nat /\ now' \in Nat
      BY <1>1, RowsStand, ClockStep DEF TypeOK
    <3>2. row[d].expires \in Int /\ MaxBatch \in Nat
      BY <1>1, RelayConstants DEF TypeOK, Row
    <3>3. QED
      BY <1>5, <3>1, <3>2 DEF TooLate
  <2>2. QED
    BY <1>1, <1>5, <2>1, MemoryStep DEF Undecided
<1>6. QED
    BY <1>3, <1>4, <1>5 DEF Undecided

\* All copies of an outcome agree after every step.
LEMMA OneOutcomeStep ==
    ASSUME OutcomeInv, [Next]_vars
    PROVE  OneOutcome'
<1> USE DEF OutcomeInv
<1>1. AtMostOnceInv /\ TypeOK /\ TypeOK' /\ HeldWereIssued
    BY TypeStep DEF AtMostOnceInv, RelayInv
<1>2. pc' = "running" => capture'[cur'] \notin {"starting", "active"}
  <2> SUFFICES ASSUME pc' = "running" PROVE capture'[cur'] \notin {"starting", "active"}
    OBVIOUS
  <2>1. cur' \in Cmd
    BY <1>1 DEF TypeOK
  <2>2. CASE RunInline(cur')
    BY <1>1, <2>1, <2>2, FreshHasNoRun DEF RunInline, None
  <2>3. CASE pc = "running" /\ cur' = cur
    BY <1>1, <2>1, <2>3, ProgressStep DEF OneOutcome, StartCapture, Fresh, NextInBatch, CaptureStarts
  <2>4. QED
    BY <1>1, <2>1, <2>2, <2>3, ProgressStep
<1>3. ASSUME NEW d \in Cmd, forgot'[d] = 0, row'[d].kind # "wipe"
      PROVE  /\ \A s, t \in Outcome : Carries(d, s)' /\ Carries(d, t)' => s = t
             /\ Undecided(d)' => \A s \in Outcome : ~Carries(d, s)'
  <2>1. \A s \in Outcome : Carries(d, s)' => Carries(d, s) \/ Decides(d, s)
    BY <1>1, NewCopy
  <2>2. CASE ~Issued(d)
    <3>1. ~Held(d)
      BY <1>1, <2>2 DEF HeldWereIssued
    <3>2. ASSUME NEW s \in Outcome PROVE ~Carries(d, s) /\ ~Decides(d, s)
      BY <3>1 DEF Held, Decides, FinishInline, Refuse, CaptureRefused, CaptureEnds, StartWipe,
         Erase, Fresh, NextInBatch, None
    <3>3. QED
      BY <2>1, <3>2
  <2>3. CASE Issued(d)
    <3>1. row[d].kind # "wipe" /\ forgot[d] = 0
      <4>1. forgot'[d] \in {forgot[d], forgot[d] + 1} /\ forgot[d] \in Nat
        BY <1>1, HistoryGrows DEF TypeOK
      <4>2. QED
        BY <1>1, <1>3, <2>3, <4>1, RowsStand
    <3>2. /\ \A s, t \in Outcome : Carries(d, s) /\ Carries(d, t) => s = t
          /\ Undecided(d) => \A s \in Outcome : ~Carries(d, s)
      BY <3>1 DEF OneOutcome
    <3>3. \A s, t \in Outcome : Decides(d, s) /\ Decides(d, t) => s = t
      BY <3>1, SameDecision
    <3>7. \A s \in Outcome : Decides(d, s) => Undecided(d)
      BY <3>1, DecidesOnce
    <3>4. \A s, t \in Outcome : Carries(d, s)' /\ Carries(d, t)' => s = t
      BY <2>1, <3>2, <3>3, <3>7
    <3>5. ASSUME Undecided(d)', NEW s \in Outcome, Carries(d, s)' PROVE FALSE
      <4>1. Undecided(d)
        BY <1>3, <2>3, <3>1, <3>5, UndecidedStep
      <4>2. Decides(d, s)
        BY <2>1, <3>2, <3>5, <4>1
      <4>3. /\ Known(d)'
            /\ ~(pc' = "running" /\ cur' = d) /\ capture'[d] \notin {"starting", "active"}
        BY <3>1, <4>2, DecidesOnce
      <4>4. QED
        BY <3>5, <4>3 DEF Undecided, InProgress
    <3>6. QED
      BY <3>4, <3>5
  <2>4. QED
    BY <2>2, <2>3
<1>4. QED
    BY <1>2, <1>3 DEF OneOutcome

\* Every copy of an outcome agrees with every other one.
THEOREM OutcomeInvHolds == ASSUME WindowFits PROVE Spec => []OutcomeInv
<1>1. Init => OneOutcome
  <2> SUFFICES ASSUME Init PROVE OneOutcome
    OBVIOUS
  <2>1. \A c \in Cmd, s \in Outcome : ~Carries(c, s)
    BY DEF Init, Carries, NoRow, NoRecord, NoAcks, Outcome, None
  <2>2. QED
    BY <2>1 DEF Init, OneOutcome
<1>2. AtMostOnceInv /\ RelayInv /\ OneOutcome /\ [Next]_vars => OneOutcome'
    BY OneOutcomeStep DEF OutcomeInv
<1>3. QED
    BY <1>1, <1>2, AtMostOnceInvHolds, RelayInvHolds, PTL DEF Spec, OutcomeInv

\* ack_command overwrites any status, and still a shown outcome is final while
\* the phone has forgotten nothing: all the acks that travel agree.
LEMMA FinalStep ==
    ASSUME OutcomeInv, [Next]_vars, NEW c \in Cmd,
           row[c].status \in Outcome, row'[c].status \in Outcome,
           row[c].kind # "wipe", forgot[c] = 0
    PROVE  row'[c].status = row[c].status
<1>1. TypeOK
    BY DEF OutcomeInv, RelayInv
<1>2. ASSUME NEW s \in Outcome, row'[c].status = s PROVE row[c].status = s
  <2>1. Carries(c, row[c].status)
    BY DEF Carries
  <2>2. Carries(c, s)'
    BY <1>2 DEF Carries
  <2>3. Carries(c, s) \/ Decides(c, s)
    BY <1>1, <2>2, NewCopy
  <2>4. ~Decides(c, s)
    BY <2>1, DecidesOnce DEF OutcomeInv, OneOutcome
  <2>5. QED
    BY <2>1, <2>3, <2>4 DEF OutcomeInv, OneOutcome
<1>3. QED
    BY <1>2

\* No outcome the dashboard has shown is ever replaced by the other one, for
\* any number of commands and requests under way, as long as the windows fit and the
\* command was not forgotten.
THEOREM OutcomeFinalHolds == ASSUME WindowFits PROVE Spec => OutcomeFinal
<1>1. OutcomeInv /\ [Next]_vars =>
        [\A c \in Cmd :
            /\ row[c].status \in Outcome /\ row'[c].status \in Outcome
            /\ row[c].kind # "wipe" /\ forgot[c] = 0
            => row'[c].status = row[c].status]_vars
    BY FinalStep
<1>2. QED
    BY <1>1, OutcomeInvHolds, PTL DEF Spec, OutcomeFinal

-----------------------------------------------------------------------------
(* The promise *)

\* How the status of a row moves: an outcome is never taken back to an open
\* state, and a row that is gone stays gone.
LEMMA StatusStep ==
    ASSUME TypeOK, [Next]_vars, NEW d \in Cmd
    PROVE  \/ row'[d].status = row[d].status
           \/ row'[d].status = "deleted"
           \/ row[d].status # "deleted" /\ row'[d].status \in Outcome
           \/ row[d].status \in {"unissued", "pending"} /\ row'[d].status \in {"pending", "expired"}
<1> USE DEF TypeOK
<1>1. ASSUME NEW c \in Cmd, NEW s \in Outcome, row' = row \/ row' = Acked(c, s)
      PROVE  row'[d].status = row[d].status \/ (row[d].status # "deleted" /\ row'[d].status \in Outcome)
    BY <1>1 DEF Acked, InTable, Row
<1>2. ASSUME NEW c \in Cmd, NEW s \in Outcome, NEW r \in Reply, Posted(c, s, r)
      PROVE  row'[d].status = row[d].status \/ (row[d].status # "deleted" /\ row'[d].status \in Outcome)
    BY <1>1, <1>2 DEF Posted
<1>3. CASE ServerStep
  <2>1. ASSUME NEW c \in Cmd, NEW k \in Kind, NEW s \in Source, Issue(c, k, s)
        PROVE  \/ row'[d].status = row[d].status
               \/ row[d].status = "unissued" /\ row'[d].status = "pending"
    BY <2>1 DEF Issue
  <2>2. ASSUME ReadHistory
        PROVE  \/ row'[d].status = row[d].status
               \/ row[d].status = "pending" /\ row'[d].status = "expired"
    BY <2>2 DEF ReadHistory, Row
  <2>3. ASSUME NEW D \in SUBSET Cmd, Delete(D)
        PROVE  row'[d].status = row[d].status \/ row'[d].status = "deleted"
    BY <2>3 DEF Delete, Row
  <2>4. ASSUME NEW m \in wire, LateAck(m)
        PROVE  row'[d].status = row[d].status \/ (row[d].status # "deleted" /\ row'[d].status \in Outcome)
    BY <1>1, <2>4 DEF LateAck
  <2>5. QED
    BY <1>3, <2>1, <2>2, <2>3, <2>4 DEF ServerStep, DeleteCommand, ClearHistory
<1>4. CASE LoopStep
  <2>1. ASSUME NEW r \in Reply, PostAck(r)
        PROVE  row'[d].status = row[d].status \/ (row[d].status # "deleted" /\ row'[d].status \in Outcome)
    BY <1>2, <2>1 DEF PostAck
  <2>2. QED
    BY <1>4, <2>1 DEF LoopStep, StartLoop, Poll, PollFails, EndBatch, Erase, SkipBusy,
       ReAck, RunInline, Refuse, StartCapture, StartWipe, FinishInline, server
<1>5. CASE OtherPhoneStep
  <2>1. ASSUME NEW f \in Flushers, NEW c \in Cmd, NEW r \in Reply, FlushPost(f, c, r)
        PROVE  row'[d].status = row[d].status \/ (row[d].status # "deleted" /\ row'[d].status \in Outcome)
    BY <1>2, <2>1 DEF FlushPost
  <2>2. ASSUME NEW c \in Cmd, NEW r \in Reply, CapturePost(c, r)
        PROVE  row'[d].status = row[d].status \/ (row[d].status # "deleted" /\ row'[d].status \in Outcome)
    BY <1>2, <2>2 DEF CapturePost, Outcome
  <2>3. QED
    BY <1>5, <2>1, <2>2 DEF OtherPhoneStep, Register, SaveTracker, HeartbeatFlush, WriteBack,
       CaptureStarts, CaptureRefused, CaptureAborted, CaptureEnds, server
<1>6. CASE Tick \/ Crash \/ UNCHANGED vars
    BY <1>6 DEF Tick, Crash, vars, server
<1>7. QED
    BY <1>3, <1>4, <1>5, <1>6 DEF Next

\* What a step that counts a run or a forgotten one leaves to the dashboard.
LEMMA CountingStep ==
    ASSUME OutcomeInv, [Next]_vars, NEW c \in Cmd, row'[c].kind # "wipe"
    PROVE  /\ runs'[c] # runs[c] =>
                 /\ runs[c] <= forgot[c] /\ runs'[c] = runs[c] + 1
                 /\ forgot'[c] = forgot[c] /\ row'[c] = row[c]
           /\ forgot'[c] # forgot[c] =>
                 forgot'[c] = forgot[c] + 1 /\ row'[c] = row[c]
<1> USE DEF OutcomeInv
<1>1. AtMostOnceInv /\ TypeOK
    BY DEF AtMostOnceInv
<1>2. ASSUME runs'[c] # runs[c]
      PROVE  /\ runs[c] <= forgot[c] /\ runs'[c] = runs[c] + 1
             /\ forgot'[c] = forgot[c] /\ row'[c] = row[c]
  <2>1. /\ runs'[c] = runs[c] + 1 /\ forgot' = forgot
        /\ RunInline(c) \/ CaptureStarts(c) \/ (Erase /\ cur = c)
    BY <1>1, <1>2, HistoryGrows
  <2>2. row' = row
    BY <2>1 DEF RunInline, CaptureStarts, Erase, server
  <2>3. ~(Erase /\ cur = c)
    BY <2>2 DEF Erase, RelayInv, HonestCopies
  <2>4. runs[c] <= forgot[c]
    BY <1>1, <2>1, <2>3, FreshHasNoRun DEF RunInline, CaptureStarts, AtMostOnceInv, NoSecondRun
  <2>5. QED
    BY <2>1, <2>2, <2>4
<1>3. ASSUME forgot'[c] # forgot[c]
      PROVE  forgot'[c] = forgot[c] + 1 /\ row'[c] = row[c]
  <2>1. forgot'[c] = forgot[c] + 1
        /\ (Crash \/ CaptureAborted(c) \/ \E e \in edits : WriteBack(e))
    BY <1>1, <1>3, HistoryGrows
  <2>2. row' = row
    BY <2>1 DEF Crash, CaptureAborted, WriteBack, server
  <2>3. QED
    BY <2>1, <2>2
<1>4. QED
    BY <1>2, <1>3

\* Each step is one of the promise's steps for the command, or none.
LEMMA PromiseStep ==
    ASSUME OutcomeInv, RelayInv', [Next]_vars, NEW c \in Cmd, row'[c].kind # "wipe"
    PROVE  [Promise(c)!Next]_(Promise(c)!vars)
<1> USE DEF OutcomeInv
<1>1. TypeOK /\ HeldWereIssued /\ forgot[c] \in Nat /\ runs[c] \in Nat
    BY DEF RelayInv, TypeOK
<1>2. CASE runs'[c] # runs[c]
  <2>1. /\ runs[c] <= forgot[c] /\ runs'[c] = runs[c] + 1
        /\ forgot'[c] = forgot[c] /\ row'[c] = row[c]
    BY <1>2, CountingStep
  <2>2. Shown(c)' = Shown(c)
    BY <2>1 DEF Shown
  <2>3. Promise(c)!CarryOut
    BY <2>1, <2>2 DEF Promise!CarryOut
  <2>4. QED
    BY <2>3 DEF Promise!Next
<1>3. CASE forgot'[c] # forgot[c] /\ runs'[c] = runs[c]
  <2>1. forgot'[c] = forgot[c] + 1 /\ row'[c] = row[c]
    BY <1>3, CountingStep
  <2>2. Shown(c)' = Shown(c)
    BY <2>1 DEF Shown
  <2>3. Promise(c)!Forget
    BY <1>3, <2>1, <2>2 DEF Promise!Forget
  <2>4. QED
    BY <2>3 DEF Promise!Next
<1>4. CASE runs'[c] = runs[c] /\ forgot'[c] = forgot[c]
  <2>1. Shown(c) = (IF row[c].status \in Outcome THEN row[c].status
                    ELSE IF row[c].status = "deleted" THEN "gone" ELSE "open")
    BY DEF Shown, Outcome
  <2>2. Shown(c)' = (IF row'[c].status \in Outcome THEN row'[c].status
                     ELSE IF row'[c].status = "deleted" THEN "gone" ELSE "open")
    BY DEF Shown, Outcome
  <2>3. CASE Shown(c)' = Shown(c)
    BY <1>4, <2>3 DEF Promise!vars
  <2>4. CASE row'[c].status = "deleted"
    <3>1. Shown(c)' = "gone"
      BY <2>2, <2>4 DEF Outcome
    <3>2. Promise(c)!Remove
      BY <1>4, <3>1 DEF Promise!Remove
    <3>3. QED
      BY <3>2 DEF Promise!Next
  <2>5. CASE row'[c].status \in Outcome /\ row'[c].status # row[c].status
    <3> DEFINE o == row'[c].status
    <3>1. row[c].status # "deleted" /\ o \in {"executed", "failed"} /\ Shown(c)' = o
      BY <1>1, <2>2, <2>5, StatusStep DEF Outcome
    <3>2. Shown(c) # "gone"
      BY <2>1, <3>1 DEF Outcome
    <3>3. Shown(c) = "open" \/ forgot[c] > 0
      <4>1. CASE row[c].status \notin Outcome
        BY <2>1, <3>1, <4>1
      <4>2. CASE row[c].status \in Outcome
        <5>1. Issued(c)
          BY <4>2 DEF Issued, Outcome
        <5>2. row[c].kind # "wipe"
          BY <1>1, <5>1, RowsStand
        <5>3. forgot[c] # 0
          BY <2>5, <4>2, <5>2, FinalStep
        <5>4. QED
          BY <1>1, <5>3
      <4>3. QED
        BY <4>1, <4>2
    <3>4. o = "executed" => runs[c] > 0
      BY <1>4 DEF RelayInv, HonestCopies, Carries
    <3>5. Promise(c)!Show(o)
      BY <1>4, <3>1, <3>2, <3>3, <3>4 DEF Promise!Show
    <3>6. QED
      BY <3>1, <3>5 DEF Promise!Next
  <2>6. CASE row'[c].status = row[c].status
    BY <2>1, <2>2, <2>3, <2>6
  <2>7. CASE row[c].status \in {"unissued", "pending"} /\ row'[c].status \in {"pending", "expired"}
    <3>1. Shown(c) = "open" /\ Shown(c)' = "open"
      BY <2>1, <2>2, <2>7 DEF Outcome
    <3>2. QED
      BY <2>3, <3>1
  <2>8. QED
    BY <1>1, <2>4, <2>5, <2>6, <2>7, StatusStep
<1>5. QED
    BY <1>2, <1>3, <1>4

\* Server, network and phone implement the promise made about each command,
\* for any number of commands, faults and deaths, as long as the windows fit.
THEOREM KeepsPromiseHolds == ASSUME WindowFits PROVE Spec => KeepsPromise
<1>1. Init => \A c \in Cmd : Promise(c)!Init
    BY DEF Init, Promise!Init, Shown, NoRow, Outcome
<1>2. OutcomeInv /\ RelayInv' /\ [Next]_vars =>
        [\A c \in Cmd :
            row'[c].kind # "wipe" => [Promise(c)!Next]_(Promise(c)!vars)]_vars
    BY PromiseStep
<1>3. QED
    BY <1>1, <1>2, OutcomeInvHolds, RelayInvHolds, PTL DEF Spec, KeepsPromise
=============================================================================
