--------------------------- MODULE RelayPairProofs ---------------------------
(***************************************************************************)
(* Proofs about MCRelaySafe: what CommandRelayProofs proves of the relay      *)
(* holds of its two parts, one command with every fault and two commands in   *)
(* one batch.                                                                 *)
(*                                                                         *)
(* The second part is an instance of CommandRelay.  Proved is the instance of *)
(* the proofs with the same constants and variables, so a definition of Pair  *)
(* and the one of the same name in Proved are the same formula once both are  *)
(* expanded.                                                                  *)
(***************************************************************************)
EXTENDS MCRelaySafe, TLAPS

Proved == INSTANCE CommandRelayProofs WITH
    Cmd <- Cmds, Kind <- {"capture", "alarm"}, Source <- {"owner", "zone"},
    Short <- 1, Medium <- 1, Long <- 1, Retention <- 1, MaxBatch <- 1,
    Flushers <- {"commands"}, MaxLate <- 0, MaxTime <- 1, MaxCrashes <- 0, MaxLost <- 1,
    now <- r1, row <- r2, wire <- r3, pc <- r4, batch <- r5, fetched <- r6, cur <- r7,
    out <- r8, capture <- r9, taken <- r10, registered <- r11, tracker <- r12, saved <- r13,
    outbox <- r14, runs <- r15, forgot <- r16, crashes <- r17,
    edits <- r18

all == <<part, vars, registers>>

-----------------------------------------------------------------------------
(* The two parts *)

\* Whichever part runs, the variables of CommandRelay behave as it specifies:
\* they are left alone while the other part moves.
THEOREM RelayInRun == PartSpec => Spec
<1>1. PartInit => Init
    BY DEF PartInit
<1>2. [PartNext]_all => [Next]_vars
    BY DEF PartNext, all
<1>3. QED
    BY <1>1, <1>2, PTL DEF PartSpec, Spec, all

\* The part is chosen at the start, and the second one behaves as Pair does.
LEMMA PairInRun == PartSpec => []~(part = "two") \/ ([](part = "two") /\ Pair!Spec)
<1>1. PartInit /\ part = "two" => Pair!Init
    BY DEF PartInit
<1>2. part = "two" /\ [PartNext]_all => (part = "two")' /\ [Pair!Next]_Pair!vars
  <2> SUFFICES ASSUME part = "two", [PartNext]_all
               PROVE  part' = "two" /\ [Pair!Next]_Pair!vars
    OBVIOUS
  <2>1. CASE Pair!Next /\ UNCHANGED <<part, vars>>
    BY <2>1
  <2>2. CASE UNCHANGED all
    BY <2>2 DEF all, registers, Pair!vars, Pair!server, Pair!loop, Pair!memory, Pair!history
  <2>3. QED
    BY <2>1, <2>2 DEF PartNext
<1>3. ~(part = "two") /\ [PartNext]_all => ~(part = "two")'
    BY DEF PartNext, all
<1>4. QED
    BY <1>1, <1>2, <1>3, PTL DEF PartSpec, Pair!Spec, all

-----------------------------------------------------------------------------
(* The copies *)

\* The copy of CommandRelay that the proofs speak of starts and steps as the one that
\* the run checks.
LEMMA SameSteps == (Pair!Init <=> Proved!Init) /\ (Pair!Next <=> Proved!Next)
<1> USE DEF Pair!Kinds, Proved!Kinds, Pair!Sources, Proved!Sources, Pair!Flusher, Proved!Flusher,
    Pair!Outcome, Proved!Outcome, Pair!None, Proved!None, Pair!NoExpiry, Proved!NoExpiry,
    Pair!server, Proved!server, Pair!loop, Proved!loop, Pair!memory, Proved!memory, Pair!history,
    Proved!history, Pair!NoRecord, Proved!NoRecord, Pair!NoRow, Proved!NoRow, Pair!NoAcks,
    Proved!NoAcks, Pair!PollExpires, Proved!PollExpires, Pair!Lifetime, Proved!Lifetime,
    Pair!Queues, Proved!Queues, Pair!Deadline, Proved!Deadline, Pair!Unexpired, Proved!Unexpired,
    Pair!Deliverable, Proved!Deliverable, Pair!InTable, Proved!InTable, Pair!Acked, Proved!Acked,
    Pair!Issue, Proved!Issue, Pair!ReadHistory, Proved!ReadHistory, Pair!Delete, Proved!Delete,
    Pair!DeleteCommand, Proved!DeleteCommand, Pair!ClearHistory, Proved!ClearHistory, Pair!LateAck,
    Proved!LateAck, Pair!StatusOf, Proved!StatusOf, Pair!Note, Proved!Note, Pair!Put, Proved!Put,
    Pair!Pruned, Proved!Pruned, Pair!Unseen, Proved!Unseen, Pair!WriteBack, Proved!WriteBack,
    Pair!Remembering, Proved!Remembering, Pair!Noting, Proved!Noting, Pair!Reply, Proved!Reply, Pair!Posted, Proved!Posted, Pair!Undelivered, Proved!Undelivered, Pair!Register,
    Proved!Register, Pair!SaveTracker, Proved!SaveTracker, Pair!Take, Proved!Take,
    Pair!HeartbeatFlush, Proved!HeartbeatFlush, Pair!FlushPost, Proved!FlushPost, Pair!StartLoop,
    Proved!StartLoop, Pair!Poll, Proved!Poll, Pair!PollFails, Proved!PollFails, Pair!NextInBatch,
    Proved!NextInBatch, Pair!Busy, Proved!Busy, Pair!SkipBusy, Proved!SkipBusy, Pair!ReAck,
    Proved!ReAck, Pair!Fresh, Proved!Fresh, Pair!RunInline, Proved!RunInline, Pair!FinishInline,
    Proved!FinishInline, Pair!Refuse, Proved!Refuse, Pair!StartCapture, Proved!StartCapture,
    Pair!StartWipe, Proved!StartWipe, Pair!PostAck, Proved!PostAck, Pair!Erase, Proved!Erase,
    Pair!EndBatch, Proved!EndBatch, Pair!CaptureStarts, Proved!CaptureStarts, Pair!CaptureRefused,
    Proved!CaptureRefused, Pair!CaptureEnds, Proved!CaptureEnds, Pair!CapturePost,
    Proved!CapturePost, Pair!CaptureAborted, Proved!CaptureAborted, Pair!Tick, Proved!Tick,
    Pair!Amnesia, Proved!Amnesia, Pair!Crash, Proved!Crash, Pair!Init, Proved!Init,
    Pair!ServerStep, Proved!ServerStep, Pair!LoopStep, Proved!LoopStep, Pair!OtherPhoneStep,
    Proved!OtherPhoneStep, Pair!Next, Proved!Next, Pair!Cardinality, Proved!Cardinality
<1>1. Pair!Init <=> Proved!Init
    BY Zenon
<1>2. Pair!Next <=> Proved!Next
    BY Zenon
<1>3. QED
    BY ONLY <1>1, <1>2

\* So the two have the same behaviours.
LEMMA SameRelay == Pair!Spec <=> Proved!Spec
    BY SameSteps, PTL
    DEF Pair!Spec, Proved!Spec, Pair!vars, Proved!vars, Pair!server, Proved!server, Pair!loop,
        Proved!loop, Pair!memory, Proved!memory, Pair!history, Proved!history

\* The constants of the second part are those of a relay, and fit its windows.
LEMMA PairConstants == Proved!RelayConstants /\ Proved!WindowFits
<1>1. Proved!RelayConstants
    BY DEF Proved!RelayConstants, Proved!Kinds, Proved!Sources, Proved!Flusher
<1>2. ASSUME NEW k \in {"capture", "alarm"}, NEW s \in {"owner", "zone"}
      PROVE  Proved!Lifetime(k, s) = 1
    BY DEF Proved!Lifetime, Proved!PollExpires
<1>3. QED
    BY <1>1, <1>2 DEF Proved!WindowFits, Proved!NoExpiry

\* With two commands in one batch, none is carried out a second time unless an
\* unlocked update of the tracker overwrote its record, and EXECUTED is shown
\* only for one that was carried out: handling one never stands in for the other
\* (the loop over a poll response in TrackingService.kt).
THEOREM KeptApartHolds == PartSpec => []KeptApart
<1>1. Proved!Spec => []Proved!AtMostOnce
    BY Proved!AtMostOnceHolds, PairConstants DEF Proved!RelayConstants
<1>2. Proved!Spec => []Proved!HonestExecuted
    BY Proved!HonestExecutedHolds, PairConstants DEF Proved!RelayConstants
<1>3. Proved!AtMostOnce /\ Proved!HonestExecuted => Pair!AtMostOnce /\ Pair!HonestExecuted
    BY DEF Pair!AtMostOnce, Proved!AtMostOnce, Pair!HonestExecuted, Proved!HonestExecuted
<1>4. ~(part = "two") => KeptApart
    BY DEF KeptApart
<1>5. Pair!AtMostOnce /\ Pair!HonestExecuted => KeptApart
    BY DEF KeptApart
<1>6. QED
    BY <1>1, <1>2, <1>3, <1>4, <1>5, SameRelay, PairInRun, PTL
=============================================================================
