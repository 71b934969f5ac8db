----------------------------- MODULE MCRelaySafe -----------------------------
(***************************************************************************)
(* The relay with one command, issued in every way and with every fault    *)
(* (CommandRelay with the constants of the configuration), or with two in  *)
(* one batch (Pair, whose variables are in registers), chosen at the start.*)
(***************************************************************************)
EXTENDS CommandRelay

CONSTANT Cmds      \* two commands

VARIABLES part, r1, r2, r3, r4, r5, r6, r7, r8, r9, r10, r11, r12, r13, r14, r15, r16, r17, r18

registers == <<r1, r2, r3, r4, r5, r6, r7, r8, r9, r10, r11, r12, r13, r14, r15, r16, r17, r18>>

Pair == INSTANCE CommandRelay WITH
    Cmd <- Cmds, Kind <- {"capture", "alarm"}, Source <- {"owner", "zone"},
    Short <- 1, Medium <- 1, Long <- 1, Retention <- 1, MaxBatch <- 1,
    Flushers <- {"commands"}, MaxLate <- 0, MaxTime <- 1, MaxCrashes <- 0, MaxLost <- 1,
    now <- r1, row <- r2, wire <- r3, pc <- r4, batch <- r5, fetched <- r6, cur <- r7,
    out <- r8, capture <- r9, taken <- r10, registered <- r11, tracker <- r12, saved <- r13,
    outbox <- r14, runs <- r15, forgot <- r16, crashes <- r17,
    edits <- r18

\* The two commands may change places.
Swaps == {[c \in Cmds |-> CASE c = a -> b [] c = b -> a [] OTHER -> c] : a, b \in Cmds}

PartInit ==
    \/ part = "one" /\ Init
       /\ r1 = 0 /\ r2 = 0 /\ r3 = 0 /\ r4 = 0 /\ r5 = 0 /\ r6 = 0 /\ r7 = 0 /\ r8 = 0 /\ r9 = 0
       /\ r10 = 0 /\ r11 = 0 /\ r12 = 0 /\ r13 = 0 /\ r14 = 0 /\ r15 = 0 /\ r16 = 0 /\ r17 = 0
       /\ r18 = 0
    \/ part = "two" /\ Init /\ Pair!Init

PartNext ==
    \/ part = "one" /\ Next /\ UNCHANGED <<part, registers>>
    \/ part = "two" /\ Pair!Next /\ UNCHANGED <<part, vars>>

PartSpec == PartInit /\ [][PartNext]_<<part, vars, registers>>

-----------------------------------------------------------------------------
\* With two commands in one batch, one of them a capture in another service,
\* handling one never runs or acknowledges the other (the loop over a poll
\* response in TrackingService.kt).  Nobody dies here: only an update of the
\* tracker that overwrote a command's record lets it run a second time.
KeptApart == part = "two" => Pair!AtMostOnce /\ Pair!HonestExecuted
=============================================================================
