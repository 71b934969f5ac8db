------------------------------ MODULE MCDevices ------------------------------
(***************************************************************************)
(* What the server keeps for one device, in one run: the channels beside   *)
(* the poll (CommandChannels), theft mode and the automatic commands       *)
(* (TheftMode) and the evidence chain (EvidenceChain).  They share no      *)
(* variable, so each behaviour is of one of them, chosen at the start: the *)
(* variables of CommandChannels keep their initial values in the others,   *)
(* whose own are in registers; a part that needs fewer leaves the rest 0.  *)
(*                                                                         *)
(* Theft mode is there twice: "scores" with every kind of ping, of a device*)
(* without a zone, and "zone" with two, of a device that enters and leaves *)
(* a zone.  The channels are there twice too: one command with every fault *)
(* of CommandChannels, and "pair" with two that update one tracker.        *)
(***************************************************************************)
EXTENDS CommandChannels, TLC

CONSTANTS
    Handler, Threshold, HighBar, CapScore, Capped, Confirm,     \* TheftMode
    Item, Deleter, MaxLoad, MaxText,                            \* EvidenceChain
    Cmds                                                        \* two commands

\* The weights of sentinel.py for the signals the pings below raise.
Weight == [sim_changed |-> 35, failed_unlocks |-> 20, vehicle |-> 25,
           location_disabled |-> 20, jump |-> 15, unusual_time |-> 10]

Ping(signals, inside) ==
    [signals |-> signals, moving |-> FALSE, night |-> TRUE, inside |-> inside]

High == {"sim_changed", "jump"}
Critical == {"sim_changed", "failed_unlocks", "vehicle", "location_disabled"}

\* One payload for each answer: stored, unknown type, too long as text, not
\* base64, too large decoded, empty, wrong signature.
Payload(known, text, decodes, bytes, magic) ==
    [known |-> known, text |-> text, decodes |-> decodes, bytes |-> bytes, magic |-> magic]

Payloads == {Payload(TRUE, 2, TRUE, 1, TRUE), Payload(FALSE, 2, TRUE, 1, TRUE),
             Payload(TRUE, 4, TRUE, 3, TRUE), Payload(TRUE, 2, FALSE, 0, FALSE),
             Payload(TRUE, 3, TRUE, 2, TRUE), Payload(TRUE, 0, TRUE, 0, FALSE),
             Payload(TRUE, 2, TRUE, 1, FALSE)}

Alike == Permutations(Handler) \cup Permutations(Item) \cup Permutations(Deleter)
         \cup Permutations(Cmds)

-----------------------------------------------------------------------------
VARIABLES part, r1, r2, r3, r4, r5, r6, r7, r8, r9, r10, r11, r12, r13, r14, r15, r16, r17, r18

more == <<r12, r13, r14, r15, r16, r17, r18>>
registers == <<r1, r2, r3, r4, r5, r6, r7, r8, r9, r10, r11, more>>

Pair == INSTANCE CommandChannels WITH
    Cmd <- Cmds, SmsBuild <- {TRUE}, Phones <- {"plus"},
    setup <- r1, row <- r2, age <- r3, handler <- r4, ussd <- r5, sms <- r6, push <- r7,
    todo <- r8, running <- r9, tracker <- r10, edits <- r11, replies <- r12, acks <- r13,
    accepted <- r14, started <- r15, carried <- r16, finished <- r17, dropped <- r18

\* The two commands of the pair are locks of the owner's, pushed in vain, and
\* texted once at most by a worker that is not killed, and no text is answered:
\* the rest is in the part with one command.
LocksOnly ==
    /\ \A c \in Cmds : /\ r2'[c].kind = "lock" /\ r2'[c].by = "owner"
                       /\ r4'[c] # "dead" /\ r6'[c] < 2 /\ r7'[c] = 0
    /\ r5' = "main_menu" /\ r12' = {}

Scores == INSTANCE TheftMode WITH
    Pings <- {Ping({}, FALSE), Ping(High, FALSE), Ping(Critical, FALSE)},
    Policies <- {"none"}, MaxCases <- 2, MaxSame <- 1,
    mode <- r1, scores <- r2, cases <- r3, commands <- r4, recent <- r5, policy <- r6,
    lastInside <- r7, job <- r8, streak <- r9

Zone == INSTANCE TheftMode WITH
    Pings <- {Ping({}, TRUE), Ping(Critical, FALSE)},
    Policies <- {"capture", "siren"}, MaxCases <- 1, MaxSame <- 2,
    mode <- r1, scores <- r2, cases <- r3, commands <- r4, recent <- r5, policy <- r6,
    lastInside <- r7, job <- r8, streak <- r9

Evidence == INSTANCE EvidenceChain WITH
    files <- r1, rows <- r2, case <- r3, chain <- r4, count <- r5, upload <- r6,
    delete <- r7, old <- r8, purge <- r9, raced <- r10, drifted <- r11

ASSUME DeviceConstants ==
    /\ Scores!TheftConstants /\ Zone!TheftConstants /\ Evidence!EvidenceConstants
    /\ Scores!GateConstants /\ Zone!GateConstants

\* The channels at rest.
Resting == Init /\ setup = CHOOSE s \in [smsBuild: SmsBuild, phone: Phones] : TRUE

Unused == r12 = 0 /\ r13 = 0 /\ r14 = 0 /\ r15 = 0 /\ r16 = 0 /\ r17 = 0 /\ r18 = 0

PartInit ==
    \/ part = "channels" /\ Init
       /\ r1 = 0 /\ r2 = 0 /\ r3 = 0 /\ r4 = 0 /\ r5 = 0 /\ r6 = 0 /\ r7 = 0 /\ r8 = 0 /\ r9 = 0
       /\ r10 = 0 /\ r11 = 0 /\ Unused
    \/ part = "pair" /\ Resting /\ Pair!Init
    \/ part = "scores" /\ Resting /\ Scores!Init /\ r10 = 0 /\ r11 = 0 /\ Unused
    \/ part = "zone" /\ Resting /\ Zone!Init /\ r10 = 0 /\ r11 = 0 /\ Unused
    \/ part = "evidence" /\ Resting /\ Evidence!Init /\ Unused

PartNext ==
    \/ part = "channels" /\ Next /\ UNCHANGED <<part, registers>>
    \/ part = "pair" /\ Pair!Next /\ LocksOnly /\ UNCHANGED <<part, vars>>
    \/ part = "scores" /\ Scores!Next /\ UNCHANGED <<part, vars, r10, r11, more>>
    \/ part = "zone" /\ Zone!Next /\ UNCHANGED <<part, vars, r10, r11, more>>
    \/ part = "evidence" /\ Evidence!Next /\ UNCHANGED <<part, vars, more>>

PartSpec == PartInit /\ [][PartNext]_<<part, vars, registers>>

-----------------------------------------------------------------------------
(* The properties of the parts *)

\* Every variable of a part has its type (the variables of the pair have those
\* of CommandChannels, which are checked with one command).
AllTypes ==
    /\ part = "scores" => Scores!TypeOK
    /\ part = "zone" => Zone!TypeOK
    /\ TypeOK
    /\ part = "evidence" => Evidence!TypeOK

\* One command over all channels, or two that update the tracker side by side:
\* the poll loop starts none again that the phone has finished, but where an
\* update for the other command overwrote its record, and hands out none late
\* (RecentCommandTracker.remember, issue_command's fallback to the poll).
OnceInTime ==
    [][IF part = "pair" THEN Pair!NotAgain /\ Pair!WithinWindow
       ELSE NotAgain /\ WithinWindow]_<<vars, registers>>

\* The device is stolen exactly while a case opened by an activation is active
\* (auto_activate_theft_mode, mark_device_recovered).
CaseMatchesMode ==
    /\ part = "scores" => Scores!CaseMatchesMode
    /\ part = "zone" => Zone!CaseMatchesMode

\* One critical ping alone does not set off theft mode; a streak of them does
\* (the confirmation gate of compute_score).
Activation ==
    [][part = "scores" => Scores!NoSingleShotStep /\ Scores!NotStuckStep]_registers

\* Leaving a zone piles up no second siren or capture (_queue_auto_action).
OnePerExit == part = "zone" => Zone!OnePerExit

\* Every photo of the case is in its chain of custody (update_chain).
InCustody == part = "evidence" => Evidence!InCustody

\* Rows have their files, and the case's counter is the number of its rows
\* (post_media, delete_media).
CountsRows == part = "evidence" => Evidence!FileBehindRow /\ Evidence!CountsRows

\* The purge takes nothing of the case while it is open (purge_old_data).
OpenCaseKept == part = "evidence" => Evidence!OpenCaseKept
=============================================================================
