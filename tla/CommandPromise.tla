--------------------------- MODULE CommandPromise ---------------------------
(***************************************************************************)
(* What the command channel promises about ONE remote command, whatever    *)
(* the polls, acks, retries and restarts behind it: the phone carries it   *)
(* out once, plus at most once for every time its memory of the command    *)
(* was erased, by a process death or by an update of the tracker that      *)
(* overwrote it; the dashboard shows 'executed' only after it was carried  *)
(* out, and changes an outcome only after such a loss.                     *)
(***************************************************************************)
EXTENDS Naturals

VARIABLES
    runs,     \* how often the phone carried the command out
    forgot,   \* how often a death or a lost update erased its memory of it
    shown     \* what the dashboard shows: "open", an outcome, or "gone"

vars == <<runs, forgot, shown>>

Init == runs = 0 /\ forgot = 0 /\ shown = "open"

CarryOut ==
    /\ runs <= forgot
    /\ runs' = runs + 1
    /\ UNCHANGED <<forgot, shown>>

Forget ==
    /\ forgot' = forgot + 1
    /\ UNCHANGED <<runs, shown>>

Show(o) ==
    /\ shown = "open" \/ (shown # "gone" /\ forgot > 0)
    /\ o = "executed" => runs > 0
    /\ shown' = o
    /\ UNCHANGED <<runs, forgot>>

Remove ==
    /\ shown' = "gone"
    /\ UNCHANGED <<runs, forgot>>

Next == CarryOut \/ Forget \/ Remove \/ \E o \in {"executed", "failed"} : Show(o)

Spec == Init /\ [][Next]_vars
=============================================================================
