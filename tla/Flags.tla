------------------------------- MODULE Flags --------------------------------
(***************************************************************************)
(* Feature flags (src/server/feature_flags.py) and the maintenance mode     *)
(* the middleware of src/server/main.py takes from them: one JSON file that *)
(* the operator edits while the server runs, and in each worker a copy that *)
(* is good for a few seconds.  The file is emptied and written in two       *)
(* calls, and may be read in between.  Nothing in the server sets a flag:   *)
(* routes/admin.py, which would, is not mounted on the application.         *)
(***************************************************************************)
EXTENDS Integers

CONSTANTS
    Worker,
    Flag,          \* the flags; one of them is maintenance_mode
    Keep,          \* how long a copy is good for: 5 seconds
    MaxEdits       \* bound on edits of the file and restarts

FlagsConstants == Keep \in Nat /\ MaxEdits \in Nat

VARIABLES
    file,      \* the flags in the file; Nothing while it is being written
    cache,     \* what each worker keeps of them
    age,       \* how long ago it was read
    quiet,     \* how long the file has not been touched
    edits

vars == <<file, cache, age, quiet, edits>>

OnOff   == [Flag -> {"on", "off"}]
Nothing == [f \in Flag |-> "none"]

\* A missing file is written with the defaults when the module is imported.
Init ==
    /\ file \in OnOff
    /\ cache = [w \in Worker |-> Nothing]
    /\ age = [w \in Worker |-> Keep]
    /\ quiet = Keep
    /\ edits = 0

\* Mutant of Good: a copy that was ever filled stays good.
GoodOnceFilled(w) == cache[w] # Nothing

\* What was read from a file that could not be parsed is never good.
Good(w) == cache[w] # Nothing /\ age[w] < Keep

\* What the worker's next request goes by: its copy, or else the file.
Seen(w) == IF Good(w) THEN cache[w] ELSE file

\* Any request: the middleware looks up maintenance_mode.
Request(w) ==
    /\ cache' = [cache EXCEPT ![w] = Seen(w)]
    /\ age' = IF Good(w) THEN age ELSE [age EXCEPT ![w] = 0]
    /\ UNCHANGED <<file, quiet, edits>>

\* The operator's editor.
Truncate ==
    /\ file # Nothing
    /\ edits < MaxEdits
    /\ edits' = edits + 1
    /\ file' = Nothing
    /\ quiet' = 0
    /\ UNCHANGED <<cache, age>>

Write(flags) ==
    /\ file = Nothing
    /\ file' = flags
    /\ quiet' = 0
    /\ UNCHANGED <<cache, age, edits>>

Restart(w) ==
    /\ edits < MaxEdits
    /\ edits' = edits + 1
    /\ cache' = [cache EXCEPT ![w] = Nothing]
    /\ UNCHANGED <<file, age, quiet>>

Older(n) == IF n < Keep THEN n + 1 ELSE n

Tick ==
    /\ age' = [w \in Worker |-> Older(age[w])]
    /\ quiet' = Older(quiet)
    /\ <<age', quiet'>> # <<age, quiet>>
    /\ UNCHANGED <<file, cache, edits>>

Next ==
    \/ \E w \in Worker : Request(w) \/ Restart(w)
    \/ Truncate
    \/ \E flags \in OnOff : Write(flags)
    \/ Tick

Spec == Init /\ [][Next]_vars

-----------------------------------------------------------------------------
\* Every variable has its type.
TypeOK ==
    /\ file \in OnOff \cup {Nothing}
    /\ cache \in [Worker -> OnOff \cup {Nothing}]
    /\ age \in [Worker -> 0..Keep]
    /\ quiet \in 0..Keep
    /\ edits \in 0..MaxEdits

\* "the file is re-read by all workers within 5 seconds" (set_flag): once the
\* file has not been touched for that long, every worker goes by what it says,
\* whatever the worker read of it while it was being written.
FlagsSettle == quiet >= Keep => \A w \in Worker : Seen(w) = file
-----------------------------------------------------------------------------
(* The inductive invariant *)

\* A copy that differs from the file was made before the file was last touched.
StaleIsOld == \A w \in Worker : cache[w] \notin {Nothing, file} => quiet <= age[w]

FlagsInv == TypeOK /\ StaleIsOld
=============================================================================
