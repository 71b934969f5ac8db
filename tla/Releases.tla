------------------------------ MODULE Releases ------------------------------
(***************************************************************************)
(* The release APK the server offers (src/server/main.py): which file is    *)
(* served, and the digest by which a phone checks what it downloaded.       *)
(* Digests are computed in threads and kept per file in each worker, while  *)
(* releases are copied over, added and removed.                             *)
(***************************************************************************)
EXTENDS Integers, Sequences

CONSTANTS
    Worker,
    Request,       \* requests for a digest that a worker answers at a time
    MaxDeploys     \* bound on changes of the files and restarts

ReleasesConstants == MaxDeploys \in Nat

\* What a file holds is told by when it was put there: no two puts share a
\* modification time and a size.  0 stands for no file.
VARIABLES
    files,     \* the version in each place, [version, stamp]
    cache,     \* _apk_checksum_cache of each worker: version hashed, stamp
    job,       \* what each request has found out so far
    deploys

vars == <<files, cache, job, deploys>>

\* _apk_candidates, in order: the release built for this version, the pointer,
\* the newest other.  The source tarball has the first two of its own.
Candidates == <<"release", "latest", "newest">>
Path    == {Candidates[i] : i \in DOMAIN Candidates}
Job     == Worker \X Request
Version == 0..(MaxDeploys + 1)
None    == [version |-> 0, stamp |-> 0]
NoJob   == [pc |-> "idle", path |-> "latest", stamp |-> 0, version |-> 0, overtaken |-> FALSE]

Init ==
    /\ files \in [Path -> {None, [version |-> 1, stamp |-> 1]}]
    /\ cache = [w \in Worker |-> [p \in Path |-> None]]
    /\ job = [r \in Job |-> NoJob]
    /\ deploys = 0

Exists(p) == files[p] # None

\* _resolve_apk: the first candidate that exists.
Served(i) == Exists(Candidates[i]) /\ \A j \in 1..(i - 1) : ~Exists(Candidates[j])

\* /apk/checksum, /apk/version: the path is found on the event loop...
Resolve(r) ==
    /\ job[r] = NoJob
    /\ \E i \in DOMAIN Candidates :
           /\ Served(i)
           /\ job' = [job EXCEPT ![r] = [NoJob EXCEPT !.pc = "found", !.path = Candidates[i]]]
    /\ UNCHANGED <<files, cache, deploys>>

Done(r) == job' = [job EXCEPT ![r] = NoJob]

\* ...and in a thread its stat is taken; a file that is gone by then fails.
Stat(r) ==
    LET p == job[r].path IN
    /\ job[r].pc = "found"
    /\ IF Exists(p) /\ cache[r[1]][p].stamp # files[p].stamp
       THEN job' = [job EXCEPT ![r] = [@ EXCEPT !.pc = "stat", !.stamp = files[p].stamp,
                                                !.overtaken = FALSE]]
       ELSE Done(r)
    /\ UNCHANGED <<files, cache, deploys>>

Hash(r) ==
    LET p == job[r].path IN
    /\ job[r].pc = "stat"
    /\ IF Exists(p)
       THEN job' = [job EXCEPT ![r] = [@ EXCEPT !.pc = "hashed", !.version = files[p].version]]
       ELSE Done(r)
    /\ UNCHANGED <<files, cache, deploys>>

\* Mutant of Key: a stat of its own goes with the digest.
KeyAtStore(r) == files[job[r].path].stamp

\* The stat that goes with the digest was taken before hashing.
Key(r) == job[r].stamp

Store(r) ==
    /\ job[r].pc = "hashed"
    /\ cache' = [cache EXCEPT ![r[1]][job[r].path] = [version |-> job[r].version, stamp |-> Key(r)]]
    /\ Done(r)
    /\ UNCHANGED <<files, deploys>>

Change == deploys < MaxDeploys /\ deploys' = deploys + 1

\* A release is put in place or removed.
Deploy(p, file) ==
    /\ Change
    /\ file # files[p]
    /\ files' = [files EXCEPT ![p] = file]
    /\ job' = [r \in Job |-> IF job[r].path = p /\ job[r].pc \in {"stat", "hashed"}
                             THEN [job[r] EXCEPT !.overtaken = TRUE] ELSE job[r]]
    /\ UNCHANGED cache

Restart(w) ==
    /\ Change
    /\ cache' = [cache EXCEPT ![w] = [p \in Path |-> None]]
    /\ job' = [r \in Job |-> IF r[1] = w THEN NoJob ELSE job[r]]
    /\ UNCHANGED files

Next ==
    \/ \E r \in Job : Resolve(r) \/ Stat(r) \/ Hash(r) \/ Store(r)
    \/ \E p \in Path :
           \/ Deploy(p, [version |-> deploys + 2, stamp |-> deploys + 2])
           \/ Deploy(p, None)
    \/ \E w \in Worker : Restart(w)

Spec == Init /\ [][Next]_vars

-----------------------------------------------------------------------------
\* Every variable has its type.
TypeOK ==
    /\ files \in [Path -> [version: Version, stamp: Version]]
    /\ cache \in [Worker -> [Path -> [version: Version, stamp: Version]]]
    /\ job \in [Job -> [pc: {"idle", "found", "stat", "hashed"}, path: Path, stamp: Version,
                        version: Version, overtaken: BOOLEAN]]
    /\ deploys \in 0..MaxDeploys

\* "Replaced files yield fresh digests" (_get_apk_checksum): while a file is in
\* place, a digest kept for it is its own, and so is the one that a request no
\* deployment overtook is about to answer - although threads of one worker
\* hash one file at once and store in any order, some after it was replaced.
DigestTrue ==
    /\ \A w \in Worker, p \in Path :
           (Exists(p) /\ cache[w][p].stamp = files[p].stamp) =>
               cache[w][p].version = files[p].version
    /\ \A r \in Job :
           (job[r].pc = "hashed" /\ ~job[r].overtaken) =>
               job[r].version = files[job[r].path].version
-----------------------------------------------------------------------------
(* The inductive invariant *)

\* A file in place has a stamp, and a stamp that is known anywhere was given before
\* the next one.
StampsGiven ==
    /\ \A p \in Path : files[p].stamp <= deploys + 1 /\ (Exists(p) => files[p].stamp >= 1)
    /\ \A w \in Worker, p \in Path : cache[w][p].stamp <= deploys + 1
    /\ \A r \in Job : job[r].stamp <= deploys + 1

\* A request between stat and storing has the stamp of the file in place exactly
\* as long as no deployment overtook it.
StampsHeld ==
    \A r \in Job :
        LET p == job[r].path IN
        job[r].pc \in {"stat", "hashed"} =>
            IF job[r].overtaken THEN Exists(p) => job[r].stamp # files[p].stamp
            ELSE Exists(p) /\ job[r].stamp = files[p].stamp

ReleasesInv == TypeOK /\ StampsGiven /\ StampsHeld /\ DigestTrue
=============================================================================
