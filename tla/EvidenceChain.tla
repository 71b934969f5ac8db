---------------------------- MODULE EvidenceChain ----------------------------
(***************************************************************************)
(* Media from the upload to the evidence case (post_media in                 *)
(* routes/devices.py, media_store.py, evidence.py) and their deletion by the *)
(* owner (routes/dashboard.py).  An upload writes the file, the row, the     *)
(* case's chain of custody and the case's counter one after the other; each  *)
(* step is a file operation or a transaction of its own, and workers run     *)
(* them side by side and may be killed in between.                           *)
(*                                                                         *)
(* sha256_chain is the hash of the previous chain and an item's hash; it is  *)
(* modelled by the sequence of items it was computed over, as hashes tell    *)
(* those apart.                                                              *)
(***************************************************************************)
EXTENDS Integers, Sequences, FiniteSets, Functions

CONSTANTS
    Item,           \* uploads, each of one photo
    Deleter,        \* delete requests
    Payloads,       \* what a phone may post
    MaxLoad,        \* MAX_BYTES_BY_TYPE
    MaxText,        \* the same on the base64 text: 4/3 of it and 16
    None

EvidenceConstants ==
    /\ MaxLoad \in Nat /\ MaxText \in Nat
    /\ IsFiniteSet(Item) /\ None \notin Item

VARIABLES
    files,      \* files on disk
    rows,       \* media table: [case: BOOLEAN] for each row
    case,       \* "none", "active" or "closed"
    chain,      \* evidence_cases.sha256_chain
    count,      \* evidence_cases.photo_count
    upload,     \* where each upload is
    delete,     \* where each delete request is
    old,        \* rows past the retention period
    purge,      \* "open" while purge_old_data's transaction is
    raced,      \* history: items whose chain update was read over by another
    drifted     \* history: the counter was disturbed by a crash or a race

vars == <<files, rows, case, chain, count, upload, delete, old, purge, raced, drifted>>

NoUpload == [pc |-> "none", case |-> FALSE, prev |-> <<>>]
NoDelete == [pc |-> "none", item |-> None, case |-> FALSE]

TypeOK ==
    /\ files \subseteq Item
    /\ rows \in [Item -> {"none", "loose", "case"}]
    /\ case \in {"none", "active", "closed"}
    /\ chain \in Seq(Item) /\ IsInjective(chain)
    /\ count \in 0..Cardinality(Item)
    /\ upload \in [Item -> [pc: {"none", "saved", "chosen", "stored", "read", "chained",
                                 "done", "dead"},
                            case: BOOLEAN, prev: Seq(Item)]]
    /\ delete \in [Deleter -> [pc: {"none", "found", "unlinked", "done", "dead"},
                               item: Item \cup {None}, case: BOOLEAN]]
    /\ old \subseteq Item /\ purge \in {"none", "open"}
    /\ raced \subseteq Item /\ drifted \in BOOLEAN

-----------------------------------------------------------------------------
(* validate_media_data *)

\* The length of the text is looked at first, then the text is decoded, then
\* the bytes are measured and their signature compared with the type.
Verdict(p) ==
    CASE ~p.known -> 415
      [] p.known /\ p.text > MaxText -> 413
      [] p.known /\ p.text <= MaxText /\ ~p.decodes -> 400
      [] p.known /\ p.text <= MaxText /\ p.decodes /\ p.bytes > MaxLoad -> 413
      [] p.known /\ p.text <= MaxText /\ p.decodes /\ p.bytes = 0 -> 400
      [] p.known /\ p.text <= MaxText /\ p.decodes /\ p.bytes \in 1..MaxLoad ->
            IF p.magic THEN 200 ELSE 415

-----------------------------------------------------------------------------
(* post_media *)

At(i, pc) == upload[i].pc = pc

\* SQLite lets one connection write at a time: the others wait.
Unlocked == purge = "none"

To(i, pc) == upload' = [upload EXCEPT ![i].pc = pc]

\* Mutant of Save: the file is written in the background.
SaveInBackground(i, p) ==
    /\ At(i, "none") /\ Verdict(p) = 200
    /\ files' \in {files, files \cup {i}}
    /\ To(i, "saved")
    /\ UNCHANGED <<rows, case, chain, count, delete, raced, drifted, old, purge>>

\* save_media writes the file before anything is in the database.
Save(i, p) ==
    /\ At(i, "none") /\ Verdict(p) = 200
    /\ files' = files \cup {i}
    /\ To(i, "saved")
    /\ UNCHANGED <<rows, case, chain, count, delete, raced, drifted, old, purge>>

ChooseCase(i) ==
    /\ At(i, "saved")
    /\ upload' = [upload EXCEPT ![i] = [@ EXCEPT !.pc = "chosen", !.case = (case = "active")]]
    /\ UNCHANGED <<files, rows, case, chain, count, delete, raced, drifted, old, purge>>

Insert(i) ==
    /\ At(i, "chosen") /\ Unlocked
    /\ rows' = [rows EXCEPT ![i] = IF upload[i].case THEN "case" ELSE "loose"]
    /\ To(i, IF upload[i].case THEN "stored" ELSE "done")
    /\ UNCHANGED <<files, case, chain, count, delete, raced, drifted, old, purge>>

\* update_chain reads the chain before its transaction begins ...
ReadChain(i) ==
    /\ At(i, "stored")
    /\ upload' = [upload EXCEPT ![i] = [@ EXCEPT !.pc = "read", !.prev = chain]]
    /\ UNCHANGED <<files, rows, case, chain, count, delete, raced, drifted, old, purge>>

\* Mutant of Linked: the new chain is computed without the previous one.
LinkedAlone(prev, i) == <<i>>

Linked(prev, i) == Append(prev, i)

\* ... and overwrites it with the chain computed from what it read.
WriteChain(i) ==
    /\ At(i, "read") /\ Unlocked
    /\ chain' = Linked(upload[i].prev, i)
    /\ upload' = [upload EXCEPT ![i] = [@ EXCEPT !.pc = "chained", !.prev = <<>>]]
    /\ raced' = IF \E j \in Item \ {i} : At(j, "read") THEN raced \cup {i} ELSE raced
    /\ UNCHANGED <<files, rows, case, count, delete, drifted, old, purge>>

\* Mutant of CountItem: both the insertion and the case count the photo.
CountTwice(i) ==
    /\ At(i, "chained") /\ Unlocked
    /\ count' = count + 2
    /\ To(i, "done")
    /\ UNCHANGED <<files, rows, case, chain, delete, raced, drifted, old, purge>>

CountItem(i) ==
    /\ At(i, "chained") /\ Unlocked
    /\ count' = count + 1
    /\ To(i, "done")
    /\ UNCHANGED <<files, rows, case, chain, delete, raced, drifted, old, purge>>

\* The worker is killed inside the handler.
UploadDies(i) ==
    /\ upload[i].pc \notin {"none", "done", "dead"}
    /\ upload' = [upload EXCEPT ![i] = [NoUpload EXCEPT !.pc = "dead", !.case = upload[i].case]]
    /\ drifted' = (drifted \/ upload[i].pc \in {"stored", "read", "chained"})
    /\ UNCHANGED <<files, rows, case, chain, count, delete, raced, old, purge>>

-----------------------------------------------------------------------------
(* delete_media *)

Find(d, i) ==
    /\ delete[d].pc = "none" /\ rows[i] # "none"
    /\ delete' = [delete EXCEPT ![d] = [pc |-> "found", item |-> i, case |-> rows[i] = "case"]]
    /\ UNCHANGED <<files, rows, case, chain, count, upload, raced, drifted, old, purge>>

\* The file goes first, outside any transaction.
Unlink(d) ==
    /\ delete[d].pc = "found"
    /\ files' = files \ {delete[d].item}
    /\ delete' = [delete EXCEPT ![d].pc = "unlinked"]
    /\ UNCHANGED <<rows, case, chain, count, upload, raced, drifted, old, purge>>

\* Mutant of Uncounted: the counter is left as it is.
StillCounted(d) == count

\* MAX(0, photo_count - 1)
Uncounted(d) == IF delete[d].case /\ count > 0 THEN count - 1 ELSE count

\* The row is deleted and the counter lowered, be the row still there or not
\* and counted already or not.
Drop(d) ==
    LET i == delete[d].item IN
    /\ delete[d].pc = "unlinked" /\ Unlocked
    /\ rows' = [rows EXCEPT ![i] = "none"]
    /\ count' = Uncounted(d)
    /\ drifted' = (drifted \/ (delete[d].case /\ (rows[i] = "none" \/ ~At(i, "done"))))
    /\ delete' = [delete EXCEPT ![d].pc = "done"]
    /\ UNCHANGED <<files, case, chain, upload, raced, old, purge>>

DeleteDies(d) ==
    /\ delete[d].pc \in {"found", "unlinked"}
    /\ delete' = [delete EXCEPT ![d].pc = "dead"]
    /\ UNCHANGED <<files, rows, case, chain, count, upload, raced, drifted, old, purge>>

-----------------------------------------------------------------------------
(* purge_old_data, in a thread of every worker that starts *)

Grow(i) ==
    /\ rows[i] # "none" /\ upload[i].pc \in {"done", "dead"}
    /\ i \notin old
    /\ old' = old \cup {i}
    /\ UNCHANGED <<files, rows, case, chain, count, upload, delete, purge, raced, drifted>>

\* Mutant of Purgeable: open cases are not spared.
PurgeableAny == {i \in old : rows[i] # "none"}

Purgeable == {i \in old : rows[i] = "loose" \/ (rows[i] = "case" /\ case # "active")}

\* The deletions before it have opened the transaction; rows are selected and
\* their files removed.
PurgeFiles ==
    /\ Unlocked
    /\ Purgeable # {}
    /\ purge' = "open"
    /\ files' = files \ Purgeable
    /\ UNCHANGED <<rows, case, chain, count, upload, delete, old, raced, drifted>>

\* The rows go; photo_count stays.
PurgeRows ==
    /\ purge = "open"
    /\ rows' = [i \in Item |-> IF i \in Purgeable THEN "none" ELSE rows[i]]
    /\ drifted' = (drifted \/ \E i \in Purgeable : rows[i] = "case")
    /\ purge' = "none"
    /\ UNCHANGED <<files, case, chain, count, upload, delete, old, raced>>

PurgeDies ==
    /\ purge = "open"
    /\ purge' = "none"
    /\ UNCHANGED <<files, rows, case, chain, count, upload, delete, old, raced, drifted>>

-----------------------------------------------------------------------------
(* The case *)

OpenCase ==
    /\ case = "none" /\ Unlocked
    /\ case' = "active"
    /\ UNCHANGED <<files, rows, chain, count, upload, delete, raced, drifted, old, purge>>

\* mark_device_recovered closes the case under the feet of uploads.
CloseCase ==
    /\ case = "active" /\ Unlocked
    /\ case' = "closed"
    /\ UNCHANGED <<files, rows, chain, count, upload, delete, raced, drifted, old, purge>>

Init ==
    /\ files = {} /\ rows = [i \in Item |-> "none"] /\ case = "none"
    /\ chain = <<>> /\ count = 0
    /\ upload = [i \in Item |-> NoUpload]
    /\ delete = [d \in Deleter |-> NoDelete]
    /\ old = {} /\ purge = "none"
    /\ raced = {} /\ drifted = FALSE

Next ==
    \/ \E i \in Item, p \in Payloads : Save(i, p)
    \/ \E i \in Item : ChooseCase(i) \/ Insert(i) \/ ReadChain(i) \/ WriteChain(i)
                       \/ CountItem(i) \/ UploadDies(i)
    \/ \E d \in Deleter, i \in Item : Find(d, i)
    \/ \E d \in Deleter : Unlink(d) \/ Drop(d) \/ DeleteDies(d)
    \/ \E i \in Item : Grow(i)
    \/ PurgeFiles \/ PurgeRows \/ PurgeDies
    \/ OpenCase \/ CloseCase

Spec == Init /\ [][Next]_vars

-----------------------------------------------------------------------------
(* Properties *)

\* Every photo stored for a case is in the case's chain of custody, whoever
\* uploaded beside it and whatever was deleted, unless another upload read the
\* chain before this one had written it, or the worker was killed.
InCustody ==
    \A i \in Item :
        upload[i].case /\ upload[i].pc \in {"chained", "done"} /\ i \notin raced =>
            i \in Range(chain)

\* A row the dashboard lists has its file, unless it is being deleted or a
\* deletion was cut off after the file.
FileBehindRow ==
    \A i \in Item : rows[i] # "none" =>
        \/ i \in files
        \/ i \in old /\ ~(rows[i] = "case" /\ case = "active")
        \/ \E d \in Deleter : delete[d].item = i /\ delete[d].pc \in {"unlinked", "dead"}

\* "a forensic case must never have its photos/audio silently deleted while the
\* case is still open" (purge_old_data): a photo counted for the open case
\* keeps its row and its file until its owner deletes it.
OpenCaseKept ==
    \A i \in Item :
        /\ case = "active" /\ upload[i].case /\ At(i, "done")
        /\ \A d \in Deleter : delete[d].item # i
        => rows[i] = "case" /\ i \in files

\* "a deleted item must not leave stale counts": when no request is under way,
\* the case's counter is the number of its rows, unless a request was killed,
\* a row was deleted twice or before it was counted, or purged.
CountsRows ==
    /\ ~drifted
    /\ \A i \in Item : upload[i].pc \in {"none", "done", "dead"}
    => count = Cardinality({i \in Item : rows[i] = "case"})

-----------------------------------------------------------------------------
(* The inductive invariant *)

Counting == {"stored", "read", "chained"}

BeforeRow(i) == upload[i].pc \in {"none", "saved", "chosen"}

\* The photos the case's counter has counted: all of them, and those whose row
\* is still there.
EverCounted == {i \in Item : upload[i].case /\ At(i, "done")}
Counted == {i \in Item : rows[i] = "case" /\ At(i, "done")}

\* A row and its upload tell the same of the case, and the file of an upload
\* without a row is untouched.
RowsFollow ==
    \A i \in Item :
        /\ BeforeRow(i) => rows[i] = "none"
        /\ upload[i].pc \in {"saved", "chosen"} => i \in files
        /\ upload[i].pc \in Counting => upload[i].case
        /\ rows[i] = "case" => upload[i].case
        /\ rows[i] = "loose" => ~upload[i].case
        /\ upload[i].case => case # "none"
        /\ i \in old => upload[i].pc \in {"done", "dead"}

\* A delete request is about a row that was written, and remembers its case.
DeletesFollow ==
    \A d \in Deleter :
        /\ delete[d].pc = "none" => delete[d].item = None
        /\ delete[d].pc # "none" => /\ delete[d].item \in Item /\ ~BeforeRow(delete[d].item)
                                    /\ rows[delete[d].item] = "case" => delete[d].case
                                    /\ delete[d].case => upload[delete[d].item].case

\* OpenCaseKept, from the insertion of the row on.
KeptFromInsert ==
    \A i \in Item :
        /\ case = "active" /\ upload[i].case /\ upload[i].pc \in Counting \cup {"done"}
        /\ \A d \in Deleter : delete[d].item # i
        => rows[i] = "case" /\ i \in files

\* A chain, written or just read, is of items that have been chained.
ChainOf(s) ==
    IsInjective(s) /\ Range(s) \subseteq {i \in Item : upload[i].pc \in {"chained", "done", "dead"}}

Chains == ChainOf(chain) /\ \A i \in Item : At(i, "read") => ChainOf(upload[i].prev)

\* What one upload has read holds every item that is in custody.
ReadsHold ==
    \A i, j \in Item :
        upload[i].case /\ upload[i].pc \in {"chained", "done"} /\ i \notin raced /\ At(j, "read")
            => i \in Range(upload[j].prev)

Counts ==
    /\ count <= Cardinality(EverCounted)
    /\ ~drifted => /\ count = Cardinality(Counted)
                   /\ \A i \in Item : /\ upload[i].pc \in Counting => rows[i] = "case"
                                      /\ rows[i] = "case" => ~At(i, "dead")

EvidenceInv ==
    /\ TypeOK /\ RowsFollow /\ DeletesFollow /\ FileBehindRow /\ KeptFromInsert
    /\ Chains /\ InCustody /\ ReadsHold /\ Counts
=============================================================================
