---------------------------- MODULE DeviceAccess ----------------------------
(***************************************************************************)
(* Who owns a device and who may see it: registration with its adoption of *)
(* a reinstalled phone's row, the two claims, the deletions, the plan's    *)
(* allowance and the shares (src/server/routes/devices.py,                 *)
(* routes/dashboard.py, user_auth.py).  A handler reads what it decides by *)
(* and then writes, without a lock from the one to the other: on one       *)
(* worker nothing comes between them, another worker's request may.        *)
(***************************************************************************)
EXTENDS Integers, FiniteSets

CONSTANTS
    Worker,
    User,           \* accounts; the identifier of a deleted one is not given again
    Operator,       \* a session with the API key, which has no account
    Device,         \* device identifiers
    Phone,          \* device -> the phone's fingerprint
    Allowances,     \* numbers of devices the plans allow
    MaxUnowned,     \* MAX_UNOWNED_DEVICES
    MaxGrants,      \* bound on grants of a share
    None

DeviceAccessConstants ==
    /\ Allowances \subseteq Nat /\ IsFiniteSet(Device)
    /\ Operator \notin User /\ None \notin User \cup {Operator}
    /\ \A d \in Device : Phone[d] # None

VARIABLES
    account,    \* accounts that exist
    allowance,  \* what the account's plan allows
    row,        \* devices: one record for each device, or Absent
    share,      \* device_shares: for each device and account its row, or NoShare
    grants,     \* how many shares were granted
    req,        \* what the request of each worker has decided and not yet written
    best,       \* history: the largest allowance each account had
    late        \* history: devices and accounts written by a request that another overtook

vars == <<account, allowance, row, share, grants, req, best, late>>

Absent == [owner |-> None, present |-> FALSE, silent |-> FALSE, archived |-> FALSE]
Fresh(o) == [owner |-> o, present |-> TRUE, silent |-> FALSE, archived |-> FALSE]
NoShare == [by |-> None, id |-> 0]
NoRequest == [kind |-> "none", user |-> None, on |-> {}, to |-> None, share |-> 0, stale |-> FALSE]

Present == {d \in Device : row[d].present}
Owned(u) == {d \in Present : row[d].owner = u}

Init ==
    /\ account = User
    /\ allowance \in [User -> Allowances]
    /\ row = [d \in Device |-> Absent]
    /\ share = [d \in Device |-> [u \in User |-> NoShare]]
    /\ grants = 0
    /\ req = [w \in Worker |-> NoRequest]
    /\ best = allowance
    /\ late = {}

\* The request has read what it decides by.
Decides(w, kind, u, ds, to, id) ==
    /\ req[w] = NoRequest
    /\ req' = [req EXCEPT ![w] =
           [kind |-> kind, user |-> u, on |-> ds, to |-> to, share |-> id, stale |-> FALSE]]
    /\ UNCHANGED <<account, allowance, row, share, grants, best, late>>

\* The request commits: whoever has read and not yet written is overtaken.
Commits(w) ==
    /\ req' = [v \in Worker |-> IF v = w THEN NoRequest
                                ELSE IF req[v] = NoRequest THEN NoRequest
                                ELSE [req[v] EXCEPT !.stale = TRUE]]
    /\ late' = IF req[w].stale THEN late \cup req[w].on \cup {req[w].user} ELSE late
-----------------------------------------------------------------------------
\* Mutant of Takeable: whoever knows the device takes it.
TakeableByAnyone(d, u) == TRUE

\* An owner whose account exists keeps the device.
Takeable(d, u) == row[d].owner = u \/ row[d].owner \notin account

\* Mutant of WithinAllowance: the device that is being linked is not counted.
WithinAllowanceSoFar(u) == Cardinality(Owned(u)) <= allowance[u]

\* _enforce_device_limit
WithinAllowance(u) == Cardinality(Owned(u)) < allowance[u]

\* claim_device and claim_device_by_pairing, with the right key or code.
LookClaim(w, u, d) ==
    /\ u \in account /\ d \in Present
    /\ Takeable(d, u)
    /\ row[d].owner # u => WithinAllowance(u)
    /\ Decides(w, "claim", u, {d}, u, 0)

\* The UPDATE of a row that has gone changes nothing.
WriteClaim(w) ==
    /\ req[w].kind = "claim"
    /\ row' = [d \in Device |-> IF d \in req[w].on /\ row[d].present
                                THEN [row[d] EXCEPT !.owner = req[w].user] ELSE row[d]]
    /\ Commits(w)
    /\ UNCHANGED <<account, allowance, share, grants, best>>

\* A reinstalled phone comes with a new identifier: its old row is adopted when the
\* same account links it, or when nobody owns it and it has long been silent.
Adoptable(c, o) ==
    \/ o # None /\ row[c].owner = o
    \/ row[c].owner \notin account /\ row[c].silent

Candidates(d, o) == {c \in Present : Phone[c] = Phone[d] /\ Adoptable(c, o)}

\* The row the registration will write; a phone may send no fingerprint.
Targets(d, o) ==
    IF d \in Present \/ Candidates(d, o) = {} THEN {d} ELSE Candidates(d, o) \cup {d}

\* register_device up to its first write.  The token of a deleted account links nothing.
LookRegister(w, u, d) ==
    LET o == IF u \in account THEN u ELSE None IN
    \E t \in Targets(d, o) :
        /\ o # None /\ t \in Present => Takeable(t, o)
        /\ o # None /\ (t \notin Present \/ row[t].owner \notin account) => WithinAllowance(o)
        /\ o = None /\ t \notin Present => Cardinality(Owned(None)) < MaxUnowned
        /\ Decides(w, IF t \in Present THEN "update" ELSE "insert", o, {t}, o, 0)

Registered(d, o) == IF o = None THEN Fresh(row[d].owner) ELSE Fresh(o)

\* An UPDATE finds the row or changes nothing; an INSERT of a row that has come
\* in the meantime fails.
WriteRegister(w) ==
    /\ req[w].kind \in {"update", "insert"}
    /\ row' = [d \in Device |->
           IF d \in req[w].on /\ row[d].present = (req[w].kind = "update")
           THEN Registered(d, req[w].user) ELSE row[d]]
    /\ Commits(w)
    /\ UNCHANGED <<account, allowance, share, grants, best>>

\* A day without a report, and the archive monitor's thirty.
Silence(d) ==
    /\ d \in Present
    /\ row' = [row EXCEPT ![d].silent = TRUE, ![d].archived = row[d].silent]
    /\ row' # row
    /\ UNCHANGED <<account, allowance, share, grants, req, best, late>>

\* A report: the device is alive again.
Report(d) ==
    /\ d \in Present /\ row[d].silent
    /\ row' = [row EXCEPT ![d] = Fresh(@.owner)]
    /\ UNCHANGED <<account, allowance, share, grants, req, best, late>>
-----------------------------------------------------------------------------
\* delete_device, with the password of the account or the API key.
LookDelete(w, u, d) ==
    /\ d \in Present
    /\ u = Operator \/ (u \in account /\ row[d].owner = u)
    /\ Decides(w, "delete", u, {d}, None, 0)

\* delete_archived_devices
LookDeleteArchived(w, u) ==
    LET ds == {d \in Present : row[d].archived /\ u \in {Operator, row[d].owner}} IN
    /\ u = Operator \/ u \in account
    /\ ds # {}
    /\ Decides(w, "delete", u, ds, None, 0)

\* delete_user_account, up to the first deletion.
LookDeleteAccount(w, u) ==
    /\ u \in account
    /\ Decides(w, "delete account", u, Owned(u), None, 0)

\* Mutant of Cascade: the shares stay.
CascadeRows(ds) ==
    /\ row' = [d \in Device |-> IF d \in ds THEN Absent ELSE row[d]]
    /\ share' = share

\* delete_device_cascade
Cascade(ds) ==
    /\ row' = [d \in Device |-> IF d \in ds THEN Absent ELSE row[d]]
    /\ share' = [d \in Device |-> IF d \in ds THEN [u \in User |-> NoShare] ELSE share[d]]

WriteDelete(w) ==
    /\ req[w].kind = "delete"
    /\ Cascade(req[w].on)
    /\ Commits(w)
    /\ UNCHANGED <<account, allowance, grants, best>>

\* The devices read at the beginning, then the account's row.
Closes(r) == account' = account \ {r.user} /\ Cascade(r.on)

WriteDeleteAccount(w) ==
    /\ req[w].kind = "delete account"
    /\ Closes(req[w])
    /\ Commits(w)
    /\ UNCHANGED <<allowance, grants, best>>

\* update_user_plan
SetPlan(u, n) ==
    /\ u \in account /\ n # allowance[u]
    /\ allowance' = [allowance EXCEPT ![u] = n]
    /\ best' = [best EXCEPT ![u] = IF n > @ THEN n ELSE @]
    /\ UNCHANGED <<account, row, share, grants, req, late>>
-----------------------------------------------------------------------------
\* _resolve_device_role
Role(d, u) ==
    IF u = Operator \/ row[d].owner = u THEN "owner"
    ELSE IF share[d][u] # NoShare THEN "shared" ELSE "none"

\* grant_device_share: an action of the owner's account.
LookGrant(w, u, d, to) ==
    /\ grants < MaxGrants
    /\ u # Operator /\ d \in Present /\ Role(d, u) = "owner"
    /\ to \in account \ {u}
    /\ Decides(w, "grant", u, {d}, to, 0)

\* A new grant to the same account overwrites its row, the identifier too.
WriteGrant(w) ==
    LET r == req[w] IN
    /\ r.kind = "grant"
    /\ grants' = grants + 1
    /\ share' = [d \in Device |-> IF d \in r.on /\ row[d].present
                                  THEN [share[d] EXCEPT ![r.to] = [by |-> r.user, id |-> grants']]
                                  ELSE share[d]]
    /\ Commits(w)
    /\ UNCHANGED <<account, allowance, row, best>>

\* revoke_device_share, of the row with the identifier the dashboard shows.
LookRevoke(w, u, d, to) ==
    /\ u # Operator /\ d \in Present /\ Role(d, u) = "owner"
    /\ share[d][to] # NoShare
    /\ Decides(w, "revoke", u, {d}, to, share[d][to].id)

WriteRevoke(w) ==
    LET r == req[w] IN
    /\ r.kind = "revoke"
    /\ share' = [d \in Device |-> IF d \in r.on /\ share[d][r.to].id = r.share
                                  THEN [share[d] EXCEPT ![r.to] = NoShare] ELSE share[d]]
    /\ Commits(w)
    /\ UNCHANGED <<account, allowance, row, grants, best>>

Next ==
    \/ \E w \in Worker :
           \/ \E u \in User, d \in Device : LookClaim(w, u, d)
           \/ \E u \in User \cup {None}, d \in Device : LookRegister(w, u, d)
           \/ \E u \in User \cup {Operator}, d \in Device : LookDelete(w, u, d)
           \/ \E u \in User \cup {Operator} : LookDeleteArchived(w, u)
           \/ \E u \in User : LookDeleteAccount(w, u)
           \/ \E u, to \in User, d \in Device : LookGrant(w, u, d, to) \/ LookRevoke(w, u, d, to)
           \/ WriteClaim(w) \/ WriteRegister(w) \/ WriteDelete(w) \/ WriteDeleteAccount(w)
           \/ WriteGrant(w) \/ WriteRevoke(w)
    \/ \E d \in Device : Silence(d) \/ Report(d)
    \/ \E u \in User, n \in Allowances : SetPlan(u, n)

Spec == Init /\ [][Next]_vars
-----------------------------------------------------------------------------
\* Every variable has its type.
TypeOK ==
    /\ account \subseteq User
    /\ allowance \in [User -> Allowances] /\ best \in [User -> Allowances]
    /\ \A d \in Device : row[d].owner \in User \cup {None} /\ (row[d].archived => row[d].silent)
    /\ \A d \in Device : Phone[d] # None /\ DOMAIN share[d] = User
    /\ late \subseteq User \cup Device \cup {Operator, None}

\* A device passes from an account that exists to another account only by a
\* request that read the row while it was not that account's (register_device,
\* claim_device: "only block when the existing owner account is real").
OwnerKeptStep ==
    \A d \in Device :
        LET u == row[d].owner IN
        u \in account /\ row'[d].owner \notin {u, None} =>
            \E w \in Worker : req[w].stale /\ d \in req[w].on

OwnerKept == [][OwnerKeptStep]_vars

\* Unless a request that linked or closed it was overtaken, an account owns no
\* more devices than the best plan it had allows (_enforce_device_limit).
AllowanceHeld == \A u \in User \ late : Cardinality(Owned(u)) <= best[u]

\* A device that no overtaken request wrote has shares of its present owner
\* only, and its owner's account exists, unless an overtaken request wrote that
\* account (delete_device_cascade; "a stale token must not re-link a device to a
\* ghost owner").
LinksAgree ==
    \A d \in Present \ late :
        /\ row[d].owner \in account \cup late \cup {None}
        /\ \A u \in User : share[d][u] # NoShare => share[d][u].by \in late \cup {row[d].owner}

-----------------------------------------------------------------------------
(* The inductive invariant *)

\* What TypeOK leaves out of the rows, the shares and the requests.
Shapes ==
    /\ row \in [Device -> [owner: User \cup {None}, present: BOOLEAN, silent: BOOLEAN,
                           archived: BOOLEAN]]
    /\ share \in [Device -> [User -> [by: User \cup {None}, id: Nat]]]
    /\ grants \in Nat
    /\ req \in [Worker -> [kind: {"none", "claim", "update", "insert", "delete", "delete account",
                                  "grant", "revoke"},
                           user: User \cup {Operator, None}, on: SUBSET Device,
                           to: User \cup {None}, share: Nat, stale: BOOLEAN]]

\* A device that is not there has no owner and no shares.
AbsentIsBare ==
    \A d \in Device : ~row[d].present => row[d].owner = None /\ share[d] = [u \in User |-> NoShare]

\* A request knows who it is for: an account, or nobody where the code allows it.
RequestsFit ==
    \A w \in Worker :
        /\ req[w].kind \in {"claim", "grant", "delete account"} => req[w].user \in User
        /\ req[w].kind \in {"update", "insert"} => req[w].user \in User \cup {None}
        /\ req[w].kind \in {"grant", "revoke"} => req[w].to \in User

\* The account may take the device and its plan has room for it.
MayLink(d, u) ==
    /\ u \in account /\ Takeable(d, u)
    /\ row[d].owner # u \/ ~row[d].present => Cardinality(Owned(u)) < best[u]

\* What a request that nobody overtook has read still holds.
StillTrue(r) ==
    /\ r.kind = "claim" => \E d \in Present : r.on = {d} /\ MayLink(d, r.user)
    /\ r.kind = "update" /\ r.user # None => \E d \in Present : r.on = {d} /\ MayLink(d, r.user)
    /\ r.kind = "insert" /\ r.user # None =>
           \E d \in Device \ Present : r.on = {d} /\ MayLink(d, r.user)
    /\ r.kind = "delete account" => r.on = Owned(r.user)
    /\ r.kind = "grant" => \A d \in r.on : row[d].owner = r.user

Unovertaken == \A w \in Worker : ~req[w].stale => StillTrue(req[w])

\* What a share's row says: its granter is an account.
SharesFit == \A d \in Device, u \in User : share[d][u] # NoShare => share[d][u].by \in User

AccessInv ==
    /\ TypeOK /\ Shapes /\ AbsentIsBare /\ RequestsFit /\ SharesFit /\ Unovertaken
    /\ \A u \in User : allowance[u] <= best[u]
    /\ AllowanceHeld /\ LinksAgree
=============================================================================
