------------------------------ MODULE Circles -------------------------------
(***************************************************************************)
(* One family circle (src/server/routes/circles.py): its members, the      *)
(* devices they share with it, its invite code, and what becomes of it     *)
(* when a device or a member's account is deleted.  A handler checks in one *)
(* step and writes in another; the statements of one write are one step,   *)
(* except those of an account's deletion.  The tables' foreign keys hold   *)
(* on both stores; only SQLite undoes the rest of a request that violates  *)
(* one.                                                                    *)
(***************************************************************************)
EXTENDS Integers, FiniteSets

CONSTANTS
    Worker,
    User,
    Device,
    MaxCodes,       \* bound on invite codes
    MaxChanges,     \* bound on changes of who administers a device
    None

VARIABLES
    postgres,   \* MT_DATABASE_URL is set: every statement commits by itself
    circle,     \* "none", "open" or "deleted"
    owner,      \* circles.owner_id
    code,       \* circles.invite_code, by its number
    members,    \* circle_members
    shared,     \* circle_devices: who shares each device with the circle
    account,    \* users that exist
    holder,     \* devices.owner_id; None once the device is deleted
    admins,     \* device_shares with the role admin
    changes,    \* how often the admins changed
    req,        \* what each worker's request has decided and not yet written
    overtaken   \* history: a request wrote after another one it had not seen

CirclesConstants == MaxCodes \in Nat \ {0}

vars == <<postgres, circle, owner, code, members, shared, account, holder, admins, changes, req,
          overtaken>>

NoRequest == [kind |-> "none", user |-> None, on |-> None, stale |-> FALSE]

Init ==
    /\ postgres \in BOOLEAN
    /\ circle = "none" /\ owner = None /\ code = 1
    /\ members = {}
    /\ shared = [d \in Device |-> None]
    /\ account = User
    /\ holder \in [Device -> User]
    /\ admins = [d \in Device |-> {}]
    /\ changes = 0
    /\ req = [w \in Worker |-> NoRequest]
    /\ overtaken = FALSE

Decides(w, kind, u, on) ==
    /\ req[w] = NoRequest
    /\ req' = [req EXCEPT ![w] = [kind |-> kind, user |-> u, on |-> on, stale |-> FALSE]]
    /\ UNCHANGED <<postgres, circle, owner, code, members, shared, account, holder, admins, changes,
                   overtaken>>

CommitsAs(w, next) ==
    /\ req' = [v \in Worker |-> IF v = w THEN next
                                ELSE IF req[v] = NoRequest THEN NoRequest
                                ELSE [req[v] EXCEPT !.stale = TRUE]]
    /\ overtaken' = (overtaken \/ req[w].stale)

Commits(w) == CommitsAs(w, NoRequest)
-----------------------------------------------------------------------------
\* create_circle: the circle and its owner's membership, who is its one administrator.
Create(w, u) ==
    /\ req[w] = NoRequest /\ circle = "none" /\ u \in account
    /\ circle' = "open" /\ owner' = u /\ members' = {u}
    /\ Commits(w)
    /\ UNCHANGED <<postgres, code, shared, account, holder, admins, changes>>

\* join_circle, with the code of the moment.
LookJoin(w, u) ==
    /\ circle = "open" /\ u \notin members
    /\ Decides(w, "join", u, None)

\* The keys of the table refuse a circle or an account that has gone.
WriteJoin(w) ==
    /\ req[w].kind = "join"
    /\ members' = IF circle = "open" /\ req[w].user \in account THEN members \cup {req[w].user}
                  ELSE members
    /\ Commits(w)
    /\ UNCHANGED <<postgres, circle, owner, code, shared, account, holder, admins, changes>>

\* share_device_to_circle: by its owner or an account with the role admin.
LookShare(w, u, d) ==
    /\ u \in members /\ holder[d] # None
    /\ u = holder[d] \/ u \in admins[d]
    /\ Decides(w, "share", u, d)

WriteShare(w) ==
    LET r == req[w] IN
    /\ r.kind = "share"
    /\ shared' = IF circle = "open" /\ holder[r.on] # None /\ r.user \in account
                 THEN [shared EXCEPT ![r.on] = r.user] ELSE shared
    /\ Commits(w)
    /\ UNCHANGED <<postgres, circle, owner, code, members, account, holder, admins, changes>>

\* remove_device_from_circle: the administrator, or who shared it.
LookUnshare(w, u, d) ==
    /\ u \in members /\ shared[d] # None /\ u \in {owner, shared[d]}
    /\ Decides(w, "unshare", u, d)

WriteUnshare(w) ==
    /\ req[w].kind = "unshare"
    /\ shared' = [shared EXCEPT ![req[w].on] = None]
    /\ Commits(w)
    /\ UNCHANGED <<postgres, circle, owner, code, members, account, holder, admins, changes>>

\* remove_member by the administrator, and leave_circle; the owner does neither.
LookPart(w, u, who) ==
    /\ circle = "open" /\ who # owner
    /\ u = who \/ (u = owner /\ u \in members)
    /\ Decides(w, "part", u, who)

\* Mutant of Parts: the devices stay in the circle.
PartsAlone(who) == members' = members \ {who} /\ shared' = shared

\* The member goes, and the devices it shared.
Parts(who) ==
    /\ members' = members \ {who}
    /\ shared' = [d \in Device |-> IF shared[d] = who THEN None ELSE shared[d]]

WritePart(w) ==
    /\ req[w].kind = "part"
    /\ Parts(req[w].on)
    /\ Commits(w)
    /\ UNCHANGED <<postgres, circle, owner, code, account, holder, admins, changes>>

\* delete_circle
LookDelete(w, u) ==
    /\ circle = "open" /\ u = owner
    /\ Decides(w, "delete", u, None)

WriteDelete(w) ==
    /\ req[w].kind = "delete"
    /\ circle' = "deleted" /\ owner' = None
    /\ members' = {} /\ shared' = [d \in Device |-> None]
    /\ Commits(w)
    /\ UNCHANGED <<postgres, code, account, holder, admins, changes>>

\* refresh_invite_code
LookRefresh(w, u) ==
    /\ u = owner /\ u \in members
    /\ Decides(w, "refresh", u, None)

WriteRefresh(w) ==
    /\ req[w].kind = "refresh" /\ code < MaxCodes
    /\ code' = IF circle = "open" THEN code + 1 ELSE code
    /\ Commits(w)
    /\ UNCHANGED <<postgres, circle, owner, members, shared, account, holder, admins, changes>>
-----------------------------------------------------------------------------
\* The owner of a device makes an account its administrator or no longer so.
Administer(d, u) ==
    /\ holder[d] \notin {None, u} /\ changes < MaxChanges
    /\ admins' = [admins EXCEPT ![d] = IF u \in @ THEN @ \ {u} ELSE @ \cup {u}]
    /\ changes' = changes + 1
    /\ UNCHANGED <<postgres, circle, owner, code, members, shared, account, holder, req, overtaken>>

\* The rows of a device's shares go with it, those with the circle by ON DELETE CASCADE.
WithoutDevices(ds) ==
    /\ holder' = [d \in Device |-> IF d \in ds THEN None ELSE holder[d]]
    /\ admins' = [d \in Device |-> IF d \in ds THEN {} ELSE admins[d]]
    /\ shared' = [d \in Device |-> IF d \in ds THEN None ELSE shared[d]]

DeleteDevice(d) ==
    /\ holder[d] # None
    /\ WithoutDevices({d})
    /\ UNCHANGED <<postgres, circle, owner, code, members, account, changes, req, overtaken>>

Held(u) == {d \in Device : holder[d] = u}

\* Rows that refer to the account without a cascade.
Referenced(u) == u = owner \/ u \in members \/ \E d \in Device : shared[d] = u

\* delete_user_account on SQLite: what refers to the account undoes all of it.
DeleteAccount(w, u) ==
    /\ ~postgres /\ req[w] = NoRequest /\ u \in account
    /\ ~(u = owner \/ u \in members \/ \E d \in Device \ Held(u) : shared[d] = u)
    /\ WithoutDevices(Held(u))
    /\ account' = account \ {u}
    /\ Commits(w)
    /\ UNCHANGED <<postgres, circle, owner, code, members, changes>>

\* On Postgres the devices are deleted first, each for itself,
DeleteDevices(w, u) ==
    /\ postgres /\ req[w] = NoRequest /\ u \in account
    /\ WithoutDevices(Held(u))
    /\ CommitsAs(w, [kind |-> "account", user |-> u, on |-> None, stale |-> FALSE])
    /\ UNCHANGED <<postgres, circle, owner, code, members, account, changes>>

\* Mutant of Dropped: the account's row goes in spite of what refers to it.
DroppedAnyway(u) == account \ {u}

Dropped(u) == IF Referenced(u) THEN account ELSE account \ {u}

\* then the account, unless something refers to it.
DeleteUser(w) ==
    /\ req[w].kind = "account"
    /\ account' = Dropped(req[w].user)
    /\ Commits(w)
    /\ UNCHANGED <<postgres, circle, owner, code, members, shared, holder, admins, changes>>

Next ==
    \/ \E w \in Worker :
           \/ \E u \in User :
                  Create(w, u) \/ LookJoin(w, u) \/ LookDelete(w, u) \/ LookRefresh(w, u)
           \/ \E u \in User, d \in Device : LookShare(w, u, d) \/ LookUnshare(w, u, d)
           \/ \E u, who \in User : LookPart(w, u, who)
           \/ WriteJoin(w) \/ WriteShare(w) \/ WriteUnshare(w) \/ WritePart(w) \/ WriteDelete(w)
           \/ WriteRefresh(w)
           \/ \E u \in User : DeleteAccount(w, u) \/ DeleteDevices(w, u)
           \/ DeleteUser(w)
    \/ \E d \in Device : DeleteDevice(d) \/ \E u \in User : Administer(d, u)

Spec == Init /\ [][Next]_vars
-----------------------------------------------------------------------------
\* Every variable has its type, and what refers to an account or to the circle
\* finds it (the tables' foreign keys).
TypeOK ==
    /\ circle \in {"none", "open", "deleted"} /\ code \in 1..MaxCodes
    /\ members \subseteq account /\ owner \in account \cup {None}
    /\ \A d \in Device : shared[d] \in account \cup {None}
    /\ circle # "open" => members = {} /\ \A d \in Device : shared[d] = None
    /\ overtaken \in BOOLEAN

\* As long as no request is overtaken between its check and its write, a device is in
\* the circle only for a member who shared it (remove_member, leave_circle: "Also
\* remove any devices they shared").
SharersAreMembers == ~overtaken => \A d \in Device : shared[d] \in members \cup {None}
-----------------------------------------------------------------------------
(* The inductive invariant *)

Kinds == {"none", "join", "share", "unshare", "part", "delete", "refresh", "account"}
Requests == [kind: Kinds, user: User \cup {None}, on: User \cup Device \cup {None},
             stale: BOOLEAN]

\* What a request that nothing overtook found when it looked is so still.
LooksHold ==
    \A w \in Worker :
        req[w].kind = "share" => /\ req[w].on \in Device
                                 /\ ~req[w].stale => req[w].user \in members

CirclesInv ==
    /\ TypeOK
    /\ shared \in [Device -> User \cup {None}]
    /\ req \in [Worker -> Requests] /\ LooksHold /\ SharersAreMembers
=============================================================================
