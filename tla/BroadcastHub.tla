---------------------------- MODULE BroadcastHub ----------------------------
(***************************************************************************)
(* Live updates of one device to the dashboards, over several workers      *)
(* (src/server/websocket_manager.py, dashboard_websocket of main.py).      *)
(* Every worker keeps its own connections and its own copy of the device's *)
(* owner.  An update is published on a Redis channel, which every worker's *)
(* listener reads; when Redis fails or nobody listens it is delivered by   *)
(* the worker that raised it.  A change of the owner is told to the other  *)
(* workers over the same channel by a task of its own, which nobody waits  *)
(* for.                                                                    *)
(***************************************************************************)
EXTENDS Integers, Sequences, FiniteSets, Selections

CONSTANTS
    Worker,
    User,           \* accounts
    Admin,          \* ADMIN_OWNER: an operator's session
    Conn,           \* connections of dashboards
    Limit,          \* MAX_DASHBOARD_CONNECTIONS of one worker
    WithRedis,      \* values of "MT_REDIS_URL is set"
    MaxChanges,     \* bound on changes of the owner and of the shares
    MaxFaults,      \* bound on failures of Redis, of the database and of a connection
    None

Roles == {"none", "device_only", "viewer"}
Idle == "idle"
Senders == {"listener", "handler"}

HubConstants ==
    /\ Admin \notin User /\ Idle \notin User
    /\ None \notin BOOLEAN /\ None \notin User \cup Worker \cup {Admin, Idle}
    /\ Limit \in Nat \ {0} /\ IsFiniteSet(Worker)

VARIABLES
    redis,      \* MT_REDIS_URL is set
    owner,      \* devices.owner_id
    share,      \* device_shares.role of each account; "viewer" stands for "admin" too
    changes,    \* how many changes there were
    changing,   \* per worker: the owner it has committed and not yet announced
    tasks,      \* announcements that wait for their turn to publish
    inbox,      \* per worker: what its listener has still to read
    listening,  \* workers whose listener is subscribed
    cache,      \* _device_owners
    conns,      \* active_dashboard_connections
    socket,     \* one record for each connection
    update,     \* the device's update: "none", "publishing" or "out"
    feeds,      \* deliveries in progress, by worker: of its listener, of its handler
    faults,     \* how many failures there were
    got,        \* how often each connection received the update
    seen,       \* history: accounts that could see the device since they connected
    owned,      \* history: accounts that owned the device
    overlapped, \* history: an announcement was made while another was on its way
    missed,     \* history: an announcement did not reach a worker
    unanswered, \* history: Redis took the update and its answer was lost
    crowded     \* history: a connection came while another waited for its place

vars == <<redis, owner, share, changes, changing, tasks, inbox, listening, cache, conns, socket,
          update, feeds, faults, got, seen, owned, overlapped, missed, unanswered, crowded>>
data == <<owner, share, changes, changing, owned>>
bus == <<tasks, inbox, listening>>
flags == <<overlapped, missed, unanswered, crowded>>

NoFeed == [message |-> None, left |-> <<>>, dead |-> {}]
Closed == [at |-> "closed", worker |-> None, user |-> None, allowed |-> None, victim |-> None]

Init ==
    /\ redis \in WithRedis
    /\ owner \in User \cup {None}
    /\ share = [u \in User |-> "none"]
    /\ changes = 0
    /\ changing = [w \in Worker |-> Idle]
    /\ tasks = {}
    /\ inbox = [w \in Worker |-> <<>>]
    /\ listening = IF redis THEN Worker ELSE {}
    /\ cache = [w \in Worker |-> None]
    /\ conns = [w \in Worker |-> <<>>]
    /\ socket = [c \in Conn |-> Closed]
    /\ update = "none"
    /\ feeds = [w \in Worker |-> [who \in Senders |-> NoFeed]]
    /\ faults = 0
    /\ got = [c \in Conn |-> 0]
    /\ seen = {}
    /\ owned = {owner} \ {None}
    /\ overlapped = FALSE /\ missed = FALSE /\ unanswered = FALSE /\ crowded = FALSE

Fails == faults < MaxFaults /\ faults' = faults + 1

Announcement(o) == [type |-> "device_owner_changed", owner |-> o, id |-> changes]

IsAnnouncement(m) == m.type = "device_owner_changed"

\* An owner is on its way to some worker's cache.
InFlight ==
    \/ tasks # {}
    \/ \E w \in Worker :
           changing[w] # Idle \/ \E i \in DOMAIN inbox[w] : IsAnnouncement(inbox[w][i])

\* Who finds the device's position in the device list: its owner, and whoever it
\* is shared with unless for its status alone.
ListShows(u, o, role) == u = o \/ role = "viewer"

\* Connections whose account could see the position at some time since they opened.
Witnessed ==
    seen' = seen \cup {c \in Conn : LET u == socket'[c].user IN
                                    u \in User /\ ListShows(u, owner', share'[u])}

\* A request commits another owner: a claim, a registration or a deletion.
CommitOwner(w, o) ==
    /\ o # owner /\ changes < MaxChanges
    /\ owner' = o
    /\ changes' = changes + 1
    /\ changing' = [changing EXCEPT ![w] = o]
    /\ owned' = owned \cup ({o} \ {None})
    /\ share' = IF o = None THEN [u \in User |-> "none"] ELSE share
    /\ overlapped' = (overlapped \/ InFlight)
    /\ UNCHANGED <<redis, bus, cache, conns, socket, update, feeds, faults, got, missed,
                   unanswered, crowded>>
    /\ Witnessed

\* Mutant of Announced: the other workers are not told.
AnnouncedHere(o) == tasks' = tasks

\* _schedule_owner_change_publish: a task for the event loop, nobody waits for it.
Announced(o) == tasks' = IF redis THEN tasks \cup {Announcement(o)} ELSE tasks

\* update_device_owner, after the commit.
UpdateOwner(w) ==
    /\ changing[w] # Idle
    /\ cache' = [cache EXCEPT ![w] = changing[w]]
    /\ Announced(changing[w])
    /\ changing' = [changing EXCEPT ![w] = Idle]
    /\ missed' = (missed \/ (~redis /\ Cardinality(Worker) > 1))
    /\ UNCHANGED <<redis, owner, share, changes, owned, inbox, listening, conns, socket, update,
                   feeds, faults, got, seen, overlapped, unanswered, crowded>>

\* What Redis takes reaches the workers that listen.
Delivered(m) ==
    inbox' = [w \in Worker |-> IF w \in listening THEN Append(inbox[w], m) ELSE inbox[w]]

Publish(m) ==
    /\ m \in tasks
    /\ tasks' = tasks \ {m}
    /\ \/ Delivered(m) /\ missed' = (missed \/ listening # Worker) /\ UNCHANGED faults
       \/ UNCHANGED inbox /\ missed' = TRUE /\ Fails
    /\ UNCHANGED <<redis, data, listening, cache, conns, socket, update, feeds, got, seen,
                   overlapped, unanswered, crowded>>

\* The owner shares the device with an account, changes its role or ends the share.
ShareDevice(u, role) ==
    /\ changes < MaxChanges /\ owner \notin {None, u} /\ share[u] # role
    /\ share' = [share EXCEPT ![u] = role]
    /\ changes' = changes + 1
    /\ UNCHANGED <<redis, owner, changing, owned, bus, cache, conns, socket, update, feeds, faults,
                   got, flags>>
    /\ Witnessed
-----------------------------------------------------------------------------
Members(w) == {conns[w][i] : i \in DOMAIN conns[w]}

\* Mutant of AllowedSet: a share of any role lets the connection receive updates.
AllowedSetAnyRole(u) == u = owner \/ share[u] # "none"

\* The devices a connection may receive, read when it opens: owned, and shared
\* for more than a status glance.
AllowedSet(u) == u = owner \/ share[u] \notin {"none", "device_only"}

\* The device of the account that connects is announced to every worker.
Hydrate(w, u) ==
    IF u = owner
    THEN cache' = [cache EXCEPT ![w] = u] /\ Announced(u) /\ overlapped' = (overlapped \/ InFlight)
    ELSE UNCHANGED <<cache, tasks, overlapped>>

Opened(w, u, allowed) ==
    [at |-> "open", worker |-> w, user |-> u, allowed |-> allowed, victim |-> None]

\* Mutant of HasRoom: one more than the limit.
HasRoomAtLimit(w) == Len(conns[w]) <= Limit

\* can_accept_new_connection
HasRoom(w) == Len(conns[w]) < Limit

\* add_connection
Add(c, w, u, allowed) ==
    /\ socket' = [socket EXCEPT ![c] = Opened(w, u, allowed)]
    /\ conns' = [conns EXCEPT ![w] = Append(@, c)]

\* At the limit the oldest connection is closed first; the handler waits for that.
EvictFirst(c, w, u, allowed) ==
    /\ socket' = [socket EXCEPT ![c] =
           [at |-> "evicting", worker |-> w, user |-> u, allowed |-> allowed,
             victim |-> Head(conns[w])]]
    /\ UNCHANGED conns

Waiting(w) == \E d \in Conn : socket[d].at = "evicting" /\ socket[d].worker = w

\* A dashboard connects.  When the database fails, its account's own devices are
\* recognised by the scope of each update instead.
Connect(c, w, u) ==
    /\ socket[c].at = "closed"
    /\ \E allowed \in IF u = Admin THEN {None} ELSE {AllowedSet(u), None} :
           /\ IF allowed = None /\ u # Admin THEN Fails ELSE UNCHANGED faults
           /\ \/ Hydrate(w, u)
              \/ allowed = None /\ UNCHANGED <<cache, tasks, overlapped>>
           /\ IF HasRoom(w) THEN Add(c, w, u, allowed) ELSE EvictFirst(c, w, u, allowed)
    /\ crowded' = (crowded \/ Waiting(w))
    /\ UNCHANGED <<redis, data, inbox, listening, update, feeds, got, missed, unanswered>>
    /\ Witnessed

\* _safe_remove of the closed connection, if nothing else removed it, and add_connection.
Evict(c) ==
    LET s == socket[c] IN
    /\ s.at = "evicting"
    /\ socket' = [d \in Conn |-> IF d = c THEN Opened(s.worker, s.user, s.allowed)
                                 ELSE IF d = s.victim THEN [socket[d] EXCEPT !.at = "left"]
                                 ELSE socket[d]]
    /\ conns' = [conns EXCEPT ![s.worker] = Append(Kept(@, Conn \ {s.victim}), c)]
    /\ UNCHANGED <<redis, data, bus, cache, update, feeds, faults, got, seen, flags>>

\* _safe_remove
Removed(c, at) ==
    /\ socket' = [socket EXCEPT ![c].at = at]
    /\ conns' = [w \in Worker |-> Kept(conns[w], Conn \ {c})]

Disconnect(c) ==
    /\ socket[c].at \in {"open", "deaf"}
    /\ Removed(c, "left")
    /\ UNCHANGED <<redis, data, bus, cache, update, feeds, faults, got, seen, flags>>

\* The heartbeat finds no pong for 90 seconds: the connection leaves the list,
\* and its socket stays open.
Prune(c) ==
    /\ socket[c].at = "open"
    /\ Removed(c, "deaf")
    /\ UNCHANGED <<redis, data, bus, cache, update, feeds, faults, got, seen, flags>>
-----------------------------------------------------------------------------
\* _resolve_scope_owner: the cached owner, or on a miss the table's, which is cached.
Scope(w, o) ==
    IF cache[w] # None THEN o = cache[w] /\ UNCHANGED cache
    ELSE \/ o = owner /\ cache' = [cache EXCEPT ![w] = owner]
         \/ o = None /\ UNCHANGED cache     \* the database failed

Update(o) == [type |-> "update", owner |-> o]

\* _deliver_locally goes through the connections there are now.
Feed(w, m) == [message |-> m, left |-> conns[w], dead |-> {}]

DeliverLocally(w, m) == feeds' = [feeds EXCEPT ![w]["handler"] = Feed(w, m)]

\* Mutant of Published: the worker delivers its own connections besides.
PublishedBesides(w, m) == Delivered(m) /\ DeliverLocally(w, m) /\ UNCHANGED <<faults, unanswered>>

\* Redis took the update and says that somebody listens.
Published(w, m) == listening # {} /\ Delivered(m) /\ UNCHANGED <<feeds, faults, unanswered>>

\* Nobody listens, Redis failed, or there is none.
Unpublished(w, m) ==
    /\ IF listening = {} THEN UNCHANGED faults ELSE Fails
    /\ UNCHANGED <<inbox, unanswered>>
    /\ DeliverLocally(w, m)

\* Redis took the update and the answer was lost: it is delivered here as well.
Unanswered(w, m) ==
    listening # {} /\ Fails /\ Delivered(m) /\ DeliverLocally(w, m) /\ unanswered' = TRUE

\* broadcast_to_dashboards, of a position the worker has stored.
Broadcast(w) ==
    /\ update = "none"
    /\ update' = "out"
    /\ \E o \in User \cup {None} :
           /\ Scope(w, o)
           /\ \/ redis /\ Published(w, Update(o))
              \/ Unpublished(w, Update(o))
              \/ redis /\ Unanswered(w, Update(o))
    /\ UNCHANGED <<redis, data, tasks, listening, conns, socket, got, seen, overlapped, missed,
                    crowded>>

\* An announcement goes into the worker's cache.
Heard(w, m) == cache' = [cache EXCEPT ![w] = m.owner]

\* redis_broadcast_listener: one message after the other.
Listen(w) ==
    /\ inbox[w] # <<>> /\ feeds[w]["listener"] = NoFeed
    /\ inbox' = [inbox EXCEPT ![w] = Tail(@)]
    /\ LET m == Head(inbox[w]) IN
       IF IsAnnouncement(m) THEN Heard(w, m) /\ UNCHANGED feeds
       ELSE feeds' = [feeds EXCEPT ![w]["listener"] = Feed(w, m)] /\ UNCHANGED cache
    /\ UNCHANGED <<redis, data, tasks, listening, conns, socket, update, faults, got, seen, flags>>

\* The listener's connection breaks: what it had not read is lost.
LoseListener(w) ==
    /\ w \in listening /\ feeds[w]["listener"] = NoFeed /\ Fails
    /\ listening' = listening \ {w}
    /\ inbox' = [inbox EXCEPT ![w] = <<>>]
    /\ missed' = (missed \/ \E i \in DOMAIN inbox[w] : IsAnnouncement(inbox[w][i]))
    /\ UNCHANGED <<redis, data, tasks, cache, conns, socket, update, feeds, got, seen, overlapped,
                   unanswered, crowded>>

Resubscribe(w) ==
    /\ redis /\ w \notin listening
    /\ listening' = listening \cup {w}
    /\ UNCHANGED <<redis, data, faults, tasks, inbox, cache, conns, socket, update, feeds, got,
                    seen, flags>>

\* _connection_can_receive, of a connection that is in the list.
CanReceive(c, m) ==
    \/ socket[c].user = Admin
    \/ IF socket[c].allowed # None THEN socket[c].allowed ELSE m.owner = socket[c].user

\* One step of _deliver_locally: the next connection, or the end, where the
\* connections that failed are removed.
Send(w, who) ==
    LET f == feeds[w][who] IN
    /\ f # NoFeed
    /\ IF f.left = <<>>
       THEN /\ feeds' = [feeds EXCEPT ![w][who] = NoFeed]
            /\ conns' = [conns EXCEPT ![w] = Kept(@, Conn \ f.dead)]
            /\ socket' = [d \in Conn |-> IF d \in f.dead /\ socket[d].at = "open"
                                         THEN [socket[d] EXCEPT !.at = "deaf"] ELSE socket[d]]
            /\ UNCHANGED <<faults, got>>
       ELSE LET c == Head(f.left)
                rest == [f EXCEPT !.left = Tail(@)] IN
            /\ UNCHANGED <<conns, socket>>
            /\ \/ /\ c \in Members(w) /\ CanReceive(c, f.message)
                  /\ \/ /\ got' = [got EXCEPT ![c] = @ + 1]
                        /\ feeds' = [feeds EXCEPT ![w][who] = rest]
                        /\ UNCHANGED faults
                     \/ /\ feeds' = [feeds EXCEPT ![w][who] = [rest EXCEPT !.dead = @ \cup {c}]]
                        /\ Fails /\ UNCHANGED got
               \/ /\ ~(c \in Members(w) /\ CanReceive(c, f.message))
                  /\ feeds' = [feeds EXCEPT ![w][who] = rest]
                  /\ UNCHANGED <<faults, got>>
    /\ UNCHANGED <<redis, data, bus, cache, update, seen, flags>>

\* Between the commit and the announcement the handler does not give up its event loop.
Runs(w) == changing[w] = Idle

Next ==
    \/ \E w \in Worker : UpdateOwner(w)
    \/ \E w \in Worker :
           /\ Runs(w)
           /\ \/ \E o \in User \cup {None} : CommitOwner(w, o)
              \/ Broadcast(w) \/ Listen(w) \/ LoseListener(w) \/ Resubscribe(w)
              \/ \E who \in Senders : Send(w, who)
              \/ \E c \in Conn, u \in User \cup {Admin} : Connect(c, w, u)
    \/ \E m \in tasks : Publish(m)
    \/ \E u \in User, role \in Roles : ShareDevice(u, role)
    \/ \E c \in Conn : socket[c].worker \in Worker /\ Runs(socket[c].worker)
                     /\ (Evict(c) \/ Disconnect(c) \/ Prune(c))

Spec == Init /\ [][Next]_vars
-----------------------------------------------------------------------------
\* Every variable has its type; a delivery runs only over connections of its worker.
TypeOK ==
    /\ owner \in User \cup {None}
    /\ share \in [User -> Roles]
    /\ changing \in [Worker -> User \cup {None, Idle}]
    /\ cache \in [Worker -> User \cup {None}]
    /\ \A w \in Worker :
           Members(w) \subseteq {c \in Conn : socket[c].at = "open" /\ socket[c].worker = w}
    /\ update \in {"none", "out"}
    /\ got \in [Conn -> Nat]

\* A dashboard receives the device's position only when its account could find
\* it in the device list at some time since the dashboard connected; one that
\* connected while the database failed, only when its account owned the device
\* (websocket_manager.py, _connection_can_receive; the caches may be stale).
NoForeignFeed ==
    \A c \in Conn :
        got[c] > 0 /\ socket[c].user # Admin =>
            IF socket[c].allowed = None THEN socket[c].user \in owned ELSE c \in seen

\* "one delivery per connection, exactly" (broadcast_to_dashboards): a connection
\* receives an update twice only when Redis took it and its answer was lost.
OncePerPublish == ~unanswered => \A c \in Conn : got[c] <= 1

\* When every announcement reached every worker and none was made while another
\* was on its way, no worker's cache holds an owner other than the table's
\* (update_device_owner; announcements are tasks that nobody orders).
CacheAgrees ==
    ~overlapped /\ ~missed /\ ~InFlight => \A w \in Worker : cache[w] \in {None, owner}

\* A worker keeps to MAX_DASHBOARD_CONNECTIONS as long as no dashboard connects
\* while another waits for the oldest to be closed (main.py, dashboard_websocket).
WithinLimit == ~crowded => \A w \in Worker : Len(conns[w]) <= Limit
-----------------------------------------------------------------------------
(* The inductive invariant *)

Owners == User \cup {None}
Announcements == [type: {"device_owner_changed"}, owner: Owners, id: Nat]
Updates == [type: {"update"}, owner: Owners]
Messages == Announcements \cup Updates
Deliveries == [message: Messages \cup {None}, left: Seq(Conn), dead: SUBSET Conn]
Stages == {"closed", "evicting", "open", "deaf", "left"}
Sockets == [at: Stages, worker: Worker \cup {None}, user: User \cup {Admin, None},
            allowed: BOOLEAN \cup {None}, victim: Conn \cup {None}]

HubTypes ==
    /\ owner \in Owners /\ share \in [User -> Roles] /\ changes \in Nat
    /\ changing \in [Worker -> Owners \cup {Idle}] /\ cache \in [Worker -> Owners]
    /\ tasks \subseteq Announcements /\ inbox \in [Worker -> Seq(Messages)]
    /\ conns \in [Worker -> Seq(Conn)] /\ socket \in [Conn -> Sockets]
    /\ feeds \in [Worker -> [Senders -> Deliveries]]
    /\ got \in [Conn -> Nat] /\ owned \subseteq User

\* The lists of the workers, and what a delivery goes through and gives up, are of
\* connections of that worker, each once; who waits for a place waits for another one.
AtWorker(w) == {c \in Conn : socket[c].worker = w}
EachOnce(s) == \A i, j \in DOMAIN s : s[i] = s[j] => i = j

Listed(w) ==
    Members(w) \subseteq {c \in AtWorker(w) : socket[c].at = "open"} /\ EachOnce(conns[w])

GoesThrough(w, who) ==
    LET f == feeds[w][who] IN
    /\ EachOnce(f.left)
    /\ f.dead \cup {f.left[i] : i \in DOMAIN f.left} \subseteq AtWorker(w)

Placed(c) ==
    IF socket[c].at = "closed" THEN socket[c] = Closed /\ got[c] = 0
    ELSE /\ socket[c].worker \in Worker /\ socket[c].user \in User \cup {Admin}
         /\ socket[c].at = "evicting" => /\ socket[c].victim \in AtWorker(socket[c].worker)
                                         /\ socket[c].victim # c

ListsAgree ==
    /\ \A w \in Worker : Listed(w) /\ \A who \in Senders : GoesThrough(w, who)
    /\ \A c \in Conn : Placed(c)

\* Whatever names an owner, on its way or in a cache, names one that there was.
Was(o) == o \in owned \cup {None}

OwnersKnown ==
    /\ Was(owner)
    /\ \A w \in Worker :
           /\ Was(cache[w]) /\ (changing[w] # Idle => Was(changing[w]))
           /\ \A i \in DOMAIN inbox[w] : Was(inbox[w][i].owner)
           /\ \A who \in Senders : feeds[w][who] # NoFeed => Was(feeds[w][who].message.owner)
    /\ \A m \in tasks : Was(m.owner)

\* A set of allowed devices that holds the device was read when the account could see it.
ReadWhenSeen ==
    \A c \in Conn :
        /\ socket[c].allowed = TRUE => c \in seen
        /\ got[c] > 0 /\ socket[c].user # Admin =>
               IF socket[c].allowed = None THEN socket[c].user \in owned
               ELSE socket[c].allowed = TRUE

\* At each worker the update is in one place at most, and before who has not had it.
Unread(w) == {i \in DOMAIN inbox[w] : ~IsAnnouncement(inbox[w][i])}

OnePlace(w) ==
    /\ \A i, j \in Unread(w) : i = j
    /\ Unread(w) # {} => /\ \A who \in Senders : feeds[w][who] = NoFeed
                         /\ \A c \in AtWorker(w) : got[c] = 0
    /\ \A j, k \in Senders : j # k => feeds[w][j] = NoFeed \/ feeds[w][k] = NoFeed
    /\ \A who \in Senders :
           LET left == feeds[w][who].left IN \A i \in DOMAIN left : got[left[i]] = 0

Unsent ==
    /\ \A w \in Worker : Unread(w) = {} /\ \A who \in Senders : feeds[w][who] = NoFeed
    /\ \A c \in Conn : got[c] = 0

InOnePlace ==
    ~unanswered => /\ \A c \in Conn : got[c] <= 1
                   /\ update = "none" => Unsent
                   /\ \A w \in Worker : OnePlace(w)

\* A worker whose copy is not the owner has yet to hear of the owner.
ToHear(w) ==
    \/ tasks # {} \/ \E v \in Worker : changing[v] # Idle
    \/ \E i \in DOMAIN inbox[w] : IsAnnouncement(inbox[w][i])

NewsOf(w) ==
    /\ cache[w] \in {None, owner} \/ ToHear(w)
    /\ changing[w] \in {Idle, owner}
    /\ \A i \in DOMAIN inbox[w] : IsAnnouncement(inbox[w][i]) => inbox[w][i].owner = owner

NewsToCome ==
    ~overlapped /\ ~missed => /\ \A w \in Worker : NewsOf(w)
                             /\ \A m \in tasks : m.owner = owner

\* There is room for the one that waits, or its victim is still in the list.
RoomFor(c) ==
    LET w == socket[c].worker IN
    /\ Len(conns[w]) < Limit \/ socket[c].victim \in Members(w)
    /\ \A d \in Conn : socket[d].at = "evicting" /\ socket[d].worker = w => d = c

RoomToCome ==
    ~crowded => /\ \A w \in Worker : Len(conns[w]) <= Limit
                /\ \A c \in Conn : socket[c].at = "evicting" => RoomFor(c)

HubInv ==
    /\ HubTypes /\ ListsAgree /\ OwnersKnown /\ ReadWhenSeen /\ InOnePlace /\ NewsToCome
    /\ RoomToCome
=============================================================================
