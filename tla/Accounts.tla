------------------------------ MODULE Accounts ------------------------------
(***************************************************************************)
(* Accounts, sessions, devices and bans, and what they do to the live      *)
(* subscriptions (apps/server/server.js, apps/server/store.js).  No        *)
(* transaction spans the queries of a handler, so a ban or a deletion runs *)
(* between the queries of the sign-in, the device registration and the     *)
(* subscribe that it is meant to stop, and the other way round.            *)
(*                                                                         *)
(* A step here is one query with the code that ran since the last answer;  *)
(* where the answer itself changes the process's memory it is a step of    *)
(* its own.  Passwords are right and bodies well-formed: what a refused    *)
(* sign-in counts is another component's business.                         *)
(***************************************************************************)
EXTENDS FiniteSets, Integers

CONSTANTS
  Handles,     \* usernames
  Clients,     \* keys of browsers and phones: one token, card and mailbox each
  DeviceIds,   \* what a card is registered under, of a client's choice
  Of,          \* Of[c]: the handle that client c signs in with
  Jobs,        \* moderation and deletion handlers in flight (a bound)
  InFlight,    \* handlers of any kind in flight at once (a bound)
  Ops,         \* the kinds of them that happen: see JobOps
  MaxDevices,  \* CFG.maxDevicesPerAccount
  Failures     \* may queries fail?

JobOps == {"ban", "unban", "delete", "selfdelete", "clear", "forget"}

ASSUME AccountsAssumption ==
  /\ Of \in [Clients -> Handles]
  /\ Ops \subseteq JobOps
  /\ InFlight \in Nat
  /\ MaxDevices \in Nat \ {0}
  /\ Failures \in BOOLEAN

VARIABLES
  accounts,    \* rows of accounts
  banned,      \* those with banned = TRUE
  sessions,    \* clients whose token is in the sessions table
  devices,     \* clients whose card a device row has
  idOf,        \* idOf[c]: the device id of c's row, or of its last one
  bannedMbkeys, \* the set in memory, by the mailbox's client
  live,        \* clients with an open socket subscribed to their mailbox
  orphaned,    \* history: those whose row another card took over meanwhile
  request,     \* request[c]: the next query of c's handler in flight
  job,         \* job[j]: likewise, with what it has read
  late,        \* history: late[u], a ban or removal of u was overlapped or cut
  stale        \* history: two refreshes of bannedMbkeys overlapped, or one failed

rows == <<accounts, banned, sessions, devices, idOf>>
memory == <<bannedMbkeys, live, orphaned>>
history == <<late, stale>>
vars == <<rows, memory, request, job, history>>

DevicesOf(u) == {c \in devices : Of[c] = u}
BannedDevices == {c \in devices : Of[c] \in banned}      \* allBannedMbkeys

Idle == [op |-> "none"]
JobSteps == {"mark", "revoke", "unmark", "wipe", "drop", "remove",
             "refresh", "query", "fill", "close"}
JobStates ==
  {Idle} \cup [op : JobOps, of : Handles, keeps : SUBSET DeviceIds, step : JobSteps,
               mbks : SUBSET Clients, found : SUBSET Clients]

Requests == {c \in Clients : request[c] # "none"}
Running == {j \in Jobs : job[j] # Idle}
Room == Cardinality(Requests) + Cardinality(Running) < InFlight

JobOn(u) == \E j \in Running : job[j].of = u
Asking(u) == \E c \in Requests : Of[c] = u

Init ==
  /\ accounts = {} /\ banned = {} /\ sessions = {}
  /\ devices = {} /\ idOf \in [Clients -> DeviceIds]
  /\ bannedMbkeys = {} /\ live = {} /\ orphaned = {}
  /\ request = [c \in Clients |-> "none"]
  /\ job = [j \in Jobs |-> Idle]
  /\ late = [u \in Handles |-> FALSE]
  /\ stale = FALSE

-----------------------------------------------------------------------------
(* Requests of a client.  A handler's first query finds it with "none".    *)

\* From one query of c's handler to the next.
Goes(c, from, to) ==
  /\ request[c] = from
  /\ request' = [request EXCEPT ![c] = to]

\* A first query that meets a job on the same account overlaps it.
Begins(c, to) ==
  /\ Room /\ Goes(c, "none", to)
  /\ late' = [late EXCEPT ![Of[c]] = @ \/ JobOn(Of[c])]

Register(c) ==
  /\ Of[c] \notin accounts
  /\ Begins(c, "create")
  /\ UNCHANGED <<rows, memory, job, stale>>

\* The primary key decides between two registrations of one handle.
CreateAccount(c) ==
  /\ IF Of[c] \in accounts THEN Goes(c, "create", "none") ELSE Goes(c, "create", "session")
  /\ accounts' = accounts \cup {Of[c]}
  /\ UNCHANGED <<banned, sessions, devices, idOf, memory, job, history>>

\* getAccount; acc.banned is looked at after scrypt, but read here.
SignInUnchecked(c) == Of[c] \in accounts
SignInAllowed(c) == Of[c] \in accounts \ banned

Login(c) ==
  /\ SignInAllowed(c)
  /\ Begins(c, "session")
  /\ UNCHANGED <<rows, memory, job, stale>>

CreateSession(c) ==
  /\ Goes(c, "session", "none")
  /\ sessions' = sessions \cup {c}
  /\ UNCHANGED <<accounts, banned, devices, idOf, memory, job, history>>

\* Also a session that is past its expires_at.
Logout(c) ==
  /\ c \in sessions /\ request[c] = "none"
  /\ sessions' = sessions \ {c}
  /\ UNCHANGED <<accounts, banned, devices, idOf, memory, request, job, history>>

DeviceRequest(c) ==
  /\ c \in sessions
  /\ Begins(c, "isBanned")
  /\ UNCHANGED <<rows, memory, job, stale>>

DeviceBanCheck(c) ==
  /\ IF Of[c] \in banned THEN Goes(c, "isBanned", "none") ELSE Goes(c, "isBanned", "addDevice")
  /\ UNCHANGED <<rows, memory, job, history>>

\* One transaction under the account's row lock; devices reference accounts, and
\* the unique index on mbkey refuses a mailbox that another row has.
HasRoom(c, id) == Cardinality({d \in DevicesOf(Of[c]) : idOf[d] # id}) < MaxDevices
MailboxTaken(c, id) == c \in devices /\ idOf[c] # id
MayAddToAny(c, id) == HasRoom(c, id) /\ ~MailboxTaken(c, id)
MayAddDevice(c, id) == HasRoom(c, id) /\ Of[c] \in accounts /\ ~MailboxTaken(c, id)

\* ON CONFLICT(username, device_id) DO UPDATE SET card, mbkey: the card takes over
\* the row of its device id, and no socket of the one before is closed.
Replaced(c, id) == {d \in DevicesOf(Of[c]) \ {c} : idOf[d] = id}
Listening == live \cup {c \in Clients : request[c] = "subscribe"}

AddDevice(c, id) ==
  /\ Goes(c, "addDevice", "none")
  /\ IF MayAddDevice(c, id)
     THEN /\ devices' = (devices \ Replaced(c, id)) \cup {c}
          /\ idOf' = [idOf EXCEPT ![c] = id]
          /\ orphaned' = (orphaned \cup (Replaced(c, id) \cap Listening)) \ {c}
     ELSE UNCHANGED <<devices, idOf, orphaned>>
  /\ UNCHANGED <<accounts, banned, sessions, bannedMbkeys, live, job, history>>

\* A new socket's subscribe: the ban set is consulted before any query.
NotBannedInMemory(c) == c \notin bannedMbkeys

SubscribeMessage(c) ==
  /\ c \notin live
  /\ NotBannedInMemory(c)
  /\ Begins(c, "sessionUser")
  /\ UNCHANGED <<rows, memory, job, stale>>

SubscribeSession(c) ==
  /\ IF c \in sessions THEN Goes(c, "sessionUser", "deviceMbkeys")
                       ELSE Goes(c, "sessionUser", "none")
  /\ UNCHANGED <<rows, memory, job, history>>

OwnsAnything(c) == TRUE
OwnsMailbox(c) == c \in devices

SubscribeOwned(c) ==
  /\ IF OwnsMailbox(c) THEN Goes(c, "deviceMbkeys", "subscribe")
                       ELSE Goes(c, "deviceMbkeys", "none")
  /\ UNCHANGED <<rows, memory, job, history>>

Subscribed(c) ==
  /\ Goes(c, "subscribe", "none")
  /\ live' = live \cup {c}
  /\ UNCHANGED <<rows, bannedMbkeys, orphaned, job, history>>

\* The socket closes, with or without a subscribe in flight.
Disconnect(c) ==
  /\ c \in live \/ request[c] \in {"sessionUser", "deviceMbkeys", "subscribe"}
  /\ live' = live \ {c} /\ orphaned' = orphaned \ {c}
  /\ request' = [request EXCEPT ![c] =
       IF @ \in {"sessionUser", "deviceMbkeys", "subscribe"} THEN "none" ELSE @]
  /\ UNCHANGED <<rows, bannedMbkeys, job, history>>

\* A query throws: the client gets an error, what was written stays.
RequestFails(c) ==
  /\ Failures
  /\ request[c] # "none"
  /\ request' = [request EXCEPT ![c] = "none"]
  /\ UNCHANGED <<rows, memory, job, history>>

-----------------------------------------------------------------------------
(* Bans, deletions and device removals                                     *)

\* deviceMbkeys comes first; the sockets of what it returns are closed last.
MailboxesToClose(op, u, keeps) ==
  {c \in DevicesOf(u) : op # "unban" /\ idOf[c] \notin keeps}

FirstStep(op) ==
  CASE op = "ban" -> "mark" [] op = "unban" -> "unmark"
    [] op \in {"delete", "selfdelete"} -> "wipe" [] op \in {"clear", "forget"} -> "remove"

\* The account's own clients may ask for selfdelete and forget, an admin for the
\* rest, and of any handle.
MayStart(op, u) ==
  op \in {"selfdelete", "forget"} => \E c \in sessions : Of[c] = u

\* forget names the device id that stays.
Keeping(op) == IF op = "forget" THEN {{id} : id \in DeviceIds} ELSE {{}}

StartJob(j, op, u, keeps) ==
  /\ Room /\ job[j] = Idle
  /\ MayStart(op, u)
  /\ job' = [job EXCEPT ![j] = [op |-> op, of |-> u, step |-> FirstStep(op), keeps |-> keeps,
                                mbks |-> MailboxesToClose(op, u, keeps), found |-> {}]]
  /\ late' = [late EXCEPT ![u] = @ \/ Asking(u) \/ JobOn(u)]
  /\ UNCHANGED <<rows, memory, request, stale>>

\* From one query of the job to the next.
Steps(j, from, to) ==
  /\ job[j] # Idle /\ job[j].step = from
  /\ job' = [job EXCEPT ![j].step = to]

\* UPDATE accounts SET banned=TRUE (nothing to update when the row is gone).
Mark(j) ==
  /\ Steps(j, "mark", "revoke")
  /\ banned' = banned \cup (accounts \cap {job[j].of})
  /\ UNCHANGED <<accounts, sessions, devices, idOf, memory, request, history>>

\* DELETE FROM sessions; the queue of each mailbox follows.
SessionsAfterRevoke(u) == {c \in sessions : Of[c] # u}

Revoke(j) ==
  /\ Steps(j, "revoke", "refresh")
  /\ sessions' = SessionsAfterRevoke(job[j].of)
  /\ UNCHANGED <<accounts, banned, devices, idOf, memory, request, history>>

Unmark(j) ==
  /\ Steps(j, "unmark", "refresh")
  /\ banned' = banned \ {job[j].of}
  /\ UNCHANGED <<accounts, sessions, devices, idOf, memory, request, history>>

\* deleteAccount: sessions, then (blob and files aside) the row; devices cascade.
Wipe(j) ==
  /\ Steps(j, "wipe", "drop")
  /\ sessions' = SessionsAfterRevoke(job[j].of)
  /\ UNCHANGED <<accounts, banned, devices, idOf, memory, request, history>>

Drop(j) ==
  /\ Steps(j, "drop", IF job[j].op = "delete" THEN "refresh" ELSE "close")
  /\ accounts' = accounts \ {job[j].of}
  /\ banned' = banned \ {job[j].of}
  /\ devices' = devices \ DevicesOf(job[j].of)
  /\ UNCHANGED <<sessions, idOf, memory, request, history>>

\* clearDevices and clearOtherDevices: the DELETE is a query of its own.
Remove(j) ==
  /\ Steps(j, "remove", "close")
  /\ devices' = devices \ {d \in DevicesOf(job[j].of) : idOf[d] \notin job[j].keeps}
  /\ UNCHANGED <<accounts, banned, sessions, idOf, memory, request, history>>

\* refreshBans: clear, await the query, fill.
Refreshing == \E j \in Running : job[j].step \in {"query", "fill"}

ClearBans(j) ==
  /\ Steps(j, "refresh", "query")
  /\ bannedMbkeys' = {}
  /\ stale' = Refreshing
  /\ UNCHANGED <<rows, live, orphaned, request, late>>

QueryBans(j) ==
  /\ job[j] # Idle /\ job[j].step = "query"
  /\ job' = [job EXCEPT ![j].step = "fill", ![j].found = BannedDevices]
  /\ UNCHANGED <<rows, memory, request, history>>

\* The sockets of these mailboxes that ws.close leaves open.
OpenAfter(mbks) == live \ mbks

FillOwn(j) == job[j].found \cap job[j].mbks
Fill(j) == job[j].found

FillBans(j) ==
  /\ job[j] # Idle /\ job[j].step = "fill"
  /\ bannedMbkeys' = bannedMbkeys \cup Fill(j)
  /\ live' = OpenAfter(job[j].mbks)
  /\ job' = [job EXCEPT ![j] = Idle]
  /\ UNCHANGED <<rows, orphaned, request, history>>

CloseSockets(j) ==
  /\ job[j] # Idle /\ job[j].step = "close"
  /\ live' = OpenAfter(job[j].mbks)
  /\ job' = [job EXCEPT ![j] = Idle]
  /\ UNCHANGED <<rows, bannedMbkeys, orphaned, request, history>>

\* A query of the job throws, and the rest of it never runs.
JobFails(j) ==
  /\ Failures
  /\ job[j] # Idle
  /\ job' = [job EXCEPT ![j] = Idle]
  /\ late' = [late EXCEPT ![job[j].of] = TRUE]
  /\ stale' = TRUE
  /\ UNCHANGED <<rows, memory, request>>

\* The process ends; main() loads the ban set before it listens.
Crash ==
  /\ bannedMbkeys' = BannedDevices
  /\ live' = {} /\ orphaned' = {}
  /\ request' = [c \in Clients |-> "none"]
  /\ job' = [j \in Jobs |-> Idle]
  /\ late' = [u \in Handles |-> late[u] \/ \E j \in Running :
                job[j].of = u /\ job[j].step = "revoke"]
  /\ stale' = FALSE
  /\ UNCHANGED rows

ClientNext(c) ==
  \/ Register(c) \/ CreateAccount(c) \/ Login(c) \/ CreateSession(c) \/ Logout(c)
  \/ DeviceRequest(c) \/ DeviceBanCheck(c) \/ \E id \in DeviceIds : AddDevice(c, id)
  \/ SubscribeMessage(c) \/ SubscribeSession(c) \/ SubscribeOwned(c) \/ Subscribed(c)
  \/ Disconnect(c) \/ RequestFails(c)

JobNext(j) ==
  \/ \E op \in Ops, u \in Handles : \E keeps \in Keeping(op) : StartJob(j, op, u, keeps)
  \/ Mark(j) \/ Revoke(j) \/ Unmark(j) \/ Wipe(j) \/ Drop(j) \/ Remove(j)
  \/ ClearBans(j) \/ QueryBans(j) \/ FillBans(j) \/ CloseSockets(j) \/ JobFails(j)

Next ==
  \/ \E c \in Clients : ClientNext(c)
  \/ \E j \in Jobs : JobNext(j)
  \/ Crash

Spec == Init /\ [][Next]_vars

-----------------------------------------------------------------------------
(* Properties *)

\* Every variable has its type, devices have an account and a device id of their
\* own in it, and only accounts are banned (the keys, and the flag's place).
TypeOK ==
  /\ accounts \subseteq Handles /\ banned \subseteq accounts
  /\ sessions \subseteq Clients
  /\ devices \subseteq Clients /\ \A c \in devices : Of[c] \in accounts
  /\ idOf \in [Clients -> DeviceIds]
  /\ \A c, d \in devices : Of[c] = Of[d] /\ idOf[c] = idOf[d] => c = d
  /\ bannedMbkeys \subseteq Clients /\ live \subseteq Clients /\ orphaned \subseteq Clients
  /\ request \in [Clients -> {"none", "create", "session", "isBanned", "addDevice",
                              "sessionUser", "deviceMbkeys", "subscribe"}]
  /\ job \in [Jobs -> JobStates]
  /\ late \in [Handles -> BOOLEAN] /\ stale \in BOOLEAN

Settled(u) == ~JobOn(u) /\ ~late[u]
ShutOut(u) == u \in banned \/ u \notin accounts

\* After a ban or a deletion no session of the account is left, whatever other
\* accounts, refreshes of the ban set and restarts did meanwhile; unless one of
\* its own requests overlapped it, or it was cut short.
NoSessionLeft ==
  \A c \in sessions : Settled(Of[c]) => ~ShutOut(Of[c])

\* Nor is one of its sockets left subscribed, not even the one that found the ban
\* set empty while another moderation refreshed it; unless the row of its device
\* was taken over by another card before, which leaves a socket that no later ban,
\* deletion or removal finds.
NoSocketLeft ==
  \A c \in live \ orphaned : Settled(Of[c]) => ~ShutOut(Of[c])

\* A banned or deleted account is out in both ways, and stays out.
BannedIsOut == NoSessionLeft /\ NoSocketLeft

\* "You may only listen on a mailbox that belongs to one of your own account's
\* devices" (server.js, subscribe), likewise.
ListensOnOwnDevice ==
  \A c \in live \ orphaned : Settled(Of[c]) => c \in devices

\* Once refreshBans is over the set in memory says of every device what the
\* database says of its account, unless two refreshes overlapped or one failed.
BanSetExact ==
  ~stale => \A c \in devices : Settled(Of[c]) /\ ~Refreshing
                                 => (c \in bannedMbkeys <=> Of[c] \in banned)
=============================================================================
