--------------------------- MODULE AccountsProofs ---------------------------
(***************************************************************************)
(* For every set of handles, clients and handlers in flight: types, and    *)
(* what a ban or a removal leaves behind.  The properties speak of a       *)
(* settled account; the inductive invariant says what each step of a lone  *)
(* job has already achieved.                                               *)
(***************************************************************************)
EXTENDS Accounts, TLAPS

USE AccountsAssumption

-----------------------------------------------------------------------------
(* The inductive invariant *)

On(j, u) == job[j] # Idle /\ job[j].of = u
At(j, step) == job[j] # Idle /\ job[j].step = step

\* A job that nothing overlapped belongs to a handler of its kind.
KindOf(op) ==
  CASE op = "ban" -> {"mark", "revoke", "refresh", "query", "fill"}
    [] op = "unban" -> {"unmark", "refresh", "query", "fill"}
    [] op = "delete" -> {"wipe", "drop", "refresh", "query", "fill"}
    [] op = "selfdelete" -> {"wipe", "drop", "close"}
    [] OTHER -> {"remove", "close"}

Kinds ==
  \A j \in Jobs : job[j] # Idle =>
    /\ job[j].step \in KindOf(job[j].op)
    /\ job[j].op # "forget" => job[j].keeps = {}

\* Nothing overlaps a job on an account that is not late.
Alone ==
  \A u \in Handles : ~late[u] =>
    /\ \A j, k \in Jobs : On(j, u) /\ On(k, u) => j = k
    /\ \A j \in Jobs, c \in Clients : On(j, u) /\ Of[c] = u => request[c] = "none"

\* What a request's earlier answers said is still so.
StillTrue ==
  \A c \in Clients : ~late[Of[c]] =>
    /\ request[c] \in {"session", "isBanned", "addDevice"} => ~ShutOut(Of[c])
    /\ request[c] \in {"deviceMbkeys", "subscribe"} => c \in sessions
    /\ request[c] = "subscribe" /\ c \notin orphaned => c \in devices

\* No session outlives a ban or a deletion past the step that revokes it.
Revoked ==
  \A c \in sessions : ~late[Of[c]] =>
    /\ ShutOut(Of[c]) => \E j \in Jobs : On(j, Of[c]) /\ At(j, "revoke")
    /\ \A j \in Jobs : On(j, Of[c]) => ~At(j, "drop")

\* A subscription that no other card orphaned is its owner's, or its socket is on
\* the list of a job.
Listed ==
  \A c \in live \ orphaned : ~late[Of[c]] =>
    \/ c \in devices /\ ~ShutOut(Of[c])
    \/ \E j \in Jobs : On(j, Of[c]) /\ c \in job[j].mbks

\* The list is complete until the job ends, but for the device that is kept.
Kept(j) == {c \in devices : idOf[c] \in job[j].keeps}
Complete ==
  \A j \in Jobs, c \in live \ orphaned : ~late[Of[c]] /\ On(j, Of[c]) /\ job[j].op # "unban" =>
    c \in job[j].mbks \cup Kept(j)

CustodyInv == Kinds /\ Alone /\ StillTrue /\ Revoked /\ Listed /\ Complete

\* The refresh of the ban set: one at a time; what it holds or is about to put
\* there is banned or awaits a refresh, and what is banned will be there.
OneRefresh ==
  ~stale => \A j, k \in Jobs :
    (At(j, "query") \/ At(j, "fill")) /\ (At(k, "query") \/ At(k, "fill")) => j = k

Awaits(u, steps) == \E j \in Jobs : On(j, u) /\ job[j].step \in steps

OnlyBanned ==
  ~stale => \A c \in Clients : ~late[Of[c]] =>
    /\ c \in bannedMbkeys => Of[c] \in banned \/ Awaits(Of[c], {"refresh"})
    /\ \A j \in Jobs : At(j, "fill") /\ c \in job[j].found
         => Of[c] \in banned \/ Awaits(Of[c], {"refresh"})

AllBanned ==
  ~stale => \A c \in devices : ~late[Of[c]] /\ Of[c] \in banned =>
    \/ c \in bannedMbkeys
    \/ \E j \in Jobs : At(j, "query") \/ (At(j, "fill") /\ c \in job[j].found)
    \/ Awaits(Of[c], {"revoke", "refresh"})

\* The owner of a session deletes an account that is not banned.
OwnDeletion ==
  \A j \in Jobs, u \in Handles :
    ~late[u] /\ On(j, u) /\ job[j].op = "selfdelete" => u \notin banned

BanInv == OneRefresh /\ OnlyBanned /\ AllBanned /\ OwnDeletion

-----------------------------------------------------------------------------
(* What a step does to the jobs *)

LEMMA JobType ==
  ASSUME TypeOK, NEW j \in Jobs, job[j] # Idle
  PROVE  /\ job[j] \in [op : JobOps, of : Handles, keeps : SUBSET DeviceIds, step : JobSteps,
                         mbks : SUBSET Clients, found : SUBSET Clients]
         /\ job[j].op \in JobOps /\ job[j].of \in Handles /\ job[j].step \in JobSteps
         /\ job[j].keeps \subseteq DeviceIds /\ job[j].mbks \subseteq Clients
         /\ job[j].found \subseteq Clients
  BY DEF TypeOK, JobStates

\* job[j] moved to another step: only that, and it is still the same job.
Moved(j, to) ==
  /\ job[j] # Idle /\ job'[j] # Idle
  /\ job'[j].op = job[j].op /\ job'[j].of = job[j].of /\ job'[j].keeps = job[j].keeps
  /\ job'[j].mbks = job[j].mbks
  /\ job'[j].step = to
  /\ \A k \in Jobs \ {j} : job'[k] = job[k]

Ended(j) ==
  /\ job[j] # Idle /\ job'[j] = Idle
  /\ \A k \in Jobs \ {j} : job'[k] = job[k]

LEMMA MovedBySteps ==
  ASSUME TypeOK, NEW j \in Jobs, NEW from \in JobSteps, NEW to \in JobSteps, Steps(j, from, to)
  PROVE  Moved(j, to) /\ job'[j].found = job[j].found /\ At(j, from) /\ job' \in [Jobs -> JobStates]
<1> DEFINE q == [job[j] EXCEPT !.step = to]
<1>1. job[j] # Idle /\ job[j].step = from /\ job' = [job EXCEPT ![j] = q] BY DEF Steps
<1>2. q \in [op : JobOps, of : Handles, keeps : SUBSET DeviceIds, step : JobSteps,
              mbks : SUBSET Clients, found : SUBSET Clients]
  BY <1>1, JobType
<1>3. q.op = job[j].op /\ q.of = job[j].of /\ q.keeps = job[j].keeps
      /\ q.mbks = job[j].mbks /\ q.found = job[j].found /\ q.step = to
  BY <1>1, JobType
<1>4. q # Idle BY <1>2, <1>3 DEF Idle, JobOps
<1>5. job \in [Jobs -> JobStates] BY DEF TypeOK
<1> HIDE DEF q
<1>6. job'[j] = q /\ \A k \in Jobs \ {j} : job'[k] = job[k] BY <1>1, <1>5
<1>7. job' \in [Jobs -> JobStates] BY <1>1, <1>2, <1>5 DEF JobStates
<1> QED BY <1>1, <1>3, <1>4, <1>6, <1>7 DEF Moved, At

LEMMA MovedByQuery ==
  ASSUME TypeOK, NEW j \in Jobs, QueryBans(j)
  PROVE  Moved(j, "fill") /\ job'[j].found = BannedDevices /\ At(j, "query")
         /\ job' \in [Jobs -> JobStates]
<1> DEFINE q == [job[j] EXCEPT !.step = "fill", !.found = BannedDevices]
<1>1. job[j] # Idle /\ job[j].step = "query" /\ job' = [job EXCEPT ![j] = q] BY DEF QueryBans
<1>2. BannedDevices \subseteq Clients BY DEF BannedDevices, TypeOK
<1>3. q \in [op : JobOps, of : Handles, keeps : SUBSET DeviceIds, step : JobSteps,
              mbks : SUBSET Clients, found : SUBSET Clients]
  BY <1>1, <1>2, JobType DEF JobSteps
<1>4. q.op = job[j].op /\ q.of = job[j].of /\ q.keeps = job[j].keeps
      /\ q.mbks = job[j].mbks /\ q.found = BannedDevices /\ q.step = "fill"
  BY <1>1, JobType
<1>5. q # Idle BY <1>3, <1>4 DEF Idle, JobOps
<1>6. job \in [Jobs -> JobStates] BY DEF TypeOK
<1> HIDE DEF q
<1>7. job'[j] = q /\ \A k \in Jobs \ {j} : job'[k] = job[k] BY <1>1, <1>6
<1>8. job' \in [Jobs -> JobStates] BY <1>1, <1>3, <1>6 DEF JobStates
<1> QED BY <1>1, <1>4, <1>5, <1>7, <1>8 DEF Moved, At

LEMMA EndedByReset ==
  ASSUME TypeOK, NEW j \in Jobs, job[j] # Idle, job' = [job EXCEPT ![j] = Idle]
  PROVE  Ended(j) /\ job' \in [Jobs -> JobStates]
  BY DEF TypeOK, Ended, JobStates

\* The record a job starts with.
LEMMA Started ==
  ASSUME TypeOK, NEW j \in Jobs, NEW op \in Ops, NEW u \in Handles, NEW keeps \in Keeping(op),
         StartJob(j, op, u, keeps)
  PROVE  /\ job[j] = Idle /\ job'[j] # Idle
         /\ job'[j].op = op /\ job'[j].of = u /\ job'[j].step = FirstStep(op)
         /\ job'[j].keeps = keeps
         /\ job'[j].mbks = MailboxesToClose(op, u, keeps)
         /\ \A k \in Jobs \ {j} : job'[k] = job[k]
         /\ FirstStep(op) \in KindOf(op)
         /\ job' \in [Jobs -> JobStates]
<1> DEFINE q == [op |-> op, of |-> u, step |-> FirstStep(op),
                 keeps |-> keeps, mbks |-> MailboxesToClose(op, u, keeps), found |-> {}]
<1>1. job[j] = Idle /\ job' = [job EXCEPT ![j] = q] BY DEF StartJob
<1>2. op \in JobOps OBVIOUS
<1>3. FirstStep(op) \in JobSteps /\ FirstStep(op) \in KindOf(op)
  BY <1>2 DEF FirstStep, JobOps, JobSteps, KindOf
<1>4. MailboxesToClose(op, u, keeps) \subseteq Clients
  BY DEF MailboxesToClose, DevicesOf, TypeOK
<1>k. keeps \subseteq DeviceIds BY DEF Keeping
<1>5. q \in [op : JobOps, of : Handles, keeps : SUBSET DeviceIds, step : JobSteps,
              mbks : SUBSET Clients, found : SUBSET Clients]
  BY <1>2, <1>3, <1>4, <1>k
<1>6. q # Idle BY <1>2 DEF Idle, JobOps
<1>7. /\ q.op = op /\ q.of = u /\ q.step = FirstStep(op)
      /\ q.keeps = keeps
      /\ q.mbks = MailboxesToClose(op, u, keeps)
  OBVIOUS
<1>8. job \in [Jobs -> JobStates] BY DEF TypeOK
<1> HIDE DEF q
<1>9. job'[j] = q /\ \A k \in Jobs \ {j} : job'[k] = job[k] BY <1>1, <1>8
<1>10. job' \in [Jobs -> JobStates] BY <1>1, <1>5, <1>8 DEF JobStates
<1> QED BY <1>1, <1>3, <1>6, <1>7, <1>9, <1>10

-----------------------------------------------------------------------------
(* Type correctness *)

LEMMA TypeInit == Init => TypeOK
  BY DEF Init, TypeOK, JobStates

\* What the upsert of a device row does: the card that the row had before leaves
\* the table, and where it is being listened to the socket is orphaned.
LEMMA RowTaken ==
  ASSUME TypeOK, NEW c \in Clients, NEW id \in DeviceIds, AddDevice(c, id)
  PROVE  /\ request[c] = "addDevice" /\ request' = [request EXCEPT ![c] = "none"]
         /\ UNCHANGED <<accounts, banned, sessions, bannedMbkeys, live, job, late, stale>>
         /\ devices' \subseteq devices \cup {c}
         /\ idOf' \in [Clients -> DeviceIds] /\ orphaned' \subseteq Clients
         /\ \A d \in devices' : Of[d] \in accounts
         /\ \A d, e \in devices' : Of[d] = Of[e] /\ idOf'[d] = idOf'[e] => d = e
         /\ \A d \in Clients : Of[d] # Of[c] =>
              (d \in devices' <=> d \in devices) /\ idOf'[d] = idOf[d]
         /\ \A d \in devices \ devices' :
              d \in orphaned' \/ (d \notin live /\ request[d] # "subscribe")
         /\ \A d \in orphaned \ orphaned' : d = c /\ c \in devices'
<1>1. /\ request[c] = "addDevice" /\ request' = [request EXCEPT ![c] = "none"]
      /\ UNCHANGED <<accounts, banned, sessions, bannedMbkeys, live, job, late, stale>>
  BY DEF AddDevice, Goes, history
<1>2. devices \subseteq Clients /\ orphaned \subseteq Clients /\ live \subseteq Clients BY DEF TypeOK
<1>3. CASE ~MayAddDevice(c, id)
  <2>1. UNCHANGED <<devices, idOf, orphaned>> BY <1>3 DEF AddDevice
  <2> QED BY <1>1, <2>1 DEF TypeOK
<1>4. CASE MayAddDevice(c, id)
  <2>1. /\ devices' = (devices \ Replaced(c, id)) \cup {c}
        /\ idOf' = [idOf EXCEPT ![c] = id]
        /\ orphaned' = (orphaned \cup (Replaced(c, id) \cap Listening)) \ {c}
    BY <1>4 DEF AddDevice
  <2>2. \A d \in Clients : d \in Replaced(c, id) <=> d \in devices /\ Of[d] = Of[c] /\ d # c /\ idOf[d] = id
    BY DEF Replaced, DevicesOf, TypeOK
  <2>3. \A d \in Clients : idOf'[d] = IF d = c THEN id ELSE idOf[d] BY <2>1 DEF TypeOK
  <2>4. idOf' \in [Clients -> DeviceIds] BY <2>1 DEF TypeOK
  <2>5. \A d \in Clients : d \in Listening <=> d \in live \/ request[d] = "subscribe"
    BY <1>2 DEF Listening
  <2>6. Of[c] \in accounts BY <1>4 DEF MayAddDevice
  <2>7. \A d \in devices' : d \in Clients /\ Of[d] \in accounts BY <1>2, <2>1, <2>6 DEF TypeOK
  <2>8. \A d, e \in devices' : Of[d] = Of[e] /\ idOf'[d] = idOf'[e] => d = e
    <3> SUFFICES ASSUME NEW d \in devices', NEW e \in devices', Of[d] = Of[e], idOf'[d] = idOf'[e]
                 PROVE  d = e
      OBVIOUS
    <3>1. CASE d # c /\ e # c BY <1>2, <2>1, <2>3, <3>1 DEF TypeOK
    <3>2. CASE d = c \/ e = c BY <1>2, <2>1, <2>2, <2>3, <3>2
    <3> QED BY <3>1, <3>2
  <2>9. orphaned' \subseteq Clients /\ devices' \subseteq devices \cup {c}
    <3>1. Replaced(c, id) \subseteq Clients BY <1>2 DEF Replaced, DevicesOf
    <3> QED BY <1>2, <2>1, <3>1
  <2>10. \A d \in Clients : Of[d] # Of[c] => (d \in devices' <=> d \in devices) /\ idOf'[d] = idOf[d]
    BY <2>1, <2>2, <2>3
  <2>11. \A d \in devices \ devices' : d \in orphaned' \/ (d \notin live /\ request[d] # "subscribe")
    BY <1>2, <2>1, <2>2, <2>5
  <2>12. \A d \in orphaned \ orphaned' : d = c /\ c \in devices' BY <2>1
  <2> QED BY <1>1, <2>4, <2>7, <2>8, <2>9, <2>10, <2>11, <2>12
<1> QED BY <1>3, <1>4

LEMMA TypeClientStep ==
  ASSUME TypeOK, NEW c \in Clients, ClientNext(c)
  PROVE  TypeOK'
<1> USE DEF TypeOK, rows, memory, history, Begins, Goes
<1>1. CASE Register(c) BY <1>1 DEF Register
<1>2. CASE CreateAccount(c) BY <1>2 DEF CreateAccount
<1>3. CASE Login(c) BY <1>3 DEF Login
<1>4. CASE CreateSession(c) BY <1>4 DEF CreateSession
<1>5. CASE Logout(c) BY <1>5 DEF Logout
<1>6. CASE DeviceRequest(c) BY <1>6 DEF DeviceRequest
<1>7. CASE DeviceBanCheck(c) BY <1>7 DEF DeviceBanCheck
<1>8. ASSUME NEW id \in DeviceIds, AddDevice(c, id) PROVE TypeOK'
  <2>1. UNCHANGED <<accounts, banned, sessions, bannedMbkeys, live, job, late, stale>> BY <1>8, RowTaken
  <2>2. request' \in [Clients -> {"none", "create", "session", "isBanned", "addDevice",
                                  "sessionUser", "deviceMbkeys", "subscribe"}]
    BY <1>8, RowTaken
  <2>3. /\ idOf' \in [Clients -> DeviceIds] /\ orphaned' \subseteq Clients
        /\ devices' \subseteq devices \cup {c}
        /\ \A d \in devices' : Of[d] \in accounts
        /\ \A d, e \in devices' : Of[d] = Of[e] /\ idOf'[d] = idOf'[e] => d = e
    BY <1>8, RowTaken
  <2> QED BY <2>1, <2>2, <2>3
<1>9. CASE SubscribeMessage(c) BY <1>9 DEF SubscribeMessage
<1>10. CASE SubscribeSession(c) BY <1>10 DEF SubscribeSession
<1>11. CASE SubscribeOwned(c) BY <1>11 DEF SubscribeOwned
<1>12. CASE Subscribed(c) BY <1>12 DEF Subscribed
<1>13. CASE Disconnect(c) BY <1>13 DEF Disconnect
<1>14. CASE RequestFails(c) BY <1>14 DEF RequestFails
<1> QED BY <1>1, <1>2, <1>3, <1>4, <1>5, <1>6, <1>7, <1>8, <1>9, <1>10, <1>11,
           <1>12, <1>13, <1>14 DEF ClientNext

LEMMA TypeJobStep ==
  ASSUME TypeOK, NEW j \in Jobs, JobNext(j)
  PROVE  TypeOK'
<1> USE DEF TypeOK, rows, memory, history
<1>1. ASSUME NEW op \in Ops, NEW u \in Handles, NEW keeps \in Keeping(op), StartJob(j, op, u, keeps)
      PROVE  TypeOK'
  <2>1. job' \in [Jobs -> JobStates] BY <1>1, Started
  <2> QED BY <1>1, <2>1 DEF StartJob
<1>2. CASE Mark(j)
  <2>1. job' \in [Jobs -> JobStates] BY <1>2, MovedBySteps DEF Mark, JobSteps
  <2> QED BY <1>2, <2>1 DEF Mark
<1>3. CASE Revoke(j)
  <2>1. job' \in [Jobs -> JobStates] BY <1>3, MovedBySteps DEF Revoke, JobSteps
  <2> QED BY <1>3, <2>1 DEF Revoke, SessionsAfterRevoke
<1>4. CASE Unmark(j)
  <2>1. job' \in [Jobs -> JobStates] BY <1>4, MovedBySteps DEF Unmark, JobSteps
  <2> QED BY <1>4, <2>1 DEF Unmark
<1>5. CASE Wipe(j)
  <2>1. job' \in [Jobs -> JobStates] BY <1>5, MovedBySteps DEF Wipe, JobSteps
  <2> QED BY <1>5, <2>1 DEF Wipe, SessionsAfterRevoke
<1>6. CASE Drop(j)
  <2>1. job' \in [Jobs -> JobStates] BY <1>6, MovedBySteps DEF Drop, JobSteps
  <2> QED BY <1>6, <2>1 DEF Drop, DevicesOf
<1>7. CASE Remove(j)
  <2>1. job' \in [Jobs -> JobStates] BY <1>7, MovedBySteps DEF Remove, JobSteps
  <2> QED BY <1>7, <2>1 DEF Remove
<1>8. CASE ClearBans(j)
  <2>1. job' \in [Jobs -> JobStates] BY <1>8, MovedBySteps DEF ClearBans, JobSteps
  <2>2. Refreshing \in BOOLEAN BY DEF Refreshing
  <2> QED BY <1>8, <2>1, <2>2 DEF ClearBans
<1>9. CASE QueryBans(j)
  <2>1. job' \in [Jobs -> JobStates] BY <1>9, MovedByQuery
  <2> QED BY <1>9, <2>1 DEF QueryBans
<1>10. CASE FillBans(j)
  <2>1. job' \in [Jobs -> JobStates] BY <1>10, EndedByReset DEF FillBans
  <2>2. Fill(j) \subseteq Clients BY <1>10, JobType DEF FillBans, Fill
  <2> QED BY <1>10, <2>1, <2>2 DEF FillBans, OpenAfter
<1>11. CASE CloseSockets(j)
  <2>1. job' \in [Jobs -> JobStates] BY <1>11, EndedByReset DEF CloseSockets
  <2> QED BY <1>11, <2>1 DEF CloseSockets, OpenAfter
<1>12. CASE JobFails(j)
  <2>1. job' \in [Jobs -> JobStates] BY <1>12, EndedByReset DEF JobFails
  <2> QED BY <1>12, <2>1 DEF JobFails
<1> QED BY <1>1, <1>2, <1>3, <1>4, <1>5, <1>6, <1>7, <1>8, <1>9, <1>10, <1>11, <1>12
        DEF JobNext

LEMMA TypeCrash == TypeOK /\ Crash => TypeOK'
  BY DEF TypeOK, Crash, rows, BannedDevices, JobStates

LEMMA TypeStep == TypeOK /\ [Next]_vars => TypeOK'
<1> SUFFICES ASSUME TypeOK, [Next]_vars PROVE TypeOK' OBVIOUS
<1>1. CASE UNCHANGED vars BY <1>1 DEF TypeOK, vars, rows, memory, history
<1>2. CASE Next BY <1>2, TypeClientStep, TypeJobStep, TypeCrash DEF Next
<1> QED BY <1>1, <1>2

\* Every variable keeps its type; devices have an account, and only accounts
\* are banned.
THEOREM TypeCorrect == Spec => []TypeOK
  BY TypeInit, TypeStep, PTL DEF Spec

-----------------------------------------------------------------------------
(* What bans and removals leave behind *)

LEMMA CustodyInit == Init => CustodyInv
  BY DEF Init, CustodyInv, Kinds, Alone, StillTrue, Revoked, Listed, Complete, On, At

\* The facts every client step has in common.
LEMMA ClientFrame ==
  ASSUME TypeOK, NEW c \in Clients, ClientNext(c)
  PROVE  /\ UNCHANGED <<banned, bannedMbkeys, job, stale>>
         /\ accounts \subseteq accounts'
         /\ \A d \in Clients \ {c} : request'[d] = request[d]
         /\ \A u \in Handles : ~late'[u] => ~late[u]
         /\ request[c] = "none" /\ request'[c] # "none" /\ ~late'[Of[c]] => ~JobOn(Of[c])
<1> USE DEF TypeOK, rows, memory, history, Begins, Goes
<1>1. CASE Register(c) BY <1>1 DEF Register
<1>2. CASE CreateAccount(c) BY <1>2 DEF CreateAccount
<1>3. CASE Login(c) BY <1>3 DEF Login
<1>4. CASE CreateSession(c) BY <1>4 DEF CreateSession
<1>5. CASE Logout(c) BY <1>5 DEF Logout
<1>6. CASE DeviceRequest(c) BY <1>6 DEF DeviceRequest
<1>7. CASE DeviceBanCheck(c) BY <1>7 DEF DeviceBanCheck
<1>8. ASSUME NEW id \in DeviceIds, AddDevice(c, id)
      PROVE  /\ UNCHANGED <<accounts, banned, bannedMbkeys, job, late, stale>>
             /\ \A d \in Clients \ {c} : request'[d] = request[d]
             /\ request[c] # "none"
  BY <1>8, RowTaken
<1>9. CASE SubscribeMessage(c) BY <1>9 DEF SubscribeMessage
<1>10. CASE SubscribeSession(c) BY <1>10 DEF SubscribeSession
<1>11. CASE SubscribeOwned(c) BY <1>11 DEF SubscribeOwned
<1>12. CASE Subscribed(c) BY <1>12 DEF Subscribed
<1>13. CASE Disconnect(c) BY <1>13 DEF Disconnect
<1>14. CASE RequestFails(c) BY <1>14 DEF RequestFails
<1> QED BY <1>1, <1>2, <1>3, <1>4, <1>5, <1>6, <1>7, <1>8, <1>9, <1>10, <1>11,
           <1>12, <1>13, <1>14 DEF ClientNext

\* A handler in flight on an account that is not late meets no job on it, and a
\* session or a request that got past the ban check means a usable account.
LEMMA Unhindered ==
  ASSUME TypeOK, CustodyInv, NEW c \in Clients, ~late[Of[c]], ~JobOn(Of[c])
  PROVE  /\ \A j \in Jobs : ~On(j, Of[c])
         /\ c \in sessions => ~ShutOut(Of[c])
<1>1. \A j \in Jobs : ~On(j, Of[c]) BY DEF JobOn, Running, On
<1> QED BY <1>1 DEF CustodyInv, Revoked

LEMMA Requesting ==
  ASSUME TypeOK, CustodyInv, NEW c \in Clients, ~late[Of[c]], request[c] # "none"
  PROVE  ~JobOn(Of[c])
<1>1. Of[c] \in Handles OBVIOUS
<1> QED BY <1>1 DEF CustodyInv, Alone, JobOn, Running, On

LEMMA AloneClient ==
  ASSUME TypeOK, CustodyInv, NEW c \in Clients, ClientNext(c)
  PROVE  Alone'
<1> SUFFICES ASSUME NEW u \in Handles, ~late'[u]
             PROVE  /\ \A j, k \in Jobs : On(j, u)' /\ On(k, u)' => j = k
                    /\ \A j \in Jobs, d \in Clients : On(j, u)' /\ Of[d] = u => request'[d] = "none"
  BY DEF Alone
<1>1. job' = job /\ ~late[u] BY ClientFrame
<1>2. \A j, k \in Jobs : On(j, u)' /\ On(k, u)' => j = k
  BY <1>1 DEF CustodyInv, Alone, On
<1>3. ASSUME NEW j \in Jobs, NEW d \in Clients, On(j, u)', Of[d] = u
      PROVE  request'[d] = "none"
  <2>1. On(j, u) /\ JobOn(u) BY <1>1, <1>3 DEF On, JobOn, Running
  <2>2. request[d] = "none" BY <1>1, <1>3, <2>1 DEF CustodyInv, Alone
  <2> QED BY <1>3, <2>1, <2>2, ClientFrame
<1> QED BY <1>2, <1>3

LEMMA StillTrueClient ==
  ASSUME TypeOK, CustodyInv, NEW c \in Clients, ClientNext(c)
  PROVE  StillTrue'
<1> USE DEF TypeOK, rows, memory, history, Begins, Goes, ShutOut
<1>1. StillTrue BY DEF CustodyInv
<1>2. ~late[Of[c]] /\ request[c] # "none" => ~JobOn(Of[c]) BY Requesting
<1>3. ~late[Of[c]] /\ ~JobOn(Of[c]) /\ c \in sessions => ~ShutOut(Of[c]) BY Unhindered
<1>a. CASE Register(c) BY <1>1, <1>a DEF Register, StillTrue
<1>b. CASE CreateAccount(c) BY <1>1, <1>b DEF CreateAccount, StillTrue
<1>c. CASE Login(c) BY <1>1, <1>c DEF Login, SignInAllowed, StillTrue
<1>d. CASE CreateSession(c) BY <1>1, <1>d DEF CreateSession, StillTrue
<1>e. CASE Logout(c) BY <1>1, <1>e DEF Logout, StillTrue
<1>f. CASE DeviceRequest(c)
  <2>1. \A d \in Clients : ~late'[Of[d]] => ~late[Of[d]] BY <1>f, ClientFrame
  <2>2. ~late'[Of[c]] => ~ShutOut(Of[c]) BY <1>3, <1>f, <2>1 DEF DeviceRequest
  <2> QED BY <1>1, <1>f, <2>1, <2>2 DEF DeviceRequest, StillTrue
<1>g. CASE DeviceBanCheck(c) BY <1>1, <1>g DEF DeviceBanCheck, StillTrue
<1>h. ASSUME NEW id \in DeviceIds, AddDevice(c, id) PROVE StillTrue'
  <2>1. /\ UNCHANGED <<accounts, banned, sessions, late>>
        /\ \A d \in Clients : request'[d] = IF d = c THEN "none" ELSE request[d]
        /\ \A d \in devices \ devices' : d \in orphaned' \/ request[d] # "subscribe"
        /\ \A d \in orphaned \ orphaned' : d = c
    BY <1>h, RowTaken
  <2> QED BY <1>1, <2>1 DEF StillTrue
<1>i. CASE SubscribeMessage(c) BY <1>1, <1>i DEF SubscribeMessage, StillTrue
<1>j. CASE SubscribeSession(c) BY <1>1, <1>j DEF SubscribeSession, StillTrue
<1>k. CASE SubscribeOwned(c) BY <1>1, <1>k DEF SubscribeOwned, OwnsMailbox, StillTrue
<1>l. CASE Subscribed(c) BY <1>1, <1>l DEF Subscribed, StillTrue
<1>m. CASE Disconnect(c) BY <1>1, <1>m DEF Disconnect, StillTrue
<1>n. CASE RequestFails(c) BY <1>1, <1>n DEF RequestFails, StillTrue
<1> QED BY <1>a, <1>b, <1>c, <1>d, <1>e, <1>f, <1>g, <1>h, <1>i, <1>j, <1>k, <1>l,
           <1>m, <1>n DEF ClientNext

\* Sessions and subscriptions that a client step adds, and rows it removes.
LEMMA ClientAdds ==
  ASSUME TypeOK, CustodyInv, NEW c \in Clients, ClientNext(c)
  PROVE  /\ \A d \in sessions' \ sessions : d = c /\ (~late[Of[c]] => ~JobOn(Of[c]) /\ ~ShutOut(Of[c]))
         /\ \A d \in (live' \ orphaned') \ (live \ orphaned) : d = c /\ (~late[Of[c]] =>
              ~JobOn(Of[c]) /\ ~ShutOut(Of[c]) /\ c \in devices')
         /\ \A d \in live' \ orphaned' : d \in devices => d \in devices'
         /\ \A d \in Clients : ~late[Of[d]] /\ JobOn(Of[d]) =>
              (d \in devices' <=> d \in devices) /\ idOf'[d] = idOf[d]
<1> USE DEF TypeOK, rows, memory, history, Begins, Goes
<1>1. StillTrue BY DEF CustodyInv
<1>2. ~late[Of[c]] /\ request[c] # "none" => ~JobOn(Of[c]) BY Requesting
<1>3. ~late[Of[c]] /\ ~JobOn(Of[c]) /\ c \in sessions => ~ShutOut(Of[c]) BY Unhindered
<1>a. CASE Register(c) BY <1>a DEF Register
<1>b. CASE CreateAccount(c) BY <1>b DEF CreateAccount
<1>c. CASE Login(c) BY <1>c DEF Login
<1>d. CASE CreateSession(c) BY <1>1, <1>2, <1>d DEF CreateSession, StillTrue
<1>e. CASE Logout(c) BY <1>e DEF Logout
<1>f. CASE DeviceRequest(c) BY <1>f DEF DeviceRequest
<1>g. CASE DeviceBanCheck(c) BY <1>g DEF DeviceBanCheck
<1>h. ASSUME NEW id \in DeviceIds, AddDevice(c, id)
      PROVE  /\ UNCHANGED <<sessions, live>>
             /\ \A d \in orphaned \ orphaned' : d = c /\ c \in devices' /\ (~late[Of[c]] =>
                  ~JobOn(Of[c]) /\ ~ShutOut(Of[c]))
             /\ \A d \in devices \ devices' : d \in orphaned' \/ d \notin live
             /\ \A d \in Clients : ~late[Of[d]] /\ JobOn(Of[d]) =>
                  (d \in devices' <=> d \in devices) /\ idOf'[d] = idOf[d]
  <2>1. /\ UNCHANGED <<sessions, live>> /\ request[c] = "addDevice"
        /\ \A d \in orphaned \ orphaned' : d = c /\ c \in devices'
        /\ \A d \in devices \ devices' : d \in orphaned' \/ d \notin live
        /\ \A d \in Clients : Of[d] # Of[c] => (d \in devices' <=> d \in devices) /\ idOf'[d] = idOf[d]
    BY <1>h, RowTaken
  <2>2. ~late[Of[c]] => ~JobOn(Of[c]) /\ ~ShutOut(Of[c]) BY <1>1, <1>2, <2>1 DEF StillTrue
  <2> QED BY <2>1, <2>2
<1>i. CASE SubscribeMessage(c) BY <1>i DEF SubscribeMessage
<1>j. CASE SubscribeSession(c) BY <1>j DEF SubscribeSession
<1>k. CASE SubscribeOwned(c) BY <1>k DEF SubscribeOwned
<1>l. CASE Subscribed(c) BY <1>1, <1>2, <1>3, <1>l DEF Subscribed, StillTrue
<1>m. CASE Disconnect(c) BY <1>m DEF Disconnect
<1>n. CASE RequestFails(c) BY <1>n DEF RequestFails
<1> QED BY <1>a, <1>b, <1>c, <1>d, <1>e, <1>f, <1>g, <1>h, <1>i, <1>j, <1>k, <1>l,
           <1>m, <1>n DEF ClientNext

LEMMA CustodyClient ==
  ASSUME TypeOK, CustodyInv, NEW c \in Clients, ClientNext(c)
  PROVE  CustodyInv'
<1>1. /\ UNCHANGED <<banned, job>> /\ accounts \subseteq accounts'
      /\ \A u \in Handles : ~late'[u] => ~late[u]
  BY ClientFrame
<1>2. /\ \A d \in sessions' \ sessions : d = c /\ (~late[Of[c]] => ~JobOn(Of[c]) /\ ~ShutOut(Of[c]))
      /\ \A d \in (live' \ orphaned') \ (live \ orphaned) : d = c /\ (~late[Of[c]] =>
           ~JobOn(Of[c]) /\ ~ShutOut(Of[c]) /\ c \in devices')
      /\ \A d \in live' \ orphaned' : d \in devices => d \in devices'
      /\ \A d \in Clients : ~late[Of[d]] /\ JobOn(Of[d]) =>
           (d \in devices' <=> d \in devices) /\ idOf'[d] = idOf[d]
  BY ClientAdds
<1>3. \A d \in Clients : ~late'[Of[d]] => ~late[Of[d]] BY <1>1
<1>4. ~late[Of[c]] /\ ~JobOn(Of[c]) => \A j \in Jobs : ~On(j, Of[c]) BY Unhindered
<1>5. sessions' \subseteq Clients /\ live' \subseteq Clients
  BY TypeClientStep DEF TypeOK
<1>6. \A j \in Jobs, u \in Handles : On(j, u)' = On(j, u) BY <1>1 DEF On
<1>7. \A u \in Handles : ShutOut(u)' => ShutOut(u) BY <1>1 DEF ShutOut
<1>8. Kinds' BY <1>1 DEF CustodyInv, Kinds
<1>9. Revoked'
  <2> SUFFICES ASSUME NEW d \in sessions', ~late'[Of[d]]
               PROVE  /\ ShutOut(Of[d])' => \E j \in Jobs : On(j, Of[d])' /\ At(j, "revoke")'
                      /\ \A j \in Jobs : On(j, Of[d])' => ~At(j, "drop")'
    BY DEF Revoked
  <2>1. d \in Clients /\ Of[d] \in Handles BY <1>5
  <2>2. CASE d \in sessions
    BY <1>1, <1>3, <1>6, <1>7, <2>1, <2>2 DEF CustodyInv, Revoked, At
  <2>3. CASE d \notin sessions BY <1>2, <1>3, <1>4, <1>6, <1>7, <2>1, <2>3
  <2> QED BY <2>2, <2>3
<1>10. Listed'
  <2> SUFFICES ASSUME NEW d \in live' \ orphaned', ~late'[Of[d]]
               PROVE  \/ d \in devices' /\ ~ShutOut(Of[d])'
                      \/ \E j \in Jobs : On(j, Of[d])' /\ d \in job'[j].mbks
    BY DEF Listed
  <2>1. d \in Clients /\ Of[d] \in Handles BY <1>5
  <2>2. CASE d \in live \ orphaned
    BY <1>1, <1>2, <1>3, <1>6, <1>7, <2>1, <2>2 DEF CustodyInv, Listed
  <2>3. CASE d \notin live \ orphaned BY <1>2, <1>3, <1>7, <2>1, <2>3
  <2> QED BY <2>2, <2>3
<1>11. Complete'
  <2> SUFFICES ASSUME NEW j \in Jobs, NEW d \in live' \ orphaned', ~late'[Of[d]], On(j, Of[d])',
                      job'[j].op # "unban"
               PROVE  d \in job'[j].mbks \cup Kept(j)'
    BY DEF Complete
  <2>1. d \in Clients /\ Of[d] \in Handles BY <1>5
  <2>2. On(j, Of[d]) /\ JobOn(Of[d]) /\ ~late[Of[d]] BY <1>3, <1>6, <2>1 DEF On, JobOn, Running
  <2>3. d \in live \ orphaned BY <1>2, <1>4, <2>1, <2>2
  <2>4. d \in job[j].mbks \cup Kept(j) BY <1>1, <2>2, <2>3 DEF CustodyInv, Complete
  <2> QED BY <1>1, <1>2, <2>1, <2>2, <2>4 DEF Kept
<1> QED BY <1>8, <1>9, <1>10, <1>11, AloneClient, StillTrueClient DEF CustodyInv

\* A job starts.  If its account is not late afterwards, nothing else was
\* running on it.
LEMMA CustodyStart ==
  ASSUME TypeOK, CustodyInv, NEW j \in Jobs,
         NEW op \in Ops, NEW u \in Handles, NEW keeps \in Keeping(op), StartJob(j, op, u, keeps)
  PROVE  CustodyInv'
<1>1. /\ job[j] = Idle /\ job'[j] # Idle /\ job'[j].op = op /\ job'[j].of = u
      /\ job'[j].step = FirstStep(op)
      /\ job'[j].keeps = keeps
      /\ job'[j].mbks = MailboxesToClose(op, u, keeps)
      /\ \A k \in Jobs \ {j} : job'[k] = job[k]
      /\ FirstStep(op) \in KindOf(op)
  BY Started
<1>2. /\ UNCHANGED <<accounts, banned, sessions, devices, idOf, live, orphaned, request>>
      /\ late' = [late EXCEPT ![u] = @ \/ Asking(u) \/ JobOn(u)]
  BY DEF StartJob, rows, memory
<1>3. /\ \A v \in Handles : ~late'[v] => ~late[v]
      /\ ~late'[u] => ~Asking(u) /\ ~JobOn(u)
  BY <1>2 DEF TypeOK
<1>4. op \in JobOps OBVIOUS
<1>5. ~late'[u] => \A k \in Jobs : ~On(k, u) BY <1>3 DEF JobOn, Running, On
<1>6. ~late'[u] => \A d \in Clients : Of[d] = u => request[d] = "none"
  BY <1>3 DEF Asking, Requests
<1>7. \A k \in Jobs, v \in Handles : k # j => On(k, v)' = On(k, v) BY <1>1 DEF On
<1>8. \A v \in Handles : On(j, v)' <=> v = u BY <1>1 DEF On
<1>9. \A v \in Handles : ShutOut(v)' = ShutOut(v) BY <1>2 DEF ShutOut
<1>10. \A d \in Clients : Of[d] \in Handles /\ (~late'[Of[d]] => ~late[Of[d]]) BY <1>3
<1>11. live \subseteq Clients /\ sessions \subseteq Clients BY DEF TypeOK
<1>a. Kinds'
  <2>1. op # "forget" => keeps = {} BY DEF Keeping
  <2> QED BY <1>1, <2>1 DEF CustodyInv, Kinds
<1>b. Alone'
  <2> SUFFICES ASSUME NEW v \in Handles, ~late'[v]
               PROVE  /\ \A k, l \in Jobs : On(k, v)' /\ On(l, v)' => k = l
                      /\ \A k \in Jobs, d \in Clients : On(k, v)' /\ Of[d] = v => request'[d] = "none"
    BY DEF Alone
  <2>1. CASE v = u BY <1>2, <1>5, <1>6, <1>7, <2>1
  <2>2. CASE v # u BY <1>2, <1>3, <1>7, <1>8, <2>2 DEF CustodyInv, Alone
  <2> QED BY <2>1, <2>2
<1>c. StillTrue' BY <1>2, <1>9, <1>10 DEF CustodyInv, StillTrue
<1>d. Revoked'
  <2> SUFFICES ASSUME NEW d \in sessions, ~late'[Of[d]]
               PROVE  /\ ShutOut(Of[d]) => \E k \in Jobs : On(k, Of[d])' /\ At(k, "revoke")'
                      /\ \A k \in Jobs : On(k, Of[d])' => ~At(k, "drop")'
    BY <1>2, <1>9, <1>10, <1>11 DEF Revoked
  <2>1. d \in Clients /\ ~late[Of[d]] BY <1>10, <1>11
  <2>2. /\ ShutOut(Of[d]) => \E k \in Jobs : On(k, Of[d]) /\ At(k, "revoke")
        /\ \A k \in Jobs : On(k, Of[d]) => ~At(k, "drop")
    BY <2>1 DEF CustodyInv, Revoked
  <2>3. CASE Of[d] = u
    <3>1. ~ShutOut(u) BY <1>5, <2>2, <2>3
    <3>2. FirstStep(op) # "drop" BY <1>4 DEF FirstStep, JobOps
    <3>3. \A k \in Jobs : On(k, u)' => k = j BY <1>5, <1>7, <2>3
    <3> QED BY <1>1, <2>3, <3>1, <3>2, <3>3 DEF At
  <2>4. CASE Of[d] # u
    <3>1. \A k \in Jobs : On(k, Of[d])' => k # j /\ On(k, Of[d]) BY <1>7, <1>8, <1>10, <2>1, <2>4
    <3>2. \A k \in Jobs : On(k, Of[d]) => k # j BY <1>1 DEF On
    <3> QED BY <1>1, <1>7, <1>10, <2>1, <2>2, <3>1, <3>2 DEF At
  <2> QED BY <2>3, <2>4
<1>e. Listed'
  <2> SUFFICES ASSUME NEW d \in live \ orphaned, ~late'[Of[d]]
               PROVE  \/ d \in devices /\ ~ShutOut(Of[d])
                      \/ \E k \in Jobs : On(k, Of[d])' /\ d \in job'[k].mbks
    BY <1>2, <1>9, <1>10, <1>11 DEF Listed
  <2>1. d \in Clients /\ ~late[Of[d]] BY <1>10, <1>11
  <2>2. \/ d \in devices /\ ~ShutOut(Of[d])
        \/ \E k \in Jobs : On(k, Of[d]) /\ d \in job[k].mbks
    BY <2>1 DEF CustodyInv, Listed
  <2>3. \A k \in Jobs : On(k, Of[d]) => k # j BY <1>1 DEF On
  <2> QED BY <1>1, <1>7, <1>10, <2>1, <2>2, <2>3
<1>f. Complete'
  <2> SUFFICES ASSUME NEW k \in Jobs, NEW d \in live \ orphaned, ~late'[Of[d]], On(k, Of[d])',
                      job'[k].op # "unban"
               PROVE  d \in job'[k].mbks \cup Kept(k)'
    BY <1>2 DEF Complete
  <2>1. d \in Clients /\ ~late[Of[d]] BY <1>10, <1>11
  <2>2. CASE k # j
    BY <1>1, <1>2, <1>7, <1>10, <2>1, <2>2 DEF CustodyInv, Complete, Kept
  <2>3. CASE k = j
    <3>1. Of[d] = u BY <1>8, <1>10, <2>1, <2>3
    <3>2. d \in devices BY <1>5, <2>1, <3>1 DEF CustodyInv, Listed
    <3> QED BY <1>1, <1>2, <2>1, <2>3, <3>1, <3>2 DEF MailboxesToClose, DevicesOf, Kept
  <2> QED BY <2>2, <2>3
<1> QED BY <1>a, <1>b, <1>c, <1>d, <1>e, <1>f DEF CustodyInv

\* A job goes from one step to the next: what every such step keeps.
LEMMA MovedFrame ==
  ASSUME TypeOK, CustodyInv, NEW j \in Jobs, NEW to, Moved(j, to),
         to \in KindOf(job[j].op), UNCHANGED <<request, late>>
  PROVE  /\ \A k \in Jobs, u \in Handles : On(k, u)' = On(k, u)
         /\ \A k \in Jobs : job'[k].mbks = job[k].mbks \/ job[k] = Idle
         /\ Kinds' /\ Alone'
<1>1. \A k \in Jobs, u \in Handles : On(k, u)' = On(k, u) BY DEF On, Moved
<1>2. Kinds'
  <2> SUFFICES ASSUME NEW k \in Jobs, job'[k] # Idle
               PROVE  job'[k].step \in KindOf(job'[k].op) /\ (job'[k].op # "forget" => job'[k].keeps = {})
    BY DEF Kinds
  <2>1. CASE k = j BY <2>1 DEF CustodyInv, Kinds, Moved
  <2>2. CASE k # j BY <2>2 DEF CustodyInv, Kinds, Moved
  <2> QED BY <2>1, <2>2
<1> QED BY <1>1, <1>2 DEF CustodyInv, Alone, Moved

\* A move that shuts nobody out and leaves sessions, devices and sockets alone.
LEMMA CustodyQuietMove ==
  ASSUME TypeOK, CustodyInv, NEW j \in Jobs, NEW to, Moved(j, to),
         to \in KindOf(job[j].op), to # "drop", ~At(j, "revoke"),
         UNCHANGED <<request, late, sessions, devices, idOf, live, orphaned>>,
         \A u \in Handles : ShutOut(u)' => ShutOut(u)
  PROVE  CustodyInv'
<1>1. /\ \A k \in Jobs, u \in Handles : On(k, u)' = On(k, u)
      /\ Kinds' /\ Alone'
  BY MovedFrame
<1>2. \A c \in Clients : Of[c] \in Handles OBVIOUS
<1>3. \A k \in Jobs : At(k, "drop")' => At(k, "drop") BY DEF At, Moved
<1>4. \A k \in Jobs : At(k, "revoke") => At(k, "revoke")' BY DEF At, Moved
<1>5. \A k \in Jobs, u \in Handles : On(k, u) =>
        job'[k].mbks = job[k].mbks /\ job'[k].op = job[k].op /\ job'[k].keeps = job[k].keeps
  BY DEF On, Moved
<1>6. sessions \subseteq Clients /\ live \subseteq Clients BY DEF TypeOK
<1>7. StillTrue' BY <1>2 DEF CustodyInv, StillTrue
<1>8. Revoked' BY <1>1, <1>2, <1>3, <1>4, <1>6 DEF CustodyInv, Revoked
<1>9. Listed' BY <1>1, <1>2, <1>5, <1>6 DEF CustodyInv, Listed
<1>10. Complete' BY <1>1, <1>2, <1>5, <1>6 DEF CustodyInv, Complete, Kept
<1> QED BY <1>1, <1>7, <1>8, <1>9, <1>10 DEF CustodyInv

\* Revoke and Wipe: the sessions of the account go.
LEMMA CustodyRevoking ==
  ASSUME TypeOK, CustodyInv, NEW j \in Jobs, NEW to, Moved(j, to),
         to \in KindOf(job[j].op), sessions' = SessionsAfterRevoke(job[j].of),
         UNCHANGED <<request, late, accounts, banned, devices, idOf, live, orphaned>>
  PROVE  CustodyInv'
<1>1. /\ \A k \in Jobs, u \in Handles : On(k, u)' = On(k, u)
      /\ Kinds' /\ Alone'
  BY MovedFrame
<1>2. \A u \in Handles : ShutOut(u)' = ShutOut(u) BY DEF ShutOut
<1>3. \A c \in Clients : Of[c] \in Handles OBVIOUS
<1>4. job[j] # Idle /\ \A c \in Clients : c \in sessions' <=> c \in sessions /\ Of[c] # job[j].of
  BY DEF SessionsAfterRevoke, Moved, TypeOK
<1>5. \A k \in Jobs, u \in Handles : On(k, u) /\ u # job[j].of =>
        (At(k, "revoke")' <=> At(k, "revoke")) /\ (At(k, "drop")' <=> At(k, "drop"))
  BY DEF At, On, Moved
<1>6. \A k \in Jobs, u \in Handles : On(k, u) =>
        job'[k].mbks = job[k].mbks /\ job'[k].op = job[k].op /\ job'[k].keeps = job[k].keeps
  BY DEF On, Moved
<1>7. sessions' \subseteq sessions /\ sessions \subseteq Clients /\ live \subseteq Clients
  BY DEF SessionsAfterRevoke, TypeOK
<1>8. StillTrue'
  <2>1. \A c \in Clients : ~late[Of[c]] /\ request[c] # "none" => Of[c] # job[j].of
    BY <1>4, Requesting DEF JobOn, Running
  <2> QED BY <1>2, <1>3, <1>4, <2>1 DEF CustodyInv, StillTrue
<1>9. Revoked'
  <2> SUFFICES ASSUME NEW c \in sessions', ~late[Of[c]]
               PROVE  /\ ShutOut(Of[c]) => \E k \in Jobs : On(k, Of[c])' /\ At(k, "revoke")'
                      /\ \A k \in Jobs : On(k, Of[c])' => ~At(k, "drop")'
    BY <1>2, <1>3, <1>7 DEF Revoked
  <2>1. c \in sessions /\ c \in Clients /\ Of[c] # job[j].of /\ Of[c] \in Handles BY <1>3, <1>4, <1>7
  <2>2. /\ ShutOut(Of[c]) => \E k \in Jobs : On(k, Of[c]) /\ At(k, "revoke")
        /\ \A k \in Jobs : On(k, Of[c]) => ~At(k, "drop")
    BY <2>1 DEF CustodyInv, Revoked
  <2> QED BY <1>1, <1>5, <2>1, <2>2
<1>10. Listed' BY <1>1, <1>2, <1>3, <1>6, <1>7 DEF CustodyInv, Listed
<1>11. Complete' BY <1>1, <1>3, <1>6, <1>7 DEF CustodyInv, Complete, Kept
<1> QED BY <1>1, <1>8, <1>9, <1>10, <1>11 DEF CustodyInv

\* Mark, Drop and Remove: an account is shut out, or devices go; the list of
\* the job names every subscription that this leaves behind.
LEMMA CustodyShutting ==
  ASSUME TypeOK, CustodyInv, NEW j \in Jobs, NEW u \in Handles, On(j, u), NEW to, Moved(j, to),
         to \in KindOf(job[j].op), to # "drop", ~At(j, "revoke"), job[j].op # "unban",
         UNCHANGED <<request, late, sessions, idOf, live, orphaned>>,
         \A v \in Handles \ {u} : ShutOut(v)' = ShutOut(v),
         job[j].keeps = {} \/ ShutOut(u)' = ShutOut(u),
         At(j, "drop") \/ to = "revoke" \/ ShutOut(u)' = ShutOut(u),
         \A c \in devices : Of[c] # u \/ idOf[c] \in job[j].keeps => c \in devices'
  PROVE  CustodyInv'
<1>1. /\ \A k \in Jobs, v \in Handles : On(k, v)' = On(k, v)
      /\ Kinds' /\ Alone'
  BY MovedFrame
<1>2. job[j] # Idle /\ job[j].of = u BY DEF On
<1>3. \A c \in Clients : Of[c] \in Handles OBVIOUS
<1>4. \A k \in Jobs : At(k, "drop")' => At(k, "drop") BY DEF At, Moved
<1>5. \A k \in Jobs : At(k, "revoke") => At(k, "revoke")' BY DEF At, Moved
<1>6. \A k \in Jobs, v \in Handles : On(k, v) =>
        job'[k].mbks = job[k].mbks /\ job'[k].op = job[k].op /\ job'[k].keeps = job[k].keeps
  BY DEF On, Moved
<1>7. sessions \subseteq Clients /\ live \subseteq Clients BY DEF TypeOK
<1>8. StillTrue'
  <2>1. \A c \in Clients : ~late[Of[c]] /\ request[c] # "none" => Of[c] # u
    BY <1>2, Requesting DEF JobOn, Running
  <2> QED BY <1>3, <2>1 DEF CustodyInv, StillTrue
<1>9. Revoked'
  <2> SUFFICES ASSUME NEW c \in sessions, ~late[Of[c]]
               PROVE  /\ ShutOut(Of[c])' => \E k \in Jobs : On(k, Of[c])' /\ At(k, "revoke")'
                      /\ \A k \in Jobs : On(k, Of[c])' => ~At(k, "drop")'
    BY DEF Revoked
  <2>1. c \in Clients /\ Of[c] \in Handles BY <1>3, <1>7
  <2>2. /\ ShutOut(Of[c]) => \E k \in Jobs : On(k, Of[c]) /\ At(k, "revoke")
        /\ \A k \in Jobs : On(k, Of[c]) => ~At(k, "drop")
    BY <2>1 DEF CustodyInv, Revoked
  <2>3. CASE Of[c] # u BY <1>1, <1>4, <1>5, <2>1, <2>2, <2>3
  <2>4. CASE Of[c] = u
    <3>1. ~At(j, "drop") BY <1>2, <2>2, <2>4
    <3>2. to = "revoke" => On(j, Of[c])' /\ At(j, "revoke")' BY <1>1, <1>2, <2>4 DEF At, Moved
    <3> QED BY <1>1, <1>4, <1>5, <2>1, <2>2, <2>4, <3>1, <3>2
  <2> QED BY <2>3, <2>4
<1>10. Complete'
  <2> SUFFICES ASSUME NEW k \in Jobs, NEW c \in live \ orphaned, ~late[Of[c]], On(k, Of[c])',
                      job'[k].op # "unban"
               PROVE  c \in job'[k].mbks \cup Kept(k)'
    BY DEF Complete
  <2>1. c \in Clients /\ Of[c] \in Handles BY <1>3, <1>7
  <2>2. On(k, Of[c]) /\ job'[k].mbks = job[k].mbks /\ job'[k].op = job[k].op /\ job'[k].keeps = job[k].keeps
    BY <1>1, <1>6, <2>1
  <2>3. c \in job[k].mbks \cup Kept(k) BY <2>2 DEF CustodyInv, Complete
  <2>4. Of[c] = u => k = j BY <2>1, <2>2 DEF CustodyInv, Alone
  <2> QED BY <2>2, <2>3, <2>4 DEF Kept
<1>11. Listed'
  <2> SUFFICES ASSUME NEW c \in live \ orphaned, ~late[Of[c]]
               PROVE  \/ c \in devices' /\ ~ShutOut(Of[c])'
                      \/ \E k \in Jobs : On(k, Of[c])' /\ c \in job'[k].mbks
    BY DEF Listed
  <2>1. c \in Clients /\ Of[c] \in Handles BY <1>3, <1>7
  <2>2. \/ c \in devices /\ ~ShutOut(Of[c])
        \/ \E k \in Jobs : On(k, Of[c]) /\ c \in job[k].mbks
    BY <2>1 DEF CustodyInv, Listed
  <2>3. CASE Of[c] # u BY <1>1, <1>6, <2>1, <2>2, <2>3
  <2>4. CASE Of[c] = u
    <3>1. c \in job[j].mbks \cup Kept(j)
      BY <1>2, <2>1, <2>4 DEF CustodyInv, Complete
    <3>2. CASE c \in job[j].mbks BY <1>1, <1>2, <1>6, <2>4, <3>2
    <3>3. CASE c \notin job[j].mbks
      <4>1. c \in devices' /\ idOf[c] \in job[j].keeps BY <3>1, <3>3 DEF Kept
      <4>2. \A k \in Jobs : On(k, Of[c]) => k = j
        BY <1>2, <2>1, <2>4 DEF CustodyInv, Alone
      <4>3. c \in devices /\ ~ShutOut(Of[c]) BY <2>2, <3>3, <4>2
      <4> QED BY <2>1, <2>4, <4>1, <4>3
    <3> QED BY <3>2, <3>3
  <2> QED BY <2>3, <2>4
<1> QED BY <1>1, <1>8, <1>9, <1>10, <1>11 DEF CustodyInv

\* A handler ends; the sockets on its list are closed.
LEMMA CustodyEnded ==
  ASSUME TypeOK, CustodyInv, NEW j \in Jobs, Ended(j), ~At(j, "revoke"),
         live' = live \ job[j].mbks,
         UNCHANGED <<request, late, accounts, banned, sessions, devices, idOf, orphaned>>
  PROVE  CustodyInv'
<1>1. \A k \in Jobs, u \in Handles : On(k, u)' <=> On(k, u) /\ k # j BY DEF On, Ended
<1>2. \A u \in Handles : ShutOut(u)' = ShutOut(u) BY DEF ShutOut
<1>3. \A c \in Clients : Of[c] \in Handles OBVIOUS
<1>4. \A k \in Jobs \ {j} : job'[k] = job[k] /\ (\A step : At(k, step)' = At(k, step))
  BY DEF Ended, At
<1>5. sessions \subseteq Clients /\ live \subseteq Clients BY DEF TypeOK
<1>6. Kinds'
  <2> SUFFICES ASSUME NEW k \in Jobs, job'[k] # Idle
               PROVE  job'[k].step \in KindOf(job'[k].op) /\ (job'[k].op # "forget" => job'[k].keeps = {})
    BY DEF Kinds
  <2>1. k # j BY DEF Ended
  <2> QED BY <1>4, <2>1 DEF CustodyInv, Kinds
<1>7. Alone' BY <1>1 DEF CustodyInv, Alone
<1>8. StillTrue' BY <1>2, <1>3 DEF CustodyInv, StillTrue
<1>9. Revoked'
  <2> SUFFICES ASSUME NEW c \in sessions, ~late[Of[c]]
               PROVE  /\ ShutOut(Of[c])' => \E k \in Jobs : On(k, Of[c])' /\ At(k, "revoke")'
                      /\ \A k \in Jobs : On(k, Of[c])' => ~At(k, "drop")'
    BY DEF Revoked
  <2>1. c \in Clients /\ Of[c] \in Handles BY <1>3, <1>5
  <2>2. /\ ShutOut(Of[c]) => \E k \in Jobs : On(k, Of[c]) /\ At(k, "revoke")
        /\ \A k \in Jobs : On(k, Of[c]) => ~At(k, "drop")
    BY <2>1 DEF CustodyInv, Revoked
  <2> QED BY <1>1, <1>2, <1>4, <2>1, <2>2
<1>10. Listed'
  <2> SUFFICES ASSUME NEW c \in live \ orphaned, c \notin job[j].mbks, ~late[Of[c]]
               PROVE  \/ c \in devices /\ ~ShutOut(Of[c])'
                      \/ \E k \in Jobs : On(k, Of[c])' /\ c \in job'[k].mbks
    BY DEF Listed
  <2>1. c \in Clients /\ Of[c] \in Handles BY <1>3, <1>5
  <2>2. \/ c \in devices /\ ~ShutOut(Of[c])
        \/ \E k \in Jobs : On(k, Of[c]) /\ c \in job[k].mbks
    BY <2>1 DEF CustodyInv, Listed
  <2> QED BY <1>1, <1>2, <1>4, <2>1, <2>2
<1>11. Complete'
  <2> SUFFICES ASSUME NEW k \in Jobs, NEW c \in live \ orphaned, ~late[Of[c]], On(k, Of[c])',
                      job'[k].op # "unban"
               PROVE  c \in job'[k].mbks \cup Kept(k)'
    BY DEF Complete
  <2>1. c \in Clients /\ Of[c] \in Handles BY <1>3, <1>5
  <2> QED BY <1>1, <1>4, <2>1 DEF CustodyInv, Complete, Kept
<1> QED BY <1>6, <1>7, <1>8, <1>9, <1>10, <1>11 DEF CustodyInv

\* A handler is cut short: its account is late from now on.
LEMMA CustodyFailed ==
  ASSUME TypeOK, CustodyInv, NEW j \in Jobs, JobFails(j)
  PROVE  CustodyInv'
<1>1. Ended(j) /\ job[j].of \in Handles BY EndedByReset, JobType DEF JobFails
<1>2. UNCHANGED <<accounts, banned, sessions, devices, idOf, live, orphaned, request>>
  BY DEF JobFails, rows, memory
<1>3. \A u \in Handles : ~late'[u] => ~late[u] /\ u # job[j].of
  BY <1>1 DEF JobFails, TypeOK
<1>4. \A u \in Handles : ShutOut(u)' = ShutOut(u) BY <1>2 DEF ShutOut
<1>5. \A c \in Clients : Of[c] \in Handles OBVIOUS
<1>6. \A k \in Jobs, u \in Handles : On(k, u)' => On(k, u) /\ k # j BY <1>1 DEF On, Ended
<1>7. \A k \in Jobs, u \in Handles : On(k, u) /\ u # job[j].of => On(k, u)' /\ k # j
  BY <1>1 DEF On, Ended
<1>8. \A k \in Jobs \ {j} : job'[k] = job[k] /\ (\A step : At(k, step)' = At(k, step))
  BY <1>1 DEF Ended, At
<1>9. sessions \subseteq Clients /\ live \subseteq Clients BY DEF TypeOK
<1>a. Kinds'
  <2> SUFFICES ASSUME NEW k \in Jobs, job'[k] # Idle
               PROVE  job'[k].step \in KindOf(job'[k].op) /\ (job'[k].op # "forget" => job'[k].keeps = {})
    BY DEF Kinds
  <2>1. k # j BY <1>1 DEF Ended
  <2> QED BY <1>8, <2>1 DEF CustodyInv, Kinds
<1>b. Alone' BY <1>2, <1>3, <1>6 DEF CustodyInv, Alone
<1>c. StillTrue' BY <1>2, <1>3, <1>4, <1>5 DEF CustodyInv, StillTrue
<1>d. Revoked'
  <2> SUFFICES ASSUME NEW c \in sessions, ~late'[Of[c]]
               PROVE  /\ ShutOut(Of[c])' => \E k \in Jobs : On(k, Of[c])' /\ At(k, "revoke")'
                      /\ \A k \in Jobs : On(k, Of[c])' => ~At(k, "drop")'
    BY <1>2 DEF Revoked
  <2>1. c \in Clients /\ Of[c] \in Handles /\ ~late[Of[c]] /\ Of[c] # job[j].of
    BY <1>3, <1>5, <1>9
  <2>2. /\ ShutOut(Of[c]) => \E k \in Jobs : On(k, Of[c]) /\ At(k, "revoke")
        /\ \A k \in Jobs : On(k, Of[c]) => ~At(k, "drop")
    BY <2>1 DEF CustodyInv, Revoked
  <2> QED BY <1>4, <1>6, <1>7, <1>8, <2>1, <2>2
<1>e. Listed'
  <2> SUFFICES ASSUME NEW c \in live \ orphaned, ~late'[Of[c]]
               PROVE  \/ c \in devices /\ ~ShutOut(Of[c])'
                      \/ \E k \in Jobs : On(k, Of[c])' /\ c \in job'[k].mbks
    BY <1>2 DEF Listed
  <2>1. c \in Clients /\ Of[c] \in Handles /\ ~late[Of[c]] /\ Of[c] # job[j].of
    BY <1>3, <1>5, <1>9
  <2>2. \/ c \in devices /\ ~ShutOut(Of[c])
        \/ \E k \in Jobs : On(k, Of[c]) /\ c \in job[k].mbks
    BY <2>1 DEF CustodyInv, Listed
  <2> QED BY <1>4, <1>7, <1>8, <2>1, <2>2
<1>f. Complete'
  <2> SUFFICES ASSUME NEW k \in Jobs, NEW c \in live \ orphaned, ~late'[Of[c]], On(k, Of[c])',
                      job'[k].op # "unban"
               PROVE  c \in job'[k].mbks \cup Kept(k)'
    BY <1>2 DEF Complete
  <2>1. c \in Clients /\ Of[c] \in Handles /\ ~late[Of[c]] BY <1>3, <1>5, <1>9
  <2> QED BY <1>2, <1>6, <1>8, <2>1 DEF CustodyInv, Complete, Kept
<1> QED BY <1>a, <1>b, <1>c, <1>d, <1>e, <1>f DEF CustodyInv

LEMMA CustodyCrash ==
  ASSUME TypeOK, CustodyInv, Crash
  PROVE  CustodyInv'
<1>1. /\ live' = {} /\ UNCHANGED <<accounts, banned, sessions, devices>>
      /\ \A c \in Clients : request'[c] = "none"
      /\ \A j \in Jobs : job'[j] = Idle
  BY DEF Crash, rows
<1>2. \A u \in Handles : ~late'[u] => ~late[u] /\ ~\E j \in Jobs : On(j, u) /\ At(j, "revoke")
  BY DEF Crash, Running, On, At
<1>3. \A c \in Clients : Of[c] \in Handles OBVIOUS
<1>4. \A j \in Jobs : \A u : ~On(j, u)' BY <1>1 DEF On
<1>5. sessions \subseteq Clients BY DEF TypeOK
<1>6. Revoked' BY <1>1, <1>2, <1>3, <1>4, <1>5 DEF CustodyInv, Revoked, ShutOut
<1> QED BY <1>1, <1>4, <1>6 DEF CustodyInv, Kinds, Alone, StillTrue, Listed, Complete

\* Where a job stands tells what kind of handler it is.
LEMMA KindAt ==
  ASSUME TypeOK, Kinds, NEW j \in Jobs, job[j] # Idle
  PROVE  /\ At(j, "mark") => job[j].op = "ban"
         /\ At(j, "unmark") => job[j].op = "unban"
         /\ At(j, "wipe") \/ At(j, "drop") => job[j].op \in {"delete", "selfdelete"}
         /\ At(j, "remove") => job[j].op \in {"clear", "forget"}
         /\ At(j, "revoke") => job[j].op = "ban"
         /\ At(j, "refresh") \/ At(j, "query") \/ At(j, "fill") => job[j].op \in {"ban", "unban", "delete"}
         /\ job[j].op # "forget" => job[j].keeps = {}
<1>1. job[j].op \in JobOps /\ job[j].step \in KindOf(job[j].op) BY JobType DEF Kinds
<1>2. job[j].op # "forget" => job[j].keeps = {} BY DEF Kinds
<1> QED BY <1>1, <1>2 DEF At, JobOps, KindOf

LEMMA CustodyJob ==
  ASSUME TypeOK, CustodyInv, NEW j \in Jobs, JobNext(j)
  PROVE  CustodyInv'
<1> USE DEF rows, memory, history
<1>k. Kinds BY DEF CustodyInv
<1>1. ASSUME NEW op \in Ops, NEW u \in Handles, NEW keeps \in Keeping(op), StartJob(j, op, u, keeps)
      PROVE  CustodyInv'
  BY <1>1, CustodyStart
<1>2. CASE Mark(j)
  <2>1. Moved(j, "revoke") /\ At(j, "mark") BY <1>2, MovedBySteps DEF Mark, JobSteps
  <2>2. job[j].op = "ban" /\ job[j].keeps = {} BY <1>k, <2>1, KindAt DEF Moved
  <2>3. PICK u \in Handles : job[j].of = u BY <2>1, JobType DEF Moved
  <2>4. \A v \in Handles \ {u} : ShutOut(v)' = ShutOut(v) BY <1>2, <2>3 DEF Mark, ShutOut
  <2>5. UNCHANGED <<request, late, sessions, idOf, live, orphaned, devices>> BY <1>2 DEF Mark
  <2>6. On(j, u) /\ ~At(j, "revoke") BY <2>1, <2>3 DEF On, At, Moved
  <2>7. "revoke" \in KindOf(job[j].op) BY <2>2 DEF KindOf
  <2> QED BY <2>1, <2>2, <2>4, <2>5, <2>6, <2>7, CustodyShutting
<1>3. CASE Revoke(j)
  <2>1. Moved(j, "refresh") /\ At(j, "revoke") BY <1>3, MovedBySteps DEF Revoke, JobSteps
  <2>2. "refresh" \in KindOf(job[j].op) BY <1>k, <2>1, KindAt DEF KindOf, Moved
  <2> QED BY <1>3, <2>1, <2>2, CustodyRevoking DEF Revoke
<1>4. CASE Unmark(j)
  <2>1. Moved(j, "refresh") /\ At(j, "unmark") BY <1>4, MovedBySteps DEF Unmark, JobSteps
  <2>2. "refresh" \in KindOf(job[j].op) BY <1>k, <2>1, KindAt DEF KindOf, Moved
  <2>3. \A u \in Handles : ShutOut(u)' => ShutOut(u) BY <1>4 DEF Unmark, ShutOut
  <2>4. ~At(j, "revoke") BY <2>1 DEF At
  <2> QED BY <1>4, <2>1, <2>2, <2>3, <2>4, CustodyQuietMove DEF Unmark
<1>5. CASE Wipe(j)
  <2>1. Moved(j, "drop") /\ At(j, "wipe") BY <1>5, MovedBySteps DEF Wipe, JobSteps
  <2>2. "drop" \in KindOf(job[j].op) BY <1>k, <2>1, KindAt DEF KindOf, Moved
  <2> QED BY <1>5, <2>1, <2>2, CustodyRevoking DEF Wipe
<1>6. CASE Drop(j)
  <2> DEFINE to == IF job[j].op = "delete" THEN "refresh" ELSE "close"
  <2>1. Moved(j, to) /\ At(j, "drop") BY <1>6, MovedBySteps DEF Drop, JobSteps
  <2>2. job[j].op \in {"delete", "selfdelete"} /\ job[j].keeps = {}
    BY <1>k, <2>1, KindAt DEF Moved
  <2>3. PICK u \in Handles : job[j].of = u BY <2>1, JobType DEF Moved
  <2>4. \A v \in Handles \ {u} : ShutOut(v)' = ShutOut(v) BY <1>6, <2>3 DEF Drop, ShutOut
  <2>5. UNCHANGED <<request, late, sessions, idOf, live, orphaned>> BY <1>6 DEF Drop
  <2>6. On(j, u) /\ ~At(j, "revoke") BY <2>1, <2>3 DEF On, At, Moved
  <2>7. to \in KindOf(job[j].op) /\ to # "drop" BY <2>2 DEF KindOf
  <2>8. \A c \in devices : Of[c] # u => c \in devices' BY <1>6, <2>3 DEF Drop, DevicesOf
  <2> HIDE DEF to
  <2> QED BY <2>1, <2>2, <2>4, <2>5, <2>6, <2>7, <2>8, CustodyShutting
<1>7. CASE Remove(j)
  <2>1. Moved(j, "close") /\ At(j, "remove") BY <1>7, MovedBySteps DEF Remove, JobSteps
  <2>2. job[j].op \in {"clear", "forget"} BY <1>k, <2>1, KindAt DEF Moved
  <2>3. PICK u \in Handles : job[j].of = u BY <2>1, JobType DEF Moved
  <2>4. \A v : ShutOut(v)' = ShutOut(v) BY <1>7 DEF Remove, ShutOut
  <2>5. UNCHANGED <<request, late, sessions, idOf, live, orphaned>> BY <1>7 DEF Remove
  <2>6. On(j, u) /\ ~At(j, "revoke") BY <2>1, <2>3 DEF On, At, Moved
  <2>7. "close" \in KindOf(job[j].op) BY <2>2 DEF KindOf
  <2>8. \A c \in devices : Of[c] # u \/ idOf[c] \in job[j].keeps => c \in devices'
    BY <1>7, <2>3 DEF Remove, DevicesOf
  <2> QED BY <2>1, <2>2, <2>4, <2>5, <2>6, <2>7, <2>8, CustodyShutting
<1>8. CASE ClearBans(j)
  <2>1. Moved(j, "query") /\ At(j, "refresh") BY <1>8, MovedBySteps DEF ClearBans, JobSteps
  <2>2. "query" \in KindOf(job[j].op) BY <1>k, <2>1, KindAt DEF KindOf, Moved
  <2>3. \A u \in Handles : ShutOut(u)' => ShutOut(u) BY <1>8 DEF ClearBans, ShutOut
  <2>4. ~At(j, "revoke") BY <2>1 DEF At
  <2> QED BY <1>8, <2>1, <2>2, <2>3, <2>4, CustodyQuietMove DEF ClearBans
<1>9. CASE QueryBans(j)
  <2>1. Moved(j, "fill") /\ At(j, "query") BY <1>9, MovedByQuery
  <2>2. "fill" \in KindOf(job[j].op) BY <1>k, <2>1, KindAt DEF KindOf, Moved
  <2>3. \A u \in Handles : ShutOut(u)' => ShutOut(u) BY <1>9 DEF QueryBans, ShutOut
  <2>4. ~At(j, "revoke") BY <2>1 DEF At
  <2> QED BY <1>9, <2>1, <2>2, <2>3, <2>4, CustodyQuietMove DEF QueryBans
<1>10. CASE FillBans(j)
  <2>1. Ended(j) /\ ~At(j, "revoke") BY <1>10, EndedByReset DEF FillBans, At
  <2> QED BY <1>10, <2>1, CustodyEnded DEF FillBans, OpenAfter
<1>11. CASE CloseSockets(j)
  <2>1. Ended(j) /\ ~At(j, "revoke") BY <1>11, EndedByReset DEF CloseSockets, At
  <2> QED BY <1>11, <2>1, CustodyEnded DEF CloseSockets, OpenAfter
<1>12. CASE JobFails(j) BY <1>12, CustodyFailed
<1> QED BY <1>1, <1>2, <1>3, <1>4, <1>5, <1>6, <1>7, <1>8, <1>9, <1>10, <1>11, <1>12
        DEF JobNext

LEMMA CustodyStutter ==
  ASSUME CustodyInv, UNCHANGED vars
  PROVE  CustodyInv'
  BY DEF CustodyInv, Kinds, Alone, StillTrue, Revoked, Listed, Complete, Kept, On, At, ShutOut,
         vars, rows, memory, history

\* What an account handler learned before its awaits is still so, and a ban or a
\* removal that is under way lists every session and socket it has yet to end,
\* but for accounts that are late and for sockets that were orphaned when another
\* card took over the row of their device.
THEOREM CustodyCorrect == Spec => []CustodyInv
<1>1. TypeOK /\ CustodyInv /\ [Next]_vars => CustodyInv'
  BY CustodyClient, CustodyJob, CustodyCrash, CustodyStutter DEF Next
<1> QED BY <1>1, CustodyInit, TypeCorrect, PTL DEF Spec

LEMMA SettledAlone ==
  ASSUME NEW c \in Clients, Settled(Of[c])
  PROVE  ~late[Of[c]] /\ \A j \in Jobs : ~On(j, Of[c])
  BY DEF Settled, JobOn, Running, On

\* A settled account that is banned or gone has no session, whatever overlapped.
THEOREM SessionsRevoked == Spec => []NoSessionLeft
<1>1. TypeOK /\ CustodyInv => NoSessionLeft
  BY SettledAlone DEF TypeOK, CustodyInv, Revoked, NoSessionLeft
<1> QED BY <1>1, TypeCorrect, CustodyCorrect, PTL

\* A settled account that is banned or gone has no socket subscribed but orphaned
\* ones, in spite of the moments in which a refresh leaves the ban set empty.
THEOREM SocketsShut == Spec => []NoSocketLeft
<1>1. TypeOK /\ CustodyInv => NoSocketLeft
  BY SettledAlone DEF TypeOK, CustodyInv, Listed, NoSocketLeft
<1> QED BY <1>1, TypeCorrect, CustodyCorrect, PTL

\* A settled account that is banned or gone has neither; the sockets that no job
\* can find are the orphaned ones and no others.
THEOREM BannedOut == Spec => []BannedIsOut
<1>1. NoSessionLeft /\ NoSocketLeft => BannedIsOut BY DEF BannedIsOut
<1> QED BY <1>1, SessionsRevoked, SocketsShut, PTL

\* Every subscription of a settled account is to a mailbox it still owns, or was
\* orphaned when another card took over its row.
THEOREM OwnersListen == Spec => []ListensOnOwnDevice
<1>1. TypeOK /\ CustodyInv => ListensOnOwnDevice
  BY SettledAlone DEF TypeOK, CustodyInv, Listed, ListensOnOwnDevice
<1> QED BY <1>1, TypeCorrect, CustodyCorrect, PTL

-----------------------------------------------------------------------------
(* The ban set in memory *)

LEMMA BanInit == Init => BanInv
  BY DEF Init, BanInv, OneRefresh, OnlyBanned, AllBanned, OwnDeletion, On, At

LEMMA BanClient ==
  ASSUME TypeOK, CustodyInv, BanInv, NEW c \in Clients, ClientNext(c)
  PROVE  BanInv'
<1>1. /\ UNCHANGED <<banned, bannedMbkeys, job, stale>>
      /\ \A u \in Handles : ~late'[u] => ~late[u]
  BY ClientFrame
<1>2. \A d \in devices' \ devices : ~late[Of[d]] => Of[d] \notin banned
  <2> USE DEF Goes, rows, memory, history, Begins
  <2>1. ASSUME NEW id \in DeviceIds, AddDevice(c, id), NEW d \in devices' \ devices, ~late[Of[d]]
        PROVE  Of[d] \notin banned
    <3>1. d = c /\ request[c] = "addDevice" BY <2>1, RowTaken
    <3> QED BY <2>1, <3>1 DEF CustodyInv, StillTrue, ShutOut
  <2>2. (\A id \in DeviceIds : ~AddDevice(c, id)) => devices' = devices
    BY DEF ClientNext, Register, CreateAccount, Login, CreateSession, Logout, DeviceRequest,
           DeviceBanCheck, SubscribeMessage, SubscribeSession, SubscribeOwned, Subscribed,
           Disconnect, RequestFails
  <2> QED BY <2>1, <2>2
<1>3. \A d \in Clients : Of[d] \in Handles OBVIOUS
<1>4. devices' \subseteq Clients BY TypeClientStep DEF TypeOK
<1>5. \A j \in Jobs :
        /\ \A u : On(j, u)' = On(j, u)
        /\ \A step : At(j, step)' = At(j, step)
  BY <1>1 DEF On, At
<1>6. OneRefresh' BY <1>1, <1>5 DEF BanInv, OneRefresh
<1>7. OnlyBanned' BY <1>1, <1>3, <1>5 DEF BanInv, OnlyBanned, Awaits
<1>8. AllBanned'
  <2> SUFFICES ASSUME ~stale, NEW d \in devices', ~late'[Of[d]], Of[d] \in banned
               PROVE  \/ d \in bannedMbkeys
                      \/ \E j \in Jobs : At(j, "query") \/ (At(j, "fill") /\ d \in job[j].found)
                      \/ \E j \in Jobs : On(j, Of[d]) /\ job[j].step \in {"revoke", "refresh"}
    BY <1>1, <1>5 DEF AllBanned, Awaits
  <2>1. d \in Clients /\ ~late[Of[d]] BY <1>1, <1>3, <1>4
  <2>2. d \in devices BY <1>2, <2>1
  <2> QED BY <2>1, <2>2 DEF BanInv, AllBanned, Awaits
<1>9. OwnDeletion' BY <1>1, <1>5 DEF BanInv, OwnDeletion
<1> QED BY <1>6, <1>7, <1>8, <1>9 DEF BanInv

\* A job starts: the refresh comes last in every one of them.
LEMMA BanStart ==
  ASSUME TypeOK, CustodyInv, BanInv, NEW j \in Jobs,
         NEW op \in Ops, NEW u \in Handles, NEW keeps \in Keeping(op), StartJob(j, op, u, keeps)
  PROVE  BanInv'
<1>1. /\ job[j] = Idle /\ job'[j] # Idle /\ job'[j].op = op /\ job'[j].of = u
      /\ job'[j].step = FirstStep(op)
      /\ \A k \in Jobs \ {j} : job'[k] = job[k]
  BY Started
<1>2. /\ UNCHANGED <<accounts, banned, sessions, devices, bannedMbkeys, stale>>
      /\ late' = [late EXCEPT ![u] = @ \/ Asking(u) \/ JobOn(u)]
  BY DEF StartJob, rows, memory
<1>3. /\ \A v \in Handles : ~late'[v] => ~late[v]
      /\ ~late'[u] => ~JobOn(u)
  BY <1>2 DEF TypeOK
<1>4. FirstStep(op) \in {"mark", "unmark", "wipe", "remove"}
  <2>1. op \in JobOps OBVIOUS
  <2> QED BY <2>1 DEF FirstStep, JobOps
<1>5. \A k \in Jobs : \A v : k # j => On(k, v)' = On(k, v) BY <1>1 DEF On
<1>6. \A k \in Jobs, step \in {"refresh", "query", "fill"} : At(k, step)' <=> At(k, step) /\ k # j
  BY <1>1, <1>4 DEF At
<1>7. \A v : ~On(j, v) BY <1>1 DEF On
<1>8. \A d \in Clients : Of[d] \in Handles OBVIOUS
<1>a. OneRefresh' BY <1>2, <1>6 DEF BanInv, OneRefresh
<1>b. \A v, step : (\E k \in Jobs : On(k, v) /\ job[k].step = step)
                 => \E k \in Jobs : On(k, v)' /\ job'[k].step = step
  BY <1>1, <1>5, <1>7
<1>c. \A v, steps : Awaits(v, steps) => \E k \in Jobs : On(k, v)' /\ job'[k].step \in steps
  BY <1>b DEF Awaits
<1>d. \A k \in Jobs : k # j => job'[k] = job[k] BY <1>1
<1>e. OnlyBanned'
  <2> SUFFICES ASSUME ~stale, NEW d \in Clients, ~late'[Of[d]]
               PROVE  /\ d \in bannedMbkeys => Of[d] \in banned \/ Awaits(Of[d], {"refresh"})'
                      /\ \A k \in Jobs : At(k, "fill")' /\ d \in job'[k].found
                           => Of[d] \in banned \/ Awaits(Of[d], {"refresh"})'
    BY <1>2 DEF OnlyBanned
  <2>1. ~late[Of[d]] BY <1>3, <1>8
  <2>2. Awaits(Of[d], {"refresh"}) => Awaits(Of[d], {"refresh"})' BY <1>c DEF Awaits
  <2> QED BY <1>6, <1>d, <2>1, <2>2 DEF BanInv, OnlyBanned
<1>f. AllBanned'
  <2> SUFFICES ASSUME ~stale, NEW d \in devices, ~late'[Of[d]], Of[d] \in banned
               PROVE  \/ d \in bannedMbkeys
                      \/ \E k \in Jobs : At(k, "query")' \/ (At(k, "fill")' /\ d \in job'[k].found)
                      \/ Awaits(Of[d], {"revoke", "refresh"})'
    BY <1>2 DEF AllBanned
  <2>1. d \in Clients /\ ~late[Of[d]] BY <1>3, <1>8 DEF TypeOK
  <2>2. Awaits(Of[d], {"revoke", "refresh"}) => Awaits(Of[d], {"revoke", "refresh"})'
    BY <1>c DEF Awaits
  <2>3. \A k \in Jobs : At(k, "query") \/ At(k, "fill") => k # j BY <1>1 DEF At
  <2> QED BY <1>6, <1>d, <2>1, <2>2, <2>3 DEF BanInv, AllBanned
<1>g. OwnDeletion'
  <2> SUFFICES ASSUME NEW k \in Jobs, NEW v \in Handles, ~late'[v], On(k, v)', job'[k].op = "selfdelete"
               PROVE  v \notin banned
    BY <1>2 DEF OwnDeletion
  <2>1. CASE k # j BY <1>1, <1>3, <1>5, <2>1 DEF BanInv, OwnDeletion
  <2>2. CASE k = j
    <3>1. op = "selfdelete" /\ v = u BY <1>1, <2>2 DEF On
    <3>2. PICK c \in sessions : Of[c] = u BY <3>1 DEF StartJob, MayStart
    <3>3. ~late[u] /\ ~JobOn(u) BY <1>3, <3>1
    <3> QED BY <3>1, <3>2, <3>3, Unhindered DEF ShutOut, TypeOK
  <2> QED BY <2>1, <2>2
<1> QED BY <1>a, <1>e, <1>f, <1>g DEF BanInv

\* The steps that come before the refresh.
LEMMA BanMoved ==
  ASSUME TypeOK, CustodyInv, BanInv, NEW j \in Jobs, NEW u \in Handles, On(j, u),
         NEW from, At(j, from), from \notin {"refresh", "query", "fill"},
         NEW to, Moved(j, to), to \notin {"query", "fill"}, from = "revoke" => to = "refresh",
         UNCHANGED <<bannedMbkeys, stale, late>>, devices' \subseteq devices,
         \A v \in Handles \ {u} : v \in banned' <=> v \in banned,
         ~late[u] /\ u \in banned /\ u \notin banned' => to = "refresh",
         u \in banned' /\ u \notin banned => to = "revoke" /\ job[j].op # "selfdelete"
  PROVE  BanInv'
<1>1. \A k \in Jobs : \A v : On(k, v)' = On(k, v) BY DEF On, Moved
<1>2. \A k \in Jobs, step \in {"query", "fill"} : At(k, step)' <=> At(k, step) /\ k # j
  BY DEF At, Moved
<1>3. \A k \in Jobs : k # j => job'[k] = job[k] BY DEF Moved
<1>4. job[j].step = from /\ job'[j].step = to BY DEF At, Moved
<1>5. \A k \in Jobs : At(k, "query") \/ At(k, "fill") => k # j BY DEF At
<1>6. devices \subseteq Clients /\ \A c \in Clients : Of[c] \in Handles BY DEF TypeOK
<1>7. \A v \in Handles : Awaits(v, {"refresh"}) => Awaits(v, {"refresh"})'
  BY <1>1, <1>3, <1>4 DEF Awaits
<1>8. \A v \in Handles : Awaits(v, {"revoke", "refresh"}) => Awaits(v, {"revoke", "refresh"})'
  BY <1>1, <1>3, <1>4 DEF Awaits
<1>9. to = "refresh" => Awaits(u, {"refresh"})' BY <1>1, <1>4 DEF Awaits
<1>10. to = "revoke" => Awaits(u, {"revoke", "refresh"})' BY <1>1, <1>4 DEF Awaits
<1>a. OneRefresh' BY <1>2 DEF BanInv, OneRefresh
<1>b. OnlyBanned'
  <2> SUFFICES ASSUME ~stale, NEW d \in Clients, ~late[Of[d]]
               PROVE  /\ d \in bannedMbkeys => Of[d] \in banned' \/ Awaits(Of[d], {"refresh"})'
                      /\ \A k \in Jobs : At(k, "fill")' /\ d \in job'[k].found
                           => Of[d] \in banned' \/ Awaits(Of[d], {"refresh"})'
    BY DEF OnlyBanned
  <2>1. Of[d] \in banned \/ Awaits(Of[d], {"refresh"}) =>
          Of[d] \in banned' \/ Awaits(Of[d], {"refresh"})'
    <3>1. CASE Of[d] = u BY <1>6, <1>7, <1>9, <3>1
    <3>2. CASE Of[d] # u BY <1>6, <1>7, <3>2
    <3> QED BY <3>1, <3>2
  <2> QED BY <1>2, <1>3, <2>1 DEF BanInv, OnlyBanned
<1>c. AllBanned'
  <2> SUFFICES ASSUME ~stale, NEW d \in devices', ~late[Of[d]], Of[d] \in banned'
               PROVE  \/ d \in bannedMbkeys
                      \/ \E k \in Jobs : At(k, "query")' \/ (At(k, "fill")' /\ d \in job'[k].found)
                      \/ Awaits(Of[d], {"revoke", "refresh"})'
    BY DEF AllBanned
  <2>1. d \in devices /\ d \in Clients /\ Of[d] \in Handles BY <1>6
  <2>2. CASE Of[d] \in banned BY <1>2, <1>3, <1>5, <1>8, <2>1, <2>2 DEF BanInv, AllBanned
  <2>3. CASE Of[d] \notin banned BY <1>10, <2>1, <2>3
  <2> QED BY <2>2, <2>3
<1>d. OwnDeletion'
  <2> SUFFICES ASSUME NEW k \in Jobs, NEW v \in Handles, ~late[v], On(k, v)', job'[k].op = "selfdelete"
               PROVE  v \notin banned'
    BY DEF OwnDeletion
  <2>1. On(k, v) /\ job[k].op = "selfdelete" BY <1>1, <1>3 DEF Moved
  <2>2. v \notin banned BY <2>1 DEF BanInv, OwnDeletion
  <2>3. v = u => k = j BY <2>1 DEF CustodyInv, Alone
  <2> QED BY <2>1, <2>2, <2>3
<1> QED BY <1>a, <1>b, <1>c, <1>d DEF BanInv

\* refreshBans empties the set: a fresh start, whatever happened before.
LEMMA BanClear ==
  ASSUME TypeOK, CustodyInv, BanInv, NEW j \in Jobs, ClearBans(j)
  PROVE  BanInv'
<1>1. Moved(j, "query") /\ At(j, "refresh") BY MovedBySteps DEF ClearBans, JobSteps
<1>2. /\ bannedMbkeys' = {} /\ UNCHANGED <<banned, devices, late>>
      /\ ~stale' => \A k \in Jobs : ~At(k, "query") /\ ~At(k, "fill")
  BY DEF ClearBans, rows, Refreshing, Running, At
<1>3. ~stale' => \A k \in Jobs : (At(k, "query")' => k = j) /\ ~At(k, "fill")'
  BY <1>1, <1>2 DEF At, Moved
<1>4. At(j, "query")' BY <1>1 DEF At, Moved
<1>5. OneRefresh' BY <1>3 DEF OneRefresh
<1>6. OnlyBanned' BY <1>2, <1>3 DEF OnlyBanned
<1>7. AllBanned' BY <1>4 DEF AllBanned
<1>8. OwnDeletion' BY <1>1, <1>2 DEF BanInv, OwnDeletion, On, Moved
<1> QED BY <1>5, <1>6, <1>7, <1>8 DEF BanInv

\* Its query finds what is banned now.
LEMMA BanQuery ==
  ASSUME TypeOK, CustodyInv, BanInv, NEW j \in Jobs, QueryBans(j)
  PROVE  BanInv'
<1>1. Moved(j, "fill") /\ At(j, "query") /\ job'[j].found = BannedDevices BY MovedByQuery
<1>2. UNCHANGED <<banned, devices, bannedMbkeys, late, stale>>
  BY DEF QueryBans, rows, memory, history
<1>3. ~stale => \A k \in Jobs : ~At(k, "query")' /\ (At(k, "fill")' => k = j)
  BY <1>1 DEF BanInv, OneRefresh, At, Moved
<1>4. At(j, "fill")' BY <1>1 DEF At, Moved
<1>5. \A c \in Clients : Of[c] \in Handles OBVIOUS
<1>6. OneRefresh' BY <1>2, <1>3 DEF OneRefresh
<1>7. OnlyBanned'
  <2>1. \A v \in Handles : Awaits(v, {"refresh"}) => Awaits(v, {"refresh"})'
    BY <1>1 DEF Awaits, On, Moved, At
  <2> QED BY <1>1, <1>2, <1>3, <1>5, <2>1 DEF BanInv, OnlyBanned, BannedDevices
<1>8. AllBanned' BY <1>1, <1>2, <1>4 DEF AllBanned, BannedDevices
<1>9. OwnDeletion' BY <1>1, <1>2 DEF BanInv, OwnDeletion, On, Moved
<1> QED BY <1>6, <1>7, <1>8, <1>9 DEF BanInv

\* And they are put into the set.
LEMMA BanFill ==
  ASSUME TypeOK, CustodyInv, BanInv, NEW j \in Jobs, FillBans(j)
  PROVE  BanInv'
<1>1. Ended(j) /\ At(j, "fill") BY EndedByReset DEF FillBans, At
<1>2. /\ bannedMbkeys' = bannedMbkeys \cup job[j].found
      /\ UNCHANGED <<banned, devices, late, stale>>
  BY DEF FillBans, Fill, rows, history
<1>3. ~stale => \A k \in Jobs : (At(k, "query") \/ At(k, "fill")) => k = j
  BY <1>1 DEF BanInv, OneRefresh
<1>4. ~stale => \A k \in Jobs : ~At(k, "query")' /\ ~At(k, "fill")'
  BY <1>1, <1>3 DEF At, Ended
<1>5. \A v \in Handles :
        /\ Awaits(v, {"refresh"}) => Awaits(v, {"refresh"})'
        /\ Awaits(v, {"revoke", "refresh"}) => Awaits(v, {"revoke", "refresh"})'
  BY <1>1 DEF Awaits, On, At, Ended
<1>6. devices \subseteq Clients /\ \A c \in Clients : Of[c] \in Handles BY DEF TypeOK
<1>7. OneRefresh' BY <1>2, <1>4 DEF OneRefresh
<1>8. OnlyBanned'
  <2> SUFFICES ASSUME ~stale, NEW d \in Clients, ~late[Of[d]], d \in bannedMbkeys'
               PROVE  Of[d] \in banned \/ Awaits(Of[d], {"refresh"})'
    BY <1>2, <1>4 DEF OnlyBanned
  <2>1. Of[d] \in banned \/ Awaits(Of[d], {"refresh"})
    BY <1>1, <1>2 DEF BanInv, OnlyBanned
  <2> QED BY <1>5, <1>6, <2>1
<1>9. AllBanned'
  <2> SUFFICES ASSUME ~stale, NEW d \in devices, ~late[Of[d]], Of[d] \in banned
               PROVE  d \in bannedMbkeys' \/ Awaits(Of[d], {"revoke", "refresh"})'
    BY <1>2 DEF AllBanned
  <2>1. d \in bannedMbkeys \cup job[j].found \/ Awaits(Of[d], {"revoke", "refresh"})
    BY <1>1, <1>3 DEF BanInv, AllBanned, At
  <2> QED BY <1>2, <1>5, <1>6, <2>1
<1>10. OwnDeletion' BY <1>1, <1>2 DEF BanInv, OwnDeletion, On, Ended
<1> QED BY <1>7, <1>8, <1>9, <1>10 DEF BanInv

LEMMA BanClose ==
  ASSUME TypeOK, CustodyInv, BanInv, NEW j \in Jobs, CloseSockets(j)
  PROVE  BanInv'
<1>1. Ended(j) /\ At(j, "close") BY EndedByReset DEF CloseSockets, At
<1>2. UNCHANGED <<banned, devices, bannedMbkeys, late, stale>>
  BY DEF CloseSockets, rows, history
<1>3. \A k \in Jobs : (At(k, "query")' <=> At(k, "query")) /\ (At(k, "fill")' <=> At(k, "fill"))
  BY <1>1 DEF At, Ended
<1>4. \A k \in Jobs : At(k, "fill") => job'[k] = job[k] BY <1>1 DEF At, Ended
<1>5. \A v \in Handles :
        /\ Awaits(v, {"refresh"}) => Awaits(v, {"refresh"})'
        /\ Awaits(v, {"revoke", "refresh"}) => Awaits(v, {"revoke", "refresh"})'
  BY <1>1 DEF Awaits, On, At, Ended
<1>6. devices \subseteq Clients /\ \A c \in Clients : Of[c] \in Handles BY DEF TypeOK
<1>7. OneRefresh' BY <1>2, <1>3 DEF BanInv, OneRefresh
<1>8. OnlyBanned'
  <2> SUFFICES ASSUME ~stale, NEW d \in Clients, ~late[Of[d]]
               PROVE  /\ d \in bannedMbkeys => Of[d] \in banned \/ Awaits(Of[d], {"refresh"})'
                      /\ \A k \in Jobs : At(k, "fill")' /\ d \in job'[k].found
                           => Of[d] \in banned \/ Awaits(Of[d], {"refresh"})'
    BY <1>2 DEF OnlyBanned
  <2>1. Awaits(Of[d], {"refresh"}) => Awaits(Of[d], {"refresh"})' BY <1>5, <1>6
  <2> QED BY <1>3, <1>4, <2>1 DEF BanInv, OnlyBanned
<1>9. AllBanned'
  <2> SUFFICES ASSUME ~stale, NEW d \in devices, ~late[Of[d]], Of[d] \in banned
               PROVE  \/ d \in bannedMbkeys
                      \/ \E k \in Jobs : At(k, "query")' \/ (At(k, "fill")' /\ d \in job'[k].found)
                      \/ Awaits(Of[d], {"revoke", "refresh"})'
    BY <1>2 DEF AllBanned
  <2>1. Awaits(Of[d], {"revoke", "refresh"}) => Awaits(Of[d], {"revoke", "refresh"})'
    BY <1>5, <1>6
  <2> QED BY <1>3, <1>4, <2>1 DEF BanInv, AllBanned
<1>10. OwnDeletion' BY <1>1, <1>2 DEF BanInv, OwnDeletion, On, Ended
<1> QED BY <1>7, <1>8, <1>9, <1>10 DEF BanInv

LEMMA BanFailed ==
  ASSUME TypeOK, CustodyInv, BanInv, NEW j \in Jobs, JobFails(j)
  PROVE  BanInv'
<1>1. Ended(j) BY EndedByReset DEF JobFails
<1>2. stale' /\ banned' = banned /\ \A u \in Handles : ~late'[u] => ~late[u]
  BY DEF JobFails, rows, TypeOK
<1>3. OwnDeletion' BY <1>1, <1>2 DEF BanInv, OwnDeletion, On, Ended
<1> QED BY <1>2, <1>3 DEF BanInv, OneRefresh, OnlyBanned, AllBanned

\* main() loads the set before it listens.
LEMMA BanCrash ==
  ASSUME TypeOK, Crash
  PROVE  BanInv'
<1>1. /\ bannedMbkeys' = BannedDevices /\ UNCHANGED <<banned, devices>>
      /\ \A j \in Jobs : job'[j] = Idle
  BY DEF Crash, rows
<1>2. \A j \in Jobs : (\A step : ~At(j, step)') /\ (\A u : ~On(j, u)') BY <1>1 DEF At, On
<1> QED BY <1>1, <1>2
        DEF BanInv, OneRefresh, OnlyBanned, AllBanned, OwnDeletion, BannedDevices

LEMMA BanJob ==
  ASSUME TypeOK, CustodyInv, BanInv, NEW j \in Jobs, JobNext(j)
  PROVE  BanInv'
<1> USE DEF rows, memory, history
<1>k. Kinds BY DEF CustodyInv
<1>o. job[j] # Idle => job[j].of \in Handles /\ On(j, job[j].of) BY JobType DEF On
<1>1. ASSUME NEW op \in Ops, NEW u \in Handles, NEW keeps \in Keeping(op), StartJob(j, op, u, keeps)
      PROVE  BanInv'
  BY <1>1, BanStart
<1>2. CASE Mark(j)
  <2>1. Moved(j, "revoke") /\ At(j, "mark") BY <1>2, MovedBySteps DEF Mark, JobSteps
  <2>2. job[j].op = "ban" BY <1>k, <2>1, KindAt DEF Moved
  <2>3. PICK u \in Handles : job[j].of = u /\ On(j, u) BY <1>o, <2>1 DEF Moved
  <2> QED BY <1>2, <2>1, <2>2, <2>3, BanMoved DEF Mark
<1>3. CASE Revoke(j)
  <2>1. Moved(j, "refresh") /\ At(j, "revoke") BY <1>3, MovedBySteps DEF Revoke, JobSteps
  <2>2. PICK u \in Handles : job[j].of = u /\ On(j, u) BY <1>o, <2>1 DEF Moved
  <2> QED BY <1>3, <2>1, <2>2, BanMoved DEF Revoke
<1>4. CASE Unmark(j)
  <2>1. Moved(j, "refresh") /\ At(j, "unmark") BY <1>4, MovedBySteps DEF Unmark, JobSteps
  <2>2. PICK u \in Handles : job[j].of = u /\ On(j, u) BY <1>o, <2>1 DEF Moved
  <2> QED BY <1>4, <2>1, <2>2, BanMoved DEF Unmark
<1>5. CASE Wipe(j)
  <2>1. Moved(j, "drop") /\ At(j, "wipe") BY <1>5, MovedBySteps DEF Wipe, JobSteps
  <2>2. PICK u \in Handles : job[j].of = u /\ On(j, u) BY <1>o, <2>1 DEF Moved
  <2> QED BY <1>5, <2>1, <2>2, BanMoved DEF Wipe
<1>6. CASE Drop(j)
  <2> DEFINE to == IF job[j].op = "delete" THEN "refresh" ELSE "close"
  <2>1. Moved(j, to) /\ At(j, "drop") BY <1>6, MovedBySteps DEF Drop, JobSteps
  <2>2. PICK u \in Handles : job[j].of = u /\ On(j, u) BY <1>o, <2>1 DEF Moved
  <2>3. job[j].op \in {"delete", "selfdelete"} BY <1>k, <2>1, KindAt DEF Moved
  <2>4. ~late[u] /\ u \in banned => to = "refresh" BY <2>2, <2>3 DEF BanInv, OwnDeletion
  <2>5. to \notin {"query", "fill"} OBVIOUS
  <2>6. UNCHANGED <<bannedMbkeys, stale, late>> /\ devices' \subseteq devices
        /\ banned' = banned \ {u}
    BY <1>6, <2>2 DEF Drop
  <2> HIDE DEF to
  <2> QED BY <2>1, <2>2, <2>4, <2>5, <2>6, BanMoved
<1>7. CASE Remove(j)
  <2>1. Moved(j, "close") /\ At(j, "remove") BY <1>7, MovedBySteps DEF Remove, JobSteps
  <2>2. PICK u \in Handles : job[j].of = u /\ On(j, u) BY <1>o, <2>1 DEF Moved
  <2> QED BY <1>7, <2>1, <2>2, BanMoved DEF Remove
<1> QED BY <1>1, <1>2, <1>3, <1>4, <1>5, <1>6, <1>7, BanClear, BanQuery, BanFill,
           BanClose, BanFailed DEF JobNext

LEMMA BanStutter ==
  ASSUME BanInv, UNCHANGED vars
  PROVE  BanInv'
  BY DEF BanInv, OneRefresh, OnlyBanned, AllBanned, OwnDeletion, Awaits, On, At,
         vars, rows, memory, history

\* Unless two refreshes overlapped: what is in the set of banned mailboxes, or
\* about to be put there, is of a banned account or of one that awaits a refresh,
\* and what is of a banned account will be there.
THEOREM BansCorrect == Spec => []BanInv
<1>1. TypeOK /\ CustodyInv /\ BanInv /\ [Next]_vars => BanInv'
  BY BanClient, BanJob, BanCrash, BanStutter DEF Next
<1> QED BY <1>1, BanInit, TypeCorrect, CustodyCorrect, PTL DEF Spec

\* Between two refreshes the set in memory names the devices of the banned
\* accounts that are settled, and no other device.
THEOREM BanSetCorrect == Spec => []BanSetExact
<1>1. TypeOK /\ BanInv => BanSetExact
  <2> SUFFICES ASSUME TypeOK, BanInv, ~stale, NEW c \in devices, Settled(Of[c]), ~Refreshing
               PROVE  c \in bannedMbkeys <=> Of[c] \in banned
    BY DEF BanSetExact
  <2>1. c \in Clients BY DEF TypeOK
  <2>2. ~late[Of[c]] /\ \A j \in Jobs : ~On(j, Of[c]) BY <2>1, SettledAlone
  <2>3. \A j \in Jobs : ~At(j, "query") /\ ~At(j, "fill") BY DEF Refreshing, Running, At
  <2> QED BY <2>1, <2>2, <2>3 DEF BanInv, OnlyBanned, AllBanned, Awaits
<1> QED BY <1>1, TypeCorrect, BansCorrect, PTL
=============================================================================
