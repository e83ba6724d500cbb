------------------------------ MODULE Transport ------------------------------
(***************************************************************************)
(* Which network the clients are told to send over: the gateway's own mix  *)
(* fleet ("internal") or the public Nym mixnet through a sidecar ("nym").  *)
(* apps/server/server.js keeps what the admin wants, what is in effect and *)
(* what is stored; apps/server/nym.js keeps the link to the sidecar.  The  *)
(* sidecar is configured (CFG.nymClientUrl is set).                        *)
(***************************************************************************)
EXTENDS Integers

CONSTANTS
  Requests,    \* POST /api/admin/transport calls that may be in flight (a bound)
  Clients,     \* gateway sockets
  Addresses,   \* Nym addresses the sidecar may have
  NoAddress,   \* null
  DbFaults     \* may setSetting fail?

ASSUME TransportAssumption ==
  /\ NoAddress \notin Addresses
  /\ DbFaults \in BOOLEAN

Transports == {"internal", "nym"}
Status == [transport : Transports, nymAddress : Addresses \cup {NoAddress}]
Offline == [transport |-> "offline", nymAddress |-> NoAddress]
IdleRequest == [mode |-> "internal", state |-> "idle"]

VARIABLES
  desired,     \* desiredTransport
  live,        \* live.transport
  persisted,   \* the "transport" row of the settings table
  link,        \* connectNym: timer armed, connecting, awaiting selfAddress, connected
  address,     \* connectNym's address
  backoff,     \* connectNym's backoff, in seconds
  sidecar,     \* is the sidecar reachable? (environment)
  request,     \* request[a]: an admin's switch, between its awaits
  told,        \* told[c]: the last status message sent to client c
  raced,       \* history: the link dropped under a switch to nym in flight
  clashed      \* history: two switches overlapped, or one failed to save

vars == <<desired, live, persisted, link, address, backoff, sidecar, request, told, raced, clashed>>
linkVars == <<link, address, backoff>>

Init ==
  /\ sidecar \in BOOLEAN
  /\ persisted \in Transports
  /\ desired = persisted
  /\ live = "internal"          \* "start safe; the sidecar's onConnect flips it back"
  /\ link = "connecting"
  /\ address = NoAddress
  /\ backoff = 1
  /\ request = [a \in Requests |-> IdleRequest]
  /\ told = [c \in Clients |-> Offline]
  /\ raced = FALSE /\ clashed = FALSE

Connected == link = "connected"
StatusOf(mode) == [transport |-> mode, nymAddress |-> address]
Broadcast(status) ==
  told' = [c \in Clients |-> IF told[c] = Offline THEN Offline ELSE status]

-----------------------------------------------------------------------------
(* The link to the sidecar *)

LinkOpened ==
  /\ link = "connecting" /\ sidecar
  /\ link' = "asking"
  /\ backoff' = 1
  /\ UNCHANGED <<desired, live, persisted, address, sidecar, request, told, raced, clashed>>

\* Does onConnect switch to nym?
RestoresNever == FALSE
Restores == desired = "nym" /\ live # "nym"

LinkAnswered(x) ==
  /\ link = "asking" /\ sidecar
  /\ link' = "connected"
  /\ address' = x
  /\ IF Restores
     THEN /\ live' = "nym"
          /\ Broadcast([transport |-> "nym", nymAddress |-> x])
     ELSE UNCHANGED <<live, told>>
  /\ UNCHANGED <<desired, persisted, backoff, sidecar, request, raced, clashed>>

\* The wait before the next attempt: doubled, at most 30 seconds.
BackoffUncapped == 2 * backoff
NextBackoff == IF 2 * backoff < 30 THEN 2 * backoff ELSE 30

\* live.transport after onDisconnect.
LiveKept == live
LiveAfterDrop == "internal"

\* down(): onDisconnect runs while address is still set, then both are cleared.
LinkDown ==
  /\ link # "waiting" /\ ~sidecar
  /\ link' = "waiting"
  /\ address' = NoAddress
  /\ backoff' = NextBackoff
  /\ IF Connected /\ live = "nym"
     THEN live' = LiveAfterDrop /\ Broadcast(StatusOf(LiveAfterDrop))
     ELSE UNCHANGED <<live, told>>
  /\ raced' = (raced \/ (Connected /\ \E a \in Requests :
                           request[a].state # "idle" /\ request[a].mode = "nym"))
  /\ UNCHANGED <<desired, persisted, sidecar, request, clashed>>

\* setTimeout(open, backoff)
RetryNever == link
Retry == "connecting"

LinkRetry ==
  /\ link = "waiting"
  /\ link' = Retry
  /\ UNCHANGED <<desired, live, persisted, address, backoff, sidecar, request, told, raced, clashed>>

SidecarChanges ==
  /\ sidecar' = ~sidecar
  /\ UNCHANGED <<desired, live, persisted, linkVars, request, told, raced, clashed>>

-----------------------------------------------------------------------------
(* POST /api/admin/transport: checks, desiredTransport = mode, await the     *)
(* store, then live.transport = mode                                         *)

MayChooseAny(mode) == TRUE
MayChoose(mode) == mode = "nym" => Connected

SwitchAsked(a, mode) ==
  /\ request[a] = IdleRequest
  /\ MayChoose(mode)
  /\ desired' = mode
  /\ request' = [request EXCEPT ![a] = [mode |-> mode, state |-> "saving"]]
  /\ clashed' = (clashed \/ \E b \in Requests : request[b] # IdleRequest)
  /\ UNCHANGED <<live, persisted, linkVars, sidecar, told, raced>>

SwitchSaved(a) ==
  /\ request[a].state = "saving"
  /\ persisted' = request[a].mode
  /\ request' = [request EXCEPT ![a].state = "saved"]
  /\ UNCHANGED <<desired, live, linkVars, sidecar, told, raced, clashed>>

\* No broadcast in this form of the last step.
TellNobody(mode) == UNCHANGED told
TellAll(mode) == Broadcast(StatusOf(mode))

SwitchDone(a) ==
  /\ request[a].state = "saved"
  /\ IF request[a].mode # live
     THEN live' = request[a].mode /\ TellAll(request[a].mode)
     ELSE UNCHANGED <<live, told>>
  /\ request' = [request EXCEPT ![a] = IdleRequest]
  /\ UNCHANGED <<desired, persisted, linkVars, sidecar, raced, clashed>>

\* setSetting throws, before or after the row was written: 500 to the admin.
SwitchFails(a) ==
  /\ DbFaults
  /\ request[a] # IdleRequest
  /\ request' = [request EXCEPT ![a] = IdleRequest]
  /\ clashed' = TRUE
  /\ UNCHANGED <<desired, live, persisted, linkVars, sidecar, told, raced>>

-----------------------------------------------------------------------------
(* Clients, other status broadcasts, and a restart *)

ClientConnects(c) ==
  /\ told[c] = Offline
  /\ told' = [told EXCEPT ![c] = StatusOf(live)]
  /\ UNCHANGED <<desired, live, persisted, linkVars, sidecar, request, raced, clashed>>

ClientLeaves(c) ==
  /\ told[c] # Offline
  /\ told' = [told EXCEPT ![c] = Offline]
  /\ UNCHANGED <<desired, live, persisted, linkVars, sidecar, request, raced, clashed>>

\* An admin changes the announcement or the maintenance flag.
Announce ==
  /\ Broadcast(StatusOf(live))
  /\ UNCHANGED <<desired, live, persisted, linkVars, sidecar, request, raced, clashed>>

\* The process ends; main() reads the setting again.
Restart ==
  /\ desired' = persisted
  /\ live' = "internal"
  /\ link' = "connecting"
  /\ address' = NoAddress
  /\ backoff' = 1
  /\ request' = [a \in Requests |-> IdleRequest]
  /\ told' = [c \in Clients |-> Offline]
  /\ raced' = FALSE /\ clashed' = FALSE
  /\ UNCHANGED <<persisted, sidecar>>

LinkNext ==
  \/ LinkOpened \/ LinkDown \/ LinkRetry \/ SidecarChanges
  \/ \E x \in Addresses : LinkAnswered(x)

RequestNext(a) ==
  \/ \E mode \in Transports : SwitchAsked(a, mode)
  \/ SwitchSaved(a) \/ SwitchDone(a) \/ SwitchFails(a)

Next ==
  \/ LinkNext
  \/ \E a \in Requests : RequestNext(a)
  \/ \E c \in Clients : ClientConnects(c) \/ ClientLeaves(c)
  \/ Announce \/ Restart

Spec == Init /\ [][Next]_vars

\* Timers fire, sockets to a reachable sidecar open, and it answers; the close
\* event of a dead link is delivered.  Admins, clients and restarts are free.
FairSpec ==
  /\ Spec
  /\ WF_vars(LinkOpened) /\ WF_vars(LinkDown) /\ WF_vars(LinkRetry)
  /\ WF_vars(\E x \in Addresses : LinkAnswered(x))

-----------------------------------------------------------------------------
(* Properties *)

\* Every variable has its type, the wait stays within the cap, and an address
\* is known exactly while the link is connected.
TypeOK ==
  /\ desired \in Transports /\ live \in Transports /\ persisted \in Transports
  /\ link \in {"waiting", "connecting", "asking", "connected"}
  /\ address \in Addresses \cup {NoAddress}
  /\ backoff \in 1..30
  /\ sidecar \in BOOLEAN
  /\ request \in [Requests -> [mode : Transports, state : {"idle", "saving", "saved"}]]
  /\ told \in [Clients -> Status \cup {Offline}]
  /\ raced \in BOOLEAN /\ clashed \in BOOLEAN
  /\ Connected <=> address # NoAddress

InFlight(mode) == \E a \in Requests : request[a].state # "idle" /\ request[a].mode = mode
Quiescent == \A a \in Requests : request[a].state = "idle"

\* A gateway on nym has a connected sidecar, and every client that was told to
\* use nym was told the sidecar's present address: whatever the admins, the
\* link and restarts do, unless the link dropped during a switch to nym.
UplinkAlive ==
  ~raced =>
    /\ live = "nym" => Connected
    /\ \A c \in Clients :
         told[c].transport = "nym" => Connected /\ told[c].nymAddress = address

\* A connected client's last status names the transport in effect.
ToldLive == \A c \in Clients : told[c] # Offline => told[c].transport = live

\* The stored setting is what the admin last chose, and what is in effect differs
\* from it "only when nym is desired but the sidecar is not connected" (server.js,
\* desiredTransport): outside the await of a switch, and as long as no two
\* switches overlapped and none failed to save.
WishInEffect ==
  Quiescent /\ ~clashed =>
    /\ persisted = desired
    /\ desired # live => desired = "nym" /\ ~Connected

\* Once restarts stop, nym stays desired and its sidecar reachable, the gateway
\* returns to nym without anybody toggling it again, unless switches clashed.
NymRestored ==
  <>[][~Restart]_vars /\ <>[](sidecar /\ desired = "nym" /\ Quiescent /\ ~clashed)
    => <>[](live = "nym")

-----------------------------------------------------------------------------
(* What a comment says and the code does not do *)

\* server.js, desiredTransport: "no message is ever sent into a dead nym uplink".
NoDeadUplink == live = "nym" => Connected
=============================================================================
