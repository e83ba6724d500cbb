------------------------------ MODULE Delivery ------------------------------
(***************************************************************************)
(* The gateway's last hop: an envelope that leaves the mix network for a   *)
(* mailbox is sent on the live sockets subscribed to that mailbox or kept  *)
(* in the durable queue (apps/server/server.js, packages/net/src/router.js *)
(* and the mailbox table of apps/server/store.js).                         *)
(*                                                                         *)
(* The gateway is one JavaScript thread: a handler runs without            *)
(* interruption up to its next `await`, so every await splits a handler    *)
(* into two actions here and anything may run in between.                  *)
(***************************************************************************)
EXTENDS Integers, FiniteSets

CONSTANTS
  Sockets,      \* WebSocket connections; a closed one stands for a new one later
  Mailboxes,    \* mailbox keys "provider:mailbox"
  NoMailbox,    \* null
  Envelopes,    \* every envelope is distinct
  Flushes,      \* drain promises that may be pending at once (a bound)
  To,           \* To[e]: the mailbox that envelope e is addressed to
  Owns,         \* Owns[s]: the mailboxes of the account whose token s presents
  Cap,          \* CFG.maxPerMailbox
  DrainLimit,   \* drainEnvelopes' LIMIT
  Resubscribers, \* sockets whose client may send a second `subscribe`
  Faults        \* what the environment may do: see FaultKinds

\* crash: the process dies; db: a query fails or its answer is lost; stale: a
\* socket goes half-open; prune: the hourly sweep meets rows past their TTL.
FaultKinds == {"crash", "db", "stale", "prune"}

ASSUME DeliveryAssumption ==
  /\ NoMailbox \notin Mailboxes
  /\ To \in [Envelopes -> Mailboxes]
  /\ Owns \in [Sockets -> SUBSET Mailboxes]
  /\ Cap \in Nat \ {0}
  /\ DrainLimit \in Nat \ {0}
  /\ Resubscribers \subseteq Sockets
  /\ Faults \subseteq FaultKinds

VARIABLES
  conn,           \* conn[s]: readyState as the gateway sees it, and its truth
  isAlive,        \* isAlive[s]: the heartbeat flag of server.js
  checking,       \* checking[s]: subscribes awaiting sessionUser/deviceMbkeys
  myMbkey,        \* myMbkey[s], set together with the closure's `unsub`
  subs,           \* subs[m]: sockets whose callback the router holds for m
  mbkeySockets,   \* mbkeySockets[m]: what /api/presence reads
  table,          \* rows of the mailbox table
  nextId,         \* its BIGSERIAL
  pushing,        \* pushing[e]: the pushEnvelope call for e, by next query
  flush,          \* flush[j]: drain promise j of Mixnet.subscribe
  injected,       \* history: envelopes that reached _deliver
  sentOn,         \* history: sentOn[e], the sockets whose ws.send took e
  lost            \* history: why the gateway itself let go of e, or "no"

vars == <<conn, isAlive, checking, myMbkey, subs, mbkeySockets, table, nextId,
          pushing, flush, injected, sentOn, lost>>
socketVars == <<conn, isAlive, checking, myMbkey, subs, mbkeySockets>>
queueVars == <<table, nextId, pushing, flush, lost>>

\* "stale" is a half-open socket: readyState is still OPEN, nobody listens.
ConnStates == {"closed", "open", "stale", "closing"}
Writable(s) == conn[s] \in {"open", "stale"}          \* ws.readyState === 1

Row == [id : Nat, mbkey : Mailboxes, envelope : Envelopes]
Rows(m) == {r \in table : r.mbkey = m}
EnvelopesOf(R) == {r.envelope : r \in R}
Older(r) == {q \in Rows(r.mbkey) : q.id < r.id}

Idle == [state |-> "idle"]
FlushStates ==
  {Idle} \cup [state : {"asked"}, ws : Sockets, mbkey : Mailboxes]
         \cup [state : {"rows"}, ws : Sockets, mbkey : Mailboxes, rows : SUBSET Row]

Loss == {"no", "full", "flush", "expired", "db", "crash"}

Busy(s) == checking[s] # {} \/ \E j \in Flushes : flush[j] # Idle /\ flush[j].ws = s

Init ==
  /\ conn = [s \in Sockets |-> "closed"]
  /\ isAlive = [s \in Sockets |-> FALSE]
  /\ checking = [s \in Sockets |-> {}]
  /\ myMbkey = [s \in Sockets |-> NoMailbox]
  /\ subs = [m \in Mailboxes |-> {}]
  /\ mbkeySockets = [m \in Mailboxes |-> {}]
  /\ table = {}
  /\ nextId = 1
  /\ pushing = [e \in Envelopes |-> "none"]
  /\ flush = [j \in Flushes |-> Idle]
  /\ injected = {}
  /\ sentOn = [e \in Envelopes |-> {}]
  /\ lost = [e \in Envelopes |-> "no"]

-----------------------------------------------------------------------------
(* The life of a socket *)

\* wss "connection": a fresh closure, so unsub and myMbkey are null.
Connect(s) ==
  /\ conn[s] = "closed" /\ ~Busy(s)
  /\ conn' = [conn EXCEPT ![s] = "open"]
  /\ isAlive' = [isAlive EXCEPT ![s] = TRUE]
  /\ myMbkey' = [myMbkey EXCEPT ![s] = NoMailbox]
  /\ UNCHANGED <<checking, subs, mbkeySockets, queueVars, sentOn, injected>>

\* The network path dies without a close event (backgrounded phone).
GoStale(s) ==
  /\ "stale" \in Faults
  /\ conn[s] = "open"
  /\ conn' = [conn EXCEPT ![s] = "stale"]
  /\ UNCHANGED <<isAlive, checking, myMbkey, subs, mbkeySockets, queueVars,
                 sentOn, injected>>

\* A close frame from the peer, or ws.close by the gateway (a banned mailbox).
StartClose(s) ==
  /\ conn[s] = "open"
  /\ conn' = [conn EXCEPT ![s] = "closing"]
  /\ UNCHANGED <<isAlive, checking, myMbkey, subs, mbkeySockets, queueVars,
                 sentOn, injected>>

\* What the close handler leaves of mbkeySockets.
PresenceKept(s) == mbkeySockets
PresenceAfterClose(s) ==
  [m \in Mailboxes |-> IF m = myMbkey[s] THEN mbkeySockets[m] \ {s} ELSE mbkeySockets[m]]

\* ws.on("close"): run the last unsub and clear the last mailbox's entry.
CloseEvent(s) ==
  /\ conn[s] = "closing"
  /\ conn' = [conn EXCEPT ![s] = "closed"]
  /\ subs' = [m \in Mailboxes |-> IF m = myMbkey[s] THEN subs[m] \ {s} ELSE subs[m]]
  /\ mbkeySockets' = PresenceAfterClose(s)
  /\ UNCHANGED <<isAlive, checking, myMbkey, queueVars, sentOn, injected>>

MissedPing(s) == conn[s] # "closed" /\ ~isAlive[s]

\* What one tick leaves in isAlive.
PingedUnmarked == isAlive
Pinged == [s \in Sockets |-> FALSE]

\* heartbeatTimer: terminate whoever missed the last ping, then ping the rest.
Heartbeat ==
  /\ conn' = [s \in Sockets |-> IF MissedPing(s) THEN "closing" ELSE conn[s]]
  /\ isAlive' = Pinged
  /\ UNCHANGED <<checking, myMbkey, subs, mbkeySockets, queueVars, sentOn, injected>>

Pong(s) ==
  /\ conn[s] = "open" /\ ~isAlive[s]
  /\ isAlive' = [isAlive EXCEPT ![s] = TRUE]
  /\ UNCHANGED <<conn, checking, myMbkey, subs, mbkeySockets, queueVars,
                 sentOn, injected>>

-----------------------------------------------------------------------------
(* The subscribe message: an async handler with two awaits, then the flush *)

SubscribeMessage(s, m) ==
  /\ conn[s] = "open"
  /\ m \notin checking[s]
  /\ s \in Resubscribers \/ (checking[s] = {} /\ myMbkey[s] = NoMailbox)
  /\ checking' = [checking EXCEPT ![s] = @ \cup {m}]
  /\ UNCHANGED <<conn, isAlive, myMbkey, subs, mbkeySockets, queueVars,
                 sentOn, injected>>

\* No such session, or the mailbox is not one of the account's: ws.close(4001).
SubscribeRefused(s, m) ==
  /\ m \in checking[s]
  /\ checking' = [checking EXCEPT ![s] = @ \ {m}]
  /\ conn' = [conn EXCEPT ![s] = IF Writable(s) THEN "closing" ELSE @]
  /\ UNCHANGED <<isAlive, myMbkey, subs, mbkeySockets, queueVars, sentOn, injected>>

\* The socket closed while the check was in flight, or the check threw.
SubscribeAbandoned(s, m) ==
  /\ m \in checking[s]
  /\ ~Writable(s) \/ "db" \in Faults
  /\ checking' = [checking EXCEPT ![s] = @ \ {m}]
  /\ UNCHANGED <<conn, isAlive, myMbkey, subs, mbkeySockets, queueVars,
                 sentOn, injected>>

MaySubscribeAnyone(s, m) == Writable(s)
MaySubscribe(s, m) == m \in Owns[s] /\ Writable(s)

\* Mixnet.subscribe asks the store for what was queued meanwhile.
FlushForgotten(s, m, j) == flush
FlushAsked(s, m, j) == [flush EXCEPT ![j] = [state |-> "asked", ws |-> s, mbkey |-> m]]

\* Replace the old subscription, enter the presence map, ask for the queue.
\* The old mailbox keeps its entry in mbkeySockets: unsub() does not clear it.
SubscribeAccepted(s, m, j) ==
  /\ m \in checking[s]
  /\ MaySubscribe(s, m)
  /\ flush[j] = Idle
  /\ checking' = [checking EXCEPT ![s] = @ \ {m}]
  /\ myMbkey' = [myMbkey EXCEPT ![s] = m]
  /\ subs' = [k \in Mailboxes |-> IF k = m THEN subs[k] \cup {s}
                                  ELSE IF k = myMbkey[s] THEN subs[k] \ {s} ELSE subs[k]]
  /\ mbkeySockets' = [mbkeySockets EXCEPT ![m] = @ \cup {s}]
  /\ flush' = FlushAsked(s, m, j)
  /\ UNCHANGED <<conn, isAlive, table, nextId, pushing, lost, sentOn, injected>>

\* The DELETE ... RETURNING executes: the oldest DrainLimit rows leave the table.
Drained(m) == {r \in Rows(m) : Cardinality(Older(r)) < DrainLimit}
TableAfterSelect(R) == table
TableAfterDrain(R) == table \ R

DrainRows(j) ==
  /\ flush[j].state = "asked"
  /\ LET R == Drained(flush[j].mbkey) IN
       /\ table' = TableAfterDrain(R)
       /\ flush' = [flush EXCEPT ![j] = [state |-> "rows", ws |-> flush[j].ws,
                                         mbkey |-> flush[j].mbkey, rows |-> R]]
  /\ UNCHANGED <<socketVars, nextId, pushing, lost, sentOn, injected>>

LoseAll(S, why) == [e \in Envelopes |-> IF e \in S THEN why ELSE lost[e]]

\* .catch(() => {}): the query failed before it ran, or its answer was lost.
DrainFails(j) ==
  /\ "db" \in Faults
  /\ flush[j] # Idle
  /\ flush' = [flush EXCEPT ![j] = Idle]
  /\ lost' = IF flush[j].state = "rows"
             THEN LoseAll(EnvelopesOf(flush[j].rows), "db") ELSE lost
  /\ UNCHANGED <<socketVars, table, nextId, pushing, sentOn, injected>>

\* for (const env of envs) cb(env): the callback's false is not looked at.
Flush(j) ==
  /\ flush[j].state = "rows"
  /\ LET s == flush[j].ws
         S == EnvelopesOf(flush[j].rows) IN
       IF Writable(s)
       THEN /\ sentOn' = [e \in Envelopes |-> IF e \in S THEN sentOn[e] \cup {s} ELSE sentOn[e]]
            /\ UNCHANGED lost
       ELSE /\ lost' = LoseAll(S, "flush")
            /\ UNCHANGED sentOn
  /\ flush' = [flush EXCEPT ![j] = Idle]
  /\ UNCHANGED <<socketVars, table, nextId, pushing, injected>>

-----------------------------------------------------------------------------
(* Mixnet._deliver and the durable push *)

\* The subscribers whose callback does not return false.
Takers(m) == {s \in subs[m] : Writable(s)}

\* Does _deliver fall back to the queue?  (Only when no callback took it.)
QueuesUnlessSubscribed(m) == subs[m] = {}
QueuesAlways(m) == TRUE
Queues(m) == Takers(m) = {}

\* The last mix hop posts /internal/deliver, or the nym sidecar hands one over.
Deliver(e) ==
  /\ e \notin injected
  /\ injected' = injected \cup {e}
  /\ sentOn' = [sentOn EXCEPT ![e] = Takers(To[e])]
  /\ pushing' = IF Queues(To[e]) THEN [pushing EXCEPT ![e] = "count"] ELSE pushing
  /\ UNCHANGED <<socketVars, table, nextId, flush, lost>>

\* SELECT COUNT(*): at the cap the new envelope is refused, nothing is evicted.
PushCount(e) ==
  /\ pushing[e] = "count"
  /\ IF Cardinality(Rows(To[e])) >= Cap
     THEN /\ pushing' = [pushing EXCEPT ![e] = "none"]
          /\ lost' = [lost EXCEPT ![e] = "full"]
     ELSE /\ pushing' = [pushing EXCEPT ![e] = "insert"]
          /\ UNCHANGED lost
  /\ UNCHANGED <<socketVars, table, nextId, flush, sentOn, injected>>

\* The table an INSERT leaves.
TableEvictingOldest(r) == {q \in table : Cardinality(Rows(r.mbkey)) < Cap \/ Older(q) # {}} \cup {r}
TableWith(r) == table \cup {r}

SerialStuck(n) == n
Serial(n) == n + 1

PushInsert(e) ==
  /\ pushing[e] = "insert"
  /\ table' = TableWith([id |-> nextId, mbkey |-> To[e], envelope |-> e])
  /\ nextId' = Serial(nextId)
  /\ pushing' = [pushing EXCEPT ![e] = "none"]
  /\ UNCHANGED <<socketVars, flush, lost, sentOn, injected>>

\* Either query of pushEnvelope fails; _deliver swallows it.
PushFails(e) ==
  /\ "db" \in Faults
  /\ pushing[e] # "none"
  /\ pushing' = [pushing EXCEPT ![e] = "none"]
  /\ lost' = [lost EXCEPT ![e] = "db"]
  /\ UNCHANGED <<socketVars, table, nextId, flush, sentOn, injected>>

-----------------------------------------------------------------------------
(* The hourly sweep and the end of the process *)

\* store.prune: DELETE FROM mailbox WHERE created_at < now() - mailboxTtlMs.
Prune ==
  /\ "prune" \in Faults
  /\ \E old \in SUBSET table :
       /\ old # {}
       /\ table' = table \ old
       /\ lost' = LoseAll(EnvelopesOf(old), "expired")
  /\ UNCHANGED <<socketVars, nextId, pushing, flush, sentOn, injected>>

\* Envelopes that only the process's memory holds.
InFlushes == UNION {EnvelopesOf(flush[j].rows) : j \in {k \in Flushes : flush[k].state = "rows"}}
InPushes == {e \in Envelopes : pushing[e] # "none"}

\* SIGTERM, an OOM kill or a redeploy, then main() again with empty maps.
Crash ==
  /\ "crash" \in Faults
  /\ conn' = [s \in Sockets |-> "closed"]
  /\ isAlive' = [s \in Sockets |-> FALSE]
  /\ checking' = [s \in Sockets |-> {}]
  /\ myMbkey' = [s \in Sockets |-> NoMailbox]
  /\ subs' = [m \in Mailboxes |-> {}]
  /\ mbkeySockets' = [m \in Mailboxes |-> {}]
  /\ pushing' = [e \in Envelopes |-> "none"]
  /\ flush' = [j \in Flushes |-> Idle]
  /\ lost' = LoseAll(InFlushes \cup InPushes, "crash")
  /\ UNCHANGED <<table, nextId, injected, sentOn>>

-----------------------------------------------------------------------------
SocketNext(s) ==
  \/ Connect(s) \/ GoStale(s) \/ StartClose(s) \/ CloseEvent(s) \/ Pong(s)
  \/ \E m \in Mailboxes :
       \/ SubscribeMessage(s, m) \/ SubscribeRefused(s, m) \/ SubscribeAbandoned(s, m)
       \/ \E j \in Flushes : SubscribeAccepted(s, m, j)

EnvelopeNext(e) == Deliver(e) \/ PushCount(e) \/ PushInsert(e) \/ PushFails(e)

FlushNext(j) == DrainRows(j) \/ DrainFails(j) \/ Flush(j)

Next ==
  \/ \E s \in Sockets : SocketNext(s)
  \/ \E e \in Envelopes : EnvelopeNext(e)
  \/ \E j \in Flushes : FlushNext(j)
  \/ Heartbeat \/ Prune \/ Crash

Spec == Init /\ [][Next]_vars

\* The event loop runs every pending callback and timer; clients reconnect and
\* subscribe again, and a client that keeps trying gets through at some point.
\* Nothing is assumed about faults, nor that a connected client ever closes.
Fairness ==
  /\ WF_vars(Heartbeat)
  /\ \A s \in Sockets :
       /\ WF_vars(Connect(s))
       /\ WF_vars(CloseEvent(s))
       /\ \A m \in Mailboxes :
            /\ SF_vars(m \in Owns[s] /\ SubscribeMessage(s, m))
            /\ WF_vars(SubscribeAbandoned(s, m))
            /\ SF_vars(\E j \in Flushes : SubscribeAccepted(s, m, j))
  /\ \A e \in Envelopes : WF_vars(PushCount(e)) /\ WF_vars(PushInsert(e))
  /\ \A j \in Flushes : WF_vars(DrainRows(j)) /\ WF_vars(Flush(j))

FairSpec == Spec /\ Fairness

-----------------------------------------------------------------------------
(* Properties *)

\* Every variable has its type, and a row's id was given out by the sequence.
TypeOK ==
  /\ conn \in [Sockets -> ConnStates]
  /\ isAlive \in [Sockets -> BOOLEAN]
  /\ checking \in [Sockets -> SUBSET Mailboxes]
  /\ myMbkey \in [Sockets -> Mailboxes \cup {NoMailbox}]
  /\ subs \in [Mailboxes -> SUBSET Sockets]
  /\ mbkeySockets \in [Mailboxes -> SUBSET Sockets]
  /\ table \subseteq Row /\ \A r \in table : r.id < nextId
  /\ nextId \in Nat \ {0}
  /\ pushing \in [Envelopes -> {"none", "count", "insert"}]
  /\ flush \in [Flushes -> FlushStates]
  /\ injected \subseteq Envelopes
  /\ sentOn \in [Envelopes -> SUBSET Sockets]
  /\ lost \in [Envelopes -> Loss]

\* The router holds exactly the callbacks of the connections that are up and
\* subscribed, each under its last mailbox: a late subscribe never registers a
\* socket whose close event is over, and no unsub is forgotten.
SubscriptionsExact ==
  \A m \in Mailboxes :
    subs[m] = {s \in Sockets : myMbkey[s] = m /\ conn[s] # "closed"}

\* /api/presence agrees with the router: "a handle is 'online' if any of its
\* devices currently holds a live mailbox subscription" (server.js, presence).
\* A second subscribe on one socket is the exception: the mailbox it leaves
\* keeps its entry, even after the socket is closed.
PresenceExact ==
  \A m \in Mailboxes :
    /\ subs[m] \subseteq mbkeySockets[m]
    /\ mbkeySockets[m] \ Resubscribers \subseteq subs[m]

\* Both records of who listens to a mailbox are right at once, whatever closes,
\* resubscribes and late session checks the connections went through.
RegistrationsExact == SubscriptionsExact /\ PresenceExact

\* No socket is sent an envelope of a mailbox outside its session's account,
\* whatever subscribes, resubscribes and late flushes its connection carried.
OnlyOwnMail == \A e \in Envelopes : \A s \in sentOn[e] : To[e] \in Owns[s]

InTable == EnvelopesOf(table)
Held == InTable \cup InPushes \cup InFlushes

\* An envelope has one holder: one row, or one push, or one pending flush, so
\* it cannot be flushed to two connections.
RowsApart == \A r, q \in table : r.envelope = q.envelope => r = q
HoldersApart ==
  /\ InPushes \cap InTable = {}
  /\ InFlushes \cap (InTable \cup InPushes) = {}
FlushesApart ==
  \A j, k \in Flushes :
    /\ flush[j].state = "rows" /\ flush[k].state = "rows"
    /\ EnvelopesOf(flush[j].rows) \cap EnvelopesOf(flush[k].rows) # {}
    => j = k
OneHolder == RowsApart /\ HoldersApart /\ FlushesApart

\* Every envelope that reached _deliver is held, was sent, or was lost for a
\* known reason, and never two of these: a dead callback's `false` keeps it,
\* and what went out live is not queued as well.
Sent == {e \in Envelopes : sentOn[e] # {}}
Lost == {e \in Envelopes : lost[e] # "no"}
Accounted ==
  /\ injected = Held \cup Sent \cup Lost
  /\ Held \cap Sent = {} /\ Held \cap Lost = {} /\ Sent \cap Lost = {}

\* A row leaves the table into a subscriber's flush or past its TTL only: the
\* cap refuses the new envelope and evicts no old one (store.pushEnvelope).
NothingEvicted ==
  [][\A r \in table \ table' :
       \/ \E j \in Flushes : flush'[j].state = "rows" /\ r \in flush'[j].rows
       \/ lost'[r.envelope] = "expired"]_vars

\* Delivery implements the abstract mailbox.
Abstract == INSTANCE Mailbox WITH seen <- injected, held <- Held, handed <- Sent
ImplementsMailbox == Abstract!Spec

\* While an account's subscription keeps ending, as a phone's does, nothing
\* stays in the gateway's hands for ever.  (A mailbox with one subscription
\* that never ends can strand a row that was pushed during its flush.)
QueueServed ==
  \A e \in Envelopes :
    []<>(subs[To[e]] = {}) => (e \in Held ~> e \notin Held)

\* The heartbeat reclaims a half-open socket.
StaleReclaimed == \A s \in Sockets : conn[s] = "stale" ~> conn[s] = "closed"

-----------------------------------------------------------------------------
(* What a comment says and the code does not do *)

\* server.js, the subscribe callback: "false tells the router to keep it in
\* the durable queue so a device with a stale/half-open socket still gets it
\* on reconnect".
FalseKeepsEnvelope == \A e \in Envelopes : lost[e] # "flush"
=============================================================================
