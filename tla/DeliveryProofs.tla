--------------------------- MODULE DeliveryProofs ---------------------------
(***************************************************************************)
(* Theorems about Delivery, for any sockets, mailboxes and envelopes, any  *)
(* cap and drain limit, and with every fault allowed.                      *)
(***************************************************************************)
EXTENDS Delivery, TLAPS

USE DeliveryAssumption DEF FaultKinds

-----------------------------------------------------------------------------
(* Type correctness *)

LEMMA TypeInit == Init => TypeOK
  BY DEF Init, TypeOK, ConnStates, FlushStates, Loss, Idle

LEMMA LossType ==
  ASSUME TypeOK, NEW S, NEW why \in Loss
  PROVE  LoseAll(S, why) \in [Envelopes -> Loss]
  BY DEF TypeOK, LoseAll

LEMMA TypeSocketStep ==
  ASSUME TypeOK, NEW s \in Sockets, SocketNext(s)
  PROVE  TypeOK'
<1> USE DEF TypeOK, queueVars, socketVars, ConnStates
<1>1. CASE Connect(s) BY <1>1 DEF Connect
<1>2. CASE GoStale(s) BY <1>2 DEF GoStale
<1>3. CASE StartClose(s) BY <1>3 DEF StartClose
<1>4. CASE CloseEvent(s) BY <1>4 DEF CloseEvent, PresenceAfterClose
<1>5. CASE Pong(s) BY <1>5 DEF Pong
<1>6. ASSUME NEW m \in Mailboxes, SubscribeMessage(s, m) PROVE TypeOK'
  BY <1>6 DEF SubscribeMessage
<1>7. ASSUME NEW m \in Mailboxes, SubscribeRefused(s, m) PROVE TypeOK'
  BY <1>7 DEF SubscribeRefused
<1>8. ASSUME NEW m \in Mailboxes, SubscribeAbandoned(s, m) PROVE TypeOK'
  BY <1>8 DEF SubscribeAbandoned
<1>9. ASSUME NEW m \in Mailboxes, NEW j \in Flushes, SubscribeAccepted(s, m, j)
      PROVE  TypeOK'
  <2>1. flush' \in [Flushes -> FlushStates]
    <3>1. [state |-> "asked", ws |-> s, mbkey |-> m] \in FlushStates BY DEF FlushStates
    <3> QED BY <1>9, <3>1 DEF SubscribeAccepted, FlushAsked
  <2>2. subs' \in [Mailboxes -> SUBSET Sockets] BY <1>9 DEF SubscribeAccepted
  <2>3. /\ checking' \in [Sockets -> SUBSET Mailboxes]
        /\ myMbkey' \in [Sockets -> Mailboxes \cup {NoMailbox}]
        /\ mbkeySockets' \in [Mailboxes -> SUBSET Sockets]
    BY <1>9 DEF SubscribeAccepted
  <2> QED BY <1>9, <2>1, <2>2, <2>3 DEF SubscribeAccepted
<1> QED BY <1>1, <1>2, <1>3, <1>4, <1>5, <1>6, <1>7, <1>8, <1>9 DEF SocketNext

LEMMA TypeEnvelopeStep ==
  ASSUME TypeOK, NEW e \in Envelopes, EnvelopeNext(e)
  PROVE  TypeOK'
<1> USE DEF TypeOK, queueVars, socketVars, Loss
<1>1. CASE Deliver(e) BY <1>1 DEF Deliver, Takers
<1>2. CASE PushCount(e) BY <1>2 DEF PushCount
<1>3. CASE PushInsert(e)
  <2> DEFINE r == [id |-> nextId, mbkey |-> To[e], envelope |-> e]
  <2>1. r \in Row BY DEF Row
  <2>2. table' = table \cup {r} /\ nextId' = nextId + 1
    BY <1>3 DEF PushInsert, TableWith, Serial
  <2>3. table' \subseteq Row /\ \A q \in table' : q.id < nextId'
    BY <2>1, <2>2 DEF Row
  <2> QED BY <1>3, <2>2, <2>3 DEF PushInsert
<1>4. CASE PushFails(e) BY <1>4 DEF PushFails
<1> QED BY <1>1, <1>2, <1>3, <1>4 DEF EnvelopeNext

LEMMA FlushFields ==
  ASSUME TypeOK, NEW j \in Flushes
  PROVE  /\ flush[j] # Idle => flush[j].ws \in Sockets /\ flush[j].mbkey \in Mailboxes
         /\ flush[j].state \in {"idle", "asked", "rows"}
         /\ flush[j].state = "idle" <=> flush[j] = Idle
         /\ flush[j].state = "rows" => flush[j].rows \in SUBSET Row
  BY DEF TypeOK, FlushStates, Idle

LEMMA TypeFlushStep ==
  ASSUME TypeOK, NEW j \in Flushes, FlushNext(j)
  PROVE  TypeOK'
<1> USE DEF TypeOK, queueVars, socketVars
<1>1. Idle \in FlushStates BY DEF FlushStates
<1>2. CASE DrainRows(j)
  <2> DEFINE R == Drained(flush[j].mbkey)
             f == [state |-> "rows", ws |-> flush[j].ws, mbkey |-> flush[j].mbkey, rows |-> R]
  <2>1. flush[j].ws \in Sockets /\ flush[j].mbkey \in Mailboxes
    BY <1>2, FlushFields DEF DrainRows, Idle
  <2>2. R \in SUBSET Row BY DEF Drained, Rows
  <2>3. f \in FlushStates BY <2>1, <2>2 DEF FlushStates
  <2>4. flush' = [flush EXCEPT ![j] = f] /\ table' = table \ R
    BY <1>2 DEF DrainRows, TableAfterDrain
  <2>5. flush' \in [Flushes -> FlushStates] BY <2>3, <2>4
  <2> HIDE DEF f, R
  <2> QED BY <1>2, <2>4, <2>5 DEF DrainRows
<1>3. CASE DrainFails(j)
  <2>1. lost' \in [Envelopes -> Loss] BY <1>3, LossType DEF DrainFails, Loss
  <2> QED BY <1>1, <1>3, <2>1 DEF DrainFails
<1>4. CASE Flush(j)
  <2>1. flush[j].ws \in Sockets BY <1>4, FlushFields DEF Flush, Idle
  <2>2. lost' \in [Envelopes -> Loss] BY <1>4, LossType DEF Flush, Loss
  <2>3. sentOn' \in [Envelopes -> SUBSET Sockets] BY <1>4, <2>1 DEF Flush
  <2> QED BY <1>1, <1>4, <2>2, <2>3 DEF Flush
<1> QED BY <1>2, <1>3, <1>4 DEF FlushNext

LEMMA TypeGatewayStep ==
  ASSUME TypeOK, Heartbeat \/ Prune \/ Crash
  PROVE  TypeOK'
<1> USE DEF TypeOK, queueVars, socketVars
<1>1. CASE Heartbeat BY <1>1 DEF Heartbeat, Pinged, ConnStates
<1>2. CASE Prune
  <2>1. lost' \in [Envelopes -> Loss] BY <1>2, LossType DEF Prune, Loss
  <2>2. table' \subseteq table BY <1>2 DEF Prune
  <2> QED BY <1>2, <2>1, <2>2 DEF Prune
<1>3. CASE Crash
  <2>1. lost' \in [Envelopes -> Loss] BY <1>3, LossType DEF Crash, Loss
  <2>2. Idle \in FlushStates BY DEF FlushStates
  <2> QED BY <1>3, <2>1, <2>2 DEF Crash, ConnStates
<1> QED BY <1>1, <1>2, <1>3

LEMMA TypeStep == TypeOK /\ [Next]_vars => TypeOK'
<1> SUFFICES ASSUME TypeOK, [Next]_vars PROVE TypeOK' OBVIOUS
<1>1. CASE UNCHANGED vars BY <1>1 DEF TypeOK, vars
<1>2. CASE Next
  BY <1>2, TypeSocketStep, TypeEnvelopeStep, TypeFlushStep, TypeGatewayStep DEF Next
<1> QED BY <1>1, <1>2

\* Every variable keeps its type, and row ids stay below the serial.
THEOREM TypeCorrect == Spec => []TypeOK
  BY TypeInit, TypeStep, PTL DEF Spec

-----------------------------------------------------------------------------
(* Subscriptions, presence and ownership *)

\* Steps that touch no subscription, no check and no connection's end.
LEMMA SubscriptionsQuiet ==
  ASSUME SubscriptionsExact,
         UNCHANGED <<subs, myMbkey>>,
         \A s \in Sockets : (conn[s] = "closed") <=> (conn'[s] = "closed")
  PROVE  SubscriptionsExact'
  BY DEF SubscriptionsExact

LEMMA SubscriptionsSocketStep ==
  ASSUME TypeOK, SubscriptionsExact, NEW s \in Sockets, SocketNext(s)
  PROVE  SubscriptionsExact'
<1> USE DEF TypeOK
<1>1. CASE Connect(s) BY <1>1 DEF Connect, SubscriptionsExact
<1>2. CASE GoStale(s) BY <1>2, SubscriptionsQuiet DEF GoStale
<1>3. CASE StartClose(s) BY <1>3, SubscriptionsQuiet DEF StartClose
<1>4. CASE CloseEvent(s) BY <1>4 DEF CloseEvent, SubscriptionsExact
<1>5. CASE Pong(s) BY <1>5, SubscriptionsQuiet DEF Pong
<1>6. ASSUME NEW m \in Mailboxes, SubscribeMessage(s, m) PROVE SubscriptionsExact'
  BY <1>6, SubscriptionsQuiet DEF SubscribeMessage
<1>7. ASSUME NEW m \in Mailboxes, SubscribeRefused(s, m) PROVE SubscriptionsExact'
  BY <1>7, SubscriptionsQuiet DEF SubscribeRefused, Writable
<1>8. ASSUME NEW m \in Mailboxes, SubscribeAbandoned(s, m) PROVE SubscriptionsExact'
  BY <1>8, SubscriptionsQuiet DEF SubscribeAbandoned
<1>9. ASSUME NEW m \in Mailboxes, NEW j \in Flushes, SubscribeAccepted(s, m, j)
      PROVE  SubscriptionsExact'
  BY <1>9 DEF SubscribeAccepted, MaySubscribe, Writable, SubscriptionsExact
<1> QED BY <1>1, <1>2, <1>3, <1>4, <1>5, <1>6, <1>7, <1>8, <1>9 DEF SocketNext

\* What the steps of envelopes, flushes and the sweep leave alone.
LEMMA QueueStepFrame ==
  ASSUME \/ \E e \in Envelopes : EnvelopeNext(e)
         \/ \E j \in Flushes : FlushNext(j)
         \/ Prune
  PROVE  UNCHANGED socketVars
  BY DEF EnvelopeNext, Deliver, PushCount, PushInsert, PushFails,
         FlushNext, DrainRows, DrainFails, Flush, Prune

LEMMA SubscriptionsStep ==
  TypeOK /\ SubscriptionsExact /\ [Next]_vars => SubscriptionsExact'
<1> SUFFICES ASSUME TypeOK, SubscriptionsExact, [Next]_vars
             PROVE  SubscriptionsExact'
  OBVIOUS
<1>1. CASE UNCHANGED vars BY <1>1 DEF vars, SubscriptionsExact
<1>2. CASE \E s \in Sockets : SocketNext(s) BY <1>2, SubscriptionsSocketStep
<1>3. CASE \/ \E e \in Envelopes : EnvelopeNext(e)
           \/ \E j \in Flushes : FlushNext(j)
           \/ Prune
  BY <1>3, QueueStepFrame DEF socketVars, SubscriptionsExact
<1>4. CASE Heartbeat BY <1>4, SubscriptionsQuiet DEF Heartbeat, MissedPing, TypeOK
<1>5. CASE Crash BY <1>5 DEF Crash, SubscriptionsExact, TypeOK
<1> QED BY <1>1, <1>2, <1>3, <1>4, <1>5 DEF Next

\* The router's callbacks are those of live, subscribed sockets, always.
THEOREM SubscriptionsCorrect == Spec => []SubscriptionsExact
<1>1. Init => SubscriptionsExact BY DEF Init, SubscriptionsExact
<1> QED BY <1>1, SubscriptionsStep, TypeCorrect, PTL DEF Spec

-----------------------------------------------------------------------------
(* Presence, exact for the clients that subscribe once per connection *)

\* Theirs is checked for one mailbox at a time and has none yet.
FirstSubscribe ==
  \A s \in Sockets \ Resubscribers :
    /\ \A m, k \in checking[s] : m = k
    /\ checking[s] # {} => myMbkey[s] = NoMailbox

PresenceInv == PresenceExact /\ FirstSubscribe

LEMMA PresenceStep == TypeOK /\ PresenceInv /\ [Next]_vars => PresenceInv'
<1> SUFFICES ASSUME TypeOK, PresenceInv, [Next]_vars PROVE PresenceInv'
  OBVIOUS
<1> USE DEF PresenceInv, PresenceExact, FirstSubscribe, TypeOK
<1>1. CASE UNCHANGED vars BY <1>1 DEF vars
<1>2. ASSUME NEW s \in Sockets, SocketNext(s) PROVE PresenceInv'
  <2>1. CASE Connect(s) BY <2>1 DEF Connect, Busy
  <2>2. CASE GoStale(s) BY <2>2 DEF GoStale
  <2>3. CASE StartClose(s) BY <2>3 DEF StartClose
  <2>4. CASE CloseEvent(s) BY <2>4 DEF CloseEvent, PresenceAfterClose
  <2>5. CASE Pong(s) BY <2>5 DEF Pong
  <2>6. ASSUME NEW m \in Mailboxes, SubscribeMessage(s, m) PROVE PresenceInv'
    BY <2>6 DEF SubscribeMessage
  <2>7. ASSUME NEW m \in Mailboxes, SubscribeRefused(s, m) PROVE PresenceInv'
    BY <2>7 DEF SubscribeRefused
  <2>8. ASSUME NEW m \in Mailboxes, SubscribeAbandoned(s, m) PROVE PresenceInv'
    BY <2>8 DEF SubscribeAbandoned
  <2>9. ASSUME NEW m \in Mailboxes, NEW j \in Flushes, SubscribeAccepted(s, m, j)
        PROVE  PresenceInv'
    <3>1. s \notin Resubscribers => myMbkey[s] = NoMailbox /\ checking'[s] = {}
      BY <2>9 DEF SubscribeAccepted
    <3>2. ASSUME NEW k \in Mailboxes
          PROVE  /\ subs'[k] \subseteq mbkeySockets'[k]
                 /\ mbkeySockets'[k] \ Resubscribers \subseteq subs'[k]
      <4>1. subs'[k] = IF k = m THEN subs[k] \cup {s}
                       ELSE IF k = myMbkey[s] THEN subs[k] \ {s} ELSE subs[k]
        BY <2>9 DEF SubscribeAccepted
      <4>2. mbkeySockets'[k] = IF k = m THEN mbkeySockets[k] \cup {s} ELSE mbkeySockets[k]
        BY <2>9 DEF SubscribeAccepted
      <4>3. k = myMbkey[s] => s \in Resubscribers BY <3>1
      <4> QED BY <4>1, <4>2, <4>3
    <3>3. FirstSubscribe' BY <2>9, <3>1 DEF SubscribeAccepted
    <3> QED BY <3>2, <3>3
  <2> QED BY <1>2, <2>1, <2>2, <2>3, <2>4, <2>5, <2>6, <2>7, <2>8, <2>9 DEF SocketNext
<1>3. CASE \/ \E e \in Envelopes : EnvelopeNext(e)
           \/ \E j \in Flushes : FlushNext(j)
           \/ Prune
  BY <1>3, QueueStepFrame DEF socketVars
<1>4. CASE Heartbeat BY <1>4 DEF Heartbeat
<1>5. CASE Crash BY <1>5 DEF Crash
<1> QED BY <1>1, <1>2, <1>3, <1>4, <1>5 DEF Next

\* /api/presence shows a mailbox online exactly while a socket is subscribed to
\* it, but for the sockets whose client subscribed twice on one connection.
THEOREM PresenceCorrect == Spec => []PresenceExact
<1>1. Init => PresenceInv BY DEF Init, PresenceInv, PresenceExact, FirstSubscribe
<1>2. PresenceInv => PresenceExact BY DEF PresenceInv
<1> QED BY <1>1, <1>2, PresenceStep, TypeCorrect, PTL DEF Spec

\* The router's callbacks and the presence map are right together.
THEOREM RegistrationsCorrect == Spec => []RegistrationsExact
<1>1. SubscriptionsExact /\ PresenceExact => RegistrationsExact BY DEF RegistrationsExact
<1> QED BY <1>1, SubscriptionsCorrect, PresenceCorrect, PTL

-----------------------------------------------------------------------------
(* Whose mail a socket is sent *)

\* Subscriptions and pending flushes are for owned mailboxes, and a row keeps
\* the address of its envelope on its way from the push into a flush.
OwnerInv ==
  /\ \A m \in Mailboxes : \A s \in subs[m] : m \in Owns[s]
  /\ \A r \in table : r.mbkey = To[r.envelope]
  /\ \A j \in Flushes : flush[j] # Idle => flush[j].mbkey \in Owns[flush[j].ws]
  /\ \A j \in Flushes : flush[j].state = "rows" =>
       \A r \in flush[j].rows : To[r.envelope] = flush[j].mbkey
  /\ OnlyOwnMail

LEMMA OwnerSocketStep ==
  ASSUME TypeOK, OwnerInv, NEW s \in Sockets, SocketNext(s)
  PROVE  OwnerInv'
<1> USE DEF TypeOK, OwnerInv, OnlyOwnMail, queueVars
<1>1. CASE Connect(s) BY <1>1 DEF Connect
<1>2. CASE GoStale(s) BY <1>2 DEF GoStale
<1>3. CASE StartClose(s) BY <1>3 DEF StartClose
<1>4. CASE CloseEvent(s) BY <1>4 DEF CloseEvent
<1>5. CASE Pong(s) BY <1>5 DEF Pong
<1>6. ASSUME NEW m \in Mailboxes, SubscribeMessage(s, m) PROVE OwnerInv'
  BY <1>6 DEF SubscribeMessage
<1>7. ASSUME NEW m \in Mailboxes, SubscribeRefused(s, m) PROVE OwnerInv'
  BY <1>7 DEF SubscribeRefused
<1>8. ASSUME NEW m \in Mailboxes, SubscribeAbandoned(s, m) PROVE OwnerInv'
  BY <1>8 DEF SubscribeAbandoned
<1>9. ASSUME NEW m \in Mailboxes, NEW j \in Flushes, SubscribeAccepted(s, m, j)
      PROVE  OwnerInv'
  <2>1. m \in Owns[s] BY <1>9 DEF SubscribeAccepted, MaySubscribe
  <2>2. \A k \in Mailboxes : \A t \in subs'[k] : k \in Owns[t]
    BY <1>9, <2>1 DEF SubscribeAccepted
  <2>3. flush' = [flush EXCEPT ![j] = [state |-> "asked", ws |-> s, mbkey |-> m]]
    BY <1>9 DEF SubscribeAccepted, FlushAsked
  <2>4. ASSUME NEW i \in Flushes
        PROVE  /\ flush'[i] # Idle => flush'[i].mbkey \in Owns[flush'[i].ws]
               /\ flush'[i].state = "rows" =>
                    \A r \in flush'[i].rows : To[r.envelope] = flush'[i].mbkey
    <3>1. CASE i = j BY <2>1, <2>3, <3>1
    <3>2. CASE i # j BY <2>3, <3>2
    <3> QED BY <3>1, <3>2
  <2> QED BY <1>9, <2>2, <2>4 DEF SubscribeAccepted
<1> QED BY <1>1, <1>2, <1>3, <1>4, <1>5, <1>6, <1>7, <1>8, <1>9 DEF SocketNext

LEMMA OwnerQueueStep ==
  ASSUME TypeOK, OwnerInv,
         \/ \E e \in Envelopes : EnvelopeNext(e)
         \/ \E j \in Flushes : FlushNext(j)
         \/ Prune
  PROVE  OwnerInv'
<1> USE DEF TypeOK, OwnerInv, OnlyOwnMail, socketVars
<1>1. ASSUME NEW e \in Envelopes, Deliver(e) PROVE OwnerInv'
  BY <1>1 DEF Deliver, Takers
<1>2. ASSUME NEW e \in Envelopes, PushCount(e) PROVE OwnerInv' BY <1>2 DEF PushCount
<1>3. ASSUME NEW e \in Envelopes, PushInsert(e) PROVE OwnerInv'
  BY <1>3 DEF PushInsert, TableWith
<1>4. ASSUME NEW e \in Envelopes, PushFails(e) PROVE OwnerInv' BY <1>4 DEF PushFails
<1>5. ASSUME NEW j \in Flushes, DrainRows(j) PROVE OwnerInv'
  <2> DEFINE R == Drained(flush[j].mbkey)
  <2>1. \A r \in R : r \in table /\ To[r.envelope] = flush[j].mbkey
    BY DEF Drained, Rows
  <2>2. flush[j] # Idle BY <1>5 DEF DrainRows, Idle
  <2>3. /\ flush' = [flush EXCEPT ![j] = [state |-> "rows", ws |-> flush[j].ws,
                                          mbkey |-> flush[j].mbkey, rows |-> R]]
        /\ table' = table \ R
        /\ UNCHANGED <<subs, sentOn>>
    BY <1>5 DEF DrainRows, TableAfterDrain
  <2> HIDE DEF R
  <2>4. ASSUME NEW i \in Flushes
        PROVE  /\ flush'[i] # Idle => flush'[i].mbkey \in Owns[flush'[i].ws]
               /\ flush'[i].state = "rows" =>
                    \A r \in flush'[i].rows : To[r.envelope] = flush'[i].mbkey
    <3>1. CASE i = j BY <2>1, <2>2, <2>3, <3>1
    <3>2. CASE i # j BY <2>3, <3>2
    <3> QED BY <3>1, <3>2
  <2> QED BY <2>3, <2>4
<1>6. ASSUME NEW j \in Flushes, DrainFails(j) PROVE OwnerInv'
  BY <1>6 DEF DrainFails, Idle
<1>7. ASSUME NEW j \in Flushes, Flush(j) PROVE OwnerInv'
  <2> DEFINE w == flush[j].ws
             S == EnvelopesOf(flush[j].rows)
  <2>1. \A e \in S : To[e] \in Owns[w]
    BY <1>7 DEF Flush, EnvelopesOf, Idle
  <2>2. \A e \in Envelopes :
          sentOn'[e] = sentOn[e] \/ (e \in S /\ sentOn'[e] = sentOn[e] \cup {w})
    BY <1>7 DEF Flush
  <2>3. OnlyOwnMail' BY <2>1, <2>2
  <2>4. flush' = [flush EXCEPT ![j] = Idle] /\ UNCHANGED <<subs, table>>
    BY <1>7 DEF Flush
  <2> QED BY <2>3, <2>4 DEF Idle
<1>8. CASE Prune BY <1>8 DEF Prune
<1> QED BY <1>1, <1>2, <1>3, <1>4, <1>5, <1>6, <1>7, <1>8 DEF EnvelopeNext, FlushNext

LEMMA OwnerStep == TypeOK /\ OwnerInv /\ [Next]_vars => OwnerInv'
<1> SUFFICES ASSUME TypeOK, OwnerInv, [Next]_vars PROVE OwnerInv' OBVIOUS
<1>1. CASE UNCHANGED vars BY <1>1 DEF vars, OwnerInv, OnlyOwnMail
<1>2. CASE Heartbeat BY <1>2 DEF Heartbeat, queueVars, OwnerInv, OnlyOwnMail
<1>3. CASE Crash BY <1>3 DEF Crash, Idle, OwnerInv, OnlyOwnMail
<1> QED BY <1>1, <1>2, <1>3, OwnerSocketStep, OwnerQueueStep DEF Next

\* No socket is ever sent an envelope for a mailbox its account does not own.
THEOREM OwnMailOnly == Spec => []OnlyOwnMail
<1>1. Init => OwnerInv BY DEF Init, OwnerInv, OnlyOwnMail, Idle
<1>2. OwnerInv => OnlyOwnMail BY DEF OwnerInv
<1> QED BY <1>1, <1>2, OwnerStep, TypeCorrect, PTL DEF Spec

-----------------------------------------------------------------------------
(* Custody: the sets InTable, InPushes, InFlushes, Sent and Lost stay a      *)
(* partition of what was injected, and every step maps to a step of Mailbox. *)

CustodyInv == OneHolder /\ Accounted
AbstractStep == Abstract!Next \/ UNCHANGED <<injected, Held, Sent>>
CustodySets == <<InTable, InPushes, InFlushes, Sent, Lost, injected>>

\* A step that changes none of the custody variables.
LEMMA CustodyFrame ==
  ASSUME CustodyInv, UNCHANGED <<table, pushing, flush, injected, sentOn, lost>>
  PROVE  CustodyInv' /\ AbstractStep
<1>1. UNCHANGED CustodySets
  BY DEF CustodySets, InTable, InPushes, InFlushes, Sent, Lost, EnvelopesOf
<1>2. OneHolder'
  BY <1>1 DEF CustodyInv, CustodySets, OneHolder, RowsApart, HoldersApart, FlushesApart, EnvelopesOf
<1>3. UNCHANGED Held BY <1>1 DEF Held, CustodySets
<1>4. Accounted' BY <1>1, <1>3 DEF CustodyInv, CustodySets, Accounted
<1> QED BY <1>1, <1>2, <1>3, <1>4 DEF CustodyInv, AbstractStep, CustodySets

\* A step that leaves the table and the flushes alone.
LEMMA HoldersFrame ==
  ASSUME OneHolder, UNCHANGED <<table, flush>>,
         InPushes' \cap (InTable \cup InFlushes) = {}
  PROVE  OneHolder' /\ InTable' = InTable /\ InFlushes' = InFlushes
<1>1. InTable' = InTable /\ InFlushes' = InFlushes
  BY DEF InTable, InFlushes, EnvelopesOf
<1>2. RowsApart' /\ FlushesApart'
  BY DEF OneHolder, RowsApart, FlushesApart, EnvelopesOf
<1>3. HoldersApart' BY <1>1 DEF OneHolder, HoldersApart
<1> QED BY <1>1, <1>2, <1>3 DEF OneHolder

LEMMA CustodyDeliver ==
  ASSUME TypeOK, CustodyInv, NEW e \in Envelopes, Deliver(e)
  PROVE  CustodyInv' /\ AbstractStep
<1> USE DEF TypeOK, CustodyInv
<1>1. e \notin Held /\ e \notin Sent /\ e \notin Lost BY DEF Deliver, Accounted
<1>2. Lost' = Lost /\ injected' = injected \cup {e} BY DEF Deliver, Lost
<1>3. CASE Takers(To[e]) = {}
  <2>1. InPushes' = InPushes \cup {e} BY <1>3 DEF Deliver, Queues, InPushes
  <2>2. Sent' = Sent BY <1>1, <1>3 DEF Deliver, Sent
  <2>3. OneHolder' /\ InTable' = InTable /\ InFlushes' = InFlushes
    <3>1. InPushes' \cap (InTable \cup InFlushes) = {}
      BY <1>1, <2>1 DEF Held, OneHolder, HoldersApart
    <3> QED BY <3>1, HoldersFrame DEF Deliver
  <2>4. Held' = Held \cup {e} BY <2>1, <2>3 DEF Held
  <2>5. Accounted' BY <1>1, <1>2, <2>2, <2>4 DEF Accounted
  <2>6. Abstract!AcceptHeld(e)
    BY <1>2, <2>2, <2>4 DEF Deliver, Abstract!AcceptHeld
  <2> QED BY <2>3, <2>5, <2>6 DEF AbstractStep, Abstract!Next
<1>4. CASE Takers(To[e]) # {}
  <2>1. InPushes' = InPushes BY <1>4 DEF Deliver, Queues, InPushes
  <2>2. Sent' = Sent \cup {e} BY <1>4 DEF Deliver, Sent
  <2>3. OneHolder' /\ InTable' = InTable /\ InFlushes' = InFlushes
    BY <2>1, HoldersFrame DEF Deliver, OneHolder, HoldersApart
  <2>4. Held' = Held BY <2>1, <2>3 DEF Held
  <2>5. Accounted' BY <1>1, <1>2, <2>2, <2>4 DEF Accounted
  <2>6. Abstract!AcceptLive(e)
    BY <1>2, <2>2, <2>4 DEF Deliver, Abstract!AcceptLive
  <2> QED BY <2>3, <2>5, <2>6 DEF AbstractStep, Abstract!Next
<1> QED BY <1>3, <1>4

\* Giving up the held envelopes S is a step of the abstract mailbox.
LEMMA GivenUp ==
  ASSUME Accounted, NEW S \in SUBSET Envelopes, S \subseteq Held, Held' = Held \ S,
         Lost' = Lost \cup S, UNCHANGED <<injected, Sent>>
  PROVE  Accounted' /\ AbstractStep
<1>1. Abstract!GiveUp(S) BY DEF Abstract!GiveUp
<1> QED BY <1>1 DEF Accounted, AbstractStep, Abstract!Next

LEMMA LostAll ==
  ASSUME TypeOK, NEW S \in SUBSET Envelopes, NEW why, why # "no", lost' = LoseAll(S, why)
  PROVE  Lost' = Lost \cup S
  BY DEF TypeOK, Lost, LoseAll

LEMMA CustodyPush ==
  ASSUME TypeOK, CustodyInv, NEW e \in Envelopes,
         PushCount(e) \/ PushInsert(e) \/ PushFails(e)
  PROVE  CustodyInv' /\ AbstractStep
<1> USE DEF TypeOK, CustodyInv
<1>1. e \in InPushes BY DEF PushCount, PushInsert, PushFails, InPushes
<1>2. Sent' = Sent /\ injected' = injected
  BY DEF PushCount, PushInsert, PushFails, Sent
<1>3. ASSUME pushing' = [pushing EXCEPT ![e] = "none"], UNCHANGED <<table, flush>>,
             NEW why, why # "no", lost' = [lost EXCEPT ![e] = why]
      PROVE  CustodyInv' /\ AbstractStep
  <2>1. InPushes' = InPushes \ {e} BY <1>3 DEF InPushes
  <2>2. OneHolder' /\ InTable' = InTable /\ InFlushes' = InFlushes
    BY <1>3, <2>1, HoldersFrame DEF OneHolder, HoldersApart
  <2>3. Held' = Held \ {e} BY <1>1, <2>1, <2>2 DEF Held, OneHolder, HoldersApart
  <2>4. Lost' = Lost \cup {e} BY <1>3 DEF Lost
  <2>5. {e} \in SUBSET Envelopes /\ {e} \subseteq Held BY <1>1 DEF Held
  <2>6. Accounted' /\ AbstractStep BY <1>2, <2>3, <2>4, <2>5, GivenUp
  <2> QED BY <2>2, <2>6
<1>4. CASE PushCount(e)
  <2>1. CASE Cardinality(Rows(To[e])) >= Cap BY <1>3, <1>4, <2>1 DEF PushCount
  <2>2. CASE ~(Cardinality(Rows(To[e])) >= Cap)
    <3>1. InPushes' = InPushes BY <1>4, <2>2 DEF PushCount, InPushes
    <3>2. Lost' = Lost /\ UNCHANGED <<table, flush>>
      BY <1>4, <2>2 DEF PushCount, Lost
    <3>3. OneHolder' /\ InTable' = InTable /\ InFlushes' = InFlushes
      BY <3>1, <3>2, HoldersFrame DEF OneHolder, HoldersApart
    <3>4. Held' = Held BY <3>1, <3>3 DEF Held
    <3> QED BY <1>2, <3>2, <3>3, <3>4 DEF Accounted, AbstractStep
  <2> QED BY <2>1, <2>2
<1>5. CASE PushFails(e) BY <1>3, <1>5 DEF PushFails
<1>6. CASE PushInsert(e)
  <2> DEFINE r == [id |-> nextId, mbkey |-> To[e], envelope |-> e]
  <2>1. /\ table' = table \cup {r} /\ r.envelope = e
        /\ pushing' = [pushing EXCEPT ![e] = "none"]
        /\ UNCHANGED <<flush, lost>>
    BY <1>6 DEF PushInsert, TableWith
  <2> HIDE DEF r
  <2>2. InPushes' = InPushes \ {e} BY <2>1 DEF InPushes
  <2>3. InTable' = InTable \cup {e} BY <2>1 DEF InTable, EnvelopesOf
  <2>4. InFlushes' = InFlushes /\ Lost' = Lost BY <2>1 DEF InFlushes, Lost, EnvelopesOf
  <2>5. \A q \in table : q.envelope # e
    BY <1>1 DEF OneHolder, HoldersApart, InTable, EnvelopesOf
  <2>6. RowsApart' BY <2>1, <2>5 DEF OneHolder, RowsApart
  <2>7. FlushesApart' BY <2>1 DEF OneHolder, FlushesApart, EnvelopesOf
  <2>8. HoldersApart'
    BY <1>1, <2>2, <2>3, <2>4 DEF OneHolder, HoldersApart
  <2>9. Held' = Held BY <1>1, <2>2, <2>3, <2>4 DEF Held
  <2> QED BY <1>2, <2>4, <2>6, <2>7, <2>8, <2>9 DEF OneHolder, Accounted, AbstractStep
<1> QED BY <1>4, <1>5, <1>6

LEMMA CustodyDrain ==
  ASSUME TypeOK, CustodyInv, NEW j \in Flushes, DrainRows(j)
  PROVE  CustodyInv' /\ AbstractStep
<1> USE DEF TypeOK, CustodyInv
<1> DEFINE R == Drained(flush[j].mbkey)
           D == EnvelopesOf(R)
<1>1. R \subseteq table BY DEF Drained, Rows
<1>2. /\ flush[j].state = "asked"
      /\ flush' = [flush EXCEPT ![j] = [state |-> "rows", ws |-> flush[j].ws,
                                        mbkey |-> flush[j].mbkey, rows |-> R]]
      /\ table' = table \ R
      /\ UNCHANGED <<pushing, lost, sentOn, injected>>
  BY DEF DrainRows, TableAfterDrain
<1> HIDE DEF R
<1>3. /\ \A i \in Flushes \ {j} : flush'[i] = flush[i]
      /\ flush'[j].state = "rows" /\ flush'[j].rows = R
  BY <1>2
<1>4. InTable' = InTable \ D BY <1>1, <1>2 DEF OneHolder, RowsApart, InTable, EnvelopesOf
<1>5. D \subseteq InTable BY <1>1 DEF InTable, EnvelopesOf
<1>6. InFlushes' = InFlushes \cup D BY <1>2, <1>3 DEF InFlushes, EnvelopesOf
<1>7. UNCHANGED <<InPushes, Lost, Sent>> BY <1>2 DEF InPushes, Lost, Sent
<1>8. RowsApart' BY <1>2 DEF OneHolder, RowsApart
<1>9. HoldersApart' BY <1>4, <1>5, <1>6, <1>7 DEF OneHolder, HoldersApart
<1>10. FlushesApart'
  <2> SUFFICES ASSUME NEW i \in Flushes, NEW k \in Flushes, i # k,
                      flush'[i].state = "rows", flush'[k].state = "rows"
               PROVE  EnvelopesOf(flush'[i].rows) \cap EnvelopesOf(flush'[k].rows) = {}
    BY DEF FlushesApart, EnvelopesOf
  <2>1. ASSUME NEW n \in Flushes \ {j}, flush[n].state = "rows"
        PROVE  EnvelopesOf(flush[n].rows) \cap D = {}
    <3>1. EnvelopesOf(flush[n].rows) \subseteq InFlushes BY <2>1 DEF InFlushes
    <3> QED BY <1>5, <3>1 DEF OneHolder, HoldersApart
  <2>2. CASE i # j /\ k # j BY <1>3, <2>2 DEF OneHolder, FlushesApart
  <2>3. CASE i = j BY <1>3, <2>1, <2>3
  <2>4. CASE k = j BY <1>3, <2>1, <2>4
  <2> QED BY <2>2, <2>3, <2>4
<1>11. UNCHANGED Held BY <1>4, <1>5, <1>6, <1>7 DEF Held
<1> QED BY <1>2, <1>7, <1>8, <1>9, <1>10, <1>11 DEF OneHolder, Accounted, AbstractStep

\* A pending flush that ends: its envelopes leave InFlushes, nothing else moves.
LEMMA FlushEnds ==
  ASSUME TypeOK, OneHolder, NEW j \in Flushes, flush[j].state = "rows",
         flush' = [flush EXCEPT ![j] = Idle], UNCHANGED <<table, pushing>>
  PROVE  /\ OneHolder'
         /\ EnvelopesOf(flush[j].rows) \subseteq Held
         /\ EnvelopesOf(flush[j].rows) \in SUBSET Envelopes
         /\ Held' = Held \ EnvelopesOf(flush[j].rows)
<1> DEFINE S == EnvelopesOf(flush[j].rows)
<1>1. /\ \A i \in Flushes \ {j} : flush'[i] = flush[i]
      /\ flush'[j].state # "rows"
  BY DEF TypeOK, Idle
<1>2. S \subseteq InFlushes BY DEF InFlushes
<1>3. \A k \in Flushes \ {j} : flush[k].state = "rows" =>
        EnvelopesOf(flush[k].rows) \cap S = {}
  BY DEF OneHolder, FlushesApart
<1>4. InFlushes' = InFlushes \ S
  <2>1. \A e : e \in InFlushes' <=>
          \E k \in Flushes \ {j} : flush[k].state = "rows" /\ e \in EnvelopesOf(flush[k].rows)
    BY <1>1 DEF InFlushes, EnvelopesOf
  <2>2. \A e : e \in InFlushes <=>
          \E k \in Flushes : flush[k].state = "rows" /\ e \in EnvelopesOf(flush[k].rows)
    BY DEF InFlushes
  <2> QED BY <1>3, <2>1, <2>2
<1>5. InTable' = InTable /\ InPushes' = InPushes BY DEF InTable, InPushes, EnvelopesOf
<1>6. RowsApart' BY DEF OneHolder, RowsApart
<1>7. HoldersApart' BY <1>4, <1>5 DEF OneHolder, HoldersApart
<1>8. FlushesApart' BY <1>1 DEF OneHolder, FlushesApart, EnvelopesOf
<1>9. S \subseteq Held BY <1>2 DEF Held
<1>10. S \in SUBSET Envelopes BY FlushFields DEF EnvelopesOf, Row
<1>11. Held' = Held \ S
  BY <1>2, <1>4, <1>5 DEF Held, OneHolder, HoldersApart
<1> QED BY <1>6, <1>7, <1>8, <1>9, <1>10, <1>11 DEF OneHolder

LEMMA CustodyFlush ==
  ASSUME TypeOK, CustodyInv, NEW j \in Flushes, Flush(j) \/ DrainFails(j)
  PROVE  CustodyInv' /\ AbstractStep
<1> USE DEF TypeOK, CustodyInv
<1> DEFINE S == EnvelopesOf(flush[j].rows)
           w == flush[j].ws
<1>1. /\ flush' = [flush EXCEPT ![j] = Idle]
      /\ UNCHANGED <<table, pushing, injected>>
  BY DEF Flush, DrainFails
<1>2. CASE flush[j].state = "rows"
  <2>1. OneHolder' /\ S \subseteq Held /\ S \in SUBSET Envelopes /\ Held' = Held \ S
    BY <1>1, <1>2, FlushEnds
  <2>2. CASE Flush(j) /\ Writable(w)
    <3>1. /\ sentOn' = [e \in Envelopes |-> IF e \in S THEN sentOn[e] \cup {w} ELSE sentOn[e]]
          /\ lost' = lost
      BY <2>2 DEF Flush
    <3>2. Sent' = Sent \cup S BY <2>1, <3>1 DEF Sent
    <3>3. Lost' = Lost BY <3>1 DEF Lost
    <3>4. Abstract!HandOver(S) BY <1>1, <2>1, <3>2 DEF Abstract!HandOver
    <3>5. Accounted' BY <1>1, <2>1, <3>2, <3>3 DEF Accounted
    <3> QED BY <2>1, <3>4, <3>5 DEF AbstractStep, Abstract!Next
  <2>3. CASE ~(Flush(j) /\ Writable(w))
    <3>1. PICK why \in {"flush", "db"} : lost' = LoseAll(S, why)
      BY <1>2, <2>3 DEF Flush, DrainFails
    <3>2. sentOn' = sentOn BY <2>3 DEF Flush, DrainFails
    <3>3. Sent' = Sent BY <3>2 DEF Sent
    <3>4. Lost' = Lost \cup S BY <2>1, <3>1, LostAll
    <3>5. Accounted' /\ AbstractStep BY <1>1, <2>1, <3>3, <3>4, GivenUp
    <3> QED BY <2>1, <3>5
  <2> QED BY <2>2, <2>3
<1>3. CASE flush[j].state # "rows"
  <2>1. DrainFails(j) /\ UNCHANGED <<lost, sentOn>> BY <1>3 DEF Flush, DrainFails
  <2>2. InFlushes' = InFlushes BY <1>1, <1>3 DEF InFlushes, EnvelopesOf, Idle
  <2>3. UNCHANGED <<InTable, InPushes, Sent, Lost>>
    BY <1>1, <2>1 DEF InTable, InPushes, Sent, Lost, EnvelopesOf
  <2>4. UNCHANGED Held BY <2>2, <2>3 DEF Held
  <2>5. RowsApart' BY <1>1 DEF OneHolder, RowsApart
  <2>6. HoldersApart' BY <2>2, <2>3 DEF OneHolder, HoldersApart
  <2>7. FlushesApart' BY <1>1 DEF OneHolder, FlushesApart, EnvelopesOf, Idle
  <2> QED
    BY <1>1, <2>3, <2>4, <2>5, <2>6, <2>7 DEF OneHolder, Accounted, AbstractStep
<1> QED BY <1>2, <1>3

LEMMA CustodyPrune ==
  ASSUME TypeOK, CustodyInv, Prune
  PROVE  CustodyInv' /\ AbstractStep
<1> USE DEF TypeOK, CustodyInv
<1>1. PICK old \in SUBSET table :
        table' = table \ old /\ lost' = LoseAll(EnvelopesOf(old), "expired")
  BY DEF Prune
<1> DEFINE S == EnvelopesOf(old)
<1>2. UNCHANGED <<pushing, flush, injected, sentOn>> BY DEF Prune
<1>3. S \in SUBSET Envelopes /\ S \subseteq InTable BY DEF EnvelopesOf, InTable, Row
<1>4. InTable' = InTable \ S BY <1>1 DEF OneHolder, RowsApart, InTable, EnvelopesOf
<1>5. UNCHANGED <<InPushes, InFlushes, Sent>>
  BY <1>2 DEF InPushes, InFlushes, Sent, EnvelopesOf
<1>6. RowsApart' BY <1>1 DEF OneHolder, RowsApart
<1>7. HoldersApart' BY <1>4, <1>5 DEF OneHolder, HoldersApart
<1>8. FlushesApart' BY <1>2 DEF OneHolder, FlushesApart, EnvelopesOf
<1>9. Held' = Held \ S BY <1>3, <1>4, <1>5 DEF Held, OneHolder, HoldersApart
<1>10. Lost' = Lost \cup S BY <1>1, <1>3, LostAll
<1>11. S \subseteq Held BY <1>3 DEF Held
<1>12. Accounted' /\ AbstractStep BY <1>2, <1>3, <1>5, <1>9, <1>10, <1>11, GivenUp
<1> QED BY <1>6, <1>7, <1>8, <1>12 DEF OneHolder

LEMMA CustodyCrash ==
  ASSUME TypeOK, CustodyInv, Crash
  PROVE  CustodyInv' /\ AbstractStep
<1> USE DEF TypeOK, CustodyInv
<1> DEFINE S == InFlushes \cup InPushes
<1>1. S \in SUBSET Envelopes
  BY FlushFields DEF InFlushes, InPushes, EnvelopesOf, Row
<1>2. InPushes' = {} BY DEF Crash, InPushes
<1>3. InFlushes' = {} BY DEF Crash, InFlushes, Idle
<1>4. UNCHANGED <<InTable, Sent, injected>> BY DEF Crash, InTable, Sent, EnvelopesOf
<1>5. RowsApart' BY DEF Crash, OneHolder, RowsApart
<1>6. HoldersApart' BY <1>2, <1>3 DEF HoldersApart
<1>7. FlushesApart' BY DEF Crash, FlushesApart, Idle
<1>8. Held' = Held \ S
  BY <1>2, <1>3, <1>4 DEF Held, OneHolder, HoldersApart
<1>9. Lost' = Lost \cup S BY <1>1, LostAll DEF Crash
<1>10. S \subseteq Held BY DEF Held
<1>11. Accounted' /\ AbstractStep BY <1>1, <1>4, <1>8, <1>9, <1>10, GivenUp
<1> QED BY <1>5, <1>6, <1>7, <1>11 DEF OneHolder

LEMMA CustodySocketStep ==
  ASSUME TypeOK, CustodyInv, NEW s \in Sockets, SocketNext(s)
  PROVE  CustodyInv' /\ AbstractStep
<1>1. ASSUME NEW m \in Mailboxes, NEW j \in Flushes, SubscribeAccepted(s, m, j)
      PROVE  CustodyInv' /\ AbstractStep
  <2>1. /\ flush[j] = Idle
        /\ flush' = [flush EXCEPT ![j] = [state |-> "asked", ws |-> s, mbkey |-> m]]
        /\ UNCHANGED <<table, pushing, lost, sentOn, injected>>
    BY <1>1 DEF SubscribeAccepted, FlushAsked
  <2>2. \A k \in Flushes : /\ flush'[k].state = "rows" <=> flush[k].state = "rows"
                           /\ flush[k].state = "rows" => flush'[k] = flush[k]
    BY <2>1 DEF TypeOK, Idle
  <2>3. InFlushes' = InFlushes BY <2>2 DEF InFlushes, EnvelopesOf
  <2>4. UNCHANGED <<InTable, InPushes, Sent, Lost>>
    BY <2>1 DEF InTable, InPushes, Sent, Lost, EnvelopesOf
  <2>5. RowsApart' BY <2>1 DEF CustodyInv, OneHolder, RowsApart
  <2>6. HoldersApart' BY <2>3, <2>4 DEF CustodyInv, OneHolder, HoldersApart
  <2>7. FlushesApart' BY <2>2 DEF CustodyInv, OneHolder, FlushesApart, EnvelopesOf
  <2>8. UNCHANGED Held BY <2>3, <2>4 DEF Held
  <2> QED BY <2>1, <2>4, <2>5, <2>6, <2>7, <2>8
          DEF CustodyInv, OneHolder, Accounted, AbstractStep
<1>2. CASE Connect(s) BY <1>2, CustodyFrame DEF Connect, queueVars
<1>3. CASE GoStale(s) BY <1>3, CustodyFrame DEF GoStale, queueVars
<1>4. CASE StartClose(s) BY <1>4, CustodyFrame DEF StartClose, queueVars
<1>5. CASE CloseEvent(s) BY <1>5, CustodyFrame DEF CloseEvent, queueVars
<1>6. CASE Pong(s) BY <1>6, CustodyFrame DEF Pong, queueVars
<1>7. ASSUME NEW m \in Mailboxes,
             \/ SubscribeMessage(s, m) \/ SubscribeRefused(s, m)
             \/ SubscribeAbandoned(s, m)
      PROVE  CustodyInv' /\ AbstractStep
  BY <1>7, CustodyFrame DEF SubscribeMessage, SubscribeRefused, SubscribeAbandoned, queueVars
<1> QED BY <1>1, <1>2, <1>3, <1>4, <1>5, <1>6, <1>7 DEF SocketNext

LEMMA CustodyStep ==
  TypeOK /\ CustodyInv /\ [Next]_vars => CustodyInv' /\ AbstractStep
<1> SUFFICES ASSUME TypeOK, CustodyInv, [Next]_vars
             PROVE  CustodyInv' /\ AbstractStep
  OBVIOUS
<1>1. CASE UNCHANGED vars BY <1>1, CustodyFrame DEF vars
<1>2. CASE Heartbeat BY <1>2, CustodyFrame DEF Heartbeat, queueVars
<1>3. ASSUME NEW e \in Envelopes, EnvelopeNext(e) PROVE CustodyInv' /\ AbstractStep
  BY <1>3, CustodyDeliver, CustodyPush DEF EnvelopeNext
<1>4. ASSUME NEW j \in Flushes, FlushNext(j) PROVE CustodyInv' /\ AbstractStep
  BY <1>4, CustodyDrain, CustodyFlush DEF FlushNext
<1> QED
  BY <1>1, <1>2, <1>3, <1>4, CustodySocketStep, CustodyPrune, CustodyCrash DEF Next

LEMMA CustodyInit == Init => CustodyInv /\ Abstract!Init
<1> SUFFICES ASSUME Init PROVE CustodyInv /\ Abstract!Init OBVIOUS
<1>1. InTable = {} /\ InPushes = {} /\ InFlushes = {} /\ Sent = {} /\ Lost = {}
  BY DEF Init, Idle, InTable, InPushes, InFlushes, Sent, Lost, EnvelopesOf
<1>2. OneHolder
  BY <1>1 DEF Init, Idle, OneHolder, RowsApart, HoldersApart, FlushesApart
<1>3. Held = {} BY <1>1 DEF Held
<1> QED BY <1>1, <1>2, <1>3 DEF Init, CustodyInv, Accounted, Abstract!Init

\* An envelope never has two holders, so no queue entry reaches two flushes.
THEOREM OneHolderCorrect == Spec => []OneHolder
<1>1. CustodyInv => OneHolder BY DEF CustodyInv
<1> QED BY <1>1, CustodyInit, CustodyStep, TypeCorrect, PTL DEF Spec

\* Every envelope is held, sent, or lost for a recorded reason: exactly one.
THEOREM AccountedCorrect == Spec => []Accounted
<1>1. CustodyInv => Accounted BY DEF CustodyInv
<1> QED BY <1>1, CustodyInit, CustodyStep, TypeCorrect, PTL DEF Spec

\* The gateway's sockets, router and table implement the abstract mailbox.
THEOREM Refinement == Spec => ImplementsMailbox
<1>1. AbstractStep => [Abstract!Next]_(Abstract!vars)
  BY DEF AbstractStep, Abstract!vars
<1> QED
  BY <1>1, CustodyInit, CustodyStep, TypeCorrect, PTL
  DEF Spec, ImplementsMailbox, Abstract!Spec

\* A row leaves the table into a flush or past its TTL, never for a new row.
THEOREM EvictionFree == Spec => NothingEvicted
<1> DEFINE A == \A r \in table \ table' :
                  \/ \E j \in Flushes : flush'[j].state = "rows" /\ r \in flush'[j].rows
                  \/ lost'[r.envelope] = "expired"
<1>1. TypeOK /\ [Next]_vars => A
  <2> SUFFICES ASSUME TypeOK, [Next]_vars PROVE A OBVIOUS
  <2>1. ASSUME NEW j \in Flushes, DrainRows(j) PROVE A
    <3> DEFINE R == Drained(flush[j].mbkey)
    <3>1. flush'[j].state = "rows" /\ flush'[j].rows = R /\ table' = table \ R
      BY <2>1 DEF DrainRows, TableAfterDrain, TypeOK
    <3> QED BY <3>1
  <2>2. CASE Prune
    <3>1. PICK old \in SUBSET table :
            table' = table \ old /\ lost' = LoseAll(EnvelopesOf(old), "expired")
      BY <2>2 DEF Prune
    <3> QED BY <3>1 DEF TypeOK, Row, LoseAll, EnvelopesOf
  <2>3. ASSUME ~Prune, \A j \in Flushes : ~DrainRows(j) PROVE table \ table' = {}
    BY <2>3 DEF Next, SocketNext, EnvelopeNext, FlushNext, vars, queueVars,
       Connect, GoStale, StartClose, CloseEvent, Pong, SubscribeMessage,
       SubscribeRefused, SubscribeAbandoned, SubscribeAccepted, Heartbeat, Crash,
       Deliver, PushCount, PushInsert, TableWith, PushFails, DrainFails, Flush
  <2> QED BY <2>1, <2>2, <2>3
<1> QED BY <1>1, TypeCorrect, PTL DEF Spec, NothingEvicted
=============================================================================
