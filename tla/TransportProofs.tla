--------------------------- MODULE TransportProofs ---------------------------
(***************************************************************************)
(* What carries the packets.  Transport, for any number of concurrent      *)
(* switches, clients and sidecar addresses, with failing saves allowed.    *)
(* And the replay guards of the mix nodes, for every set of packets and    *)
(* paths, every length and size of an epoch: a packet is delivered again   *)
(* only past the window that the two generations of tags of its exit span  *)
(* together, and rotating never shortens this window.                      *)
(***************************************************************************)
EXTENDS Transport, MixNode, FiniteSetTheorems, TLAPS

USE TransportAssumption DEF Transports

LEMMA Fresh ==
  /\ [c \in Clients |-> Offline] \in [Clients -> Status \cup {Offline}]
  /\ [a \in Requests |-> IdleRequest]
       \in [Requests -> [mode : Transports, state : {"idle", "saving", "saved"}]]
<1>1. IdleRequest \in [mode : Transports, state : {"idle", "saving", "saved"}]
  BY DEF IdleRequest
<1> QED BY <1>1

LEMMA TypeInit == Init => TypeOK
<1> SUFFICES ASSUME Init PROVE TypeOK OBVIOUS
<1>1. request \in [Requests -> [mode : Transports, state : {"idle", "saving", "saved"}]]
  BY Fresh DEF Init
<1>2. told \in [Clients -> Status \cup {Offline}] BY Fresh DEF Init
<1>3. link = "connecting" /\ address = NoAddress /\ backoff \in 1..30
  BY DEF Init
<1>4. desired \in Transports /\ live \in Transports /\ persisted \in Transports
  BY DEF Init
<1>5. sidecar \in BOOLEAN /\ raced \in BOOLEAN /\ clashed \in BOOLEAN BY DEF Init
<1> QED BY <1>1, <1>2, <1>3, <1>4, <1>5 DEF TypeOK, Connected

LEMMA BroadcastType ==
  ASSUME TypeOK, NEW status \in Status, Broadcast(status)
  PROVE  told' \in [Clients -> Status \cup {Offline}]
  BY DEF TypeOK, Broadcast

LEMMA TypeStep == TypeOK /\ [Next]_vars => TypeOK'
<1> SUFFICES ASSUME TypeOK, [Next]_vars PROVE TypeOK' OBVIOUS
<1> USE DEF TypeOK, Connected, linkVars
<1>0. \A m \in Transports : StatusOf(m) \in Status BY DEF StatusOf, Status
<1>1. CASE LinkOpened BY <1>1 DEF LinkOpened
<1>2. CASE LinkDown
  <2>1. told' \in [Clients -> Status \cup {Offline}]
    BY <1>0, <1>2, BroadcastType DEF LinkDown, LiveAfterDrop
  <2> QED BY <1>2, <2>1 DEF LinkDown, LiveAfterDrop, NextBackoff
<1>3. CASE LinkRetry BY <1>3 DEF LinkRetry, Retry
<1>4. CASE SidecarChanges BY <1>4 DEF SidecarChanges
<1>5. ASSUME NEW x \in Addresses, LinkAnswered(x) PROVE TypeOK'
  <2>1. [transport |-> "nym", nymAddress |-> x] \in Status BY DEF Status
  <2>2. told' \in [Clients -> Status \cup {Offline}]
    BY <1>5, <2>1, BroadcastType DEF LinkAnswered
  <2> QED BY <1>5, <2>2 DEF LinkAnswered
<1>6. ASSUME NEW a \in Requests, NEW mode \in Transports, SwitchAsked(a, mode)
      PROVE  TypeOK'
  BY <1>6 DEF SwitchAsked
<1>7. ASSUME NEW a \in Requests, SwitchSaved(a) PROVE TypeOK'
  BY <1>7 DEF SwitchSaved
<1>8. ASSUME NEW a \in Requests, SwitchDone(a) PROVE TypeOK'
  <2>1. told' \in [Clients -> Status \cup {Offline}]
    BY <1>0, <1>8, BroadcastType DEF SwitchDone, TellAll
  <2> QED BY <1>8, <2>1 DEF SwitchDone, IdleRequest
<1>9. ASSUME NEW a \in Requests, SwitchFails(a) PROVE TypeOK'
  BY <1>9 DEF SwitchFails, IdleRequest
<1>10. ASSUME NEW c \in Clients, ClientConnects(c) PROVE TypeOK'
  BY <1>0, <1>10 DEF ClientConnects
<1>11. ASSUME NEW c \in Clients, ClientLeaves(c) PROVE TypeOK' BY <1>11 DEF ClientLeaves
<1>12. CASE Announce
  <2>1. told' \in [Clients -> Status \cup {Offline}]
    BY <1>0, <1>12, BroadcastType DEF Announce
  <2> QED BY <1>12, <2>1 DEF Announce
<1>13. CASE Restart
  <2>1. request' \in [Requests -> [mode : Transports, state : {"idle", "saving", "saved"}]]
    BY <1>13, Fresh DEF Restart
  <2>2. told' \in [Clients -> Status \cup {Offline}] BY <1>13, Fresh DEF Restart
  <2>3. link' = "connecting" /\ address' = NoAddress /\ backoff' \in 1..30
    BY <1>13 DEF Restart
  <2>4. desired' \in Transports /\ live' \in Transports /\ persisted' \in Transports
    BY <1>13 DEF Restart
  <2>5. sidecar' \in BOOLEAN /\ raced' \in BOOLEAN /\ clashed' \in BOOLEAN BY <1>13 DEF Restart
  <2> QED BY <2>1, <2>2, <2>3, <2>4, <2>5
<1>14. CASE UNCHANGED vars BY <1>14 DEF vars
<1> QED
  BY <1>1, <1>2, <1>3, <1>4, <1>5, <1>6, <1>7, <1>8, <1>9, <1>10, <1>11, <1>12,
     <1>13, <1>14 DEF Next, LinkNext, RequestNext

\* Every variable keeps its type; there is an address exactly when connected.
THEOREM TypeCorrect == Spec => []TypeOK
  BY TypeInit, TypeStep, PTL DEF Spec

-----------------------------------------------------------------------------
(* Clients know the transport in effect *)

LEMMA ToldInit == Init => ToldLive BY DEF Init, ToldLive

LEMMA ToldAfterBroadcast ==
  ASSUME NEW status, Broadcast(status), status.transport = live'
  PROVE  ToldLive'
  BY DEF Broadcast, ToldLive

LEMMA ToldStep == TypeOK /\ ToldLive /\ [Next]_vars => ToldLive'
<1> SUFFICES ASSUME TypeOK, ToldLive, [Next]_vars PROVE ToldLive' OBVIOUS
<1> USE DEF ToldLive
<1>1. CASE LinkOpened BY <1>1 DEF LinkOpened
<1>2. CASE LinkDown BY <1>2, ToldAfterBroadcast DEF LinkDown, StatusOf
<1>3. CASE LinkRetry BY <1>3 DEF LinkRetry
<1>4. CASE SidecarChanges BY <1>4 DEF SidecarChanges
<1>5. ASSUME NEW x \in Addresses, LinkAnswered(x) PROVE ToldLive'
  BY <1>5, ToldAfterBroadcast DEF LinkAnswered
<1>6. ASSUME NEW a \in Requests, NEW mode \in Transports, SwitchAsked(a, mode)
      PROVE  ToldLive'
  BY <1>6 DEF SwitchAsked
<1>7. ASSUME NEW a \in Requests, SwitchSaved(a) PROVE ToldLive' BY <1>7 DEF SwitchSaved
<1>8. ASSUME NEW a \in Requests, SwitchDone(a) PROVE ToldLive'
  BY <1>8, ToldAfterBroadcast DEF SwitchDone, TellAll, StatusOf
<1>9. ASSUME NEW a \in Requests, SwitchFails(a) PROVE ToldLive' BY <1>9 DEF SwitchFails
<1>10. ASSUME NEW c \in Clients, ClientConnects(c) PROVE ToldLive'
  BY <1>10 DEF ClientConnects, StatusOf, TypeOK
<1>11. ASSUME NEW c \in Clients, ClientLeaves(c) PROVE ToldLive'
  BY <1>11 DEF ClientLeaves, TypeOK
<1>12. CASE Announce BY <1>12, ToldAfterBroadcast DEF Announce, StatusOf
<1>13. CASE Restart BY <1>13 DEF Restart
<1>14. CASE UNCHANGED vars BY <1>14 DEF vars
<1> QED
  BY <1>1, <1>2, <1>3, <1>4, <1>5, <1>6, <1>7, <1>8, <1>9, <1>10, <1>11, <1>12,
     <1>13, <1>14 DEF Next, LinkNext, RequestNext

\* Whoever is connected was last told the transport in effect.
THEOREM ToldCorrect == Spec => []ToldLive
  BY ToldInit, ToldStep, TypeCorrect, PTL DEF Spec

-----------------------------------------------------------------------------
(* The uplink.  UplinkAlive is not inductive: a switch to nym in flight must *)
(* itself be covered by a live link.                                         *)

UplinkInv == UplinkAlive /\ (~raced /\ InFlight("nym") => Connected)

LEMMA UplinkStep ==
  TypeOK /\ ToldLive /\ UplinkInv /\ [Next]_vars => UplinkInv'
<1> SUFFICES ASSUME TypeOK, ToldLive, UplinkInv, [Next]_vars PROVE UplinkInv' OBVIOUS
<1> USE DEF TypeOK, ToldLive, UplinkInv, UplinkAlive, InFlight, Connected, linkVars
<1>1. CASE LinkOpened BY <1>1 DEF LinkOpened, Offline
<1>2. CASE LinkDown
  <2>1. ~raced' => ~raced /\ (Connected => ~InFlight("nym")) BY <1>2 DEF LinkDown
  <2>2. CASE Connected /\ live = "nym"
    <3>1. live' = "internal" /\ \A c \in Clients : told'[c].transport # "nym"
      BY <1>2, <2>2 DEF LinkDown, Broadcast, StatusOf, LiveAfterDrop, Offline
    <3> QED BY <1>2, <2>1, <3>1 DEF LinkDown
  <2>3. CASE ~(Connected /\ live = "nym")
    <3>1. live' = live /\ told' = told BY <1>2, <2>3 DEF LinkDown
    <3>2. ~raced => live # "nym" /\ \A c \in Clients : told[c].transport # "nym"
      BY <2>3 DEF Offline
    <3> QED BY <1>2, <2>1, <3>1, <3>2 DEF LinkDown
  <2> QED BY <2>2, <2>3
<1>3. CASE LinkRetry BY <1>3 DEF LinkRetry, Retry, Offline
<1>4. CASE SidecarChanges BY <1>4 DEF SidecarChanges
<1>5. ASSUME NEW x \in Addresses, LinkAnswered(x) PROVE UplinkInv'
  BY <1>5 DEF LinkAnswered, Broadcast, Restores, Offline
<1>6. ASSUME NEW a \in Requests, NEW mode \in Transports, SwitchAsked(a, mode)
      PROVE  UplinkInv'
  BY <1>6 DEF SwitchAsked, MayChoose
<1>7. ASSUME NEW a \in Requests, SwitchSaved(a) PROVE UplinkInv' BY <1>7 DEF SwitchSaved
<1>8. ASSUME NEW a \in Requests, SwitchDone(a) PROVE UplinkInv'
  <2>1. ~raced /\ live' = "nym" => Connected BY <1>8 DEF SwitchDone
  <2>2. ~raced => \A c \in Clients :
          told'[c].transport = "nym" => Connected /\ told'[c].nymAddress = address
    BY <1>8, <2>1 DEF SwitchDone, TellAll, Broadcast, StatusOf, Offline
  <2>3. \A b \in Requests : request'[b].state # "idle" => request'[b] = request[b]
    BY <1>8 DEF SwitchDone, IdleRequest
  <2> QED BY <1>8, <2>1, <2>2, <2>3 DEF SwitchDone
<1>9. ASSUME NEW a \in Requests, SwitchFails(a) PROVE UplinkInv'
  BY <1>9 DEF SwitchFails, IdleRequest
<1>10. ASSUME NEW c \in Clients, ClientConnects(c) PROVE UplinkInv'
  BY <1>10 DEF ClientConnects, StatusOf
<1>11. ASSUME NEW c \in Clients, ClientLeaves(c) PROVE UplinkInv'
  BY <1>11 DEF ClientLeaves, Offline
<1>12. CASE Announce BY <1>12 DEF Announce, Broadcast, StatusOf, Offline
<1>13. CASE Restart BY <1>13 DEF Restart, Offline, IdleRequest
<1>14. CASE UNCHANGED vars BY <1>14 DEF vars
<1> QED
  BY <1>1, <1>2, <1>3, <1>4, <1>5, <1>6, <1>7, <1>8, <1>9, <1>10, <1>11, <1>12,
     <1>13, <1>14 DEF Next, LinkNext, RequestNext

\* Unless the link dropped under a switch in flight, a gateway on nym has its
\* sidecar, and clients on nym have its present address.
THEOREM UplinkCorrect == Spec => []UplinkAlive
<1>1. Init => UplinkInv
  BY DEF Init, UplinkInv, UplinkAlive, InFlight, Offline, IdleRequest
<1>2. UplinkInv => UplinkAlive BY DEF UplinkInv
<1> QED BY <1>1, <1>2, UplinkStep, ToldCorrect, TypeCorrect, PTL DEF Spec

-----------------------------------------------------------------------------
(* What is wished, in effect and stored.  Quiescence is not enough to see why *)
(* they agree: the invariant says where the one switch in flight stands.      *)

OneSwitch ==
  \A a, b \in Requests : request[a] # IdleRequest /\ request[b] # IdleRequest => a = b

InStep(a) ==
  /\ request[a].state = "saving" => desired = request[a].mode
  /\ request[a].state = "saved" => desired = request[a].mode /\ persisted = desired

Agreement ==
  Quiescent =>
    /\ persisted = desired
    /\ desired # live => desired = "nym" /\ ~Connected

IdleShape == \A a \in Requests : request[a].state = "idle" => request[a] = IdleRequest

WishInv ==
  /\ IdleShape
  /\ ~clashed => OneSwitch /\ Agreement /\ \A a \in Requests : InStep(a)

\* A step that leaves the wish, the setting and the switches alone, and moves
\* what is in effect only as the link allows.
LEMMA WishKept ==
  ASSUME WishInv, UNCHANGED <<desired, persisted, request, clashed>>,
         Agreement => Agreement'
  PROVE  WishInv'
  BY DEF WishInv, IdleShape, OneSwitch, InStep

LEMMA WishStep == TypeOK /\ WishInv /\ [Next]_vars => WishInv'
<1> SUFFICES ASSUME TypeOK, WishInv, [Next]_vars PROVE WishInv' OBVIOUS
<1> USE DEF Agreement, Quiescent
<1>1. CASE LinkOpened BY <1>1, WishKept DEF LinkOpened, Connected
<1>2. CASE LinkDown
  <2>1. Agreement => Agreement' BY <1>2 DEF LinkDown, LiveAfterDrop, Connected, TypeOK
  <2> QED BY <1>2, <2>1, WishKept DEF LinkDown
<1>3. CASE LinkRetry BY <1>3, WishKept DEF LinkRetry, Retry, Connected
<1>4. CASE SidecarChanges BY <1>4, WishKept DEF SidecarChanges, linkVars, Connected
<1>5. ASSUME NEW x \in Addresses, LinkAnswered(x) PROVE WishInv'
  <2>1. Agreement => Agreement' BY <1>5 DEF LinkAnswered, Restores, Connected, TypeOK
  <2> QED BY <1>5, <2>1, WishKept DEF LinkAnswered
<1>6. ASSUME NEW a \in Requests, NEW mode \in Transports, SwitchAsked(a, mode)
      PROVE  WishInv'
  <2>1. request' = [request EXCEPT ![a] = [mode |-> mode, state |-> "saving"]]
    BY <1>6 DEF SwitchAsked
  <2>2. IdleShape' BY <2>1 DEF IdleShape, WishInv, TypeOK
  <2>3. ASSUME ~clashed' PROVE OneSwitch' /\ Agreement' /\ \A b \in Requests : InStep(b)'
    <3>1. \A b \in Requests : request[b] = IdleRequest BY <1>6, <2>3 DEF SwitchAsked, TypeOK
    <3>2. \A b \in Requests : b # a => request'[b] = IdleRequest
      BY <2>1, <3>1 DEF TypeOK
    <3>3. request'[a] = [mode |-> mode, state |-> "saving"] /\ desired' = mode
      BY <1>6, <2>1 DEF TypeOK, SwitchAsked
    <3> QED BY <3>2, <3>3 DEF OneSwitch, InStep, IdleRequest
  <2> QED BY <2>2, <2>3 DEF WishInv
<1>7. ASSUME NEW a \in Requests, SwitchSaved(a) PROVE WishInv'
  BY <1>7 DEF SwitchSaved, WishInv, IdleShape, OneSwitch, InStep, IdleRequest,
     TypeOK, Connected, linkVars
<1>8. ASSUME NEW a \in Requests, SwitchDone(a) PROVE WishInv'
  <2>1. request' = [request EXCEPT ![a] = IdleRequest] BY <1>8 DEF SwitchDone
  <2>2. IdleShape' BY <2>1 DEF IdleShape, WishInv, TypeOK
  <2>3. ASSUME ~clashed' PROVE OneSwitch' /\ Agreement' /\ \A b \in Requests : InStep(b)'
    <3>1. ~clashed BY <1>8, <2>3 DEF SwitchDone
    <3>2. request[a] # IdleRequest BY <1>8 DEF SwitchDone, IdleRequest
    <3>3. \A b \in Requests : request'[b] = IdleRequest
      BY <2>1, <3>1, <3>2 DEF WishInv, OneSwitch, TypeOK
    <3>4. desired = request[a].mode /\ persisted = desired
      BY <1>8, <3>1 DEF SwitchDone, WishInv, InStep
    <3>5. live' = desired' /\ persisted' = desired' BY <1>8, <3>4 DEF SwitchDone
    <3> QED BY <3>3, <3>5 DEF OneSwitch, InStep, IdleRequest
  <2> QED BY <2>2, <2>3 DEF WishInv
<1>9. ASSUME NEW a \in Requests, SwitchFails(a) PROVE WishInv'
  BY <1>9 DEF SwitchFails, WishInv, IdleShape, TypeOK
<1>10. ASSUME NEW c \in Clients, ClientConnects(c) PROVE WishInv'
  BY <1>10, WishKept DEF ClientConnects, linkVars, Connected
<1>11. ASSUME NEW c \in Clients, ClientLeaves(c) PROVE WishInv'
  BY <1>11, WishKept DEF ClientLeaves, linkVars, Connected
<1>12. CASE Announce BY <1>12, WishKept DEF Announce, linkVars, Connected
<1>13. CASE Restart
  <2>1. \A a \in Requests : request'[a] = IdleRequest BY <1>13 DEF Restart
  <2>2. persisted' = desired' /\ live' = "internal" /\ link' = "connecting"
    BY <1>13 DEF Restart
  <2>3. desired' \in Transports BY <1>13 DEF Restart, TypeOK
  <2> QED BY <2>1, <2>2, <2>3 DEF WishInv, IdleShape, OneSwitch, InStep, IdleRequest, Connected
<1>14. CASE UNCHANGED vars BY <1>14, WishKept DEF vars, Connected
<1> QED
  BY <1>1, <1>2, <1>3, <1>4, <1>5, <1>6, <1>7, <1>8, <1>9, <1>10, <1>11, <1>12,
     <1>13, <1>14 DEF Next, LinkNext, RequestNext

LEMMA WishInvCorrect == Spec => []WishInv
<1>1. Init => WishInv
  BY DEF Init, WishInv, IdleShape, OneSwitch, Agreement, InStep, Quiescent, IdleRequest,
     Connected
<1> QED BY <1>1, WishStep, TypeCorrect, PTL DEF Spec

\* Unless switches overlapped or failed, the stored setting is the admin's last
\* choice, and the transport in effect differs from it only while nym waits for
\* its sidecar.
THEOREM WishCorrect == Spec => []WishInEffect
<1>1. WishInv => WishInEffect BY DEF WishInv, Agreement, WishInEffect
<1> QED BY <1>1, WishInvCorrect, PTL

-----------------------------------------------------------------------------
(* The replay guards of the mix nodes *)

HIDE TransportAssumption DEF Transports
USE MixNodeAssumption

Meetings == {Never} \cup [ago : 0..EpochMs, others : 0..MaxPerEpoch]
Guards == [age : 0..EpochMs \cup {Never}, cur : SUBSET Tags, prev : SUBSET Tags]
Small(S) == IsFiniteSet(S) /\ Cardinality(S) <= MaxPerEpoch

\* Every variable has its type, and no generation outgrows its cap.
MixTyped ==
  /\ guard \in [Nodes -> Guards]
  /\ timers \subseteq Tags /\ posted \subseteq Tags /\ forgot \subseteq Packets
  /\ exits \in [Packets -> 0..2]
  /\ met \in [Packets -> Meetings]
  /\ \A n \in Nodes : Small(guard[n].cur) /\ Small(guard[n].prev)

\* An exit that accepted p within the window still has its tag: among the
\* current ones, or among those before, and then the epoch is no older and no
\* fuller than the time and the tags since.
Remembers(g, e, m) ==
  ~Past(m) =>
    /\ g.age # Never
    /\ e \in g.cur \/ (e \in g.prev /\ m.ago >= g.age /\ m.others >= Cardinality(g.cur))
Remembered == \A p \in Packets : Remembers(guard[NodeAt(ExitTag(p))], ExitTag(p), met[p])

MixInv == MixTyped /\ Remembered /\ DeliveredOnce

-----------------------------------------------------------------------------
(* Tags and nodes *)

LEMMA TagsOfPath ==
  ASSUME NEW p \in Packets
  PROVE  <<p, 1>> \in Tags /\ ExitTag(p) \in Tags
<1> DEFINE len == Len(Path[p])
<1>1. Path[p] \in Seq(Nodes) /\ len \in 1..5 OBVIOUS
<1>2. DOMAIN Path[p] = 1..len BY <1>1
<1> HIDE DEF len
<1>3. ASSUME NEW i \in 1..len PROVE <<p, i>> \in Tags
  <2>1. i \in 1..5 /\ i \in DOMAIN Path[p] BY <1>1, <1>2
  <2> QED BY <2>1 DEF Tags
<1>4. 1 \in 1..len /\ len \in 1..len BY <1>1
<1> QED BY <1>3, <1>4 DEF ExitTag, len

LEMMA NodeOfTag ==
  ASSUME NEW x \in Tags
  PROVE  NodeAt(x) \in Nodes /\ x[1] \in Packets /\ x[2] \in 1..5 /\ x = <<x[1], x[2]>>
<1>1. x[1] \in Packets /\ x[2] \in 1..5 /\ x[2] \in DOMAIN Path[x[1]] /\ x = <<x[1], x[2]>>
  BY DEF Tags
<1>2. Path[x[1]] \in Seq(Nodes) BY <1>1
<1>3. Path[x[1]][x[2]] \in Nodes BY <1>1, <1>2
<1> QED BY <1>1, <1>3 DEF NodeAt

\* A packet that is not at its exit has a next hop.
LEMMA NextHop ==
  ASSUME NEW x \in Tags, x # ExitTag(x[1])
  PROVE  <<x[1], x[2] + 1>> \in Tags
<1>1. x[1] \in Packets /\ x[2] \in 1..5 /\ x[2] \in DOMAIN Path[x[1]] /\ x = <<x[1], x[2]>>
  BY DEF Tags
<1>2. Path[x[1]] \in Seq(Nodes) /\ Len(Path[x[1]]) \in 1..5 BY <1>1
<1>3. DOMAIN Path[x[1]] = 1..Len(Path[x[1]]) BY <1>2
<1>4. x[2] # Len(Path[x[1]]) BY <1>1 DEF ExitTag
<1> QED BY <1>1, <1>2, <1>3, <1>4 DEF Tags

-----------------------------------------------------------------------------
(* The guard *)

LEMMA EmptySmall == Small({})
  BY FS_EmptySet DEF Small

\* A rotated guard has room for one more tag.
LEMMA RolledGuard ==
  ASSUME NEW g \in Guards, Small(g.cur), Small(g.prev)
  PROVE  /\ Rolled(g) \in Guards /\ Rolled(g).age # Never
         /\ Small(Rolled(g).cur) /\ Cardinality(Rolled(g).cur) < MaxPerEpoch
         /\ Small(Rolled(g).prev)
<1>1. Cardinality(g.cur) \in Nat /\ Cardinality(g.prev) \in Nat BY FS_CardinalityType DEF Small
<1>2. CASE g.age = EpochMs \/ Cardinality(g.cur) >= MaxPerEpoch
  <2>1. Rolled(g) = [age |-> 0, cur |-> {}, prev |-> g.cur] BY <1>2 DEF Rolled
  <2>2. Cardinality({}) = 0 BY FS_EmptySet
  <2> QED BY <2>1, <2>2, EmptySmall DEF Guards
<1>3. CASE ~(g.age = EpochMs \/ Cardinality(g.cur) >= MaxPerEpoch)
  <2>1. Rolled(g) = [g EXCEPT !.age = IF @ = Never THEN 0 ELSE @] BY <1>3 DEF Rolled
  <2>2. Rolled(g).cur = g.cur /\ Rolled(g).prev = g.prev /\ Rolled(g) \in Guards
        /\ Rolled(g).age # Never
    BY <2>1 DEF Guards
  <2> QED BY <1>1, <1>3, <2>2
<1> QED BY <1>2, <1>3

\* Rotating loses no tag that is within its window.
LEMMA RolledRemembers ==
  ASSUME NEW g \in Guards, Small(g.cur), Small(g.prev), NEW e, NEW m \in Meetings,
         Remembers(g, e, m)
  PROVE  Remembers(Rolled(g), e, m)
<1> SUFFICES ASSUME ~Past(m)
             PROVE  /\ Rolled(g).age # Never
                    /\ \/ e \in Rolled(g).cur
                       \/ /\ e \in Rolled(g).prev /\ m.ago >= Rolled(g).age
                          /\ m.others >= Cardinality(Rolled(g).cur)
  BY DEF Remembers
<1>0. m \in [ago : 0..EpochMs, others : 0..MaxPerEpoch] /\ m.ago < EpochMs /\ m.others < MaxPerEpoch
  BY DEF Meetings, Past
<1>1. Rolled(g).age # Never BY RolledGuard
<1>2. g.age # Never
      /\ (e \in g.cur \/ (e \in g.prev /\ m.ago >= g.age /\ m.others >= Cardinality(g.cur)))
  BY DEF Remembers
<1>3. CASE g.age = EpochMs \/ Cardinality(g.cur) >= MaxPerEpoch
  <2>1. Rolled(g) = [age |-> 0, cur |-> {}, prev |-> g.cur] BY <1>3 DEF Rolled
  <2>2. Cardinality({}) = 0 BY FS_EmptySet
  <2>3. Cardinality(g.cur) \in Nat BY FS_CardinalityType DEF Small
  <2>4. e \in g.cur BY <1>0, <1>2, <1>3, <2>3
  <2> QED BY <1>0, <2>1, <2>2, <2>4
<1>4. CASE ~(g.age = EpochMs \/ Cardinality(g.cur) >= MaxPerEpoch)
  <2>1. Rolled(g) = g BY <1>2, <1>4 DEF Rolled, Guards
  <2> QED BY <1>2, <2>1
<1> QED BY <1>3, <1>4

\* Accepting another tag keeps what is remembered, and counts the tag.
LEMMA AcceptRemembers ==
  ASSUME NEW g \in Guards, Small(g.cur), NEW e, NEW m \in Meetings, Remembers(g, e, m),
         NEW x, x \notin g.cur, g.age # Never,
         NEW gg, gg = [g EXCEPT !.cur = @ \cup {x}],
         NEW mm, mm = IF x = e THEN [ago |-> 0, others |-> 0]
                      ELSE IF m = Never \/ m.others = MaxPerEpoch THEN m
                      ELSE [m EXCEPT !.others = @ + 1]
  PROVE  Remembers(gg, e, mm)
<1> SUFFICES ASSUME ~Past(mm)
             PROVE  e \in gg.cur \/ (e \in gg.prev /\ mm.ago >= gg.age
                                      /\ mm.others >= Cardinality(gg.cur))
  BY DEF Remembers, Guards
<1>1. gg.cur = g.cur \cup {x} /\ gg.prev = g.prev /\ gg.age = g.age BY DEF Guards
<1>2. CASE x = e BY <1>1, <1>2
<1>3. CASE x # e
  <2>1. m # Never /\ m.others # MaxPerEpoch /\ mm = [m EXCEPT !.others = @ + 1]
    BY <1>3 DEF Past
  <2>2. m \in [ago : 0..EpochMs, others : 0..MaxPerEpoch] BY <2>1 DEF Meetings
  <2>3. mm.ago = m.ago /\ mm.others = m.others + 1 BY <2>1, <2>2
  <2>4. ~Past(m) BY <2>1, <2>2, <2>3 DEF Past
  <2>5. e \in g.cur \/ (e \in g.prev /\ m.ago >= g.age /\ m.others >= Cardinality(g.cur))
    BY <2>4 DEF Remembers
  <2>6. Cardinality(g.cur) \in Nat /\ Cardinality(gg.cur) = Cardinality(g.cur) + 1
    BY <1>1, FS_AddElement, FS_CardinalityType DEF Small
  <2> QED BY <1>1, <2>2, <2>3, <2>5, <2>6
<1> QED BY <1>2, <1>3

-----------------------------------------------------------------------------
(* The steps *)

LEMMA MixInitInv == MixInit => MixInv
<1> SUFFICES ASSUME MixInit PROVE MixInv OBVIOUS
<1>1. NewGuard \in Guards BY DEF NewGuard, Guards
<1>2. guard \in [Nodes -> Guards] /\ met \in [Packets -> Meetings] /\ exits \in [Packets -> 0..2]
  BY <1>1 DEF MixInit, Meetings
<1>3. \A n \in Nodes : guard[n].cur = {} /\ guard[n].prev = {} BY DEF MixInit, NewGuard
<1>4. MixTyped BY <1>2, <1>3, EmptySmall DEF MixInit, MixTyped
<1>5. Remembered BY DEF MixInit, Remembered, Remembers, Past
<1>6. DeliveredOnce BY DEF MixInit, DeliveredOnce
<1> QED BY <1>4, <1>5, <1>6 DEF MixInv

LEMMA TickStep == MixInv /\ ticks => MixInv'
<1> SUFFICES ASSUME MixInv, ticks PROVE MixInv' OBVIOUS
<1> USE DEF MixInv, MixTyped
<1>1. ASSUME NEW n \in Nodes
      PROVE  /\ guard'[n] \in Guards /\ guard'[n].cur = guard[n].cur
             /\ guard'[n].prev = guard[n].prev /\ guard'[n].age = Aged(guard[n].age)
  BY DEF ticks, Guards, Aged
<1>2. guard' \in [Nodes -> Guards] BY <1>1 DEF ticks
<1>3. ASSUME NEW p \in Packets
      PROVE  /\ met'[p] \in Meetings
             /\ met[p] = Never => met'[p] = Never
             /\ met[p] # Never => /\ met[p] \in [ago : 0..EpochMs, others : 0..MaxPerEpoch]
                                  /\ met'[p] = [met[p] EXCEPT !.ago = Aged(@)]
  BY DEF ticks, Meetings, Aged
<1>4. met' \in [Packets -> Meetings] BY <1>3 DEF ticks
<1>5. Remembered'
  <2> SUFFICES ASSUME NEW p \in Packets
               PROVE  Remembers(guard'[NodeAt(ExitTag(p))], ExitTag(p), met'[p])
    BY DEF Remembered, NodeAt, ExitTag
  <2> DEFINE n == NodeAt(ExitTag(p))
             e == ExitTag(p)
  <2>1. n \in Nodes BY TagsOfPath, NodeOfTag
  <2>2. Remembers(guard[n], e, met[p]) BY DEF Remembered
  <2> HIDE DEF n, e
  <2>3. SUFFICES ASSUME ~Past(met'[p]) PROVE Remembers(guard'[n], e, met'[p])
    BY DEF Remembers, n, e
  <2>4. /\ met[p] # Never /\ met[p] \in [ago : 0..EpochMs, others : 0..MaxPerEpoch]
        /\ met'[p] = [met[p] EXCEPT !.ago = Aged(@)]
    BY <1>3, <2>3 DEF Past
  <2>5. met[p].ago # EpochMs /\ met'[p].ago = met[p].ago + 1 /\ met'[p].others = met[p].others
    BY <2>3, <2>4 DEF Past, Aged
  <2>6. ~Past(met[p]) BY <2>3, <2>4, <2>5 DEF Past
  <2>7. guard[n].age \in 0..EpochMs BY <2>1, <2>2, <2>6 DEF Remembers, Guards
  <2>8. guard'[n].age \in Int /\ guard'[n].age <= guard[n].age + 1
    BY <1>1, <2>1, <2>7 DEF Aged
  <2> QED BY <1>1, <2>1, <2>2, <2>4, <2>5, <2>6, <2>7, <2>8 DEF Remembers
<1>6. DeliveredOnce' BY DEF ticks, DeliveredOnce
<1>7. \A n \in Nodes : Small(guard'[n].cur) /\ Small(guard'[n].prev) BY <1>1
<1> QED BY <1>2, <1>4, <1>5, <1>6, <1>7 DEF ticks

LEMMA RestartStep ==
  ASSUME MixInv, NEW n \in Nodes, restarts(n)
  PROVE  MixInv'
<1> USE DEF MixInv, MixTyped, restarts
<1>1. NewGuard \in Guards /\ Small(NewGuard.cur) /\ Small(NewGuard.prev)
  BY EmptySmall DEF NewGuard, Guards
<1>2. guard' \in [Nodes -> Guards] BY <1>1
<1>3. \A k \in Nodes : Small(guard'[k].cur) /\ Small(guard'[k].prev) BY <1>1
<1>4. met' \in [Packets -> Meetings] BY DEF Meetings
<1>5. Remembered'
  <2> SUFFICES ASSUME NEW p \in Packets
               PROVE  Remembers(guard'[NodeAt(ExitTag(p))], ExitTag(p), met'[p])
    BY DEF Remembered, NodeAt, ExitTag
  <2>1. NodeAt(ExitTag(p)) \in Nodes BY TagsOfPath, NodeOfTag
  <2>2. CASE NodeAt(ExitTag(p)) = n BY <2>2 DEF Remembers, Past
  <2>3. CASE NodeAt(ExitTag(p)) # n
    <3>1. guard'[NodeAt(ExitTag(p))] = guard[NodeAt(ExitTag(p))] /\ met'[p] = met[p]
      BY <2>1, <2>3
    <3> QED BY <3>1 DEF Remembered
  <2> QED BY <2>2, <2>3
<1>6. DeliveredOnce' BY DEF DeliveredOnce
<1> QED BY <1>2, <1>3, <1>4, <1>5, <1>6

LEMMA HandleStep ==
  ASSUME MixInv, NEW x \in posted, NEW comes \in BOOLEAN, handlePacket(x, comes)
  PROVE  MixInv'
<1> DEFINE n == NodeAt(x)
           g == Rolled(guard[n])
<1> USE DEF MixInv, MixTyped
<1>1. x \in Tags /\ n \in Nodes /\ x[1] \in Packets /\ x = <<x[1], x[2]>> BY NodeOfTag
<1>2. guard[n] \in Guards /\ Small(guard[n].cur) /\ Small(guard[n].prev) BY <1>1
<1>3. /\ g \in Guards /\ g.age # Never /\ Small(g.cur) /\ Small(g.prev)
      /\ Cardinality(g.cur) < MaxPerEpoch
  BY <1>2, RolledGuard
<1>4. \A p \in Packets : NodeAt(ExitTag(p)) = n => Remembers(g, ExitTag(p), met[p])
  <2> SUFFICES ASSUME NEW p \in Packets, NodeAt(ExitTag(p)) = n
               PROVE  Remembers(g, ExitTag(p), met[p])
    OBVIOUS
  <2>1. Remembers(guard[n], ExitTag(p), met[p]) BY DEF Remembered
  <2> QED BY <1>2, <2>1, RolledRemembers
<1> HIDE DEF n, g
<1>5. CASE x \in g.cur \cup g.prev
  <2>1. guard' = [guard EXCEPT ![n] = g] /\ UNCHANGED <<timers, posted, exits, met, forgot>>
    BY <1>5 DEF handlePacket, n, g
  <2>2. Remembered'
    <3> SUFFICES ASSUME NEW p \in Packets
                 PROVE  Remembers(guard'[NodeAt(ExitTag(p))], ExitTag(p), met'[p])
      BY DEF Remembered, NodeAt, ExitTag
    <3>1. NodeAt(ExitTag(p)) \in Nodes BY TagsOfPath, NodeOfTag
    <3> QED BY <1>1, <1>4, <2>1, <3>1 DEF Remembered
  <2>3. DeliveredOnce' BY <2>1 DEF DeliveredOnce
  <2> QED BY <1>1, <1>3, <2>1, <2>2, <2>3
<1>6. CASE x \notin g.cur \cup g.prev
  <2> DEFINE gg == [g EXCEPT !.cur = @ \cup {x}]
  <2>1. /\ guard' = [guard EXCEPT ![n] = gg] /\ Meets(n, x) /\ UNCHANGED posted
        /\ IF x # ExitTag(x[1])
           THEN timers' = timers \cup {<<x[1], x[2] + 1>>} /\ UNCHANGED <<exits, forgot>>
           ELSE /\ exits' = [exits EXCEPT ![x[1]] = IF comes /\ @ < 2 THEN @ + 1 ELSE @]
                /\ forgot' = IF exits[x[1]] > 0 /\ Past(met[x[1]]) THEN forgot \cup {x[1]} ELSE forgot
                /\ UNCHANGED timers
    BY <1>6 DEF handlePacket, n, g
  <2>2. gg \in Guards /\ gg.cur = g.cur \cup {x} /\ gg.prev = g.prev BY <1>1, <1>3 DEF Guards
  <2>3. Small(gg.cur) /\ Small(gg.prev)
    <3>1. Cardinality(g.cur) \in Nat BY <1>3, FS_CardinalityType DEF Small
    <3>2. IsFiniteSet(g.cur \cup {x}) /\ Cardinality(g.cur \cup {x}) = Cardinality(g.cur) + 1
      BY <1>3, <1>6, FS_AddElement DEF Small
    <3> QED BY <1>3, <2>2, <3>1, <3>2 DEF Small
  <2>4. met' \in [Packets -> Meetings]
    <3> SUFFICES ASSUME NEW p \in Packets PROVE met'[p] \in Meetings BY <2>1 DEF Meets
    <3>1. met[p] \in Meetings OBVIOUS
    <3> QED BY <2>1, <3>1 DEF Meets, Meetings
  <2>5. Remembered'
    <3> SUFFICES ASSUME NEW p \in Packets
                 PROVE  Remembers(guard'[NodeAt(ExitTag(p))], ExitTag(p), met'[p])
      BY DEF Remembered, NodeAt, ExitTag
    <3>1. NodeAt(ExitTag(p)) \in Nodes BY TagsOfPath, NodeOfTag
    <3>2. CASE NodeAt(ExitTag(p)) # n
      <4>1. guard'[NodeAt(ExitTag(p))] = guard[NodeAt(ExitTag(p))] /\ met'[p] = met[p]
        BY <2>1, <3>1, <3>2 DEF Meets
      <4> QED BY <4>1 DEF Remembered
    <3>3. CASE NodeAt(ExitTag(p)) = n
      <4>1. guard'[n] = gg BY <1>1, <2>1
      <4>2. met'[p] = IF x = ExitTag(p) THEN [ago |-> 0, others |-> 0]
                      ELSE IF met[p] = Never \/ met[p].others = MaxPerEpoch THEN met[p]
                      ELSE [met[p] EXCEPT !.others = @ + 1]
        BY <2>1, <3>3 DEF Meets
      <4>3. Remembers(g, ExitTag(p), met[p]) /\ met[p] \in Meetings BY <1>4, <3>3
      <4>4. x \notin g.cur BY <1>6
      <4>5. Remembers(gg, ExitTag(p), met'[p])
        BY <1>3, <4>2, <4>3, <4>4, AcceptRemembers
      <4> QED BY <3>3, <4>1, <4>5
    <3> QED BY <3>2, <3>3
  <2>6. CASE x # ExitTag(x[1])
    <3>1. <<x[1], x[2] + 1>> \in Tags BY <1>1, <2>6, NextHop
    <3>2. DeliveredOnce' BY <2>1, <2>6 DEF DeliveredOnce
    <3> QED BY <1>1, <2>1, <2>2, <2>3, <2>4, <2>5, <2>6, <3>1, <3>2
  <2>7. CASE x = ExitTag(x[1])
    <3>1. /\ exits' = [exits EXCEPT ![x[1]] = IF comes /\ @ < 2 THEN @ + 1 ELSE @]
          /\ forgot' = IF exits[x[1]] > 0 /\ Past(met[x[1]]) THEN forgot \cup {x[1]} ELSE forgot
          /\ timers' = timers
      BY <2>1, <2>7
    <3>2. exits' \in [Packets -> 0..2] /\ forgot' \subseteq Packets BY <1>1, <3>1
    <3>3. Past(met[x[1]])
      <4>1. Remembers(g, x, met[x[1]]) BY <1>1, <1>4, <2>7 DEF n
      <4> QED BY <1>6, <4>1 DEF Remembers
    <3>4. DeliveredOnce' BY <1>1, <3>1, <3>3 DEF DeliveredOnce
    <3> QED BY <1>1, <2>1, <2>2, <2>3, <2>4, <2>5, <3>1, <3>2, <3>4
  <2> QED BY <2>6, <2>7
<1> QED BY <1>5, <1>6

LEMMA MixStep == MixInv /\ [MixNext]_mixVars => MixInv'
<1> SUFFICES ASSUME MixInv, [MixNext]_mixVars PROVE MixInv' OBVIOUS
<1> USE DEF MixInv, MixTyped
<1>1. ASSUME guard' = guard, met' = met, exits' = exits, forgot' = forgot,
             timers' \subseteq Tags, posted' \subseteq Tags
      PROVE  MixInv'
  BY <1>1 DEF Remembered, DeliveredOnce, NodeAt, ExitTag
<1>2. ASSUME NEW p \in Packets, buildOutgoing(p) PROVE MixInv'
  BY <1>1, <1>2, TagsOfPath DEF buildOutgoing
<1>3. ASSUME NEW x \in timers, NEW comes \in BOOLEAN, forwards(x, comes) PROVE MixInv'
  BY <1>1, <1>3 DEF forwards
<1>4. CASE UNCHANGED mixVars BY <1>1, <1>4 DEF mixVars
<1> HIDE DEF MixInv
<1> QED BY <1>2, <1>3, <1>4, TickStep, RestartStep, HandleStep DEF MixNext

\* No generation of a guard outgrows its cap, and a tag is kept for its window.
THEOREM MixInvariant == MixSpec => []MixInv
  BY MixInitInv, MixStep, PTL DEF MixSpec

\* A packet that comes again, late or twice, is delivered twice only past the
\* window of its exit, or after the exit restarted.
THEOREM DeliversOnce == MixSpec => []DeliveredOnce
<1>1. MixInv => DeliveredOnce BY DEF MixInv
<1> QED BY <1>1, MixInvariant, PTL
===============================================================================
