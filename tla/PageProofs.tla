------------------------------ MODULE PageProofs ------------------------------
(***************************************************************************)
(* For every set of contents, calls, handles, keys and pages: the parts of *)
(* a page that share no state, its inbox, its calls, its session and the   *)
(* attachments of a message.  Of these, for every size of a file and of its*)
(* chunks: the pieces that the page encrypts are found again by the offsets*)
(* alone, and what opens is the file; the clocks of the gateway and of the *)
(* pages agree on who deletes it first.                                    *)
(*                                                                         *)
(* PacketProofs has the lemmas about strings of bytes.                     *)
(***************************************************************************)
EXTENDS Page, PacketProofs

-----------------------------------------------------------------------------
(* Calls *)

\* A function that is past its consent knows the call that it began with.
KnowsCall(r) ==
  /\ r.at \in {"media", "pc", "sdp"} => r.of \in CallIds
  /\ r.kind = "accept" => r.of \in CallIds
CallsInv == CallsTypeOK /\ (\A t \in CallTasks : KnowsCall(running[t])) /\ MicReleased

Runs == [kind : {"idle", "start", "accept"},
         at : {"none", "keys", "ice", "media", "pc", "sdp"}, of : CallIds \cup {NoCall}]

\* endCall, by whatever it was called, turns off what the current call holds.
LEMMA EndCallReleases ==
  ASSUME CallsInv, endCall, strayed' = strayed
  PROVE  /\ call' = NoCall /\ object' \in [CallIds -> Objects]
         /\ mics' \subseteq mics /\ pcs' \subseteq pcs /\ MicReleased'
<1> USE CallsAssumption DEF endCall
<1>1. Ended \in Objects BY DEF Ended, Objects
<1>2. object' \in [CallIds -> Objects] BY <1>1 DEF CallsInv, CallsTypeOK
<1>3. ASSUME NEW s \in mics \ strayed PROVE s \notin mics'
  <2>1. call # NoCall /\ object[call].mic = s BY <1>3 DEF CallsInv, MicReleased
  <2>2. s # NoCall BY <1>3 DEF CallsInv, CallsTypeOK, Streams
  <2> QED BY <2>1, <2>2 DEF MicOf
<1>4. MicReleased' BY <1>3 DEF MicReleased
<1> QED BY <1>2, <1>4

LEMMA EndCallStep ==
  ASSUME CallsInv, endCall, UNCHANGED <<turn, consented, strayed>>,
         running' \in [CallTasks -> Runs], \A t \in CallTasks : KnowsCall(running'[t])
  PROVE  CallsInv'
<1>1. /\ call' = NoCall /\ object' \in [CallIds -> Objects]
      /\ mics' \subseteq mics /\ pcs' \subseteq pcs /\ MicReleased'
  BY EndCallReleases
<1> QED BY <1>1 DEF CallsInv, CallsTypeOK, Runs, KnowsCall

\* Functions that end or go on keep what they know.
LEMMA RunsStep ==
  ASSUME CallsInv, NEW t \in CallTasks, NEW r \in Runs, KnowsCall(r),
         running' = [running EXCEPT ![t] = r]
  PROVE  running' \in [CallTasks -> Runs] /\ \A u \in CallTasks : KnowsCall(running'[u])
  BY DEF CallsInv, CallsTypeOK, Runs

LEMMA EndsStep ==
  ASSUME CallsInv, NEW t \in CallTasks, Ends(t)
  PROVE  running' \in [CallTasks -> Runs] /\ \A u \in CallTasks : KnowsCall(running'[u])
<1>1. NotRunning \in Runs /\ KnowsCall(NotRunning) BY DEF NotRunning, Runs, KnowsCall
<1> QED BY <1>1, RunsStep DEF Ends

LEMMA GoToStep ==
  ASSUME CallsInv, NEW t \in CallTasks, running[t].of \in CallIds \/ running[t].at = "keys",
         NEW at \in {"ice", "pc", "sdp"}, running[t].at = "keys" => at = "ice", GoTo(t, at)
  PROVE  running' \in [CallTasks -> Runs] /\ \A u \in CallTasks : KnowsCall(running'[u])
<1>1. running[t] \in Runs /\ KnowsCall(running[t]) BY DEF CallsInv, CallsTypeOK, Runs
<1>2. [running[t] EXCEPT !.at = at] \in Runs /\ KnowsCall([running[t] EXCEPT !.at = at])
  BY <1>1 DEF Runs, KnowsCall
<1> QED BY <1>2, RunsStep DEF GoTo

LEMMA RunOf ==
  ASSUME NEW x \in Runs, NEW c \in CallIds
  PROVE  LET r == [x EXCEPT !.at = "media", !.of = c] IN r \in Runs /\ KnowsCall(r)
<1> DEFINE y == [x EXCEPT !.at = "media"]
           r == [x EXCEPT !.at = "media", !.of = c]
<1>1. y \in Runs BY DEF Runs
<1>2. r = [y EXCEPT !.of = c] OBVIOUS
<1> HIDE DEF y
<1>3. r \in Runs /\ r.of = c BY <1>1, <1>2 DEF Runs
<1> QED BY <1>3 DEF KnowsCall

LEMMA CallsStep == CallsInv /\ [CallsNext]_callsVars => CallsInv'
<1> SUFFICES ASSUME CallsInv, [CallsNext]_callsVars PROVE CallsInv' OBVIOUS
<1> USE CallsAssumption
<1>1. /\ running \in [CallTasks -> Runs] /\ \A t \in CallTasks : KnowsCall(running[t])
      /\ object \in [CallIds -> Objects] /\ call \in CallIds \cup {NoCall}
      /\ mics \subseteq Streams /\ strayed \subseteq Streams
  BY DEF CallsInv, CallsTypeOK, Runs
<1>2. ASSUME rejectCall PROVE CallsInv' BY <1>1, <1>2, EndCallStep DEF rejectCall
<1>3. ASSUME NEW c \in CallIds, handleOffer(c) PROVE CallsInv'
  <2>1. [object[c] EXCEPT !.role = "callee"] \in Objects BY <1>1 DEF Objects
  <2> QED BY <1>1, <1>3, <2>1 DEF handleOffer, CallsInv, CallsTypeOK, MicReleased, KnowsCall
<1>4. ASSUME NEW t \in CallTasks, UNCHANGED <<call, object, mics, pcs, consented, strayed>>,
             turn' \in BOOLEAN \cup {NoCall},
             running' \in [CallTasks -> Runs], \A u \in CallTasks : KnowsCall(running'[u])
      PROVE  CallsInv'
  BY <1>4 DEF CallsInv, CallsTypeOK, MicReleased, Runs, KnowsCall
<1>5. ASSUME NEW t \in CallTasks, startCall(t) PROVE CallsInv'
  <2> DEFINE r == [kind |-> "start", at |-> "keys", of |-> NoCall]
  <2>1. r \in Runs /\ KnowsCall(r) BY DEF Runs, KnowsCall
  <2>2. running' = [running EXCEPT ![t] = r] BY <1>5 DEF startCall
  <2>3. UNCHANGED <<call, object, mics, pcs, turn, consented, strayed>> BY <1>5 DEF startCall
  <2> HIDE DEF r
  <2> QED BY <1>4, <2>1, <2>2, <2>3, RunsStep DEF CallsInv, CallsTypeOK
<1>6. ASSUME NEW t \in CallTasks, acceptCall(t) PROVE CallsInv'
  <2> DEFINE r == [kind |-> "accept", at |-> "ice", of |-> call]
  <2>1. r \in Runs /\ KnowsCall(r) BY <1>1, <1>6 DEF acceptCall, Runs, KnowsCall
  <2>2. running' = [running EXCEPT ![t] = r] BY <1>6 DEF acceptCall
  <2>3. UNCHANGED <<call, object, mics, pcs, turn, consented, strayed>> BY <1>6 DEF acceptCall
  <2> HIDE DEF r
  <2> QED BY <1>4, <2>1, <2>2, <2>3, RunsStep DEF CallsInv, CallsTypeOK
<1>7. ASSUME NEW t \in CallTasks, NEW unverified \in BOOLEAN, keysChecked(t, unverified)
      PROVE  CallsInv'
  <2>1. running[t].at = "keys" /\ UNCHANGED <<call, object, mics, pcs, turn, consented, strayed>>
    BY <1>7 DEF keysChecked, At
  <2>2. Ends(t) \/ GoTo(t, "ice") BY <1>7 DEF keysChecked
  <2>3. running' \in [CallTasks -> Runs] /\ \A u \in CallTasks : KnowsCall(running'[u])
    BY <2>1, <2>2, EndsStep, GoToStep
  <2> QED BY <1>4, <2>1, <2>3 DEF CallsInv, CallsTypeOK
<1>8. ASSUME iceServersExpire PROVE CallsInv'
  BY <1>1, <1>8 DEF iceServersExpire, CallsInv, CallsTypeOK, MicReleased
<1>9. ASSUME NEW t \in CallTasks, NEW relay \in BOOLEAN, NEW agreed \in BOOLEAN,
             confirmCallIpExposure(t, relay, agreed)
      PROVE  CallsInv'
  <2>1. running[t].at = "ice" /\ turn' = relay BY <1>9 DEF confirmCallIpExposure, At, fetchIceServers
  <2>2. CASE ~relay /\ ~agreed
    <3>1. Ends(t) /\ UNCHANGED <<consented, strayed>>
          /\ (endCall \/ UNCHANGED <<call, object, mics, pcs>>)
      BY <1>9, <2>2 DEF confirmCallIpExposure
    <3>2. running' \in [CallTasks -> Runs] /\ \A u \in CallTasks : KnowsCall(running'[u])
      BY <3>1, EndsStep
    <3>3. CASE endCall
      <4>1. /\ call' = NoCall /\ object' \in [CallIds -> Objects]
            /\ mics' \subseteq mics /\ pcs' \subseteq pcs /\ MicReleased'
        BY <3>1, <3>3, EndCallReleases
      <4> QED BY <2>1, <3>1, <3>2, <4>1 DEF CallsInv, CallsTypeOK, Runs
    <3>4. CASE UNCHANGED <<call, object, mics, pcs>> BY <1>4, <2>1, <3>1, <3>2, <3>4
    <3> QED BY <3>1, <3>3, <3>4
  <2>3. CASE relay \/ agreed
    <3>1. PICK c \in CallIds :
            /\ consented' = IF relay THEN consented ELSE consented \cup {c}
            /\ UNCHANGED <<mics, pcs>>
            /\ running' = [running EXCEPT ![t].at = "media", ![t].of = c]
            /\ \/ c = running[t].of /\ UNCHANGED <<call, object, strayed>>
               \/ /\ call' = c /\ object' = [object EXCEPT ![c].role = "caller"]
                  /\ strayed' = strayed \cup MicOf(call)
      BY <1>9, <2>3 DEF confirmCallIpExposure
    <3> DEFINE r == [running[t] EXCEPT !.at = "media", !.of = c]
    <3>2. r \in Runs /\ KnowsCall(r) BY <1>1, <3>1, RunOf
    <3>3. running' = [running EXCEPT ![t] = r] BY <1>1, <3>1 DEF Runs
    <3> HIDE DEF r
    <3>4. running' \in [CallTasks -> Runs] /\ \A u \in CallTasks : KnowsCall(running'[u])
      BY <3>2, <3>3, RunsStep
    <3>5. [object[c] EXCEPT !.role = "caller"] \in Objects BY <1>1 DEF Objects
    <3>6. call' \in CallIds \cup {NoCall} /\ object' \in [CallIds -> Objects] /\ consented' \subseteq CallIds
      BY <1>1, <3>1, <3>5 DEF CallsInv, CallsTypeOK
    <3>7. MicOf(call) \subseteq Streams BY <1>1 DEF MicOf, Objects
    <3>8. MicReleased' BY <1>1, <3>1 DEF MicReleased, MicOf, CallsInv, Streams
    <3> QED BY <1>1, <2>1, <3>1, <3>4, <3>6, <3>7, <3>8 DEF CallsInv, CallsTypeOK, Runs
  <2> QED BY <2>2, <2>3
<1>10. ASSUME NEW t \in CallTasks, running[t].at \in {"media", "pc", "sdp"}
       PROVE  running[t].of \in CallIds /\ Made(t) \in Streams /\ Target(t) \in CallIds \cup {NoCall}
  BY <1>1, <1>10 DEF KnowsCall, Made, Streams, Target
<1>11. ASSUME NEW t \in CallTasks, throws(t), UNCHANGED <<turn, consented, strayed>>
       PROVE  CallsInv'
  BY <1>11, EndsStep, EndCallStep DEF throws
<1>12. ASSUME NEW t \in CallTasks, NEW granted \in BOOLEAN, getLocalMedia(t, granted)
       PROVE  CallsInv'
  <2>1. running[t].at = "media" /\ UNCHANGED <<turn, consented>> BY <1>12 DEF getLocalMedia, At
  <2>2. CASE ~granted BY <1>11, <1>12, <2>1, <2>2 DEF getLocalMedia
  <2>3. CASE granted
    <3> DEFINE d == Target(t)
    <3>1. /\ strayed' = strayed \cup MicOf(d) \cup IF call = running[t].of THEN {} ELSE {Made(t)}
          /\ mics' = mics \cup {Made(t)} /\ UNCHANGED <<call, pcs>>
          /\ IF d = NoCall THEN Ends(t) /\ UNCHANGED object
             ELSE GoTo(t, "pc") /\ object' = [object EXCEPT ![d].mic = Made(t)]
      BY <1>12, <2>3 DEF getLocalMedia
    <3>2. running[t].of \in CallIds /\ Made(t) \in Streams /\ d \in CallIds \cup {NoCall}
      BY <1>10, <2>1
    <3>3. running' \in [CallTasks -> Runs] /\ \A u \in CallTasks : KnowsCall(running'[u])
      BY <2>1, <3>1, <3>2, EndsStep, GoToStep
    <3>4. d # NoCall => [object[d] EXCEPT !.mic = Made(t)] \in Objects BY <1>1, <3>2 DEF Objects
    <3>5. object' \in [CallIds -> Objects] BY <1>1, <3>1, <3>2, <3>4
    <3>6. MicOf(d) \subseteq Streams BY <1>1, <3>2 DEF MicOf, Objects
    <3>7. MicReleased'
      <4> SUFFICES ASSUME NEW s \in mics' \ strayed' PROVE call' # NoCall /\ object'[call'].mic = s
        BY DEF MicReleased
      <4>1. s # NoCall BY <1>1, <3>1, <3>2 DEF Streams
      <4>2. CASE s \in mics
        <5>1. call # NoCall /\ object[call].mic = s BY <3>1, <4>2 DEF CallsInv, MicReleased
        <5>2. d # call BY <3>1, <4>1, <5>1 DEF MicOf
        <5>3. object'[call] = object[call] BY <1>1, <3>1, <5>1, <5>2
        <5> QED BY <3>1, <5>1, <5>3
      <4>3. CASE s = Made(t)
        <5>1. call = running[t].of BY <3>1, <4>3
        <5>2. d = call BY <5>1 DEF Target
        <5>3. object'[call].mic = Made(t) BY <1>1, <3>1, <3>2, <5>1, <5>2 DEF Objects
        <5> QED BY <3>1, <3>2, <4>3, <5>1, <5>3
      <4> QED BY <3>1, <4>2, <4>3
    <3> HIDE DEF d
    <3> QED BY <1>1, <2>1, <3>1, <3>2, <3>3, <3>5, <3>6, <3>7 DEF CallsInv, CallsTypeOK, Runs
  <2> QED BY <2>2, <2>3
<1>13. ASSUME NEW t \in CallTasks, NEW relay \in BOOLEAN, newPeerConnection(t, relay)
       PROVE  CallsInv'
  <2> DEFINE d == Target(t)
  <2>1. /\ running[t].at = "pc" /\ turn' = relay /\ UNCHANGED <<call, mics, consented, strayed>>
        /\ pcs' = pcs \cup {[id |-> Made(t), direct |-> ~relay]}
        /\ IF d = NoCall THEN Ends(t) /\ UNCHANGED object
           ELSE GoTo(t, "sdp") /\ object' = [object EXCEPT ![d].pc = Made(t)]
    BY <1>13 DEF newPeerConnection, At, fetchIceServers
  <2>2. running[t].of \in CallIds /\ Made(t) \in Streams /\ d \in CallIds \cup {NoCall}
    BY <1>10, <2>1
  <2>3. running' \in [CallTasks -> Runs] /\ \A u \in CallTasks : KnowsCall(running'[u])
    BY <2>1, <2>2, EndsStep, GoToStep
  <2>4. d # NoCall => /\ [object[d] EXCEPT !.pc = Made(t)] \in Objects
                      /\ [object[d] EXCEPT !.pc = Made(t)].mic = object[d].mic
    BY <1>1, <2>2 DEF Objects
  <2>5. object' \in [CallIds -> Objects] /\ \A c \in CallIds : object'[c].mic = object[c].mic
    BY <1>1, <2>1, <2>2, <2>4
  <2>6. [id |-> Made(t), direct |-> ~relay] \in [id : Streams, direct : BOOLEAN] BY <2>2
  <2>7. MicReleased' BY <1>1, <2>1, <2>5 DEF CallsInv, MicReleased
  <2> HIDE DEF d
  <2> QED BY <1>1, <2>1, <2>3, <2>5, <2>6, <2>7 DEF CallsInv, CallsTypeOK, Runs
<1>14. ASSUME NEW t \in CallTasks, NEW ok \in BOOLEAN, negotiated(t, ok) PROVE CallsInv'
  <2>1. UNCHANGED <<turn, consented, strayed>> BY <1>14 DEF negotiated
  <2>2. CASE Ends(t) /\ UNCHANGED <<call, object, mics, pcs>>
    BY <1>4, <2>1, <2>2, EndsStep DEF CallsInv, CallsTypeOK
  <2>3. CASE throws(t) BY <1>11, <2>1, <2>3
  <2> QED BY <1>14, <2>2, <2>3 DEF negotiated
<1>15. CASE UNCHANGED callsVars BY <1>15 DEF callsVars, CallsInv, CallsTypeOK, MicReleased
<1> QED BY <1>2, <1>3, <1>5, <1>6, <1>7, <1>8, <1>9, <1>12, <1>13, <1>14, <1>15
        DEF CallsNext, handleHangup, connectionFails

LEMMA CallsStart == CallsInit => CallsInv
BY CallsAssumption DEF CallsInit, CallsInv, CallsTypeOK, Objects, NotRunning, KnowsCall, MicReleased

\* Whatever ends a call turns its microphone off.
THEOREM MicIsReleased == CallsSpec => []MicReleased
<1>1. CallsInv => MicReleased BY DEF CallsInv
<1> QED BY <1>1, CallsStart, CallsStep, PTL DEF CallsSpec

-----------------------------------------------------------------------------
(* The session                                                             *)

\* The server knows a stored identity, if at all, as what is stored with it.
KnownAs(id, dev) == \A r \in devices : r.key = id.key => r.user = id.of /\ r.dev = dev
Stored(user, dev, key) == local.id # Absent /\ local.id.of = user /\ local.dev = dev /\ local.id.key = key

\* What was drawn is never drawn again: a new identity is no row's.
KeysDrawn ==
  /\ \A r \in devices : r.key \in drawn
  /\ local.id # Absent => local.id.key \in drawn /\ local.dev \in DeviceIds
\* What a sign-in is about at each of its awaits.
PageKnows ==
  /\ page.at # "app" => ws = "none"
  /\ page.at \notin {"save", "auth", "app"} => ~page.fresh
  /\ page.at \in {"derive", "device", "init", "save", "auth"} => page.user \in Users
  /\ page.at \in {"init", "save", "auth"} => page.dev \in DeviceIds /\ page.key \in Keypairs \cap drawn
  /\ page.at = "init" => local.id # Absent /\ local.dev = page.dev /\ local.id.key = page.key
  /\ page.at = "save" /\ ~page.fresh => Stored(page.user, page.dev, page.key)
  /\ page.at = "save" /\ page.fresh => local.dev = page.dev /\ \A r \in devices : r.key # page.key
  /\ page.at = "auth" /\ ~torn => Stored(page.user, page.dev, page.key)
StoredKnown ==
  local.id # Absent /\ ~torn /\ (page.at = "save" => ~page.fresh) => KnownAs(local.id, local.dev)
SessionInv == SessionTypeOK /\ KeysDrawn /\ PageKnows /\ StoredKnown

Locals == [user : Users \cup {Absent}, dev : DeviceIds \cup {Absent}, id : Identities \cup {Absent}]
SessionPages == [at : {"boot", "form", "init", "derive", "device", "save", "auth", "app"}, user : Users \cup {Absent},
          dev : DeviceIds \cup {Absent}, key : Keypairs \cup {Absent}, fresh : BOOLEAN]
Rows == [user : Users, dev : DeviceIds, key : Keypairs]

LEMMA FreshIsNew ==
  ASSUME NEW ids, NEW x \in Fresh(ids) PROVE x \in ids /\ x \notin drawn
BY DEF Fresh

LEMMA BootTyped == Boot \in SessionPages /\ Form \in SessionPages
BY DEF Boot, Form, SessionPages

\* clearSession keeps the identity and the device id.
LEMMA ClearKeeps ==
  ASSUME local \in Locals, clearSession
  PROVE  /\ local' \in Locals /\ blobKey' = Absent
         /\ local'.id = local.id /\ local'.dev = local.dev
BY DEF Locals, clearSession

\* Wherever a page goes that awaits nothing, what is stored stays known.
LEMMA SettlesStep ==
  ASSUME SessionInv,
         local' \in Locals, local'.id = local.id, local'.dev = local.dev,
         blobKey' \in Users \cup {Absent}, retry' \in BOOLEAN, tokens' \subseteq Users,
         page' \in SessionPages, page'.at \in {"boot", "form"}, ~page'.fresh, ws' = "none",
         devices' \subseteq devices, drawn' = drawn,
         torn' = (torn \/ (page.at = "save" /\ page.fresh))
  PROVE  SessionInv'
<1>1. SessionTypeOK' BY DEF SessionInv, SessionTypeOK, Locals, SessionPages
<1>2. KeysDrawn' BY DEF SessionInv, KeysDrawn
<1>3. PageKnows' BY DEF PageKnows
<1>4. StoredKnown' BY DEF SessionInv, StoredKnown, KnownAs
<1> QED BY <1>1, <1>2, <1>3, <1>4 DEF SessionInv

LEMMA SessionStep == SessionInv /\ [SessionNext]_sessionVars => SessionInv'
<1> SUFFICES ASSUME SessionInv, [SessionNext]_sessionVars PROVE SessionInv' OBVIOUS
<1> USE ClientSessionAssumption
<1>1. /\ local \in Locals /\ page \in SessionPages /\ devices \subseteq Rows
      /\ blobKey \in Users \cup {Absent} /\ tokens \subseteq Users /\ drawn \subseteq DeviceIds \cup Keypairs
      /\ ws \in {"none", "connecting", "open", "closed"} /\ retry \in BOOLEAN /\ torn \in BOOLEAN
  BY DEF SessionInv, SessionTypeOK, Locals, SessionPages, Rows
<1>2. KeysDrawn /\ PageKnows /\ StoredKnown BY DEF SessionInv
<1>3. ASSUME NEW b \in BOOLEAN, init(b) PROVE SessionInv'
  <2>1. page.at = "boot" /\ UNCHANGED <<ws, retry, tokens, devices, drawn, torn>> /\ ws = "none"
    BY <1>2, <1>3 DEF init, socket, PageKnows
  <2>2. CASE page' = Form /\ (UNCHANGED <<local, blobKey>> \/ clearSession)
    <3>1. /\ local' \in Locals /\ local'.id = local.id /\ local'.dev = local.dev
          /\ blobKey' \in Users \cup {Absent}
      BY <1>1, <2>2, ClearKeeps
    <3>2. page' \in SessionPages /\ page'.at = "form" /\ ~page'.fresh BY <2>2, BootTyped DEF Form, Boot
    <3> QED BY <1>1, <2>1, <3>1, <3>2, SettlesStep
  <2>3. CASE ~(page' = Form /\ (UNCHANGED <<local, blobKey>> \/ clearSession))
    <3>1. /\ Absent \notin {local.user, local.dev, local.id}
          /\ page' = [at |-> "init", user |-> local.user, dev |-> local.dev, key |-> local.id.key, fresh |-> FALSE]
          /\ local' = IF local.id.under = Absent THEN [local EXCEPT !.id.under = blobKey] ELSE local
          /\ UNCHANGED blobKey
      BY <1>3, <2>3 DEF init
    <3>2. local.user \in Users /\ local.dev \in DeviceIds /\ local.id \in Identities
      BY <1>1, <3>1 DEF Locals
    <3>3. [local.id EXCEPT !.under = blobKey] \in Identities
          /\ [local.id EXCEPT !.under = blobKey].of = local.id.of
          /\ [local.id EXCEPT !.under = blobKey].key = local.id.key
      BY <1>1, <3>2 DEF Identities
    <3>4. /\ local' \in Locals /\ local'.dev = local.dev /\ local'.user = local.user
          /\ local'.id \in Identities /\ local'.id.of = local.id.of /\ local'.id.key = local.id.key
      BY <1>1, <3>1, <3>2, <3>3 DEF Locals
    <3>5. local.id.key \in Keypairs \cap drawn BY <1>2, <3>1, <3>2 DEF KeysDrawn, Identities
    <3>6. page' \in SessionPages BY <3>1, <3>2, <3>5 DEF SessionPages
    <3>7. SessionTypeOK' BY <1>1, <2>1, <3>1, <3>4, <3>6 DEF SessionTypeOK, Locals, SessionPages, Rows
    <3>8. KeysDrawn' BY <1>2, <2>1, <3>1, <3>4 DEF KeysDrawn
    <3>9. PageKnows' BY <2>1, <3>1, <3>2, <3>4, <3>5 DEF PageKnows
    <3>10. StoredKnown' BY <1>2, <2>1, <3>1, <3>4 DEF StoredKnown, KnownAs
    <3> QED BY <3>7, <3>8, <3>9, <3>10 DEF SessionInv
  <2> QED BY <2>2, <2>3
<1>4. ASSUME NEW u \in Users, signIn(u) PROVE SessionInv'
  <2>1. /\ page.at = "form" /\ page' = [Form EXCEPT !.at = "derive", !.user = u]
        /\ local' = [local EXCEPT !.user = u]
        /\ tokens' = tokens \cup {u} /\ UNCHANGED <<blobKey, ws, retry, devices, drawn, torn>>
    BY <1>4 DEF signIn, socket
  <2>2. page' \in SessionPages /\ page'.at = "derive" /\ page'.user = u /\ ~page'.fresh
    BY <2>1 DEF Form, Boot, SessionPages
  <2>3. local' \in Locals /\ local'.id = local.id /\ local'.dev = local.dev BY <1>1, <2>1 DEF Locals
  <2>4. SessionTypeOK' BY <1>1, <2>1, <2>2, <2>3 DEF SessionTypeOK, Locals, SessionPages, Rows
  <2>5. PageKnows' BY <1>2, <2>1, <2>2 DEF PageKnows
  <2> QED BY <1>2, <2>1, <2>2, <2>3, <2>4, <2>5 DEF SessionInv, KeysDrawn, StoredKnown, KnownAs
<1>5. ASSUME NEW b \in BOOLEAN, putKey(b) PROVE SessionInv'
  <2>1. /\ page.at = "derive" /\ page' = [page EXCEPT !.at = "device"]
        /\ blobKey' \in {page.user, blobKey}
        /\ UNCHANGED <<local, ws, retry, tokens, devices, drawn, torn>>
    BY <1>5 DEF putKey, socket, GoesTo
  <2>2. page' \in SessionPages /\ page'.at = "device" /\ page'.user = page.user /\ page'.fresh = page.fresh
    BY <1>1, <2>1 DEF SessionPages
  <2>3. SessionTypeOK' BY <1>1, <1>2, <2>1, <2>2 DEF SessionTypeOK, Locals, SessionPages, Rows, PageKnows
  <2>4. PageKnows' BY <1>2, <2>1, <2>2 DEF PageKnows
  <2> QED BY <1>2, <2>1, <2>2, <2>3, <2>4 DEF SessionInv, KeysDrawn, StoredKnown, KnownAs
<1>6. ASSUME NEW b \in BOOLEAN, takeDevice(b) PROVE SessionInv'
  <2>1. /\ page.at = "device" /\ UNCHANGED <<blobKey, ws, retry, tokens, devices, torn>>
        /\ page.user \in Users /\ ws = "none"
    BY <1>2, <1>6 DEF takeDevice, socket, PageKnows
  <2>2. CASE reuseDevice(local.id, b)
    <3>1. /\ page' = [page EXCEPT !.at = "save", !.dev = local.dev, !.key = local.id.key]
          /\ UNCHANGED <<local, drawn>>
      BY <1>6, <2>2 DEF takeDevice
    <3>2. local.id # Absent /\ local.id.of = page.user BY <2>2 DEF reuseDevice, Opens
    <3>3. local.id \in Identities /\ local.id.key \in Keypairs \cap drawn /\ local.dev \in DeviceIds
      BY <1>1, <1>2, <3>2 DEF Locals, Identities, KeysDrawn
    <3>4. /\ page' \in SessionPages /\ page'.at = "save" /\ page'.dev = local.dev /\ page'.key = local.id.key
          /\ page'.user = page.user /\ page'.fresh = page.fresh
      BY <1>1, <3>1, <3>3 DEF SessionPages
    <3>5. SessionTypeOK' BY <1>1, <2>1, <3>1, <3>4 DEF SessionTypeOK, Locals, SessionPages, Rows
    <3>6. PageKnows' BY <1>2, <2>1, <3>1, <3>2, <3>3, <3>4 DEF PageKnows, Stored
    <3>7. KeysDrawn' /\ StoredKnown' BY <1>2, <2>1, <3>1 DEF KeysDrawn, StoredKnown, KnownAs
    <3> QED BY <3>5, <3>6, <3>7 DEF SessionInv
  <2>3. CASE ~reuseDevice(local.id, b)
    <3>1. PICK d \in Fresh(DeviceIds), k \in Fresh(Keypairs) :
            /\ page' = [page EXCEPT !.at = "save", !.dev = d, !.key = k, !.fresh = TRUE]
            /\ local' = [local EXCEPT !.dev = d]
            /\ drawn' = drawn \cup {d, k}
      BY <1>6, <2>3 DEF takeDevice
    <3>2. d \in DeviceIds /\ k \in Keypairs /\ k \notin drawn BY FreshIsNew
    <3>3. page' \in SessionPages /\ page'.at = "save" /\ page'.dev = d /\ page'.key = k /\ page'.user = page.user /\ page'.fresh
      BY <1>1, <3>1, <3>2 DEF SessionPages
    <3>4. local' \in Locals /\ local'.id = local.id /\ local'.dev = d BY <1>1, <3>1, <3>2 DEF Locals
    <3>5. SessionTypeOK' BY <1>1, <2>1, <3>1, <3>2, <3>3, <3>4 DEF SessionTypeOK, Locals, SessionPages, Rows
    <3>6. KeysDrawn' BY <1>2, <2>1, <3>1, <3>2, <3>4 DEF KeysDrawn
    <3>7. PageKnows' BY <1>2, <2>1, <3>1, <3>2, <3>3, <3>4 DEF PageKnows, KeysDrawn
    <3>8. StoredKnown' BY <3>3 DEF StoredKnown
    <3> QED BY <3>5, <3>6, <3>7, <3>8 DEF SessionInv
  <2> QED BY <2>2, <2>3
<1>7. ASSUME NEW b \in BOOLEAN, saveIdentity(b) PROVE SessionInv'
  <2> DEFINE i == [of |-> page.user, key |-> page.key, under |-> page.user]
  <2>1. /\ page.at = "save" /\ page' = [page EXCEPT !.at = "auth"]
        /\ local' = IF b THEN [local EXCEPT !.id = i] ELSE local
        /\ torn' = IF b /\ page.fresh THEN FALSE ELSE torn \/ (~b /\ page.fresh)
        /\ UNCHANGED <<blobKey, ws, retry, tokens, devices, drawn>>
    BY <1>7 DEF saveIdentity, socket, GoesTo
  <2>2. page.user \in Users /\ page.dev \in DeviceIds /\ page.key \in Keypairs \cap drawn /\ ws = "none"
    BY <1>2, <2>1 DEF PageKnows
  <2>3. i \in Identities /\ i # Absent /\ i.of = page.user /\ i.key = page.key BY <2>2 DEF Identities
  <2>4. /\ page' \in SessionPages /\ page'.at = "auth" /\ page'.user = page.user
        /\ page'.dev = page.dev /\ page'.key = page.key
    BY <1>1, <2>1 DEF SessionPages
  <2> HIDE DEF i
  <2>5. local' \in Locals /\ local'.dev = local.dev /\ local'.id = IF b THEN i ELSE local.id
    BY <1>1, <2>1, <2>3 DEF Locals
  <2>6. local.dev = page.dev BY <1>2, <2>1 DEF PageKnows, Stored
  <2>7. SessionTypeOK' BY <1>1, <2>1, <2>4, <2>5 DEF SessionTypeOK, Locals, SessionPages, Rows
  <2>8. KeysDrawn' BY <1>2, <2>1, <2>2, <2>3, <2>5, <2>6 DEF KeysDrawn
  <2>9. PageKnows' BY <1>1, <1>2, <2>1, <2>2, <2>3, <2>4, <2>5, <2>6 DEF PageKnows, Stored
  <2>10. StoredKnown'
    <3>1. page.fresh \in BOOLEAN /\ torn \in BOOLEAN BY <1>1 DEF SessionPages
    <3>2. CASE page.fresh
      <4>1. \A r \in devices : r.key # page.key BY <1>2, <2>1, <3>2 DEF PageKnows
      <4>2. b \/ torn' BY <2>1, <3>2
      <4> QED BY <2>1, <2>3, <2>5, <4>1, <4>2 DEF StoredKnown, KnownAs
    <3>3. CASE ~page.fresh
      <4>1. local.id # Absent /\ local.id.of = page.user /\ local.id.key = page.key
        BY <1>2, <2>1, <3>3 DEF PageKnows, Stored
      <4>2. torn' = torn BY <2>1, <3>1, <3>3
      <4>3. ~torn => KnownAs(local.id, local.dev) BY <1>2, <2>1, <3>3, <4>1 DEF StoredKnown
      <4>4. local'.id.of = page.user /\ local'.id.key = page.key BY <2>3, <2>5, <4>1
      <4>5. devices' = devices /\ local'.dev = local.dev BY <2>1, <2>5
      <4> QED BY <4>1, <4>2, <4>3, <4>4, <4>5 DEF StoredKnown, KnownAs
    <3> QED BY <3>1, <3>2, <3>3
  <2> QED BY <2>7, <2>8, <2>9, <2>10 DEF SessionInv
<1>8. CASE registerDevice
  <2>1. page.at \in {"init", "auth"} /\ UNCHANGED <<tokens, drawn, torn, retry>> BY <1>8 DEF registerDevice
  <2>2. CASE Registers
    <3> DEFINE r == [user |-> page.user, dev |-> page.dev, key |-> page.key]
    <3>1. /\ devices' = {x \in devices : x.user # page.user \/ x.dev # page.dev} \cup {r}
          /\ page' = [page EXCEPT !.at = "app"] /\ connectWS /\ UNCHANGED <<local, blobKey>>
      BY <1>8, <2>2 DEF registerDevice, GoesTo
    <3>2. page' \in SessionPages /\ page'.at = "app" BY <1>1, <3>1 DEF SessionPages
    <3>3. page.user \in Users /\ page.dev \in DeviceIds /\ page.key \in Keypairs \cap drawn
      BY <1>2, <2>1 DEF PageKnows
    <3>4. r \in Rows /\ r.user = page.user /\ r.dev = page.dev /\ r.key = page.key BY <3>3 DEF Rows
    <3> HIDE DEF r
    <3>5. SessionTypeOK' BY <1>1, <2>1, <3>1, <3>2, <3>4 DEF SessionTypeOK, Locals, SessionPages, Rows, connectWS
    <3>6. KeysDrawn' BY <1>2, <2>1, <3>1, <3>3, <3>4 DEF KeysDrawn
    <3>7. PageKnows' BY <3>2 DEF PageKnows
    <3>8. ~torn /\ local.id # Absent => local.id.of = page.user /\ local.dev = page.dev /\ local.id.key = page.key
      BY <1>2, <2>1, <2>2 DEF PageKnows, Stored, Registers
    <3>9. StoredKnown' BY <1>2, <2>1, <3>1, <3>2, <3>4, <3>8 DEF StoredKnown, KnownAs
    <3> QED BY <3>5, <3>6, <3>7, <3>9 DEF SessionInv
  <2>3. CASE ~Registers
    <3>1. page' = Form /\ (clearSession \/ UNCHANGED <<local, blobKey>>) /\ UNCHANGED <<devices, ws>>
      BY <1>8, <2>3 DEF registerDevice
    <3>2. /\ local' \in Locals /\ local'.id = local.id /\ local'.dev = local.dev
          /\ blobKey' \in Users \cup {Absent}
      BY <1>1, <3>1, ClearKeeps
    <3>3. page' \in SessionPages /\ page'.at = "form" /\ ~page'.fresh BY <3>1, BootTyped DEF Form, Boot
    <3>4. ws = "none" BY <1>2, <2>1 DEF PageKnows
    <3> QED BY <1>1, <2>1, <3>1, <3>2, <3>3, <3>4, SettlesStep
  <2> QED BY <2>2, <2>3
\* The socket and the rows at the server move, the page and its store do not.
<1>9. ASSUME UNCHANGED <<local, blobKey, page, drawn, torn>>, tokens' \subseteq tokens,
             devices' \subseteq devices, retry' \in BOOLEAN,
             ws' \in {"none", "connecting", "open", "closed"}, page.at # "app" => ws' = ws
      PROVE  SessionInv'
  <2>1. SessionTypeOK' BY <1>1, <1>9 DEF SessionTypeOK, Locals, SessionPages, Rows
  <2>2. PageKnows' BY <1>2, <1>9 DEF PageKnows, Stored
  <2> QED BY <1>2, <1>9, <2>1, <2>2 DEF SessionInv, KeysDrawn, StoredKnown, KnownAs
<1>10. ASSUME ensureConnected PROVE SessionInv'
  BY <1>1, <1>9, <1>10 DEF ensureConnected, connectWS
<1>11. ASSUME opened PROVE SessionInv'
  <2>1. page.at = "app" BY <1>2, <1>11 DEF opened, PageKnows
  <2> QED BY <1>1, <1>9, <1>11, <2>1 DEF opened
<1>12. ASSUME Reloads, torn' = (torn \/ (page.at = "save" /\ page.fresh)),
              UNCHANGED <<local, blobKey>> \/ clearSession,
              tokens' \subseteq tokens, devices' \subseteq devices, UNCHANGED drawn
       PROVE  SessionInv'
  <2>1. /\ local' \in Locals /\ local'.id = local.id /\ local'.dev = local.dev
        /\ blobKey' \in Users \cup {Absent}
    BY <1>1, <1>12, ClearKeeps
  <2>2. page' \in SessionPages /\ page'.at = "boot" /\ ~page'.fresh BY <1>12, BootTyped DEF Reloads, Boot
  <2> QED BY <1>1, <1>12, <2>1, <2>2, SettlesStep DEF Reloads
<1>13. ASSUME NEW b \in BOOLEAN, closed(b) PROVE SessionInv'
  <2>1. page.at = "app" BY <1>2, <1>13 DEF closed, PageKnows
  <2>2. CASE b BY <1>1, <1>12, <1>13, <2>1, <2>2 DEF closed
  <2>3. CASE ~b BY <1>9, <1>13, <2>1, <2>3 DEF closed
  <2> QED BY <2>2, <2>3
<1>14. ASSUME logout PROVE SessionInv' BY <1>1, <1>12, <1>14 DEF logout
<1>15. ASSUME Wiped, tokens' \subseteq tokens, devices' \subseteq devices, UNCHANGED drawn PROVE SessionInv'
  <2>1. page' \in SessionPages /\ page'.at = "boot" /\ ~page'.fresh /\ ws' = "none" /\ retry' = FALSE /\ torn' = FALSE
    BY <1>15, BootTyped DEF Wiped, Reloads, Boot
  <2>2. local' \in Locals /\ local'.id = Absent /\ blobKey' = Absent BY <1>15 DEF Wiped, Locals
  <2>3. SessionTypeOK' BY <1>1, <1>15, <2>1, <2>2 DEF SessionTypeOK, Locals, SessionPages, Rows
  <2> QED BY <1>2, <1>15, <2>1, <2>2, <2>3 DEF SessionInv, KeysDrawn, PageKnows, StoredKnown
<1>16. ASSUME panicWipe \/ deleteAccountFlow PROVE SessionInv'
  BY <1>15, <1>16 DEF panicWipe, deleteAccountFlow
<1>17. ASSUME dies PROVE SessionInv' BY <1>1, <1>12, <1>17 DEF dies
<1>18. ASSUME NEW u \in Users, expires(u) \/ cleared(u) PROVE SessionInv'
  BY <1>1, <1>9, <1>18 DEF expires, cleared, socket
<1>19. CASE UNCHANGED sessionVars BY <1>1, <1>9, <1>19 DEF sessionVars
<1> QED BY <1>3, <1>4, <1>5, <1>6, <1>7, <1>8, <1>10, <1>11, <1>13, <1>14, <1>16, <1>17, <1>18, <1>19
        DEF SessionNext

LEMMA SessionStarts == SessionInit => SessionInv
<1> SUFFICES ASSUME SessionInit PROVE SessionInv OBVIOUS
<1> USE ClientSessionAssumption
<1>1. /\ blobKey = Absent /\ page = Boot /\ ws = "none" /\ retry = FALSE /\ torn = FALSE
      /\ page.at = "boot" /\ ~page.fresh
  BY DEF SessionInit, Boot
<1>2. CASE /\ local = [user |-> Absent, dev |-> Absent, id |-> Absent]
           /\ devices = {} /\ tokens = {} /\ drawn = {}
  BY <1>1, <1>2, BootTyped DEF SessionInv, SessionTypeOK, Locals, SessionPages, KeysDrawn, PageKnows, StoredKnown
<1>3. ASSUME NEW u \in Users, NEW d \in DeviceIds, NEW k \in Keypairs, Legacy(u, d, k) PROVE SessionInv
  <2> DEFINE i == [of |-> u, key |-> k, under |-> Absent]
             r == [user |-> u, dev |-> d, key |-> k]
  <2>1. i \in Identities /\ i.of = u /\ i.key = k /\ r \in Rows /\ r.user = u /\ r.dev = d /\ r.key = k
    BY DEF Identities, Rows
  <2>2. local.id = i /\ local.dev = d /\ local \in Locals /\ devices = {r} /\ tokens = {u} /\ drawn = {d, k}
    BY <1>3, <2>1 DEF Legacy, Locals
  <2> HIDE DEF i, r
  <2>3. SessionTypeOK BY <1>1, <2>1, <2>2, BootTyped DEF SessionTypeOK, Locals, SessionPages, Rows
  <2> QED BY <1>1, <2>1, <2>2, <2>3 DEF SessionInv, KeysDrawn, PageKnows, StoredKnown, KnownAs
<1> QED BY <1>2, <1>3 DEF SessionInit

\* A browser that signs in again updates its own device row at the server.
THEOREM SignInReusesDevice == SessionSpec => []LoginReusesDevice
<1>1. SessionInv => LoginReusesDevice BY DEF SessionInv, StoredKnown, KnownAs, LoginReusesDevice
<1> QED BY <1>1, SessionStarts, SessionStep, PTL DEF SessionSpec

-----------------------------------------------------------------------------
(* The inbox: what is done to a conversation                               *)

UniqueIds(s) == \A i, j \in DOMAIN s : s[i].id = s[j].id => i = j

\* m is a message of s that may have been retracted since, or reacted to.
IsOf(m, s) ==
  \E i \in DOMAIN s : s[i].id = m.id /\ s[i].sender = m.sender /\ (s[i].deleted => m.deleted)
ComesFrom(s2, s, new) ==
  /\ s2 \in Seq(Messages) /\ UniqueIds(s2)
  /\ Len(s2) <= Len(s) \/ Len(s2) <= HistoryCap
  /\ \A j \in DOMAIN s2 : s2[j] \in new \/ IsOf(s2[j], s)

LEMMA NewestElements ==
  ASSUME NEW s \in Seq(Messages), UniqueIds(s), NEW n \in Nat \ {0}
  PROVE  /\ Newest(s, n) \in Seq(Messages) /\ UniqueIds(Newest(s, n)) /\ Len(Newest(s, n)) <= n
         /\ \A j \in DOMAIN Newest(s, n) : \E i \in DOMAIN s : Newest(s, n)[j] = s[i]
<1>1. CASE Len(s) <= n
  <2>1. Newest(s, n) = s BY <1>1, LenProperties DEF Newest
  <2> QED BY <1>1, <2>1
<1>2. CASE Len(s) > n
  <2> DEFINE a == Len(s) - n + 1
             r == SubSeq(s, a, Len(s))
  <2>1. Len(s) \in Nat /\ DOMAIN s = 1..Len(s) BY LenProperties
  <2>2. \A i \in a..Len(s) : s[i] \in Messages BY <1>2, <2>1, ElementOfSeq
  <2>3. a \in Int /\ Len(s) \in Int BY <2>1
  <2>4. /\ r \in Seq(Messages) /\ Len(r) = IF a <= Len(s) THEN Len(s) - a + 1 ELSE 0
        /\ \A i \in 1..(Len(s) - a + 1) : r[i] = s[a + i - 1]
    BY <2>2, <2>3, SubSeqProperties
  <2>5. Len(r) = n BY <1>2, <2>1, <2>4
  <2>6. DOMAIN r = 1..n BY <2>4, <2>5, LenProperties
  <2>7. \A i \in 1..n : r[i] = s[a + i - 1] /\ a + i - 1 \in DOMAIN s BY <1>2, <2>1, <2>4
  <2>8. UniqueIds(r) BY <2>1, <2>6, <2>7 DEF UniqueIds
  <2>9. Newest(s, n) = r BY <1>2, <2>1 DEF Newest
  <2> HIDE DEF r, a
  <2> QED BY <2>4, <2>5, <2>6, <2>7, <2>8, <2>9
<1> QED BY <1>1, <1>2, LenProperties

\* pushMessage of a message that is not there.
LEMMA PushComesFrom ==
  ASSUME NEW s \in Seq(Messages), UniqueIds(s), NEW m \in Messages,
         \A i \in DOMAIN s : s[i].id # m.id
  PROVE  ComesFrom(Newest(Append(s, m), HistoryCap), s, {m})
<1> DEFINE t == Append(s, m)
           r == Newest(t, HistoryCap)
<1> HistoryCap \in Nat \ {0} BY InboxAssumption
<1>1. Len(s) \in Nat /\ DOMAIN s = 1..Len(s) BY LenProperties
<1>2. /\ t \in Seq(Messages) /\ Len(t) = Len(s) + 1
      /\ \A i \in 1..Len(s) : t[i] = s[i]
      /\ t[Len(s) + 1] = m
  BY AppendProperties
<1>3. DOMAIN t = 1..(Len(s) + 1) BY <1>2, LenProperties
<1>4. \A i \in DOMAIN t : t[i] = m \/ \E k \in DOMAIN s : t[i] = s[k] BY <1>1, <1>2, <1>3
<1>5. UniqueIds(t) BY <1>1, <1>2, <1>3 DEF UniqueIds
<1> HIDE DEF t
<1>6. /\ r \in Seq(Messages) /\ UniqueIds(r) /\ Len(r) <= HistoryCap
      /\ \A j \in DOMAIN r : \E i \in DOMAIN t : r[j] = t[i]
  BY <1>2, <1>5, NewestElements
<1>7. \A j \in DOMAIN r : r[j] = m \/ \E k \in DOMAIN s : r[j] = s[k] BY <1>4, <1>6
<1>8. ComesFrom(r, s, {m}) BY <1>6, <1>7 DEF ComesFrom, IsOf
<1> QED BY <1>8 DEF t

\* A retraction or a reaction rewrites messages where they are.
LEMMA RewriteComesFrom ==
  ASSUME NEW s \in Seq(Messages), UniqueIds(s), NEW f \in [DOMAIN s -> Messages],
         \A i \in DOMAIN s : /\ f[i].id = s[i].id /\ f[i].sender = s[i].sender
                             /\ s[i].deleted => f[i].deleted
  PROVE  ComesFrom(f, s, {})
<1>1. Len(s) \in Nat /\ DOMAIN s = 1..Len(s) BY LenProperties
<1>2. f \in Seq(Messages) BY <1>1, SeqDef
<1>3. UniqueIds(f) BY DEF UniqueIds
<1>4. Len(f) = Len(s) BY <1>1, <1>2, LenProperties
<1> QED BY <1>1, <1>2, <1>3, <1>4 DEF ComesFrom, IsOf

LEMMA SameComesFrom ==
  ASSUME NEW s \in Seq(Messages), UniqueIds(s)
  PROVE  ComesFrom(s, s, {})
BY LenProperties DEF ComesFrom, IsOf

\* deleteForMe leaves no message with the id of the one that it takes out.
LEMMA RemoveComesFrom ==
  ASSUME NEW s \in Seq(Messages), UniqueIds(s), NEW i \in DOMAIN s
  PROVE  /\ ComesFrom(RemoveAt(s, i), s, {})
         /\ \A j \in DOMAIN RemoveAt(s, i) : RemoveAt(s, i)[j].id # s[i].id
<1> DEFINE a == SubSeq(s, 1, i - 1)
           b == SubSeq(s, i + 1, Len(s))
           r == a \o b
<1>1. Len(s) \in Nat /\ DOMAIN s = 1..Len(s) /\ i \in 1..Len(s) BY LenProperties
<1>2. \A k \in DOMAIN s : s[k] \in Messages BY <1>1, ElementOfSeq
<1>3. /\ a \in Seq(Messages) /\ Len(a) = i - 1
      /\ \A k \in 1..(i - 1) : a[k] = s[k]
  <2>1. /\ a \in Seq(Messages) /\ Len(a) = IF 1 <= i - 1 THEN (i - 1) - 1 + 1 ELSE 0
        /\ \A k \in 1..((i - 1) - 1 + 1) : a[k] = s[1 + k - 1]
    <3>1. \A k \in 1..(i - 1) : s[k] \in Messages BY <1>1, <1>2
    <3>2. 1 \in Int /\ i - 1 \in Int BY <1>1
    <3> QED BY <3>1, <3>2, SubSeqProperties
  <2> HIDE DEF a
  <2> QED BY <1>1, <2>1
<1>4. /\ b \in Seq(Messages) /\ Len(b) = Len(s) - i
      /\ \A k \in 1..(Len(s) - i) : b[k] = s[i + k]
  <2>1. /\ b \in Seq(Messages) /\ Len(b) = IF i + 1 <= Len(s) THEN Len(s) - (i + 1) + 1 ELSE 0
        /\ \A k \in 1..(Len(s) - (i + 1) + 1) : b[k] = s[(i + 1) + k - 1]
    <3>1. \A k \in (i + 1)..Len(s) : s[k] \in Messages BY <1>1, <1>2
    <3>2. i + 1 \in Int /\ Len(s) \in Int BY <1>1
    <3> QED BY <3>1, <3>2, SubSeqProperties
  <2> HIDE DEF b
  <2>2. \A k \in 1..(Len(s) - i) : (i + 1) + k - 1 = i + k /\ k \in 1..(Len(s) - (i + 1) + 1) BY <1>1
  <2>3. \A k \in 1..(Len(s) - i) : b[k] = s[i + k] BY <2>1, <2>2
  <2>4. Len(b) = Len(s) - i BY <1>1, <2>1
  <2> QED BY <2>1, <2>3, <2>4
<1> HIDE DEF a, b
<1>5. /\ r \in Seq(Messages) /\ Len(r) = Len(a) + Len(b)
      /\ \A k \in 1..(Len(a) + Len(b)) : r[k] = IF k <= Len(a) THEN a[k] ELSE b[k - Len(a)]
  BY <1>3, <1>4, ConcatProperties
<1>6. DOMAIN r = 1..Len(r) BY <1>5, LenProperties
<1> HIDE DEF r
<1>7. \A k \in DOMAIN r : r[k] = s[IF k < i THEN k ELSE k + 1]
  <2> SUFFICES ASSUME NEW k \in DOMAIN r PROVE r[k] = s[IF k < i THEN k ELSE k + 1] OBVIOUS
  <2>1. k \in Int /\ i \in Int /\ k \in 1..(Len(a) + Len(b)) /\ Len(a) = i - 1 BY <1>1, <1>3, <1>4, <1>5, <1>6
  <2>2. CASE k < i
    <3>1. k \in 1..(i - 1) BY <2>1, <2>2
    <3> QED BY <1>3, <1>5, <2>1, <2>2, <3>1
  <2>3. CASE ~(k < i)
    <3>1. k - Len(a) \in 1..(Len(s) - i) /\ i + (k - Len(a)) = k + 1 BY <1>1, <1>4, <2>1, <2>3
    <3>2. b[k - Len(a)] = s[k + 1] BY <1>4, <3>1
    <3>3. r[k] = b[k - Len(a)] BY <1>5, <2>1, <2>3
    <3> QED BY <2>3, <3>2, <3>3
  <2> QED BY <2>2, <2>3
<1>8. \A k \in DOMAIN r : (IF k < i THEN k ELSE k + 1) \in DOMAIN s /\ (IF k < i THEN k ELSE k + 1) # i
  BY <1>1, <1>3, <1>4, <1>5, <1>6
<1>9. UniqueIds(r) BY <1>1, <1>6, <1>7, <1>8 DEF UniqueIds
<1>10. \A k \in DOMAIN r : r[k].id # s[i].id BY <1>7, <1>8 DEF UniqueIds
<1>11. Len(r) <= Len(s) BY <1>1, <1>3, <1>4, <1>5
<1>12. ComesFrom(r, s, {}) BY <1>5, <1>7, <1>8, <1>9, <1>11 DEF ComesFrom, IsOf
<1>13. RemoveAt(s, i) = r BY DEF RemoveAt, r, a, b
<1> QED BY <1>10, <1>12, <1>13

-----------------------------------------------------------------------------
(* The inbox: the ids remembered                                           *)

Distinct(s, S) == s \in Seq(S) /\ \A i, j \in DOMAIN s : s[i] = s[j] => i = j
SeenOK(s) == Distinct(s, Ids) /\ Len(s) <= SeenCap

LEMMA NewestDistinct ==
  ASSUME NEW S, NEW s, Distinct(s, S), NEW n \in Nat \ {0}
  PROVE  Distinct(Newest(s, n), S) /\ Len(Newest(s, n)) <= n
<1>1. s \in Seq(S) /\ Len(s) \in Nat /\ DOMAIN s = 1..Len(s) BY LenProperties DEF Distinct
<1>2. CASE Len(s) <= n
  <2>1. Newest(s, n) = s BY <1>1, <1>2 DEF Newest
  <2> QED BY <1>2, <2>1
<1>3. CASE Len(s) > n
  <2> DEFINE a == Len(s) - n + 1
             r == SubSeq(s, a, Len(s))
  <2>1. \A i \in a..Len(s) : s[i] \in S BY <1>1, <1>3, ElementOfSeq
  <2>2. a \in Int /\ Len(s) \in Int BY <1>1
  <2>3. /\ r \in Seq(S) /\ Len(r) = IF a <= Len(s) THEN Len(s) - a + 1 ELSE 0
        /\ \A i \in 1..(Len(s) - a + 1) : r[i] = s[a + i - 1]
    BY <2>1, <2>2, SubSeqProperties
  <2>4. Len(r) = n BY <1>1, <1>3, <2>3
  <2>5. DOMAIN r = 1..n BY <2>3, <2>4, LenProperties
  <2>6. \A i \in 1..n : r[i] = s[a + i - 1] /\ a + i - 1 \in DOMAIN s BY <1>1, <1>3, <2>3
  <2>7. Newest(s, n) = r BY <1>1, <1>3 DEF Newest
  <2>8. \A i, j \in DOMAIN s : s[i] = s[j] => i = j BY DEF Distinct
  <2>9. ASSUME NEW i \in 1..n, NEW j \in 1..n, r[i] = r[j] PROVE i = j
    <3>1. s[a + i - 1] = s[a + j - 1] BY <2>6, <2>9
    <3>2. a + i - 1 = a + j - 1 BY <2>6, <2>8, <3>1
    <3> QED BY <2>2, <3>2
  <2> HIDE DEF r, a
  <2> QED BY <2>3, <2>4, <2>5, <2>7, <2>9 DEF Distinct
<1> QED BY <1>1, <1>2, <1>3

LEMMA SeenMarked ==
  ASSUME SeenOK(seen), NEW id \in Ids, markSeen(id)
  PROVE  SeenOK(seen')
<1>1. CASE id \in Range(seen) BY <1>1 DEF markSeen
<1>2. CASE id \notin Range(seen)
  <2> DEFINE t == Append(seen, id)
  <2>1. seen \in Seq(Ids) /\ Len(seen) \in Nat /\ DOMAIN seen = 1..Len(seen) BY LenProperties DEF SeenOK, Distinct
  <2>2. /\ t \in Seq(Ids) /\ Len(t) = Len(seen) + 1
        /\ \A i \in 1..Len(seen) : t[i] = seen[i]
        /\ t[Len(seen) + 1] = id
    BY <2>1, AppendProperties
  <2>3. DOMAIN t = 1..Len(seen) + 1 BY <2>2, LenProperties
  <2>4. \A i \in DOMAIN seen : seen[i] # id BY <1>2 DEF Range
  <2>5. \A i, j \in DOMAIN seen : seen[i] = seen[j] => i = j BY DEF SeenOK, Distinct
  <2>6. seen' = Newest(t, SeenCap) BY <1>2 DEF markSeen
  <2> HIDE DEF t
  <2>7. \A i, j \in DOMAIN t : t[i] = t[j] => i = j BY <2>1, <2>2, <2>3, <2>4, <2>5
  <2>8. Distinct(t, Ids) BY <2>2, <2>7 DEF Distinct
  <2> QED BY <2>6, <2>8, NewestDistinct, InboxAssumption DEF SeenOK
<1> QED BY <1>1, <1>2

\* Sequences without a common element, joined.
LEMMA FlattenDistinct ==
  ASSUME NEW S, NEW m \in Nat \ {0}, NEW s, IsStr(s, m), \A j \in 1..m : Distinct(s[j], S),
         \A i, j \in 1..m : i # j => Range(s[i]) \cap Range(s[j]) = {}
  PROVE  Distinct(FlattenSeq(s), S)
<1>1. PICK g : FlatTo(g, s, m) /\ FlattenSeq(s) = g[m] BY FlattenTo
<1>2. g[1] = s[1] /\ \A n \in Nat \ {0} : n < m => g[n + 1] = g[n] \o s[n + 1]
  <2>1. 1 \in 1..m /\ \A n \in Nat \ {0} : n < m => n + 1 \in 1..m /\ n + 1 # 1 /\ n + 1 - 1 = n OBVIOUS
  <2>2. \A i \in 1..m : g[i] = IF i = 1 THEN s[i] ELSE Cat(g[i - 1], s[i]) BY <1>1 DEF FlatTo
  <2>3. g[1] = s[1] /\ \A n \in Nat \ {0} : n < m => g[n + 1] = Cat(g[n], s[n + 1]) BY <2>1, <2>2
  <2> QED BY <2>3 DEF Cat
<1> DEFINE Good(n) == Distinct(g[n], S) /\ Range(g[n]) \subseteq UNION {Range(s[j]) : j \in 1..n}
           N == {k \in Nat : k + 1 <= m => Good(k + 1)}
<1>3. Good(1)
  <2>1. 1 \in 1..m /\ 1 \in 1..1 OBVIOUS
  <2> QED BY <1>2, <2>1
<1>4. ASSUME NEW n \in Nat \ {0}, n < m, Good(n) PROVE Good(n + 1)
  <2> DEFINE a == g[n]
             b == s[n + 1]
             c == a \o b
             U == UNION {Range(s[j]) : j \in 1..n}
  <2>1. n + 1 \in 1..m /\ \A j \in 1..n : j \in 1..m /\ j # n + 1 BY <1>4
  <2>2. g[n + 1] = c BY <1>2, <1>4
  <2>3. a \in Seq(S) /\ b \in Seq(S) /\ Distinct(a, S) /\ Distinct(b, S) BY <1>4, <2>1 DEF Distinct
  <2>4. Range(a) \subseteq U BY <1>4
  <2>5. Range(b) \cap U = {} BY <2>1
  <2>6. UNION {Range(s[j]) : j \in 1..n + 1} = U \cup Range(b)
    <3>1. \A j \in 1..n + 1 : j \in 1..n \/ j = n + 1 OBVIOUS
    <3>2. \A j \in 1..n : j \in 1..n + 1 OBVIOUS
    <3>3. n + 1 \in 1..n + 1 OBVIOUS
    <3> QED BY <3>1, <3>2, <3>3
  <2> HIDE DEF a, b, U
  <2>7. /\ c \in Seq(S) /\ Len(c) = Len(a) + Len(b)
        /\ \A k \in 1..(Len(a) + Len(b)) : c[k] = IF k <= Len(a) THEN a[k] ELSE b[k - Len(a)]
    BY <2>3, ConcatProperties
  <2>8. /\ Len(a) \in Nat /\ Len(b) \in Nat
        /\ DOMAIN a = 1..Len(a) /\ DOMAIN b = 1..Len(b) /\ DOMAIN c = 1..(Len(a) + Len(b))
    BY <2>3, <2>7, LenProperties
  <2> HIDE DEF c
  <2>9. ASSUME NEW k \in DOMAIN c
        PROVE  \/ k \in DOMAIN a /\ c[k] = a[k]
               \/ k > Len(a) /\ k - Len(a) \in DOMAIN b /\ c[k] = b[k - Len(a)]
    BY <2>7, <2>8
  <2>10. \A x : x \in Range(c) => x \in Range(a) \cup Range(b) BY <2>9 DEF Range
  <2>11. \A i, j \in DOMAIN c : c[i] = c[j] => i = j
    <3> SUFFICES ASSUME NEW i \in DOMAIN c, NEW j \in DOMAIN c, c[i] = c[j] PROVE i = j OBVIOUS
    <3>1. \A k \in DOMAIN a : a[k] \in U BY <2>4 DEF Range
    <3>2. \A k \in DOMAIN b : b[k] \notin U BY <2>5 DEF Range
    <3>3. CASE i \in DOMAIN a /\ c[i] = a[i] /\ j \in DOMAIN a /\ c[j] = a[j] BY <2>3, <3>3 DEF Distinct
    <3>4. CASE i - Len(a) \in DOMAIN b /\ c[i] = b[i - Len(a)] /\ j - Len(a) \in DOMAIN b /\ c[j] = b[j - Len(a)]
      <4>1. i - Len(a) = j - Len(a) BY <2>3, <3>4 DEF Distinct
      <4>2. i \in Int /\ j \in Int BY <2>8
      <4> QED BY <2>8, <4>1, <4>2
    <3> QED BY <2>9, <3>1, <3>2, <3>3, <3>4
  <2>12. Distinct(c, S) BY <2>7, <2>11 DEF Distinct
  <2> QED BY <2>2, <2>4, <2>6, <2>10, <2>12
<1> HIDE DEF Good
<1>5. 0 \in N
  <2>1. 0 + 1 = 1 OBVIOUS
  <2> QED BY <1>3, <2>1
<1>6. ASSUME NEW k \in Nat, k \in N PROVE k + 1 \in N
  <2>1. CASE k + 1 + 1 <= m
    <3> DEFINE n == k + 1
    <3>1. n \in Nat \ {0} /\ n < m /\ Good(n) BY <1>6, <2>1
    <3>2. Good(n + 1) BY <1>4, <3>1
    <3> QED BY <3>2
  <2>2. CASE ~(k + 1 + 1 <= m) BY <2>2
  <2> QED BY <2>1, <2>2
<1> HIDE DEF N
<1>7. Nat \subseteq N BY <1>5, <1>6, NaturalsFrom0
<1>8. m - 1 \in Nat /\ m - 1 + 1 = m OBVIOUS
<1>9. m - 1 \in N BY <1>7, <1>8
<1>10. Good(m) BY <1>8, <1>9 DEF N
<1> QED BY <1>1, <1>10 DEF Good

-----------------------------------------------------------------------------
(* The inbox: the invariant                                                *)

FromContent(m, ch) == \E c \in Contents : c.id = m.id /\ c.from = m.sender /\ c.chat = ch
GoodChats(cv) ==
  /\ cv \in Histories
  /\ \A ch \in Chats : UniqueIds(cv[ch]) /\ Len(cv[ch]) <= HistoryCap
  /\ \A ch \in Chats : \A i \in DOMAIN cv[ch] : FromContent(cv[ch][i], ch)

\* What the user has not sent yet is nowhere.
UnsentNowhere ==
  \A c \in Mine : mine[c] # "sent" /\ c.t = "msg" => c.id \notin gone \cup AllIds(convos) \cup AllIds(stored)
AwaitsSent ==
  /\ awaiting \in [Lookups -> Contents \cup {Nothing}]
  /\ \A k \in Lookups : awaiting[k] # Nothing => Arrives(awaiting[k])
InboxInv ==
  /\ GoodChats(convos) /\ GoodChats(stored)
  /\ mine \in [Mine -> {"new", "sending", "sent"}]
  /\ gone \subseteq Remembered /\ RemovedStays /\ SaveScheduled
  /\ UnsentNowhere /\ AwaitsSent

LEMMA IdsOf ==
  ASSUME NEW cv, NEW id
  PROVE  id \in AllIds(cv) <=> \E ch \in Chats : \E i \in DOMAIN cv[ch] : cv[ch][i].id = id
BY DEF AllIds

\* An id is one content's, so it is in one conversation and of one sender.
LEMMA OneChat ==
  ASSUME NEW cv, GoodChats(cv), NEW ch \in Chats, NEW i \in DOMAIN cv[ch],
         NEW c \in Contents, cv[ch][i].id = c.id
  PROVE  ch = c.chat /\ cv[ch][i].sender = c.from
BY InboxAssumption DEF GoodChats, FromContent

LEMMA ChatsInOrder ==
  LET order == SetToSeq(Chats)
  IN  /\ Cardinality(Chats) \in Nat /\ order \in [1..Cardinality(Chats) -> Chats]
      /\ \A i, j \in 1..Cardinality(Chats) : order[i] = order[j] => i = j
<1> DEFINE n == Cardinality(Chats)
           Is(f) == f \in [1..n -> Chats] /\ IsInjective(f)
           h == [c \in Contents |-> c.chat]
<1>1. h \in Surjection(Contents, Chats)
  <2>1. h \in [Contents -> Chats] /\ \A ch \in Chats : \E c \in Contents : h[c] = ch BY DEF Chats
  <2> QED BY <2>1 DEF Surjection
<1>2. IsFiniteSet(Chats) BY <1>1, FS_Surjection, InboxAssumption DEF ExistsSurjection
<1>3. n \in Nat /\ ExistsBijection(1..n, Chats) BY <1>2, FS_CardinalityType
<1>4. PICK f : f \in Bijection(1..n, Chats) BY <1>3 DEF ExistsBijection
<1>5. Is(f) BY <1>4 DEF Bijection, Injection, IsInjective
<1>6. SetToSeq(Chats) = CHOOSE x \in [1..n -> Chats] : IsInjective(x) BY DEF SetToSeq
<1>7. Is(SetToSeq(Chats)) BY <1>5, <1>6
<1> QED BY <1>3, <1>7 DEF IsInjective

\* A reload remembers the ids of the stored messages, one conversation behind the other.
LEMMA SeenLoaded ==
  ASSUME GoodChats(stored), loadConvos
  PROVE  SeenOK(seen')
<1> DEFINE order == SetToSeq(Chats)
           m == Cardinality(Chats)
           ids(ch) == [i \in DOMAIN stored[ch] |-> stored[ch][i].id]
           s == [n \in DOMAIN order |-> ids(order[n])]
<1>1. m \in Nat /\ order \in [1..m -> Chats] /\ \A i, j \in 1..m : order[i] = order[j] => i = j BY ChatsInOrder
<1>2. seen' = Newest(FlattenSeq(s), SeenCap) BY DEF loadConvos
<1>3. ASSUME NEW ch \in Chats
      PROVE  Distinct(ids(ch), Ids) /\ \A x \in Range(ids(ch)) : \E i \in DOMAIN stored[ch] : stored[ch][i].id = x
  <2>1. stored[ch] \in Seq(Messages) /\ UniqueIds(stored[ch]) BY DEF GoodChats, Histories
  <2>2. Len(stored[ch]) \in Nat /\ DOMAIN stored[ch] = 1..Len(stored[ch]) BY <2>1, LenProperties
  <2>3. \A i \in DOMAIN stored[ch] : stored[ch][i].id \in Ids
    <3>1. \A i \in DOMAIN stored[ch] : stored[ch][i] \in Messages BY <2>1, <2>2, ElementOfSeq
    <3>2. \A x \in Messages : x.id \in Ids BY DEF Messages
    <3> QED BY <3>1, <3>2
  <2>4. ids(ch) \in [1..Len(stored[ch]) -> Ids] BY <2>2, <2>3
  <2>5. ids(ch) \in Seq(Ids) BY <2>2, <2>4, SeqDef
  <2> QED BY <2>1, <2>5 DEF Distinct, UniqueIds, Range
<1>4. \A c, d \in Chats : c # d => Range(ids(c)) \cap Range(ids(d)) = {}
  <2> SUFFICES ASSUME NEW c \in Chats, NEW d \in Chats, NEW x, x \in Range(ids(c)), x \in Range(ids(d)) PROVE c = d
    OBVIOUS
  <2> HIDE DEF ids
  <2>1. PICK i \in DOMAIN stored[c] : stored[c][i].id = x BY <1>3
  <2>2. PICK j \in DOMAIN stored[d] : stored[d][j].id = x BY <1>3
  <2>3. PICK y \in Contents : y.id = x BY <2>1 DEF GoodChats, FromContent
  <2> QED BY <2>1, <2>2, <2>3, OneChat
<1> HIDE DEF ids, m
<1>5. IsStr(s, m) BY <1>1 DEF IsStr
<1>6. \A j \in 1..m : s[j] = ids(order[j]) /\ order[j] \in Chats BY <1>1
<1> HIDE DEF s, order
<1>7. \A j \in 1..m : Distinct(s[j], Ids) BY <1>3, <1>6
<1>8. \A i, j \in 1..m : i # j => Range(s[i]) \cap Range(s[j]) = {} BY <1>1, <1>4, <1>6
<1>9. Distinct(FlattenSeq(s), Ids)
  <2>1. CASE m # 0 BY <1>1, <1>5, <1>7, <1>8, <2>1, FlattenDistinct
  <2>2. CASE m = 0
    <3>1. Len(s) = 0 BY <1>5, <2>2, StrLen
    <3>2. FlattenSeq(s) = s BY <3>1 DEF FlattenSeq
    <3>3. DOMAIN s = 1..0 /\ s \in Seq(Ids) BY <1>5, <2>2, StrSeq DEF IsStr
    <3> QED BY <3>2, <3>3 DEF Distinct
  <2> QED BY <2>1, <2>2
<1> QED BY <1>2, <1>9, NewestDistinct, InboxAssumption DEF SeenOK

\* Every message shown after a step is new or was there before.
Evolves(new) ==
  /\ GoodChats(convos')
  /\ \A ch \in Chats : \A j \in DOMAIN convos'[ch] :
       convos'[ch][j].id \in new \/ IsOf(convos'[ch][j], convos[ch])
Saves == UNCHANGED <<convos, timer>> \/ timer' = TRUE

LEMMA EvolvesBy ==
  ASSUME GoodChats(convos), convos' \in [Chats -> Seq(Messages)], NEW ch \in Chats, NEW new \in SUBSET Messages,
         ComesFrom(convos'[ch], convos[ch], new), \A m \in new : FromContent(m, ch),
         \A other \in Chats \ {ch} : convos'[other] = convos[other]
  PROVE  Evolves({m.id : m \in new})
<1>1. \A o \in Chats : convos[o] \in Seq(Messages) /\ UniqueIds(convos[o]) BY DEF GoodChats, Histories
<1>2. \A o \in Chats \ {ch} : ComesFrom(convos'[o], convos[o], {}) BY <1>1, SameComesFrom
<1>3. ASSUME NEW o \in Chats, NEW j \in DOMAIN convos'[o]
      PROVE  (o = ch /\ convos'[o][j] \in new) \/ IsOf(convos'[o][j], convos[o])
  BY <1>2, <1>3 DEF ComesFrom
<1>4. ASSUME NEW o \in Chats, NEW j \in DOMAIN convos'[o] PROVE FromContent(convos'[o][j], o)
  <2>1. CASE o = ch /\ convos'[o][j] \in new BY <2>1
  <2>2. CASE IsOf(convos'[o][j], convos[o])
    <3>1. PICK i \in DOMAIN convos[o] :
            convos[o][i].id = convos'[o][j].id /\ convos[o][i].sender = convos'[o][j].sender
      BY <2>2 DEF IsOf
    <3>2. FromContent(convos[o][i], o) BY DEF GoodChats
    <3> QED BY <3>1, <3>2 DEF FromContent
  <2> QED BY <1>3, <1>4, <2>1, <2>2
<1>5. \A o \in Chats : UniqueIds(convos'[o]) /\ Len(convos'[o]) <= HistoryCap
  <2> SUFFICES ASSUME NEW o \in Chats PROVE UniqueIds(convos'[o]) /\ Len(convos'[o]) <= HistoryCap OBVIOUS
  <2>1. UniqueIds(convos'[o]) /\ convos'[o] \in Seq(Messages)
        /\ (Len(convos'[o]) <= Len(convos[o]) \/ Len(convos'[o]) <= HistoryCap)
    BY <1>2 DEF ComesFrom
  <2>2. Len(convos'[o]) \in Nat /\ Len(convos[o]) \in Nat BY <1>1, <2>1, LenProperties
  <2>3. Len(convos[o]) <= HistoryCap /\ HistoryCap \in Nat BY InboxAssumption DEF GoodChats
  <2> QED BY <2>1, <2>2, <2>3
<1> QED BY <1>3, <1>4, <1>5 DEF Evolves, GoodChats, Histories

LEMMA EvolvesIdle ==
  ASSUME GoodChats(convos), UNCHANGED convos PROVE Evolves({})
<1>1. \A ch \in Chats : \A j \in DOMAIN convos[ch] : IsOf(convos[ch][j], convos[ch]) BY DEF IsOf
<1> QED BY <1>1 DEF Evolves, GoodChats

\* A push adds an id that no conversation had.
LEMMA PushStep ==
  ASSUME GoodChats(convos), NEW c \in Contents, pushMessage(c.chat, c)
  PROVE  Evolves({c.id} \ AllIds(convos)) /\ Saves
<1> DEFINE ch == c.chat
           m == [id |-> c.id, sender |-> c.from, deleted |-> FALSE, reactions |-> {}]
<1>1. CASE Has(ch, c.id)
  <2>1. UNCHANGED <<convos, timer>> BY <1>1 DEF pushMessage
  <2>2. Evolves({}) BY <2>1, EvolvesIdle
  <2> QED BY <2>1, <2>2 DEF Evolves, Saves
<1>2. CASE ~Has(ch, c.id)
  <2>1. convos' = [convos EXCEPT ![ch] = Newest(Append(convos[ch], m), HistoryCap)] /\ timer' = TRUE
    BY <1>2 DEF pushMessage, scheduleSaveConvos
  <2>2. ch \in Chats /\ convos \in [Chats -> Seq(Messages)] /\ UniqueIds(convos[ch])
    BY DEF Chats, GoodChats, Histories
  <2>3. m \in Messages /\ m.id = c.id /\ FromContent(m, ch) BY DEF Messages, Ids, Senders, FromContent
  <2>4. \A i \in DOMAIN convos[ch] : convos[ch][i].id # m.id BY <1>2 DEF Has
  <2> HIDE DEF m
  <2>6. ComesFrom(Newest(Append(convos[ch], m), HistoryCap), convos[ch], {m})
    BY <2>2, <2>3, <2>4, PushComesFrom
  <2>7. convos'[ch] = Newest(Append(convos[ch], m), HistoryCap) /\ convos' \in [Chats -> Seq(Messages)]
    BY <2>1, <2>2, <2>6 DEF ComesFrom
  <2>8. \A o \in Chats \ {ch} : convos'[o] = convos[o] BY <2>1, <2>2
  <2>9. Evolves({x.id : x \in {m}}) BY <2>2, <2>3, <2>6, <2>7, <2>8, EvolvesBy
  <2>10. {x.id : x \in {m}} = {c.id} BY <2>3
  <2>11. c.id \notin AllIds(convos) BY <1>2, IdsOf, OneChat DEF Has
  <2>12. {c.id} \ AllIds(convos) = {c.id} BY <2>11
  <2> QED BY <2>1, <2>9, <2>10, <2>12 DEF Saves
<1> QED BY <1>1, <1>2

\* A conversation whose messages are rewritten in place.
LEMMA RewriteStep ==
  ASSUME GoodChats(convos), NEW ch \in Chats, NEW f \in [DOMAIN convos[ch] -> Messages],
         \A i \in DOMAIN convos[ch] :
           /\ f[i].id = convos[ch][i].id /\ f[i].sender = convos[ch][i].sender
           /\ convos[ch][i].deleted => f[i].deleted,
         convos' = [convos EXCEPT ![ch] = f]
  PROVE  Evolves({}) /\ AllIds(convos') = AllIds(convos)
<1>1. convos \in [Chats -> Seq(Messages)] /\ UniqueIds(convos[ch]) BY DEF GoodChats, Histories
<1>2. ComesFrom(f, convos[ch], {}) BY <1>1, RewriteComesFrom
<1>3. /\ convos'[ch] = f /\ convos' \in [Chats -> Seq(Messages)]
      /\ \A o \in Chats \ {ch} : convos'[o] = convos[o]
  BY <1>1, <1>2 DEF ComesFrom
<1>4. Evolves({m.id : m \in {}}) BY <1>2, <1>3, EvolvesBy
<1>5. \A o \in Chats : /\ DOMAIN convos'[o] = DOMAIN convos[o]
                       /\ \A i \in DOMAIN convos[o] : convos'[o][i].id = convos[o][i].id
  BY <1>3
<1>6. AllIds(convos') = AllIds(convos) BY <1>5 DEF AllIds
<1> QED BY <1>4, <1>6

LEMMA ReactStep ==
  ASSUME GoodChats(convos), NEW ch \in Chats, NEW id, NEW who \in Senders, NEW remove,
         applyReaction(ch, id, who, remove)
  PROVE  Evolves({}) /\ AllIds(convos') = AllIds(convos) /\ Saves
<1>1. CASE ~Has(ch, id)
  <2>1. UNCHANGED <<convos, timer>> BY <1>1 DEF applyReaction
  <2> QED BY <2>1, EvolvesIdle DEF Saves
<1>2. CASE Has(ch, id)
  <2> DEFINE s == convos[ch]
             g(m) == IF m.id # id THEN m
                     ELSE [m EXCEPT !.reactions = reactionsAfterToggle(m.reactions, who, remove)]
             f == [i \in DOMAIN s |-> g(s[i])]
  <2>1. convos \in [Chats -> Seq(Messages)] BY DEF GoodChats, Histories
  <2>2. convos' = [convos EXCEPT ![ch] = f] /\ timer' = TRUE
    BY <1>2, <2>1 DEF applyReaction, scheduleSaveConvos
  <2>3. \A i \in DOMAIN s : s[i] \in Messages BY <2>1, LenProperties, ElementOfSeq
  <2>4. ASSUME NEW m \in Messages
        PROVE  g(m) \in Messages /\ g(m).id = m.id /\ g(m).sender = m.sender /\ g(m).deleted = m.deleted
    BY DEF Messages, reactionsAfterToggle
  <2> HIDE DEF g
  <2>5. f \in [DOMAIN s -> Messages]
        /\ \A i \in DOMAIN s : f[i].id = s[i].id /\ f[i].sender = s[i].sender /\ (s[i].deleted => f[i].deleted)
    BY <2>3, <2>4
  <2> HIDE DEF f
  <2> QED BY <2>2, <2>5, RewriteStep DEF Saves
<1> QED BY <1>1, <1>2

\* An author's retraction deletes every message that it is about.
LEMMA UnsendStep ==
  ASSUME GoodChats(convos), NEW c \in Contents, applyUnsend(c.chat, c.target, c.from)
  PROVE  Evolves({}) /\ Saves /\ Retracts(c) \subseteq AllIds(convos) /\ \A id \in Retracts(c) : ~Shown(convos', id)
<1> DEFINE ch == c.chat
           s == convos[ch]
<1>1. ch \in Chats /\ convos \in [Chats -> Seq(Messages)] BY DEF Chats, GoodChats, Histories
<1>2. ASSUME NEW id \in Retracts(c) PROVE id \in AllIds(convos)
  BY <1>1, <1>2, IdsOf DEF Retracts, Has
<1>3. ASSUME NEW id \in Retracts(c)
      PROVE  id = c.target /\ \E i \in DOMAIN s : s[i].id = id /\ s[i].sender = c.from
  <2>1. id = c.target /\ (\E m \in Contents : m.id = id /\ m.from = c.from) /\ Has(ch, id)
    BY <1>3 DEF Retracts
  <2> QED BY <1>1, <2>1, OneChat DEF Has
<1>4. CASE ~\E i \in DOMAIN s : s[i].id = c.target /\ canUnsend(s[i], c.from)
  <2>1. UNCHANGED <<convos, timer>> BY <1>4 DEF applyUnsend
  <2>2. Retracts(c) = {} BY <1>3, <1>4 DEF canUnsend
  <2> QED BY <2>1, <2>2, EvolvesIdle DEF Saves
<1>5. CASE \E i \in DOMAIN s : s[i].id = c.target /\ canUnsend(s[i], c.from)
  <2> DEFINE g(m) == IF m.id # c.target THEN m ELSE [m EXCEPT !.deleted = TRUE, !.reactions = {}]
             f == [i \in DOMAIN s |-> g(s[i])]
  <2>1. convos' = [convos EXCEPT ![ch] = f] /\ timer' = TRUE
    BY <1>5, <1>1 DEF applyUnsend, scheduleSaveConvos
  <2>2. \A i \in DOMAIN s : s[i] \in Messages BY <1>1, LenProperties, ElementOfSeq
  <2>3. ASSUME NEW m \in Messages
        PROVE  /\ g(m) \in Messages /\ g(m).id = m.id /\ g(m).sender = m.sender
               /\ (m.deleted => g(m).deleted) /\ (m.id = c.target => g(m).deleted)
    BY DEF Messages
  <2> HIDE DEF g
  <2>4. /\ f \in [DOMAIN s -> Messages]
        /\ \A i \in DOMAIN s : /\ f[i].id = s[i].id /\ f[i].sender = s[i].sender
                               /\ (s[i].deleted => f[i].deleted) /\ (f[i].id = c.target => f[i].deleted)
    BY <2>2, <2>3
  <2> HIDE DEF f
  <2>5. Evolves({}) BY <1>1, <2>1, <2>4, RewriteStep
  <2>6. convos'[ch] = f BY <1>1, <2>1
  <2>7. ASSUME NEW id \in Retracts(c) PROVE ~Shown(convos', id)
    <3> SUFFICES ASSUME NEW o \in Chats, NEW i \in DOMAIN convos'[o], convos'[o][i].id = id
                 PROVE  convos'[o][i].deleted
      BY DEF Shown
    <3>1. id = c.target /\ Has(ch, id) /\ \E m \in Contents : m.id = id BY <2>7 DEF Retracts
    <3>2. PICK m \in Contents : m.id = id BY <3>1
    <3>3. ch = m.chat BY <1>1, <3>1, <3>2, OneChat DEF Has
    <3>4. GoodChats(convos') BY <2>5 DEF Evolves
    <3>5. o = m.chat BY <3>2, <3>4, OneChat
    <3> QED BY <2>4, <2>6, <3>1, <3>3, <3>5
  <2> QED BY <1>2, <2>1, <2>5, <2>7 DEF Saves
<1> QED BY <1>4, <1>5

\* The messages that a step shows are new or were there, and what it removes goes.
LEMMA Moves ==
  ASSUME InboxInv, NEW new, NEW out, Evolves(new), Saves, UNCHANGED stored,
         new \cap gone = {}, out \subseteq AllIds(convos), \A id \in out : ~Shown(convos', id),
         gone' \subseteq gone \cup out, gone' \subseteq Remembered',
         mine' \in [Mine -> {"new", "sending", "sent"}],
         \A c \in Mine : mine'[c] # "sent" => mine[c] # "sent" /\ c.id \notin new,
         AwaitsSent'
  PROVE  InboxInv'
<1>1. GoodChats(convos') /\ GoodChats(stored') BY DEF Evolves, InboxInv
<1>2. \A id \in AllIds(convos') : id \in new \/ id \in AllIds(convos) BY DEF Evolves, IsOf, AllIds
<1>3. RemovedStays'
  <2> SUFFICES ASSUME NEW id \in gone', NEW ch \in Chats, NEW j \in DOMAIN convos'[ch],
                      convos'[ch][j].id = id, ~convos'[ch][j].deleted
               PROVE  FALSE
    BY DEF RemovedStays, Shown
  <2>1. id \notin out BY DEF Shown
  <2>2. id \in gone /\ id \notin new BY <2>1
  <2>3. PICK i \in DOMAIN convos[ch] : convos[ch][i].id = id /\ ~convos[ch][i].deleted
    BY <2>2 DEF Evolves, IsOf
  <2>4. Shown(convos, id) BY <2>3 DEF Shown
  <2> QED BY <2>2, <2>4 DEF InboxInv, RemovedStays
<1>4. SaveScheduled' BY DEF InboxInv, SaveScheduled, Saves
<1>5. UnsentNowhere' BY <1>2 DEF InboxInv, UnsentNowhere
<1> QED BY <1>1, <1>3, <1>4, <1>5 DEF InboxInv

\* What a verified content does.  The user's own ones arrive once they were sent.
LEMMA HandledStep ==
  ASSUME InboxInv, NEW c \in Contents, Arrives(c), Handled(c), AwaitsSent'
  PROVE  InboxInv'
<1> USE DEF InboxInv
<1>1. UNCHANGED <<blocked, mine, stored>> BY DEF Handled
<1>2. \A d \in Mine : mine[d] # "sent" => d.id # c.id BY InboxAssumption DEF Arrives, Mine
<1>3. ASSUME UNCHANGED convos, Saves, gone' \subseteq gone, gone' \subseteq Remembered' PROVE InboxInv'
  <2>1. Evolves({}) BY <1>3, EvolvesIdle
  <2> QED BY <1>1, <1>3, <2>1, Moves
<1>4. CASE ~IsNew(c)
  <2>1. UNCHANGED <<convos, seen, timer, gone>> BY <1>4 DEF Handled
  <2> QED BY <1>3, <2>1 DEF Remembered, Saves
<1>5. CASE IsNew(c)
  <2>1. CASE ~Heard(c) \/ ~c.toMe \/ c.t = "other"
    <3>1. UNCHANGED <<convos, timer>> /\ Removes({}) BY <1>5, <2>1 DEF Handled
    <3> QED BY <1>3, <3>1 DEF Saves, Removes
  <2>2. CASE ~(~Heard(c) \/ ~c.toMe \/ c.t = "other")
    <3>1. Removes(Retracts(c)) /\ c.t \in {"msg", "react", "unsend"} BY <1>5, <2>2, InboxAssumption DEF Handled
    <3>2. c.t # "unsend" => Retracts(c) = {} BY DEF Retracts
    <3>3. CASE c.t = "msg"
      <4>1. pushMessage(c.chat, c) BY <1>5, <2>2, <3>3 DEF Handled
      <4> DEFINE new == {c.id} \ AllIds(convos)
      <4>2. Evolves(new) /\ Saves BY <4>1, PushStep
      <4>3. new \cap gone = {} BY <1>5 DEF IsNew, Remembered
      <4>4. gone' \subseteq gone \cup {} /\ gone' \subseteq Remembered' BY <3>1, <3>2, <3>3 DEF Removes
      <4>5. \A d \in Mine : mine'[d] # "sent" => mine[d] # "sent" /\ d.id \notin new BY <1>1, <1>2
      <4> HIDE DEF new
      <4> QED BY <1>1, <4>2, <4>3, <4>4, <4>5, Moves
    <3>4. CASE c.t = "react"
      <4>1. applyReaction(c.chat, c.target, c.from, c.remove) BY <1>5, <2>2, <3>4 DEF Handled
      <4>2. Evolves({}) /\ Saves BY <4>1, ReactStep DEF Chats, Senders
      <4>3. gone' \subseteq gone \cup {} /\ gone' \subseteq Remembered' BY <3>1, <3>2, <3>4 DEF Removes
      <4> DEFINE new == {}
      <4>4. \A d \in Mine : mine'[d] # "sent" => mine[d] # "sent" /\ d.id \notin new BY <1>1
      <4>5. Evolves(new) /\ new \cap gone = {} BY <4>2
      <4> HIDE DEF new
      <4> QED BY <1>1, <4>2, <4>3, <4>4, <4>5, Moves
    <3>5. CASE c.t = "unsend"
      <4>1. applyUnsend(c.chat, c.target, c.from) BY <1>5, <2>2, <3>5 DEF Handled
      <4> DEFINE out == Retracts(c)
      <4>2. Evolves({}) /\ Saves /\ out \subseteq AllIds(convos) /\ \A id \in out : ~Shown(convos', id)
        BY <4>1, UnsendStep
      <4>3. gone' \subseteq gone \cup out /\ gone' \subseteq Remembered' BY <3>1 DEF Removes
      <4> HIDE DEF out
      <4> QED BY <1>1, <4>2, <4>3, Moves
    <3> QED BY <3>1, <3>3, <3>4, <3>5
  <2> QED BY <2>1, <2>2
<1> QED BY <1>4, <1>5

LEMMA InboxStep == InboxInv /\ [InboxNext]_inboxVars => InboxInv'
<1> SUFFICES ASSUME InboxInv, [InboxNext]_inboxVars PROVE InboxInv' OBVIOUS
<1> USE InboxAssumption
<1>1. /\ mine \in [Mine -> {"new", "sending", "sent"}] /\ awaiting \in [Lookups -> Contents \cup {Nothing}]
      /\ AwaitsSent /\ GoodChats(convos) /\ GoodChats(stored) /\ gone \subseteq Remembered
      /\ convos \in [Chats -> Seq(Messages)]
  BY DEF InboxInv, AwaitsSent, GoodChats, Histories
<1>2. \A c \in Mine : c \in Contents /\ c.from = Me BY DEF Mine
<1>3. \A c \in Contents : c.chat \in Chats /\ c.from \in Senders BY DEF Chats, Senders
\* Nothing is shown or removed.
<1>4. ASSUME UNCHANGED <<convos, stored>>, Saves, gone' \subseteq gone, gone' \subseteq Remembered',
             mine' \in [Mine -> {"new", "sending", "sent"}],
             \A c \in Mine : mine'[c] # "sent" => mine[c] # "sent", AwaitsSent'
      PROVE  InboxInv'
  <2>1. Evolves({}) BY <1>1, <1>4, EvolvesIdle
  <2> QED BY <1>4, <2>1, Moves
<1>5. ASSUME UNCHANGED awaiting, \A c \in Mine : mine[c] = "sent" => mine'[c] = "sent" PROVE AwaitsSent'
  BY <1>1, <1>5 DEF AwaitsSent, Arrives
<1>6. ASSUME NEW c \in Contents, onDeliver(c) PROVE InboxInv'
  <2>1. UNCHANGED mine BY <1>6 DEF onDeliver, Handled
  <2> QED BY <1>5, <1>6, <2>1, HandledStep DEF onDeliver
<1>7. ASSUME NEW c \in Contents, NEW k \in Lookups, verifySender(k, c) PROVE InboxInv'
  <2>1. /\ Arrives(c) /\ awaiting' = [awaiting EXCEPT ![k] = c]
        /\ UNCHANGED <<convos, seen, blocked, mine, timer, stored, gone>>
    BY <1>7 DEF verifySender
  <2>2. AwaitsSent' BY <1>1, <2>1 DEF AwaitsSent, Arrives
  <2> QED BY <1>1, <1>4, <2>1, <2>2 DEF Saves, Remembered, InboxInv
<1>8. ASSUME NEW k \in Lookups, NEW valid \in BOOLEAN, Verified(k, valid) PROVE InboxInv'
  <2>1. awaiting[k] \in Contents /\ Arrives(awaiting[k]) BY <1>1, <1>8 DEF Verified, AwaitsSent
  <2>2. awaiting' = [awaiting EXCEPT ![k] = Nothing] /\ UNCHANGED mine BY <1>8 DEF Verified, Handled
  <2>3. AwaitsSent' BY <1>1, <2>2 DEF AwaitsSent, Arrives
  <2>4. CASE valid BY <1>8, <2>1, <2>3, <2>4, HandledStep DEF Verified
  <2>5. CASE ~valid
    <3>1. UNCHANGED <<convos, seen, blocked, mine, timer, stored, gone>> BY <1>8, <2>5 DEF Verified
    <3> QED BY <1>1, <1>4, <2>3, <3>1 DEF Saves, Remembered
  <2> QED BY <2>4, <2>5
<1>9. ASSUME NEW c \in Mine, deliverContent(c) PROVE InboxInv'
  <2>1. /\ mine[c] = "new" /\ mine' = [mine EXCEPT ![c] = "sending"]
        /\ UNCHANGED <<convos, seen, blocked, awaiting, timer, stored, gone>>
    BY <1>9 DEF deliverContent
  <2>2. mine' \in [Mine -> {"new", "sending", "sent"}] /\ \A d \in Mine : mine'[d] = "sent" <=> mine[d] = "sent"
    BY <1>1, <2>1
  <2> QED BY <1>1, <1>4, <1>5, <2>1, <2>2 DEF Saves, Remembered
<1>10. ASSUME NEW c \in Mine, toggleReaction(c) PROVE InboxInv'
  <2>1. /\ mine[c] = "new" /\ mine' = [mine EXCEPT ![c] = "sending"]
        /\ applyReaction(c.chat, c.target, Me, c.remove) /\ UNCHANGED <<seen, blocked, awaiting, stored, gone>>
    BY <1>10 DEF toggleReaction
  <2>2. mine' \in [Mine -> {"new", "sending", "sent"}] /\ \A d \in Mine : mine'[d] = "sent" <=> mine[d] = "sent"
    BY <1>1, <2>1
  <2>3. Evolves({}) /\ AllIds(convos') = AllIds(convos) /\ Saves BY <1>1, <1>2, <1>3, <2>1, ReactStep
  <2>4. gone' \subseteq gone \cup {} /\ gone' \subseteq Remembered' BY <1>1, <2>1, <2>3 DEF Remembered
  <2> QED BY <1>5, <2>1, <2>2, <2>3, <2>4, Moves
<1>11. ASSUME NEW c \in Mine, deleteForEveryone(c) PROVE InboxInv'
  <2> DEFINE out == Retracts(c)
  <2>1. /\ mine[c] = "new" /\ mine' = [mine EXCEPT ![c] = "sending"]
        /\ applyUnsend(c.chat, c.target, c.from) /\ UNCHANGED <<seen, blocked, awaiting, stored>>
        /\ gone' \subseteq gone \cup out /\ gone' \subseteq Remembered'
    BY <1>2, <1>11 DEF deleteForEveryone, Removes
  <2>2. mine' \in [Mine -> {"new", "sending", "sent"}] /\ \A d \in Mine : mine'[d] = "sent" <=> mine[d] = "sent"
    BY <1>1, <2>1
  <2>3. Evolves({}) /\ Saves /\ out \subseteq AllIds(convos) /\ \A id \in out : ~Shown(convos', id)
    BY <1>1, <1>2, <2>1, UnsendStep
  <2> HIDE DEF out
  <2> QED BY <1>5, <2>1, <2>2, <2>3, Moves
<1>12. ASSUME NEW c \in Mine, NEW held \in BOOLEAN, fanOutConv(c, held) PROVE InboxInv'
  <2>1. /\ mine[c] = "sending" /\ mine' = [mine EXCEPT ![c] = IF held THEN "new" ELSE "sent"]
        /\ UNCHANGED <<blocked, awaiting, stored>>
    BY <1>12 DEF fanOutConv
  <2>2. /\ mine' \in [Mine -> {"new", "sending", "sent"}] /\ \A d \in Mine : mine[d] = "sent" => mine'[d] = "sent"
        /\ ~held => \A d \in Mine : mine'[d] # "sent" => d # c
    BY <1>1, <2>1
  <2>3. CASE held
    <3>1. UNCHANGED <<convos, seen, timer, gone>> BY <1>12, <2>3 DEF fanOutConv
    <3> QED BY <1>1, <1>4, <1>5, <2>1, <2>2, <3>1 DEF Saves, Remembered
  <2>4. CASE ~held
    <3>1. Removes({}) BY <1>12, <2>4 DEF fanOutConv
    <3>2. CASE c.t = "msg"
      <4> DEFINE new == {c.id} \ AllIds(convos)
      <4>1. pushMessage(c.chat, c) BY <1>12, <2>4, <3>2 DEF fanOutConv
      <4>2. Evolves(new) /\ Saves BY <1>1, <1>2, <4>1, PushStep
      <4>3. new \cap gone = {} BY <2>1, <3>2 DEF InboxInv, UnsentNowhere
      <4>4. \A d \in Mine : mine'[d] # "sent" => mine[d] # "sent" /\ d.id \notin new BY <1>2, <2>2, <2>4
      <4>5. gone' \subseteq gone \cup {} /\ gone' \subseteq Remembered' BY <3>1 DEF Removes
      <4> HIDE DEF new
      <4> QED BY <1>5, <2>1, <2>2, <4>2, <4>3, <4>4, <4>5, Moves
    <3>3. CASE c.t # "msg"
      <4>1. UNCHANGED <<convos, timer>> BY <1>12, <2>4, <3>3 DEF fanOutConv
      <4> QED BY <1>4, <1>5, <2>1, <2>2, <3>1, <4>1 DEF Saves, Removes
    <3> QED BY <3>2, <3>3
  <2> QED BY <2>3, <2>4
\* Messages are taken out of conversations.
<1>13. ASSUME NEW out, out \subseteq AllIds(convos), \A id \in out : ~Shown(convos', id),
              Evolves({}), scheduleSaveConvos, UNCHANGED <<seen, awaiting, mine, stored>>, Removes(out)
       PROVE  InboxInv'
  <2>1. gone' \subseteq gone \cup out /\ gone' \subseteq Remembered' BY <1>13 DEF Removes
  <2>2. AwaitsSent' BY <1>5, <1>13
  <2>3. Saves BY <1>13 DEF Saves, scheduleSaveConvos
  <2> QED BY <1>1, <1>13, <2>1, <2>2, <2>3, Moves
<1>14. ASSUME NEW ch \in Chats, NEW i \in DOMAIN convos[ch], deleteForMe(ch, i) PROVE InboxInv'
  <2> DEFINE s == convos[ch]
             r == RemoveAt(s, i)
             id == s[i].id
  <2>1. s \in Seq(Messages) /\ UniqueIds(s) /\ FromContent(s[i], ch) BY <1>1 DEF GoodChats
  <2>2. ComesFrom(r, s, {}) /\ \A j \in DOMAIN r : r[j].id # id BY <2>1, RemoveComesFrom
  <2>3. convos' = [convos EXCEPT ![ch] = r] /\ scheduleSaveConvos /\ UNCHANGED <<seen, awaiting, mine, stored>>
        /\ Removes({id})
    BY <1>1, <1>14 DEF deleteForMe
  <2> HIDE DEF r
  <2>4. convos'[ch] = r /\ convos' \in [Chats -> Seq(Messages)] /\ \A o \in Chats \ {ch} : convos'[o] = convos[o]
    BY <1>1, <2>2, <2>3 DEF ComesFrom
  <2>5. Evolves({m.id : m \in {}}) BY <1>1, <2>2, <2>4, EvolvesBy
  <2>6. Evolves({}) BY <2>5
  <2>7. ~Shown(convos', id)
    <3> SUFFICES ASSUME NEW o \in Chats, NEW j \in DOMAIN convos'[o], convos'[o][j].id = id PROVE FALSE
      BY DEF Shown
    <3>1. PICK m \in Contents : m.id = id BY <2>1 DEF FromContent
    <3>2. ch = m.chat BY <1>1, <3>1, OneChat
    <3>3. o = m.chat BY <2>6, <3>1, OneChat DEF Evolves
    <3> QED BY <2>2, <2>4, <3>2, <3>3
  <2>8. {id} \subseteq AllIds(convos) BY IdsOf
  <2> HIDE DEF id
  <2>9. \A x \in {id} : ~Shown(convos', x) BY <2>7
  <2> QED BY <1>13, <2>3, <2>6, <2>8, <2>9
\* A whole conversation goes: clearMessages and block.
<1>15. ASSUME NEW ch \in Chats, convos' = [convos EXCEPT ![ch] = <<>>], scheduleSaveConvos,
              UNCHANGED <<seen, awaiting, mine, stored>>, Removes({convos[ch][i].id : i \in DOMAIN convos[ch]})
       PROVE  InboxInv'
  <2> DEFINE out == {convos[ch][i].id : i \in DOMAIN convos[ch]}
  <2>1. ComesFrom(<<>>, convos[ch], {}) BY EmptySeq, InboxAssumption DEF ComesFrom, UniqueIds
  <2>2. convos'[ch] = <<>> /\ convos' \in [Chats -> Seq(Messages)] /\ \A o \in Chats \ {ch} : convos'[o] = convos[o]
    BY <1>1, <1>15
  <2>3. Evolves({m.id : m \in {}}) BY <1>1, <2>1, <2>2, EvolvesBy
  <2>4. Evolves({}) BY <2>3
  <2>5. out \subseteq AllIds(convos) BY IdsOf
  <2>6. ASSUME NEW id \in out PROVE ~Shown(convos', id)
    <3> SUFFICES ASSUME NEW o \in Chats, NEW j \in DOMAIN convos'[o], convos'[o][j].id = id PROVE FALSE
      BY DEF Shown
    <3>1. PICK i \in DOMAIN convos[ch] : convos[ch][i].id = id BY <2>6
    <3>2. PICK m \in Contents : m.id = id BY <1>1, <3>1 DEF GoodChats, FromContent
    <3>3. ch = m.chat BY <1>1, <3>1, <3>2, OneChat
    <3>4. o = m.chat BY <2>4, <3>2, OneChat DEF Evolves
    <3> QED BY <2>2, <3>3, <3>4
  <2>7. Removes(out) BY <1>15
  <2> HIDE DEF out
  <2> QED BY <1>13, <1>15, <2>4, <2>5, <2>6, <2>7
<1>16. ASSUME NEW ch \in Chats, clearMessages(ch) PROVE InboxInv' BY <1>15, <1>16 DEF clearMessages
<1>17. ASSUME NEW h \in Senders, block(h) PROVE InboxInv'
  <2>1. /\ convos' = [ch \in Chats |-> IF ch = h THEN <<>> ELSE convos[ch]] /\ scheduleSaveConvos
        /\ UNCHANGED <<seen, awaiting, mine, stored>>
        /\ Removes(IF h \in Chats THEN {convos[h][i].id : i \in DOMAIN convos[h]} ELSE {})
    BY <1>17 DEF block
  <2>2. CASE h \in Chats
    <3>1. convos' = [convos EXCEPT ![h] = <<>>] BY <1>1, <2>1
    <3>2. Removes({convos[h][i].id : i \in DOMAIN convos[h]}) BY <2>1, <2>2
    <3> QED BY <1>15, <2>1, <2>2, <3>1, <3>2
  <2>3. CASE h \notin Chats
    <3>1. UNCHANGED convos BY <1>1, <2>1, <2>3
    <3>2. Removes({}) BY <2>1, <2>3
    <3> QED BY <1>1, <1>4, <1>5, <2>1, <3>1, <3>2 DEF Saves, scheduleSaveConvos, Removes
  <2> QED BY <2>2, <2>3
<1>18. ASSUME NEW h \in Senders, unblock(h) PROVE InboxInv'
  BY <1>1, <1>4, <1>5, <1>18 DEF unblock, Saves, Remembered
<1>19. CASE saveConvos
  BY <1>1, <1>5, <1>19 DEF saveConvos, InboxInv, Remembered, RemovedStays, SaveScheduled, UnsentNowhere, AwaitsSent, Arrives
<1>20. CASE loadConvos
  <2>1. /\ convos' = stored /\ awaiting' = [k \in Lookups |-> Nothing] /\ timer' = FALSE /\ UNCHANGED stored
        /\ mine' = [c \in Mine |-> IF mine[c] = "sending" THEN "new" ELSE mine[c]]
        /\ gone' = {id \in gone : id \in AllIds(stored) /\ ~Shown(stored, id)}
    BY <1>20 DEF loadConvos
  <2>2. mine' \in [Mine -> {"new", "sending", "sent"}] /\ \A c \in Mine : mine'[c] # "sent" => mine[c] # "sent"
    BY <1>1, <2>1
  <2>3. AwaitsSent' BY <2>1 DEF AwaitsSent, Arrives
  <2>4. RemovedStays' /\ SaveScheduled' BY <2>1 DEF RemovedStays, SaveScheduled
  <2>5. gone' \subseteq Remembered' BY <2>1 DEF Remembered
  <2>6. UnsentNowhere' BY <2>1, <2>2 DEF InboxInv, UnsentNowhere
  <2> QED BY <1>1, <2>1, <2>2, <2>3, <2>4, <2>5, <2>6 DEF InboxInv
<1>21. CASE UNCHANGED inboxVars
  BY <1>1, <1>4, <1>5, <1>21 DEF inboxVars, Saves, Remembered
<1> QED BY <1>6, <1>7, <1>8, <1>9, <1>10, <1>11, <1>12, <1>14, <1>16, <1>17, <1>18, <1>19, <1>20, <1>21
        DEF InboxNext

LEMMA InboxStarts == InboxInit => InboxInv
<1> SUFFICES ASSUME InboxInit PROVE InboxInv OBVIOUS
<1>1. /\ convos = Empty /\ stored = Empty /\ gone = {} /\ awaiting = [k \in Lookups |-> Nothing]
      /\ mine \in [Mine -> {"new", "sent"}]
  BY DEF InboxInit
<1>2. GoodChats(Empty) BY EmptySeq, InboxAssumption DEF GoodChats, Empty, Histories, UniqueIds
<1>3. AllIds(Empty) = {} BY DEF AllIds, Empty
<1>4. mine \in [Mine -> {"new", "sending", "sent"}] BY <1>1
<1> QED BY <1>1, <1>2, <1>3, <1>4, InboxAssumption
        DEF InboxInv, Remembered, RemovedStays, SaveScheduled, UnsentNowhere, AwaitsSent

\* The rest of the types, and the ids remembered.
InboxRest == SeenOK(seen) /\ blocked \subseteq Senders \ {Me} /\ timer \in BOOLEAN

LEMMA InboxRestStep == InboxInv /\ InboxRest /\ [InboxNext]_inboxVars => InboxRest'
<1> SUFFICES ASSUME InboxInv, InboxRest, [InboxNext]_inboxVars PROVE InboxRest' OBVIOUS
<1> USE DEF InboxRest
<1>1. \A c \in Contents : c.id \in Ids /\ c.from \in Senders BY DEF Ids, Senders
<1>2. \A c \in Mine : c \in Contents BY DEF Mine
<1>3. ASSUME NEW c \in Contents,
             UNCHANGED <<seen, timer>> \/ (markSeen(c.id) /\ (UNCHANGED timer \/ scheduleSaveConvos)),
             UNCHANGED blocked
      PROVE  InboxRest'
  <2>1. SeenOK(seen') BY <1>1, <1>3, SeenMarked
  <2>2. timer' \in BOOLEAN BY <1>3 DEF scheduleSaveConvos
  <2> QED BY <1>3, <2>1, <2>2
<1>4. ASSUME NEW c \in Contents, Handled(c) PROVE InboxRest'
  <2>1. UNCHANGED blocked BY <1>4 DEF Handled
  <2>2. CASE ~IsNew(c) BY <1>3, <1>4, <2>1, <2>2 DEF Handled
  <2>3. CASE IsNew(c)
    <3>1. markSeen(c.id) BY <1>4, <2>3 DEF Handled
    <3>2. c.t \in {"msg", "react", "unsend", "other"} BY InboxAssumption
    <3>3. UNCHANGED timer \/ pushMessage(c.chat, c) \/ applyReaction(c.chat, c.target, c.from, c.remove)
            \/ applyUnsend(c.chat, c.target, c.from)
      BY <1>4, <2>3, <3>2 DEF Handled
    <3>4. UNCHANGED timer \/ scheduleSaveConvos BY <3>3 DEF pushMessage, applyReaction, applyUnsend
    <3> QED BY <1>3, <2>1, <3>1, <3>4
  <2> QED BY <2>2, <2>3
\* The ids remembered stay, or the step is one of a content's.
<1>5. ASSUME UNCHANGED seen, UNCHANGED timer \/ timer' \in BOOLEAN, UNCHANGED blocked PROVE InboxRest' BY <1>5
<1>6. ASSUME NEW c \in Contents, onDeliver(c) PROVE InboxRest' BY <1>4, <1>6 DEF onDeliver
<1>7. ASSUME NEW c \in Contents, NEW k \in Lookups, verifySender(k, c) PROVE InboxRest'
  BY <1>5, <1>7 DEF verifySender
<1>8. ASSUME NEW k \in Lookups, NEW valid \in BOOLEAN, Verified(k, valid) PROVE InboxRest'
  <2>1. awaiting[k] \in Contents BY <1>8 DEF Verified, InboxInv, AwaitsSent
  <2> QED BY <1>4, <1>5, <1>8, <2>1 DEF Verified
<1>9. ASSUME NEW c \in Mine, deliverContent(c) \/ toggleReaction(c) \/ deleteForEveryone(c) PROVE InboxRest'
  <2>1. UNCHANGED <<seen, blocked>> BY <1>9 DEF deliverContent, toggleReaction, deleteForEveryone
  <2>2. UNCHANGED timer \/ timer' = TRUE
    BY <1>9 DEF deliverContent, toggleReaction, deleteForEveryone, applyReaction, applyUnsend, scheduleSaveConvos
  <2> QED BY <1>5, <2>1, <2>2
<1>10. ASSUME NEW c \in Mine, NEW held \in BOOLEAN, fanOutConv(c, held) PROVE InboxRest'
  <2>1. UNCHANGED blocked BY <1>10 DEF fanOutConv
  <2>2. CASE held BY <1>5, <1>10, <2>1, <2>2 DEF fanOutConv
  <2>3. CASE ~held
    <3>1. markSeen(c.id) /\ (pushMessage(c.chat, c) \/ UNCHANGED timer) BY <1>10, <2>3 DEF fanOutConv
    <3>2. UNCHANGED timer \/ scheduleSaveConvos BY <3>1 DEF pushMessage
    <3> QED BY <1>2, <1>3, <2>1, <3>1, <3>2
  <2> QED BY <2>2, <2>3
<1>11. ASSUME NEW ch \in Chats, clearMessages(ch) \/ \E i \in DOMAIN convos[ch] : deleteForMe(ch, i) PROVE InboxRest'
  BY <1>5, <1>11 DEF clearMessages, deleteForMe, scheduleSaveConvos
<1>12. ASSUME NEW h \in Senders, block(h) \/ unblock(h) PROVE InboxRest'
  <2>1. UNCHANGED seen /\ (UNCHANGED timer \/ timer' = TRUE) BY <1>12 DEF block, unblock, scheduleSaveConvos
  <2>2. blocked' \subseteq Senders \ {Me} BY <1>12 DEF block, unblock
  <2> QED BY <2>1, <2>2
<1>13. CASE saveConvos BY <1>5, <1>13 DEF saveConvos
<1>14. CASE loadConvos
  <2>1. SeenOK(seen') BY <1>14, SeenLoaded DEF InboxInv
  <2> QED BY <1>14, <2>1 DEF loadConvos
<1>15. CASE UNCHANGED inboxVars BY <1>5, <1>15 DEF inboxVars
<1> QED BY <1>6, <1>7, <1>8, <1>9, <1>10, <1>11, <1>12, <1>13, <1>14, <1>15 DEF InboxNext

LEMMA InboxTyped == InboxInv /\ InboxRest => InboxTypeOK
<1> SUFFICES ASSUME InboxInv, InboxRest PROVE InboxTypeOK OBVIOUS
<1>1. GoodChats(convos) /\ GoodChats(stored) /\ gone \subseteq Remembered BY DEF InboxInv
<1>2. convos \in Histories /\ stored \in Histories BY <1>1 DEF GoodChats
<1>3. \A ch \in Chats : /\ Len(convos[ch]) <= HistoryCap
                        /\ \A i, j \in DOMAIN convos[ch] : convos[ch][i].id = convos[ch][j].id => i = j
  BY <1>1 DEF GoodChats, UniqueIds
<1>4. seen \in Seq(Ids) /\ Len(seen) <= SeenCap /\ \A i, j \in DOMAIN seen : seen[i] = seen[j] => i = j
  BY DEF InboxRest, SeenOK, Distinct
<1>5. Range(seen) \subseteq Ids BY <1>4, LenProperties, ElementOfSeq DEF Range
<1>6. AllIds(convos) \subseteq Ids BY <1>1 DEF GoodChats, FromContent, AllIds, Ids
<1>7. gone \subseteq Ids BY <1>1, <1>5, <1>6 DEF Remembered
<1> QED BY <1>2, <1>3, <1>4, <1>7 DEF InboxTypeOK, InboxInv, InboxRest, AwaitsSent

LEMMA InboxRestStarts == InboxInit => InboxRest
<1> SUFFICES ASSUME InboxInit PROVE InboxRest OBVIOUS
<1>1. seen = <<>> /\ blocked = {} /\ timer = FALSE BY DEF InboxInit
<1>2. <<>> \in Seq(Ids) /\ Len(<<>>) = 0 /\ DOMAIN <<>> = {} BY EmptySeq
<1>3. SeenOK(<<>>) BY <1>2, InboxAssumption DEF SeenOK, Distinct
<1> QED BY <1>1, <1>3 DEF InboxRest

\* Whatever arrives late, again or out of order, what was removed is not shown again.
THEOREM RemovedStaysRemoved == InboxSpec => []RemovedStays
<1>1. InboxInv => RemovedStays BY DEF InboxInv
<1> QED BY <1>1, InboxStarts, InboxStep, PTL DEF InboxSpec

\* Every change of the history leaves a save of it due.
THEOREM ChangesAreSaved == InboxSpec => []SaveScheduled
<1>1. InboxInv => SaveScheduled BY DEF InboxInv
<1> QED BY <1>1, InboxStarts, InboxStep, PTL DEF InboxSpec

-----------------------------------------------------------------------------
(* Pieces of one length, but the last                                      *)

\* Where piece j starts.
Before(j, K) == (j - 1) * K

LEMMA BeforeFacts ==
  ASSUME NEW K \in Nat
  PROVE  /\ Before(1, K) = 0
         /\ \A n \in Nat \ {0} : Before(n, K) \in Nat /\ Before(n + 1, K) = Before(n, K) + K
         /\ \A j, n \in Nat \ {0} : j < n => Before(j, K) + K <= Before(n, K)
<1>1. ASSUME NEW n \in Nat \ {0} PROVE (n - 1) * K \in Nat /\ (n + 1 - 1) * K = (n - 1) * K + K OBVIOUS
<1>2. ASSUME NEW j \in Nat \ {0}, NEW n \in Nat \ {0}, j < n PROVE (j - 1) * K + K <= (n - 1) * K
  <2>1. (j - 1) * K + K = j * K OBVIOUS
  <2> DEFINE i == n - 1
  <2>2. i \in Nat /\ j <= i BY <1>2
  <2> HIDE DEF i
  <2>3. j * K <= i * K BY <2>2
  <2> QED BY <2>1, <2>3 DEF i
<1> QED BY <1>1, <1>2 DEF Before

\* How long piece j of m is.
Reach(j, m, K, z) == IF j < m THEN K ELSE z

LEMMA FlattenPieces ==
  ASSUME NEW s, NEW m \in Nat \ {0}, IsStr(s, m), NEW K \in Nat, NEW z \in Nat,
         \A j \in 1..m : IsStr(s[j], Reach(j, m, K, z))
  PROVE  /\ IsStr(FlattenSeq(s), Before(m, K) + z)
         /\ \A j \in 1..m : \A i \in 1..Reach(j, m, K, z) : FlattenSeq(s)[Before(j, K) + i] = s[j][i]
<1> DEFINE From(j) == Before(j, K)
           R(j) == Reach(j, m, K, z)
<1>1. PICK g : FlatTo(g, s, m) /\ FlattenSeq(s) = g[m] BY FlattenTo
<1> DEFINE Good(n) == /\ IsStr(g[n], From(n) + R(n))
                      /\ \A j \in 1..n : \A i \in 1..R(j) : g[n][From(j) + i] = s[j][i]
           S == {k \in Nat : k + 1 <= m => Good(k + 1)}
<1>2. /\ From(1) = 0 /\ (\A n \in Nat \ {0} : From(n) \in Nat /\ From(n + 1) = From(n) + K)
      /\ \A j, n \in Nat \ {0} : j < n => From(j) + K <= From(n)
  BY BeforeFacts
<1>3. /\ \A j : R(j) \in Nat
      /\ \A j \in Nat : j < m => R(j) = K
      /\ R(m) = z
  BY DEF Reach
<1>4. \A j \in 1..m : IsStr(s[j], R(j)) OBVIOUS
<1>5. g[1] = s[1] /\ \A n \in Nat \ {0} : n < m => g[n + 1] = Cat(g[n], s[n + 1])
  <2>1. 1 \in 1..m /\ \A n \in Nat \ {0} : n < m => n + 1 \in 1..m /\ n + 1 # 1 /\ n + 1 - 1 = n OBVIOUS
  <2>2. \A i \in 1..m : g[i] = IF i = 1 THEN s[i] ELSE Cat(g[i - 1], s[i]) BY <1>1 DEF FlatTo
  <2> QED BY <2>1, <2>2
<1> HIDE DEF From, R
<1>6. Good(1)
  <2>1. From(1) + R(1) = R(1) /\ 1 \in 1..m /\ \A i \in 1..R(1) : From(1) + i = i BY <1>2, <1>3
  <2>2. \A j \in 1..1 : j = 1 OBVIOUS
  <2> QED BY <1>4, <1>5, <2>1, <2>2
<1>7. ASSUME NEW n \in Nat \ {0}, n < m, Good(n) PROVE Good(n + 1)
  <2> DEFINE a == g[n]
             b == s[n + 1]
             l == R(n + 1)
             N == From(n + 1)
             c == Cat(a, b)
  <2>1. n + 1 \in 1..m /\ n + 1 \in Nat \ {0} BY <1>7
  <2>2. g[n + 1] = c BY <1>5, <1>7
  <2>3. N = From(n) + R(n) /\ N \in Nat BY <1>2, <1>3, <1>7, <2>1
  <2>4. IsStr(a, N) /\ IsStr(b, l) BY <1>4, <1>7, <2>1, <2>3
  <2>5. \A j \in 1..n : \A i \in 1..R(j) : a[From(j) + i] = s[j][i] BY <1>7
  <2>6. l \in Nat BY <1>3
  <2> HIDE DEF Good, S, a, b, l, N
  <2>7. /\ IsStr(c, N + l) /\ (\A i \in 1..N : c[i] = a[i])
        /\ \A i \in N + 1..N + l : c[i] = b[i - N]
    BY <2>4, ConcatStr
  <2> HIDE DEF c
  <2>8. ASSUME NEW j \in 1..n, NEW i \in 1..R(j) PROVE c[From(j) + i] = s[j][i]
    <3>1. j \in Nat \ {0} /\ j < m /\ j < n + 1 BY <1>7
    <3>2. From(j) \in Nat /\ R(j) = K /\ From(j) + K <= N BY <1>2, <1>3, <2>1, <3>1 DEF N
    <3> DEFINE x == From(j) + i
    <3>3. x \in 1..N BY <2>3, <3>2
    <3>4. a[x] = s[j][i] BY <2>5
    <3> HIDE DEF x
    <3>5. c[x] = s[j][i] BY <2>7, <3>3, <3>4
    <3> QED BY <3>5 DEF x
  <2>9. ASSUME NEW i \in 1..l PROVE c[N + i] = b[i]
    <3> DEFINE x == N + i
    <3>1. x \in N + 1..N + l /\ x - N = i BY <2>3, <2>6
    <3> HIDE DEF x
    <3>2. c[x] = b[x - N] BY <2>7, <3>1
    <3> QED BY <3>1, <3>2 DEF x
  <2>10. \A j \in 1..n + 1 : j \in 1..n \/ j = n + 1 OBVIOUS
  <2>11. \A j \in 1..n + 1 : \A i \in 1..R(j) : c[From(j) + i] = s[j][i]
    BY <2>8, <2>9, <2>10 DEF l, N, b
  <2> QED BY <2>2, <2>7, <2>11 DEF Good, l, N
<1>8. Nat \subseteq S
  <2>1. 0 \in S
    <3>1. 0 + 1 = 1 OBVIOUS
    <3> HIDE DEF Good
    <3> QED BY <1>6, <3>1
  <2>2. ASSUME NEW k \in Nat, k \in S PROVE k + 1 \in S
    <3> HIDE DEF Good
    <3>1. CASE k + 1 + 1 <= m
      <4> DEFINE n == k + 1
      <4>1. n \in Nat \ {0} /\ n < m /\ Good(n) BY <2>2, <3>1
      <4>2. Good(n + 1) BY <1>7, <4>1
      <4> QED BY <4>2
    <3>2. CASE ~(k + 1 + 1 <= m) BY <3>2
    <3> QED BY <3>1, <3>2
  <2> HIDE DEF S
  <2> QED BY <2>1, <2>2, NaturalsFrom0
<1>9. Good(m)
  <2>1. m - 1 \in Nat /\ m - 1 + 1 = m OBVIOUS
  <2>2. m - 1 \in S BY <1>8, <2>1
  <2> HIDE DEF Good
  <2> QED BY <2>1, <2>2
<1> QED BY <1>1, <1>3, <1>9 DEF From, R

\* Every place is in a piece.
LEMMA PlaceInPiece ==
  ASSUME NEW m \in Nat \ {0}, NEW K \in Nat \ {0}, NEW z \in Nat, z <= K, NEW x \in 1..Before(m, K) + z
  PROVE  \E j \in 1..m : \E i \in 1..Reach(j, m, K, z) : x = Before(j, K) + i
<1> DEFINE w == x - 1
           k == w \div K
           j == k + 1
           i == w - k * K + 1
<1>1. Before(m, K) \in Nat BY BeforeFacts
<1>2. w \in Nat /\ w < Before(m, K) + z BY <1>1
<1> HIDE DEF w
<1>3. k \in Nat /\ k * K <= w /\ w < k * K + K BY <1>2
<1> HIDE DEF k
<1>4. k * K \in Nat BY <1>3
<1>5. i \in 1..K /\ Before(j, K) = k * K /\ j \in Nat \ {0} BY <1>2, <1>3, <1>4 DEF Before
<1>6. x = Before(j, K) + i BY <1>2, <1>4, <1>5 DEF w
<1>7. j <= m
  <2>1. ~(m < j)
    <3>1. m < j => Before(m, K) + K <= Before(j, K) BY <1>5, BeforeFacts
    <3> QED BY <1>1, <1>2, <1>3, <1>4, <1>5, <3>1
  <2> QED BY <1>5, <2>1
<1>8. j = m => i <= z
  <2>1. j = m => Before(m, K) = k * K BY <1>5
  <2> QED BY <1>1, <1>2, <1>4, <2>1
<1>9. i \in 1..Reach(j, m, K, z) BY <1>5, <1>7, <1>8 DEF Reach
<1> QED BY <1>5, <1>6, <1>7, <1>9


-----------------------------------------------------------------------------
(* The chunks of a file                                                    *)

Piece(n) == Cut(Picked, (n - 1) * ChunkLen + 1, IF n * ChunkLen < file.size THEN n * ChunkLen ELSE file.size)
LastLen == file.size - Before(Chunks, ChunkLen)
Sized == file.size \in Nat

LEMMA Lengths == ChunkLen \in Nat \ {0} /\ HeadLen \in Nat \ {0} /\ IvLen \in Nat \ {0} /\ TagLen \in Nat \ {0}
BY AttachmentsAssumption

LEMMA ChunkCount ==
  ASSUME Sized
  PROVE  /\ Chunks \in Nat \ {0} /\ LastLen \in 0..ChunkLen
         /\ Chunks # 1 => LastLen # 0
<1> DEFINE s == file.size
           C == ChunkLen
           q == (s + C - 1) \div C
<1>1. C \in Nat \ {0} /\ s \in Nat BY Lengths DEF Sized
<1>2. CASE s = 0
  <2>1. Chunks = 1 BY <1>2 DEF Chunks
  <2>2. Before(1, C) = 0 BY <1>1, BeforeFacts
  <2> QED BY <1>1, <1>2, <2>1, <2>2 DEF LastLen
<1>3. CASE s # 0
  <2>1. Chunks = q BY <1>3 DEF Chunks
  <2> HIDE DEF s, C
  <2>2. q \in Nat \ {0} /\ (q - 1) * C < s /\ s <= q * C BY <1>1, <1>3
  <2> HIDE DEF q
  <2>3. Before(q, C) = (q - 1) * C /\ q * C = (q - 1) * C + C /\ (q - 1) * C \in Nat BY <1>1, <2>2 DEF Before
  <2>4. s - Before(q, C) \in 1..C BY <1>1, <2>2, <2>3
  <2>5. LastLen = s - Before(q, C) BY <2>1 DEF LastLen, s, C
  <2> QED BY <2>1, <2>2, <2>4, <2>5 DEF C
<1> QED BY <1>2, <1>3

LEMMA PieceIs ==
  ASSUME Sized, NEW n \in 1..Chunks
  PROVE  LET r == Reach(n, Chunks, ChunkLen, LastLen)
         IN IsStr(Piece(n), r) /\ \A i \in 1..r : Piece(n)[i] = Before(n, ChunkLen) + i
<1> DEFINE m == Chunks
           C == ChunkLen
           z == LastLen
           s == file.size
           r == Reach(n, m, C, z)
           b == Before(n, C)
           p == b + 1
           q == b + r
<1>1. /\ m \in Nat \ {0} /\ z \in 0..C /\ (m # 1 => z # 0)
      /\ C \in Nat \ {0} /\ s \in Nat /\ z = s - Before(m, C)
  BY ChunkCount, Lengths DEF LastLen, Sized
<1>2. Piece(n) = Cut(Picked, b + 1, IF b + C < s THEN b + C ELSE s)
  <2>1. n * C = b + C
    <3>1. n * C = (n - 1) * C + C BY <1>1
    <3> QED BY <3>1 DEF Before
  <2> QED BY <2>1 DEF Piece, Before
<1>3. Picked = [k \in 1..s |-> k] BY DEF Picked
<1> DEFINE B == Before(m, C)
<1> HIDE DEF m, C, z, s, b, B
<1>4. b \in Nat /\ B \in Nat /\ n \in Nat \ {0} /\ n <= m /\ s = B + z
  <2>1. n \in Nat \ {0} /\ n <= m BY <1>1 DEF m
  <2>2. b \in Nat /\ B \in Nat BY <1>1, <2>1, BeforeFacts DEF b, B
  <2> QED BY <1>1, <2>1, <2>2 DEF B
<1>5. r \in Nat /\ (IF b + C < s THEN b + C ELSE s) = b + r /\ b + r <= s
  <2>1. CASE n < m
    <3>1. b + C <= B BY <1>1, <1>4, <2>1, BeforeFacts DEF b, B
    <3>2. z # 0 BY <1>1, <1>4, <2>1
    <3>3. r = C BY <2>1 DEF Reach
    <3> QED BY <1>1, <1>4, <3>1, <3>2, <3>3
  <2>2. CASE n = m
    <3>1. r = z BY <2>2, <1>4 DEF Reach
    <3>2. b = B BY <2>2 DEF b, B
    <3> QED BY <1>1, <1>4, <3>1, <3>2
  <2> QED BY <1>1, <1>4, <2>1, <2>2
<1> HIDE DEF r
<1>6. Piece(n) = Cut(Picked, p, q) BY <1>2, <1>5
<1>7. p \in Nat /\ q \in Nat /\ p <= q + 1 /\ q - p + 1 = r BY <1>4, <1>5
<1> DEFINE c == Cut(Picked, p, q)
<1>8. IsStr(c, q - p + 1) /\ \A i \in 1..q - p + 1 : c[i] = Picked[p + i - 1] BY <1>7, CutStr
<1> HIDE DEF c, q
<1>9. ASSUME NEW i \in 1..r PROVE c[i] = b + i
  <2>1. p + i - 1 = b + i /\ b + i \in 1..s BY <1>4, <1>5
  <2>2. c[i] = Picked[p + i - 1] BY <1>7, <1>8
  <2> QED BY <1>3, <2>1, <2>2
<1>10. IsStr(c, r) BY <1>7, <1>8
<1> QED BY <1>6, <1>9, <1>10 DEF c, r, b, m, C, z

\* Put together again, the pieces are the file.
LEMMA PiecesMakeFile ==
  ASSUME Sized, NEW t, IsStr(t, Chunks), \A n \in 1..Chunks : t[n] = Piece(n)
  PROVE  FlattenSeq(t) = Picked
<1> DEFINE m == Chunks
           C == ChunkLen
           z == LastLen
           s == file.size
           f == FlattenSeq(t)
<1>1. m \in Nat \ {0} /\ z \in 0..C /\ C \in Nat \ {0} /\ s \in Nat /\ z = s - Before(m, C)
  BY ChunkCount, Lengths DEF LastLen, Sized
<1>2. \A n \in 1..m : IsStr(t[n], Reach(n, m, C, z)) /\ \A i \in 1..Reach(n, m, C, z) : t[n][i] = Before(n, C) + i
  BY PieceIs
<1>3. Picked = [k \in 1..s |-> k] BY DEF Picked
<1>4. IsStr(t, m) OBVIOUS
<1> HIDE DEF m, C, z, s
<1>5. /\ IsStr(f, Before(m, C) + z)
      /\ \A n \in 1..m : \A i \in 1..Reach(n, m, C, z) : f[Before(n, C) + i] = t[n][i]
  <2>1. C \in Nat /\ z \in Nat /\ \A n \in 1..m : IsStr(t[n], Reach(n, m, C, z)) BY <1>1, <1>2
  <2> HIDE DEF f
  <2>2. /\ IsStr(FlattenSeq(t), Before(m, C) + z)
        /\ \A n \in 1..m : \A i \in 1..Reach(n, m, C, z) : FlattenSeq(t)[Before(n, C) + i] = t[n][i]
    BY <1>1, <1>4, <2>1, FlattenPieces
  <2> QED BY <2>2 DEF f
<1> HIDE DEF f
<1>6. Before(m, C) \in Nat BY <1>1, BeforeFacts
<1>7. Before(m, C) + z = s BY <1>1, <1>6
<1>8. ASSUME NEW x \in 1..s PROVE f[x] = x
  <2>1. x \in 1..Before(m, C) + z BY <1>7
  <2>2. PICK n \in 1..m : \E i \in 1..Reach(n, m, C, z) : x = Before(n, C) + i BY <1>1, <2>1, PlaceInPiece
  <2>3. PICK i \in 1..Reach(n, m, C, z) : x = Before(n, C) + i BY <2>2
  <2>4. f[Before(n, C) + i] = t[n][i] /\ t[n][i] = Before(n, C) + i BY <1>2, <1>5
  <2> QED BY <2>3, <2>4
<1>9. IsStr(f, s) BY <1>5, <1>7
<1>10. IsStr(Picked, s) /\ \A x \in 1..s : Picked[x] = x BY <1>1, <1>3 DEF IsStr
<1>11. f = Picked BY <1>8, <1>9, <1>10, StrEqual
<1> QED BY <1>11 DEF f


-----------------------------------------------------------------------------
(* What is encrypted opens                                                 *)

\* Of two strings one after the other somewhere in the bytes, each can be cut out.
LEMMA CutOut ==
  ASSUME NEW bytes, NEW off \in Nat, NEW a, NEW m, IsStr(a, m), NEW b, NEW n, IsStr(b, n),
         \A i \in 1..m + n : bytes[off + i] = Cat(a, b)[i]
  PROVE  Cut(bytes, off + 1, off + m) = a /\ Cut(bytes, off + m + 1, off + (m + n)) = b
<1> DEFINE c == Cat(a, b)
           x == Cut(bytes, off + 1, off + m)
           y == Cut(bytes, off + m + 1, off + (m + n))
<1>1. m \in Nat /\ n \in Nat BY DEF IsStr
<1>2. (\A i \in 1..m : c[i] = a[i]) /\ \A i \in m + 1..m + n : c[i] = b[i - m] BY ConcatStr
<1>3. \A i \in 1..m + n : bytes[off + i] = c[i] OBVIOUS
<1> HIDE DEF c
<1>4. x = a
  <2> DEFINE p == off + 1
             q == off + m
             u == Cut(bytes, p, q)
  <2>1. p \in Nat /\ q \in Nat /\ p <= q + 1 /\ q - p + 1 = m BY <1>1
  <2> HIDE DEF p, q
  <2>2. IsStr(u, q - p + 1) /\ \A i \in 1..q - p + 1 : u[i] = bytes[p + i - 1] BY <2>1, CutStr
  <2> HIDE DEF u
  <2>3. ASSUME NEW i \in 1..m PROVE u[i] = a[i]
    <3>1. p + i - 1 = off + i /\ i \in 1..m + n BY <1>1 DEF p
    <3>2. u[i] = bytes[p + i - 1] BY <2>1, <2>2
    <3> QED BY <1>2, <1>3, <3>1, <3>2
  <2>4. IsStr(u, m) BY <2>1, <2>2
  <2>5. u = a BY <2>3, <2>4, StrEqual
  <2> QED BY <2>5 DEF u, p, q
<1>5. y = b
  <2> DEFINE p == off + m + 1
             q == off + (m + n)
             u == Cut(bytes, p, q)
  <2>1. p \in Nat /\ q \in Nat /\ p <= q + 1 /\ q - p + 1 = n BY <1>1
  <2> HIDE DEF p, q
  <2>2. IsStr(u, q - p + 1) /\ \A i \in 1..q - p + 1 : u[i] = bytes[p + i - 1] BY <2>1, CutStr
  <2> HIDE DEF u
  <2>3. ASSUME NEW i \in 1..n PROVE u[i] = b[i]
    <3> DEFINE k == m + i
    <3>1. p + i - 1 = off + k /\ k \in 1..m + n /\ k \in m + 1..m + n /\ k - m = i BY <1>1 DEF p
    <3> HIDE DEF k
    <3>2. u[i] = bytes[p + i - 1] BY <2>1, <2>2
    <3>3. c[k] = b[k - m] /\ bytes[off + k] = c[k] BY <1>2, <1>3, <3>1
    <3> QED BY <3>1, <3>2, <3>3
  <2>4. IsStr(u, n) BY <2>1, <2>2
  <2>5. u = b BY <2>3, <2>4, StrEqual
  <2> QED BY <2>5 DEF u, p, q
<1> QED BY <1>4, <1>5

LEMMA IvStr == ASSUME NEW n PROVE IsStr(Iv(n), IvLen)
BY Lengths DEF IsStr, Iv

LEMMA EncryptStr ==
  ASSUME NEW iv, NEW p, NEW n, IsStr(p, n)
  PROVE  IsStr(encrypt(iv, p), n + TagLen)
<1>1. n \in Nat /\ TagLen \in Nat /\ Len(p) = n BY Lengths, StrLen DEF IsStr
<1> QED BY <1>1 DEF IsStr, encrypt

LEMMA EncryptedOpens ==
  ASSUME NEW iv, NEW p, NEW n, IsStr(p, n)
  PROVE  decrypts(iv, encrypt(iv, p)) /\ decrypt(encrypt(iv, p)) = p
<1> DEFINE ct == encrypt(iv, p)
<1>1. n \in Nat /\ TagLen \in Nat \ {0} /\ Len(p) = n BY Lengths, StrLen DEF IsStr
<1>2. 1 \in 1..Len(p) + TagLen BY <1>1
<1>3. ct[1] = <<iv, p, 1>> BY <1>2 DEF encrypt
<1>4. ct[1][2] = p BY <1>3
<1>5. ct # NoBytes
  <2>1. IsStr(ct, n + TagLen) BY EncryptStr
  <2>2. 1 \in DOMAIN ct BY <1>1, <2>1 DEF IsStr
  <2> QED BY <2>2 DEF NoBytes
<1> QED BY <1>4, <1>5 DEF decrypts, decrypt

Chunk(n) == Cat(Iv(n), encrypt(Iv(n), Piece(n)))
Whole == IvLen + ChunkLen + TagLen
LastWhole == IvLen + LastLen + TagLen
Ct(n) == encrypt(Iv(n), Piece(n))
\* Where the bytes of chunk n start, and how many they are.
Start(n) == HeadLen + Before(n, Whole)
Size(n) == Reach(n, Chunks, Whole, LastWhole)

LEMMA Wholes ==
  ASSUME Sized
  PROVE  /\ Whole \in Nat \ {0} /\ LastWhole \in Nat \ {0} /\ LastWhole <= Whole
         /\ \A n : Size(n) = IvLen + (Reach(n, Chunks, ChunkLen, LastLen) + TagLen)
         /\ \A n : Size(n) \in Nat
BY ChunkCount, Lengths DEF Whole, LastWhole, Size, Reach

LEMMA ChunkStr ==
  ASSUME Sized, NEW n \in 1..Chunks
  PROVE  IsStr(Ct(n), Reach(n, Chunks, ChunkLen, LastLen) + TagLen) /\ IsStr(Chunk(n), Size(n))
<1> DEFINE r == Reach(n, Chunks, ChunkLen, LastLen)
           a == Iv(n)
           b == Ct(n)
<1>1. IsStr(Piece(n), r) BY PieceIs
<1> HIDE DEF r
<1>2. IsStr(b, r + TagLen) BY <1>1, EncryptStr DEF Ct
<1>3. IsStr(a, IvLen) BY IvStr
<1>4. Chunk(n) = Cat(a, b) BY DEF Chunk, Ct
<1>5. Size(n) = IvLen + (r + TagLen) BY Wholes DEF r
<1> HIDE DEF a, b
<1>6. IsStr(Cat(a, b), IvLen + (r + TagLen)) BY <1>2, <1>3, ConcatStr
<1> QED BY <1>2, <1>4, <1>5, <1>6 DEF r, b

\* The file as it is uploaded: the header, then each chunk at its place.
LEMMA FileBytes ==
  ASSUME Sized
  PROVE  LET bytes == encryptFileChunked
         IN /\ Len(bytes) = Start(Chunks) + LastWhole
            /\ bytes[1] = <<"head", ChunkLen>>
            /\ \A n \in 1..Chunks : \A i \in 1..Size(n) : bytes[Start(n) + i] = Chunk(n)[i]
<1> DEFINE t == [n \in 1..Chunks |-> Chunk(n)]
           f == FlattenSeq(t)
           h == FileHeader
           bytes == Cat(h, f)
           m == Chunks
           N == Before(m, Whole) + LastWhole
<1>1. bytes = encryptFileChunked
  <2>1. \A n \in 1..Chunks : Chunk(n) = Iv(n) \o encrypt(Iv(n), SubSeq(Picked, (n - 1) * ChunkLen + 1,
                                             IF n * ChunkLen < file.size THEN n * ChunkLen ELSE file.size))
    BY DEF Chunk, Piece, Cut, Cat
  <2>2. t = [n \in 1..Chunks |-> Iv(n) \o encrypt(Iv(n), SubSeq(Picked, (n - 1) * ChunkLen + 1,
                                    IF n * ChunkLen < file.size THEN n * ChunkLen ELSE file.size))]
    BY <2>1
  <2> QED BY <2>2 DEF encryptFileChunked, Cat
<1>2. m \in Nat \ {0} /\ Whole \in Nat \ {0} /\ LastWhole \in Nat \ {0} /\ HeadLen \in Nat \ {0}
  BY ChunkCount, Wholes, Lengths
<1>3. IsStr(t, m) /\ \A n \in 1..m : t[n] = Chunk(n) BY <1>2 DEF IsStr
<1>4. \A n \in 1..m : IsStr(t[n], Reach(n, m, Whole, LastWhole)) BY <1>3, ChunkStr DEF Size
<1>5. IsStr(h, HeadLen) /\ h[1] = <<"head", ChunkLen>> BY <1>2 DEF FileHeader, IsStr
<1> HIDE DEF t, h, m
<1>6. /\ IsStr(f, N)
      /\ \A n \in 1..m : \A i \in 1..Reach(n, m, Whole, LastWhole) : f[Before(n, Whole) + i] = t[n][i]
  BY <1>2, <1>3, <1>4, FlattenPieces
<1> HIDE DEF f
<1>7. /\ IsStr(bytes, HeadLen + N) /\ (\A i \in 1..HeadLen : bytes[i] = h[i])
      /\ \A i \in HeadLen + 1..HeadLen + N : bytes[i] = f[i - HeadLen]
  BY <1>5, <1>6, ConcatStr
<1> HIDE DEF bytes
<1>8. Before(m, Whole) \in Nat BY <1>2, BeforeFacts
<1>9. Len(bytes) = HeadLen + N BY <1>7, StrLen
<1>10. HeadLen + N = Start(m) + LastWhole BY <1>2, <1>8 DEF Start
<1>11. bytes[1] = <<"head", ChunkLen>> BY <1>2, <1>5, <1>7
<1>12. ASSUME NEW n \in 1..m, NEW i \in 1..Reach(n, m, Whole, LastWhole)
       PROVE  bytes[Start(n) + i] = Chunk(n)[i]
  <2> DEFINE b == Before(n, Whole)
             r == Reach(n, m, Whole, LastWhole)
             k == HeadLen + b + i
  <2>1. b \in Nat /\ r \in Nat /\ b + r <= N
    <3>1. n \in Nat \ {0} /\ (n < m \/ n = m) BY <1>2
    <3>2. b \in Nat BY <1>2, <3>1, BeforeFacts
    <3>3. CASE n < m
      <4>1. r = Whole /\ b + Whole <= Before(m, Whole) BY <1>2, <3>1, <3>3, BeforeFacts DEF Reach
      <4> QED BY <1>2, <1>8, <3>2, <4>1
    <3>4. CASE n = m BY <1>2, <1>8, <3>2, <3>4 DEF Reach
    <3> QED BY <3>1, <3>3, <3>4
  <2>2. i \in 1..r OBVIOUS
  <2>3. f[b + i] = t[n][i] BY <1>6
  <2>4. Start(n) + i = k BY <1>2, <2>1 DEF Start
  <2> HIDE DEF b, r
  <2>5. k \in HeadLen + 1..HeadLen + N /\ k - HeadLen = b + i BY <1>2, <1>8, <2>1, <2>2
  <2> HIDE DEF k
  <2>6. bytes[k] = f[k - HeadLen] BY <1>7, <2>5
  <2> QED BY <1>3, <2>3, <2>4, <2>5, <2>6
<1> QED BY <1>1, <1>9, <1>10, <1>11, <1>12 DEF m, Size


OffsOf(bytes, whole) == {off \in HeadLen..Len(bytes) - 1 : (off - HeadLen) % whole = 0}
CtAt(bytes, off, whole) ==
  Cut(bytes, off + IvLen + 1, IF off + whole < Len(bytes) THEN off + whole ELSE Len(bytes))

LEMMA DecryptByDef ==
  ASSUME NEW bytes, NEW whole, whole = IvLen + bytes[1][2] + TagLen
  PROVE  decryptChunkedToBlob(bytes) =
           IF \E off \in OffsOf(bytes, whole) : ~decrypts(Cut(bytes, off + 1, off + IvLen), CtAt(bytes, off, whole))
           THEN Broken
           ELSE FlattenSeq([n \in {k \in 1..Len(bytes) : HeadLen + Before(k, whole) \in OffsOf(bytes, whole)}
                              |-> decrypt(CtAt(bytes, HeadLen + Before(n, whole), whole))])
BY DEF decryptChunkedToBlob, OffsOf, CtAt, Cut, Before

LEMMA Multiple ==
  ASSUME NEW x \in Nat, NEW K \in Nat \ {0}, x % K = 0
  PROVE  \E k \in Nat : x = k * K
OBVIOUS

\* The offsets that are read are the starts of the chunks.
LEMMA OffsetsAre ==
  ASSUME Sized, NEW bytes, Len(bytes) = Start(Chunks) + LastWhole
  PROVE  /\ OffsOf(bytes, Whole) = {Start(n) : n \in 1..Chunks}
         /\ {k \in 1..Len(bytes) : Start(k) \in OffsOf(bytes, Whole)} = 1..Chunks
<1> DEFINE m == Chunks
           W == Whole
           z == LastWhole
           H == HeadLen
           O == OffsOf(bytes, W)
           len == Len(bytes)
<1>1. m \in Nat \ {0} /\ W \in Nat \ {0} /\ z \in Nat \ {0} /\ z <= W /\ H \in Nat \ {0}
  BY ChunkCount, Wholes, Lengths
<1>2. \A n : Start(n) = H + Before(n, W) BY DEF Start
<1>3. O = {off \in H..len - 1 : (off - H) % W = 0} BY DEF OffsOf
<1>4. len = H + Before(m, W) + z BY <1>2
<1> HIDE DEF m, W, z, H, O, len
<1>5. \A n \in Nat \ {0} : Before(n, W) \in Nat BY <1>1, BeforeFacts
<1>6. ASSUME NEW n \in 1..m PROVE Start(n) \in O /\ n <= len
  <2>1. n \in Nat \ {0} /\ (n < m \/ n = m) BY <1>1
  <2>2. Before(n, W) \in Nat /\ Before(m, W) \in Nat BY <1>1, <1>5, <2>1
  <2>3. Before(n, W) <= Before(m, W)
    <3>1. n < m => Before(n, W) + W <= Before(m, W) BY <1>1, <2>1, BeforeFacts
    <3> QED BY <1>1, <2>1, <2>2, <3>1
  <2>4. Start(n) \in H..len - 1 BY <1>1, <1>2, <1>4, <2>2, <2>3
  <2>5. (Start(n) - H) % W = 0
    <3>1. Start(n) - H = Before(n, W) BY <1>1, <1>2, <2>2
    <3>2. n - 1 \in Nat BY <2>1
    <3>3. ((n - 1) * W) % W = 0 BY <1>1, <3>2
    <3> QED BY <3>1, <3>3 DEF Before
  <2>6. n - 1 <= Before(n, W)
    <3> DEFINE k == n - 1
    <3>1. k \in Nat BY <2>1
    <3> HIDE DEF k
    <3>2. k <= k * W BY <1>1, <3>1
    <3> QED BY <3>2 DEF k, Before
  <2>7. n <= len BY <1>1, <1>4, <2>1, <2>2, <2>3, <2>6
  <2> QED BY <1>3, <2>4, <2>5, <2>7
<1>7. ASSUME NEW off \in O PROVE \E n \in 1..m : off = Start(n)
  <2> DEFINE x == off - H
  <2>1. x \in Nat /\ x % W = 0 /\ off \in H..len - 1 BY <1>1, <1>3
  <2>2. off = H + x BY <1>1, <2>1
  <2> HIDE DEF x
  <2>3. PICK k \in Nat : x = k * W BY <1>1, <2>1, Multiple
  <2> DEFINE n == k + 1
  <2>4. n \in Nat \ {0} /\ Before(n, W) = x BY <2>3 DEF Before
  <2> HIDE DEF n
  <2>5. n <= m
    <3>1. m < n => Before(m, W) + W <= Before(n, W) BY <1>1, <2>4, BeforeFacts
    <3>2. Before(m, W) \in Nat BY <1>1, <1>5
    <3>3. x < Before(m, W) + z BY <1>1, <1>4, <2>1, <2>2, <3>2
    <3>4. ~(m < n) BY <1>1, <2>1, <2>4, <3>1, <3>2, <3>3
    <3> QED BY <1>1, <2>4, <3>4
  <2> QED BY <1>1, <1>2, <2>2, <2>4, <2>5
<1>8. ASSUME NEW k \in 1..len, Start(k) \in O PROVE k \in 1..m
  <2>1. PICK n \in 1..m : Start(k) = Start(n) BY <1>7, <1>8
  <2>2. k \in Nat \ {0} /\ n \in Nat \ {0} BY <1>1
  <2>3. Before(k, W) \in Nat /\ Before(n, W) \in Nat BY <1>5, <2>2
  <2>4. Before(k, W) = Before(n, W) BY <1>1, <1>2, <2>1, <2>3
  <2>5. (k < n => Before(k, W) + W <= Before(n, W)) /\ (n < k => Before(n, W) + W <= Before(k, W))
    BY <1>1, <2>2, BeforeFacts
  <2>6. k = n BY <1>1, <2>2, <2>3, <2>4, <2>5
  <2> QED BY <2>6
<1>9. O = {Start(n) : n \in 1..m} BY <1>6, <1>7
<1>10. \A n \in 1..m : n \in 1..len
  <2>1. len \in Nat BY <1>1, <1>4, <1>5
  <2> QED BY <1>1, <1>6, <2>1
<1>11. {k \in 1..len : Start(k) \in O} = 1..m BY <1>6, <1>8, <1>10
<1> QED BY <1>9, <1>11 DEF O, W, m, len

LEMMA ChunkRead ==
  ASSUME Sized, NEW n \in 1..Chunks
  PROVE  LET bytes == encryptFileChunked
         IN /\ Cut(bytes, Start(n) + 1, Start(n) + IvLen) = Iv(n)
            /\ CtAt(bytes, Start(n), Whole) = Ct(n)
<1> DEFINE bytes == encryptFileChunked
           m == Chunks
           off == Start(n)
           W == Whole
           z == LastWhole
           r == Reach(n, m, ChunkLen, LastLen) + TagLen
           len == Len(bytes)
<1>1. /\ m \in Nat \ {0} /\ W \in Nat \ {0} /\ z \in Nat \ {0} /\ z <= W
      /\ HeadLen \in Nat /\ IvLen \in Nat
  BY ChunkCount, Wholes, Lengths
<1>2. Size(n) = IvLen + r /\ Size(n) = Reach(n, m, W, z) /\ Size(n) \in Nat BY Wholes DEF Size
<1>3. len = Start(m) + z /\ \A i \in 1..Size(n) : bytes[off + i] = Chunk(n)[i] BY FileBytes
<1>4. IsStr(Iv(n), IvLen) /\ IsStr(Ct(n), r) BY IvStr, ChunkStr
<1>5. Chunk(n) = Cat(Iv(n), Ct(n)) BY DEF Chunk, Ct
<1>6. Start(n) = HeadLen + Before(n, W) /\ Start(m) = HeadLen + Before(m, W) BY DEF Start
<1>7. CtAt(bytes, off, W) = Cut(bytes, off + IvLen + 1, IF off + W < len THEN off + W ELSE len) BY DEF CtAt
<1> HIDE DEF bytes, m, W, z, r, len, off
<1>8. n \in Nat \ {0} /\ (n < m \/ n = m) BY <1>1 DEF m
<1>9. Before(n, W) \in Nat /\ Before(m, W) \in Nat /\ (n < m => Before(n, W) + W <= Before(m, W))
  BY <1>1, <1>8, BeforeFacts
<1>10. off \in Nat /\ off = HeadLen + Before(n, W) BY <1>1, <1>6, <1>9 DEF off
<1>11. (IF off + W < len THEN off + W ELSE len) = off + Size(n)
  <2>1. CASE n < m
    <3>1. Size(n) = W BY <1>2, <2>1 DEF Reach
    <3>2. off + W < len BY <1>1, <1>3, <1>6, <1>9, <1>10, <2>1
    <3> QED BY <3>1, <3>2
  <2>2. CASE n = m
    <3>1. Size(n) = z BY <1>1, <1>2, <2>2 DEF Reach
    <3>2. len = off + z BY <1>3, <2>2 DEF off
    <3>3. ~(off + W < len) BY <1>1, <1>10, <3>2
    <3> QED BY <3>1, <3>2, <3>3
  <2> QED BY <1>8, <2>1, <2>2
<1>12. \A i \in 1..IvLen + r : bytes[off + i] = Cat(Iv(n), Ct(n))[i] BY <1>2, <1>3, <1>5
<1>13. Cut(bytes, off + 1, off + IvLen) = Iv(n) /\ Cut(bytes, off + IvLen + 1, off + (IvLen + r)) = Ct(n)
  BY <1>4, <1>10, <1>12, CutOut
<1>14. CtAt(bytes, off, W) = Ct(n) BY <1>2, <1>7, <1>11, <1>13
<1> QED BY <1>13, <1>14 DEF bytes, off, W

\* Whatever the sizes of the file and of the chunks, what is encrypted in chunks
\* decrypts to the file.
LEMMA ChunksOpen == ASSUME Sized PROVE decryptChunkedToBlob(encryptFileChunked) = Picked
<1> DEFINE bytes == encryptFileChunked
           O == OffsOf(bytes, Whole)
           D == {k \in 1..Len(bytes) : HeadLen + Before(k, Whole) \in O}
           t == [n \in D |-> decrypt(CtAt(bytes, HeadLen + Before(n, Whole), Whole))]
<1>1. Len(bytes) = Start(Chunks) + LastWhole /\ bytes[1] = <<"head", ChunkLen>> BY FileBytes
<1>2. \A n \in 1..Chunks : Cut(bytes, Start(n) + 1, Start(n) + IvLen) = Iv(n) /\ CtAt(bytes, Start(n), Whole) = Ct(n)
  BY ChunkRead
<1> HIDE DEF bytes
<1>3. Whole = IvLen + bytes[1][2] + TagLen BY <1>1 DEF Whole
<1>4. O = {Start(n) : n \in 1..Chunks} /\ D = 1..Chunks
  <2>1. O = {Start(n) : n \in 1..Chunks} /\ {k \in 1..Len(bytes) : Start(k) \in O} = 1..Chunks
    BY <1>1, OffsetsAre
  <2> QED BY <2>1 DEF Start
<1>5. \A n \in 1..Chunks : decrypts(Iv(n), Ct(n)) /\ decrypt(Ct(n)) = Piece(n)
  BY PieceIs, EncryptedOpens DEF Ct
<1>6. ~\E off \in O : ~decrypts(Cut(bytes, off + 1, off + IvLen), CtAt(bytes, off, Whole))
  BY <1>2, <1>4, <1>5
<1>7. decryptChunkedToBlob(bytes) = FlattenSeq(t) BY <1>3, <1>6, DecryptByDef
<1>8. \A n \in 1..Chunks : t[n] = Piece(n)
  <2>1. \A n \in 1..Chunks : HeadLen + Before(n, Whole) = Start(n) BY DEF Start
  <2> QED BY <1>2, <1>4, <1>5, <2>1
<1>9. IsStr(t, Chunks)
  <2>1. Chunks \in Nat BY ChunkCount
  <2> QED BY <1>4, <2>1 DEF IsStr
<1> HIDE DEF t
<1>10. FlattenSeq(t) = Picked BY <1>8, <1>9, PiecesMakeFile
<1> QED BY <1>7, <1>10 DEF bytes

LEMMA PlainOpens1 == ASSUME Sized PROVE decryptBytes(encryptBytes) = Picked
<1> DEFINE a == Iv(1)
           b == encrypt(a, Picked)
           n == file.size + TagLen
           bytes == Cat(a, b)
<1>1. IsStr(Picked, file.size) BY DEF Sized, IsStr, Picked
<1>2. IsStr(a, IvLen) BY IvStr
<1>3. IsStr(b, n) BY <1>1, EncryptStr
<1>4. decrypts(a, b) /\ decrypt(b) = Picked BY <1>1, EncryptedOpens
<1>5. bytes = encryptBytes BY DEF encryptBytes, Cat
<1>6. IvLen \in Nat BY Lengths
<1> HIDE DEF a, b, n
<1>7. n \in Nat BY <1>3 DEF IsStr
<1>8. IsStr(bytes, IvLen + n) BY <1>2, <1>3, ConcatStr
<1>9. Len(bytes) = IvLen + n BY <1>8, StrLen
<1> DEFINE off == 0
<1>10. off \in Nat /\ \A i \in 1..IvLen + n : bytes[off + i] = bytes[i]
  <2>1. \A i \in 1..IvLen + n : off + i = i BY <1>6, <1>7
  <2> HIDE DEF bytes, off
  <2> QED BY <2>1 DEF off
<1> HIDE DEF off
<1>11. Cut(bytes, off + 1, off + IvLen) = a /\ Cut(bytes, off + IvLen + 1, off + (IvLen + n)) = b
  BY <1>2, <1>3, <1>10, CutOut
<1>12. off + 1 = 1 /\ off + IvLen = IvLen /\ off + (IvLen + n) = IvLen + n BY <1>6, <1>7 DEF off
<1>13. Cut(bytes, 1, IvLen) = a /\ Cut(bytes, IvLen + 1, Len(bytes)) = b BY <1>9, <1>11, <1>12
<1>14. decryptBytes(bytes) = Picked BY <1>4, <1>13 DEF decryptBytes, Cut
<1> QED BY <1>5, <1>14


-----------------------------------------------------------------------------
(* What opens is the file                                                  *)

Uploaded == IF file.enc = "c1" THEN encryptFileChunked ELSE encryptBytes
OpensInv ==
  /\ Sized
  /\ cipher.here \/ sending.at \in {"uploading", "saved"} => cipher.bytes = Uploaded
  /\ shownTo = [p \in Viewers |-> shownTo[p]] /\ OpensWhole

LEMMA FileStays == ASSUME UNCHANGED file PROVE UNCHANGED <<Picked, Uploaded>>
BY DEF Picked, Uploaded, encryptFileChunked, encryptBytes, Chunks

LEMMA OpensStep == OpensInv /\ [AttachmentsNext]_attachmentVars => OpensInv'
<1> SUFFICES ASSUME OpensInv, [AttachmentsNext]_attachmentVars PROVE OpensInv' OBVIOUS
<1>1. UNCHANGED file
  BY DEF AttachmentsNext, attachmentVars, sendFile, uploadStarts, uploadSaved, sendFails, uploadWithProgress,
         pruneExpiredFiles, pruned, passes, gets, sweepExpiredImages, saves, reloads, openAttachment, downloaded, Sender
<1>2. Picked' = Picked /\ Uploaded' = Uploaded /\ Sized' BY <1>1, FileStays DEF OpensInv, Sized
<1>3. ASSUME UNCHANGED shownTo, cipher'.bytes = cipher.bytes,
             cipher'.here => cipher.here \/ sending.at = "uploading",
             sending'.at \in {"uploading", "saved"} => sending.at \in {"uploading", "saved"}
      PROVE  OpensInv'
  BY <1>2, <1>3 DEF OpensInv, OpensWhole
<1>4. CASE sendFile BY <1>3, <1>4 DEF sendFile, Pages
<1>5. CASE uploadStarts
  <2>1. cipher'.bytes = Uploaded /\ UNCHANGED shownTo BY <1>5 DEF uploadStarts, Uploaded, Pages
  <2> QED BY <1>2, <2>1 DEF OpensInv, OpensWhole
<1>6. CASE uploadSaved
  <2>1. sending.at = "uploading" /\ cipher'.bytes = cipher.bytes /\ UNCHANGED shownTo BY <1>6 DEF uploadSaved, Pages
  <2> QED BY <1>3, <2>1
<1>7. CASE sendFails
  <2>1. sending'.at = "failed" /\ UNCHANGED <<cipher, shownTo>>
    <3>1. sending' = [sending EXCEPT !.at = "failed"] BY <1>7 DEF sendFails
    <3> QED BY <1>7, <3>1 DEF sendFails, Pages
  <2> QED BY <1>3, <2>1
<1>8. CASE uploadWithProgress
  <2>1. sending.at = "saved" /\ UNCHANGED <<cipher, shownTo>> BY <1>8 DEF uploadWithProgress, Pages
  <2> QED BY <1>3, <2>1
<1>9. CASE pruneExpiredFiles \/ pruned
  <2>1. cipher.here /\ cipher' = [cipher EXCEPT !.here = FALSE] /\ UNCHANGED <<sending, shownTo>>
    BY <1>9 DEF pruneExpiredFiles, pruned, Pages
  <2>2. cipher'.bytes = cipher.bytes BY <2>1
  <2> QED BY <1>3, <2>1, <2>2
<1>10. CASE passes BY <1>3, <1>10 DEF passes, Pages
<1>11. ASSUME NEW p \in Viewers, gets(p) \/ sweepExpiredImages(p) \/ saves(p) \/ reloads(p) \/ openAttachment(p)
       PROVE  OpensInv'
  BY <1>3, <1>11 DEF gets, sweepExpiredImages, saves, reloads, openAttachment, Sender
<1>12. ASSUME NEW p \in Viewers, NEW whole \in BOOLEAN, downloaded(p, whole) PROVE OpensInv'
  <2>1. UNCHANGED <<cipher, sending>> BY <1>12 DEF downloaded, Sender
  <2>2. CASE shownTo' = shownTo BY <1>3, <2>1, <2>2
  <2>3. CASE shownTo' # shownTo
    <3> DEFINE x == IF file.enc = "c1" THEN decryptChunkedToBlob(cipher.bytes) ELSE decryptBytes(cipher.bytes)
    <3>1. Served /\ shownTo' = [shownTo EXCEPT ![p] = @ \cup {x}] BY <1>12, <2>3 DEF downloaded
    <3>2. cipher.bytes = Uploaded BY <3>1 DEF OpensInv, Served
    <3>3. x = Picked BY <3>2, ChunksOpen, PlainOpens1 DEF Uploaded, OpensInv
    <3> HIDE DEF x
    <3> QED BY <1>2, <2>1, <3>1, <3>3 DEF OpensInv, OpensWhole
  <2> QED BY <2>2, <2>3
<1>13. CASE UNCHANGED attachmentVars BY <1>3, <1>13 DEF attachmentVars
<1> QED BY <1>4, <1>5, <1>6, <1>7, <1>8, <1>9, <1>10, <1>11, <1>12, <1>13 DEF AttachmentsNext

LEMMA OpensStart == AttachmentsInit => OpensInv
<1> SUFFICES ASSUME AttachmentsInit PROVE OpensInv OBVIOUS
<1>1. file \in [size : FileSizes, expire : ExpireTicks, enc : {"c1", ""}] BY DEF AttachmentsInit
<1>2. Sized BY <1>1, AttachmentsAssumption DEF Sized
<1>3. ~cipher.here /\ sending.at = "new" BY DEF AttachmentsInit
<1>4. shownTo = [p \in Viewers |-> {}] BY DEF AttachmentsInit
<1>5. OpensWhole BY <1>4 DEF OpensWhole
<1> QED BY <1>2, <1>3, <1>4, <1>5 DEF OpensInv

-----------------------------------------------------------------------------
(* Attachments: the two clocks                                             *)

Message == {"none", "kept", "expired"}
Clocks ==
  /\ time \in Nat \ {0} /\ cipher.until \in Nat /\ expireAt \in Nat /\ file.expire \in Nat
  /\ attached \in [Viewers -> Message] /\ saved \in [Viewers -> Message]
  /\ saving \in [Viewers -> BOOLEAN]
\* The page's clock starts when the upload has ended, the gateway's when it began.
UploadFirst ==
  /\ sending.at \in {"uploading", "saved"} =>
       IF file.expire = 0 THEN cipher.until = 0 ELSE cipher.until \in 1..time + file.expire
  /\ sending.at = "sent" => IF file.expire = 0 THEN expireAt = 0 ELSE cipher.until \in 1..expireAt
Swept ==
  \A p \in Viewers :
    /\ attached[p] # "none" \/ saved[p] # "none" => sending.at = "sent"
    /\ attached[p] = "expired" \/ saved[p] = "expired" => expireAt # 0 /\ time > expireAt
ExpiryInv == Clocks /\ UploadFirst /\ Swept /\ GoneFromDisk

LEMMA ExpiryStep == ExpiryInv /\ [AttachmentsNext]_attachmentVars => ExpiryInv'
<1> SUFFICES ASSUME ExpiryInv, [AttachmentsNext]_attachmentVars PROVE ExpiryInv' OBVIOUS
<1>1. Clocks /\ UploadFirst /\ Swept /\ GoneFromDisk BY DEF ExpiryInv
<1> USE DEF Pages, Sender, ExpiryInv
<1>2. ASSUME UNCHANGED <<file, cipher, expireAt, Pages>>, time' \in Nat, time' >= time, UNCHANGED sending
      PROVE  ExpiryInv'
  BY <1>1, <1>2 DEF Clocks, UploadFirst, Swept, GoneFromDisk
<1>3. CASE sendFile BY <1>1, <1>3 DEF sendFile, Clocks, UploadFirst, Swept, GoneFromDisk
<1>4. CASE uploadStarts
  <2>1. /\ sending.at = "encrypting" /\ sending'.at = "uploading" /\ cipher'.until = Deadline(time)
        /\ UNCHANGED <<time, file, expireAt, Pages>>
    BY <1>4 DEF uploadStarts
  <2>2. Deadline(time) = IF file.expire = 0 THEN 0 ELSE time + file.expire BY DEF Deadline
  <2> QED BY <1>1, <2>1, <2>2 DEF Clocks, UploadFirst, Swept, GoneFromDisk
<1>5. CASE uploadSaved
  <2>1. /\ sending.at = "uploading" /\ sending'.at = "saved" /\ cipher'.until = cipher.until
        /\ UNCHANGED <<time, file, expireAt, Pages>>
    BY <1>5 DEF uploadSaved
  <2> QED BY <1>1, <2>1 DEF Clocks, UploadFirst, Swept, GoneFromDisk
<1>6. CASE sendFails
  <2>1. /\ sending.at # "sent" /\ sending'.at = "failed" /\ UNCHANGED <<time, file, cipher, expireAt, Pages>>
    BY <1>6 DEF sendFails
  <2> QED BY <1>1, <2>1 DEF Clocks, UploadFirst, Swept, GoneFromDisk
<1>7. CASE uploadWithProgress
  <2>1. /\ sending.at = "saved" /\ sending'.at = "sent" /\ expireAt' = Deadline(time)
        /\ UNCHANGED <<time, file, cipher, Pages>>
    BY <1>7 DEF uploadWithProgress, ExpiresAt
  <2>2. Deadline(time) = IF file.expire = 0 THEN 0 ELSE time + file.expire BY DEF Deadline
  <2> QED BY <1>1, <2>1, <2>2 DEF Clocks, UploadFirst, Swept, GoneFromDisk
<1>8. CASE pruneExpiredFiles \/ pruned
  <2>1. cipher'.until = cipher.until /\ UNCHANGED <<time, file, sending, expireAt, Pages>>
    <3>1. cipher' = [cipher EXCEPT !.here = FALSE] /\ UNCHANGED <<time, file, sending, expireAt, Pages>>
      BY <1>8 DEF pruneExpiredFiles, pruned
    <3> QED BY <3>1
  <2> QED BY <1>1, <2>1 DEF Clocks, UploadFirst, Swept, GoneFromDisk
<1>9. CASE passes BY <1>1, <1>2, <1>9 DEF passes, Clocks
\* What a page does leaves the sender and the gateway alone.
<1>10. ASSUME UNCHANGED Sender, attached' \in [Viewers -> Message], saved' \in [Viewers -> Message],
              saving' \in [Viewers -> BOOLEAN], Swept', GoneFromDisk'
       PROVE  ExpiryInv'
  BY <1>1, <1>10 DEF Clocks, UploadFirst
<1>11. ASSUME NEW p \in Viewers, gets(p) PROVE ExpiryInv'
  BY <1>1, <1>10, <1>11 DEF gets, Clocks, Swept, GoneFromDisk, Message
<1>12. ASSUME NEW p \in Viewers, sweepExpiredImages(p) PROVE ExpiryInv'
  BY <1>1, <1>10, <1>12 DEF sweepExpiredImages, Clocks, Swept, GoneFromDisk, Message
<1>13. ASSUME NEW p \in Viewers, saves(p) PROVE ExpiryInv'
  BY <1>1, <1>10, <1>13 DEF saves, Clocks, Swept, GoneFromDisk
<1>14. ASSUME NEW p \in Viewers, reloads(p) PROVE ExpiryInv'
  BY <1>1, <1>10, <1>14 DEF reloads, Clocks, Swept, GoneFromDisk
<1>15. ASSUME NEW p \in Viewers, openAttachment(p) \/ \E whole \in BOOLEAN : downloaded(p, whole) PROVE ExpiryInv'
  <2>1. UNCHANGED <<Sender, attached, saving, saved>> BY <1>15 DEF openAttachment, downloaded
  <2> QED BY <1>1, <1>10, <2>1 DEF Clocks, Swept, GoneFromDisk
<1>16. CASE UNCHANGED attachmentVars BY <1>1, <1>2, <1>16 DEF attachmentVars, Clocks
<1> QED BY <1>3, <1>4, <1>5, <1>6, <1>7, <1>8, <1>9, <1>11, <1>12, <1>13, <1>14, <1>15, <1>16 DEF AttachmentsNext

LEMMA ExpiryStarts == AttachmentsInit => ExpiryInv
<1> SUFFICES ASSUME AttachmentsInit PROVE ExpiryInv OBVIOUS
<1>1. time = 1 /\ expireAt = 0 /\ sending.at = "new" /\ cipher.until = 0 BY DEF AttachmentsInit
<1>2. file.expire \in Nat BY AttachmentsAssumption DEF AttachmentsInit
<1>3. /\ attached = [p \in Viewers |-> "none"] /\ saved = [p \in Viewers |-> "none"]
      /\ saving = [p \in Viewers |-> FALSE]
  BY DEF AttachmentsInit
<1> QED BY <1>1, <1>2, <1>3 DEF ExpiryInv, Clocks, UploadFirst, Swept, GoneFromDisk, Message

\* What opens is the whole file, what is gone from one page can be fetched by
\* none, and what a page forgot is gone from its disk, or a save is due.
THEOREM AttachmentsCorrect == AttachmentsSpec => []AttachmentsEnd
<1> DEFINE Inv == OpensInv /\ ExpiryInv
<1>1. AttachmentsInit => Inv BY OpensStart, ExpiryStarts
<1>2. Inv /\ [AttachmentsNext]_attachmentVars => Inv' BY OpensStep, ExpiryStep
<1>3. Inv => AttachmentsEnd
  BY DEF AttachmentsEnd, OpensInv, ExpiryInv, Clocks, UploadFirst, Swept, GoneUnserved, Served
<1> QED BY <1>1, <1>2, <1>3, PTL DEF AttachmentsSpec

-----------------------------------------------------------------------------
(* The whole page                                                          *)

Ciphers(bytes) == [here : BOOLEAN, until : Nat, bytes : bytes]
Stages == [at : {"new", "encrypting", "uploading", "saved", "sent", "failed"}, since : 0..MaxTime]
FilesInv == AttachmentsTypeOK /\ \E bytes : cipher \in Ciphers(bytes)

LEMMA FilesStart == AttachmentsInit => FilesInv
<1> SUFFICES ASSUME AttachmentsInit PROVE FilesInv OBVIOUS
<1>1. MaxTime \in Nat \ {0} BY AttachmentsAssumption
<1>2. time = 1 /\ expireAt = 0 /\ sending = [at |-> "new", since |-> 0]
  BY DEF AttachmentsInit
<1>3. cipher = [here |-> FALSE, until |-> 0, bytes |-> NoBytes] BY DEF AttachmentsInit
<1>4. cipher \in Ciphers({NoBytes}) BY <1>3 DEF Ciphers
<1>5. sending \in Stages /\ time \in 1..MaxTime BY <1>1, <1>2 DEF Stages
<1>6. /\ {attached, saved} \subseteq [Viewers -> {"none", "kept", "expired"}]
      /\ {saving, opening} \subseteq [Viewers -> BOOLEAN]
  BY DEF AttachmentsInit
<1>7. file \in [size : FileSizes, expire : ExpireTicks, enc : {"c1", ""}] BY DEF AttachmentsInit
<1>8. cipher.here \in BOOLEAN /\ cipher.until \in Nat BY <1>3
<1>9. expireAt \in Nat BY <1>2
<1> QED BY <1>4, <1>5, <1>6, <1>7, <1>8, <1>9 DEF FilesInv, AttachmentsTypeOK, Stages

LEMMA FilesStep == FilesInv /\ [AttachmentsNext]_attachmentVars => FilesInv'
<1> SUFFICES ASSUME FilesInv, [AttachmentsNext]_attachmentVars PROVE FilesInv' OBVIOUS
<1>1. PICK bytes : cipher \in Ciphers(bytes) BY DEF FilesInv
<1>2. /\ time \in 1..MaxTime /\ file \in [size : FileSizes, expire : ExpireTicks, enc : {"c1", ""}]
      /\ sending \in Stages /\ expireAt \in Nat
      /\ attached \in [Viewers -> Message] /\ saved \in [Viewers -> Message]
      /\ saving \in [Viewers -> BOOLEAN] /\ opening \in [Viewers -> BOOLEAN]
  BY DEF FilesInv, AttachmentsTypeOK, Stages, Message
<1>3. file.expire \in Nat BY <1>2, AttachmentsAssumption
<1>4. MaxTime \in Nat \ {0} BY AttachmentsAssumption
<1>5. \A from \in Nat : Deadline(from) \in Nat BY <1>3 DEF Deadline
<1>6. time \in 1..MaxTime /\ time \in Nat /\ time \in 0..MaxTime
  <2>1. time \in 1..MaxTime BY <1>2
  <2> QED BY <1>4, <2>1
<1>7. ASSUME NEW b, cipher' \in Ciphers(b), time' \in 1..MaxTime, UNCHANGED file, sending' \in Stages, expireAt' \in Nat,
             attached' \in [Viewers -> Message], saved' \in [Viewers -> Message],
             saving' \in [Viewers -> BOOLEAN], opening' \in [Viewers -> BOOLEAN]
      PROVE  FilesInv'
  <2>1. cipher'.here \in BOOLEAN /\ cipher'.until \in Nat BY <1>7 DEF Ciphers
  <2> QED BY <1>2, <1>7, <2>1 DEF FilesInv, AttachmentsTypeOK, Stages, Message
<1>8. \A at \in {"encrypting", "uploading", "saved", "sent", "failed"} : [sending EXCEPT !.at = at] \in Stages
  BY <1>2 DEF Stages
<1>9. \A h \in BOOLEAN : [cipher EXCEPT !.here = h] \in Ciphers(bytes) BY <1>1 DEF Ciphers
<1>10. CASE sendFile
  <2>1. sending' \in Stages /\ UNCHANGED <<time, file, cipher, expireAt, Pages>> BY <1>6, <1>10 DEF sendFile, Stages
  <2> QED BY <1>1, <1>2, <1>7, <2>1 DEF Pages
<1>11. CASE uploadStarts
  <2> DEFINE x == IF file.enc = "c1" THEN encryptFileChunked ELSE encryptBytes
  <2>1. sending' \in Stages /\ UNCHANGED <<time, file, expireAt, Pages>> BY <1>8, <1>11 DEF uploadStarts
  <2>2. cipher' = [here |-> FALSE, until |-> Deadline(time), bytes |-> x] BY <1>11 DEF uploadStarts
  <2> HIDE DEF x
  <2>3. cipher' \in Ciphers({x}) BY <1>5, <1>6, <2>2 DEF Ciphers
  <2> QED BY <1>2, <1>7, <2>1, <2>3 DEF Pages
<1>12. CASE uploadSaved
  <2>1. sending' \in Stages /\ cipher' \in Ciphers(bytes) /\ UNCHANGED <<time, file, expireAt, Pages>>
    BY <1>8, <1>9, <1>12 DEF uploadSaved
  <2> QED BY <1>2, <1>7, <2>1 DEF Pages
<1>13. CASE sendFails
  <2>1. sending' \in Stages /\ UNCHANGED <<time, file, cipher, expireAt, Pages>> BY <1>8, <1>13 DEF sendFails
  <2> QED BY <1>1, <1>2, <1>7, <2>1 DEF Pages
<1>14. CASE uploadWithProgress
  <2>1. sending' \in Stages /\ expireAt' \in Nat /\ UNCHANGED <<time, file, cipher, Pages>>
    BY <1>5, <1>6, <1>8, <1>14 DEF uploadWithProgress, ExpiresAt
  <2> QED BY <1>1, <1>2, <1>7, <2>1 DEF Pages
<1>15. CASE pruneExpiredFiles \/ pruned
  <2>1. cipher' \in Ciphers(bytes) /\ UNCHANGED <<time, file, sending, expireAt, Pages>>
    BY <1>9, <1>15 DEF pruneExpiredFiles, pruned
  <2> QED BY <1>2, <1>7, <2>1 DEF Pages
<1>16. CASE passes
  <2>1. time < MaxTime /\ time' = time + 1 /\ UNCHANGED <<file, sending, cipher, expireAt, Pages>>
    BY <1>16 DEF passes
  <2>2. time' \in 1..MaxTime BY <1>4, <1>6, <2>1
  <2> QED BY <1>1, <1>2, <1>7, <2>1, <2>2 DEF Pages
<1>17. ASSUME NEW p \in Viewers, gets(p) \/ sweepExpiredImages(p) \/ saves(p) \/ reloads(p) \/ openAttachment(p)
                                 \/ \E whole \in BOOLEAN : downloaded(p, whole)
       PROVE  FilesInv'
  <2>1. UNCHANGED Sender
    BY <1>17 DEF gets, sweepExpiredImages, saves, reloads, openAttachment, downloaded
  <2>2. /\ attached' \in [Viewers -> Message] /\ saved' \in [Viewers -> Message]
        /\ saving' \in [Viewers -> BOOLEAN] /\ opening' \in [Viewers -> BOOLEAN]
    BY <1>2, <1>17 DEF gets, sweepExpiredImages, saves, reloads, openAttachment, downloaded, Message
  <2> QED BY <1>1, <1>2, <1>7, <2>1, <2>2 DEF Sender
<1>18. CASE UNCHANGED attachmentVars BY <1>1, <1>2, <1>7, <1>18 DEF attachmentVars
<1> QED BY <1>10, <1>11, <1>12, <1>13, <1>14, <1>15, <1>16, <1>17, <1>18 DEF AttachmentsNext

\* Whatever the parts of a page do, in any order, its variables keep their types:
\* no conversation shows an id twice or outgrows its cap, and the ids remembered
\* are distinct, also those that a reload collects from all conversations.
THEOREM PageTypeCorrect == PageSpec => []PageTypeOK
<1> DEFINE Inv == InboxInv /\ InboxRest /\ CallsInv /\ SessionInv /\ FilesInv
           pageVars == <<inboxVars, callsVars, sessionVars, attachmentVars>>
<1>1. PageInit => Inv BY InboxStarts, InboxRestStarts, CallsStart, SessionStarts, FilesStart DEF PageInit
<1>2. Inv /\ [PageNext]_pageVars => Inv'
  <2>1. [PageNext]_pageVars => /\ [InboxNext]_inboxVars /\ [CallsNext]_callsVars
                               /\ [SessionNext]_sessionVars /\ [AttachmentsNext]_attachmentVars
    BY DEF PageNext, InboxMoves, CallsMove, SessionMoves, AttachmentsMove
  <2> QED BY <2>1, InboxStep, InboxRestStep, CallsStep, SessionStep, FilesStep
<1>3. Inv => PageTypeOK
  BY InboxTyped DEF PageTypeOK, CallsInv, SessionInv, FilesInv
<1> QED BY <1>1, <1>2, <1>3, PTL DEF PageSpec
===============================================================================
