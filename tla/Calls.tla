------------------------------- MODULE Calls --------------------------------
(***************************************************************************)
(* Voice and video calls of one page (apps/web/src/main.js).  The page has *)
(* one current call, but startCall and acceptCall await lookups, relay     *)
(* credentials, the microphone prompt and WebRTC, while signals arrive and *)
(* the user clicks: each goes on with whatever call is current by then.    *)
(*                                                                         *)
(* A call id stands for its call object.  A stream and a peer connection   *)
(* are named by the call and the async function that made them.            *)
(***************************************************************************)
EXTENDS FiniteSets

CONSTANTS
  CallIds,      \* ids of calls, the user's and the peers'
  CallTasks,    \* runs of startCall and acceptCall in flight at once (a bound)
  NoCall        \* no call, no stream, no connection, no cached answer

ASSUME CallsAssumption == NoCall \notin CallIds \cup BOOLEAN \cup (CallIds \X CallTasks)

VARIABLES
  call,         \* state.call
  object,       \* object[c]: [role, mic, pc], what the code put in call c
  running,      \* running[t]: an async function at an await
  mics,         \* streams whose tracks are live
  pcs,          \* open peer connections: [id, direct]
  turn,         \* iceServersCache: is there a relay?
  consented,    \* history: calls whose user agreed to show the IP address
  strayed       \* history: streams that came late or whose call was replaced

callsVars == <<call, object, running, mics, pcs, turn, consented, strayed>>

Streams == CallIds \X CallTasks
Objects == [role : {"none", "caller", "callee", "ended"}, mic : Streams \cup {NoCall}, pc : Streams \cup {NoCall}]
NotRunning == [kind |-> "idle", at |-> "none", of |-> NoCall]
At(t, at) == running[t].at = at
GoTo(t, at) == running' = [running EXCEPT ![t].at = at]
Ends(t) == running' = [running EXCEPT ![t] = NotRunning]

CallsInit ==
  /\ call = NoCall
  /\ object = [c \in CallIds |-> [role |-> "none", mic |-> NoCall, pc |-> NoCall]]
  /\ running = [t \in CallTasks |-> NotRunning]
  /\ mics = {} /\ pcs = {} /\ turn = NoCall /\ consented = {} /\ strayed = {}

\* What the code keeps of a call that has ended: nobody asks for more.
Ended == [role |-> "ended", mic |-> NoCall, pc |-> NoCall]
MicOf(c) == IF c = NoCall THEN {} ELSE {object[c].mic} \ {NoCall}

\* (For the mutants.)
endCallMicOn ==
  /\ call' = NoCall
  /\ UNCHANGED mics
  /\ pcs' = IF call = NoCall THEN pcs ELSE {x \in pcs : x.id # object[call].pc}
  /\ object' = [c \in CallIds |-> IF c = call THEN Ended ELSE object[c]]

\* endCall, whoever calls it: it releases what the current call holds.
endCall ==
  /\ call' = NoCall
  /\ mics' = mics \ MicOf(call)
  /\ pcs' = IF call = NoCall THEN pcs ELSE {x \in pcs : x.id # object[call].pc}
  /\ object' = [c \in CallIds |-> IF c = call THEN Ended ELSE object[c]]

\* rejectCall, hang-up, the peer's hang-up or reject, and a connection of any
\* call, past ones too, that fails: all end the current call.
rejectCall == call # NoCall /\ endCall /\ UNCHANGED <<running, turn, consented, strayed>>
handleHangup(c) == call = c /\ rejectCall
connectionFails(x) == x \in pcs /\ rejectCall

\* An id that is new; they are interchangeable, so one stands for all.
NewIds ==
  LET unused == {c \in CallIds : object[c].role = "none"}
  IN IF unused = {} THEN {} ELSE {CHOOSE c \in unused : TRUE}

\* An offer while there is a call is answered with a reject.
handleOffer(c) ==
  /\ call = NoCall /\ c \in NewIds
  /\ call' = c
  /\ object' = [object EXCEPT ![c].role = "callee"]
  /\ UNCHANGED <<running, mics, pcs, turn, consented, strayed>>

-----------------------------------------------------------------------------
(* startCall and acceptCall, await by await                                *)

startCall(t) ==
  /\ running[t] = NotRunning /\ call = NoCall
  /\ running' = [running EXCEPT ![t] = [kind |-> "start", at |-> "keys", of |-> NoCall]]
  /\ UNCHANGED <<call, object, mics, pcs, turn, consented, strayed>>

\* The peer's cards came; changed keys stop the call.
keysChecked(t, unverified) ==
  /\ At(t, "keys")
  /\ IF unverified THEN Ends(t) ELSE GoTo(t, "ice")
  /\ UNCHANGED <<call, object, mics, pcs, turn, consented, strayed>>

acceptCall(t) ==
  /\ running[t] = NotRunning /\ call # NoCall /\ object[call].role = "callee"
  /\ <<call, t>> \notin mics /\ \A x \in pcs : x.id # <<call, t>>
  /\ running' = [running EXCEPT ![t] = [kind |-> "accept", at |-> "ice", of |-> call]]
  /\ UNCHANGED <<call, object, mics, pcs, turn, consented, strayed>>

\* fetchIceServers answers from its cache, or asks the server again.
fetchIceServers(relay) ==
  /\ turn # NoCall => relay = turn
  /\ turn' = relay
iceServersExpire ==
  /\ turn # NoCall /\ turn' = NoCall
  /\ UNCHANGED <<call, object, running, mics, pcs, consented, strayed>>

\* Without a relay the user is asked.  A caller's call object takes the place
\* of whatever call has come meanwhile.
confirmCallIpExposure(t, relay, agreed) ==
  /\ At(t, "ice") /\ fetchIceServers(relay)
  /\ IF ~relay /\ ~agreed
     THEN /\ Ends(t) /\ UNCHANGED <<consented, strayed>>
          /\ IF running[t].kind = "accept" THEN endCall ELSE UNCHANGED <<call, object, mics, pcs>>
     ELSE \E c \in CallIds :
            /\ consented' = IF relay THEN consented ELSE consented \cup {c}
            /\ UNCHANGED <<mics, pcs>>
            /\ running' = [running EXCEPT ![t].at = "media", ![t].of = c]
            /\ IF running[t].kind = "accept" THEN c = running[t].of /\ UNCHANGED <<call, object, strayed>>
               ELSE /\ c \in NewIds
                    /\ call' = c
                    /\ object' = [object EXCEPT ![c].role = "caller"]
                    /\ strayed' = strayed \cup MicOf(call)

\* The object that t fills: the caller's code names state.call each time.
Target(t) == IF running[t].kind = "start" THEN call ELSE running[t].of
Made(t) == <<running[t].of, t>>

\* An exception: startCall ends the current call, acceptCall rejects it.
throws(t) == Ends(t) /\ endCall

\* The microphone prompt is refused, or answered: the stream may come late,
\* and takes the place of an earlier one when the call was accepted twice.
getLocalMedia(t, granted) ==
  /\ At(t, "media")
  /\ UNCHANGED <<turn, consented>>
  /\ IF ~granted THEN throws(t) /\ UNCHANGED strayed
     ELSE LET d == Target(t)
          IN /\ strayed' = strayed \cup MicOf(d) \cup IF call = running[t].of THEN {} ELSE {Made(t)}
             /\ mics' = mics \cup {Made(t)}
             /\ UNCHANGED <<call, pcs>>
             /\ IF d = NoCall THEN Ends(t) /\ UNCHANGED object
                ELSE GoTo(t, "pc") /\ object' = [object EXCEPT ![d].mic = Made(t)]

\* The connection is relay-only when there is a relay now.
newPeerConnection(t, relay) ==
  /\ At(t, "pc") /\ fetchIceServers(relay)
  /\ UNCHANGED <<call, mics, consented, strayed>>
  /\ pcs' = pcs \cup {[id |-> Made(t), direct |-> ~relay]}
  /\ IF Target(t) = NoCall THEN Ends(t) /\ UNCHANGED object
     ELSE GoTo(t, "sdp") /\ object' = [object EXCEPT ![Target(t)].pc = Made(t)]

\* The descriptions are made and the offer or answer sent, unless WebRTC
\* refuses, as it does on a connection that endCall closed.
negotiated(t, ok) ==
  /\ At(t, "sdp")
  /\ ok => \E x \in pcs : x.id = Made(t)
  /\ IF ok THEN Ends(t) /\ UNCHANGED <<call, object, mics, pcs>> ELSE throws(t)
  /\ UNCHANGED <<turn, consented, strayed>>

-----------------------------------------------------------------------------
CallsNext ==
  \/ rejectCall \/ iceServersExpire \/ \E x \in pcs : connectionFails(x)
  \/ \E c \in CallIds : handleOffer(c) \/ handleHangup(c)
  \/ \E t \in CallTasks :
       \/ startCall(t) \/ acceptCall(t)
       \/ \E yes \in BOOLEAN : keysChecked(t, yes) \/ getLocalMedia(t, yes) \/ negotiated(t, yes)
       \/ \E relay \in BOOLEAN : newPeerConnection(t, relay)
       \/ \E relay, agreed \in BOOLEAN : confirmCallIpExposure(t, relay, agreed)

CallsSpec == CallsInit /\ [][CallsNext]_callsVars

CallsTypeOK ==
  /\ call \in CallIds \cup {NoCall}
  /\ object \in [CallIds -> Objects]
  /\ running \in [CallTasks -> [kind : {"idle", "start", "accept"},
                                at : {"none", "keys", "ice", "media", "pc", "sdp"}, of : CallIds \cup {NoCall}]]
  /\ mics \subseteq Streams /\ strayed \subseteq Streams
  /\ pcs \subseteq [id : Streams, direct : BOOLEAN]
  /\ turn \in BOOLEAN \cup {NoCall} /\ consented \subseteq CallIds

\* A live microphone belongs to the current call, so that ending the call turns
\* it off, unless the prompt was answered after its call had ended or been
\* replaced, or the call was accepted twice, or replaced while it held it.
MicReleased ==
  \A s \in mics \ strayed : call # NoCall /\ object[call].mic = s

\* "When no relay is available we do NOT leak silently - the caller/callee must
\* first consent to exposing their IP" (main.js:1705-1707): a connection that
\* gathers direct candidates is of a call whose user has agreed.
ConsentedExposure == \A x \in pcs : x.direct => x.id[1] \in consented
=============================================================================
