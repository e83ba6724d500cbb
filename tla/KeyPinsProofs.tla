---------------------------- MODULE KeyPinsProofs ----------------------------
(***************************************************************************)
(* For every set of peers, keys and async functions in flight: types, and  *)
(* that nothing is sent or shown without a warning under keys that nobody  *)
(* vouched for.  The properties look at the moment of a send or a display; *)
(* the inductive invariant says what a pin that raises no warning is worth *)
(* in between.                                                             *)
(***************************************************************************)
EXTENDS KeyPins, TLAPS

USE KeyPinsAssumption

-----------------------------------------------------------------------------
(* Types *)

Convs(kind) == IF kind = "call" THEN Peers ELSE Peers \cup {None}
Loops == {"open", "fan", "call", "create", "sync"}
Kinds == Loops \cup {"profile"}

\* A task that is in a loop, or awaits a bundle, has the fields of its kind.
LEMMA TaskFields ==
  ASSUME TypeOK, NEW t \in Tasks
  PROVE  /\ task[t].kind \in Kinds => task[t] \in Looking({task[t].kind}, Convs(task[t].kind))
         /\ task[t].kind = "verify" => task[t].h \in Peers /\ task[t].key \in Keys
<1>1. task[t] \in TaskStates BY DEF TypeOK
<1> QED BY <1>1 DEF TaskStates, Idle, Looking, Kinds, Loops, Convs

LEMMA LookingIsTask ==
  ASSUME NEW kind \in Kinds
  PROVE  Looking({kind}, Convs(kind)) \subseteq TaskStates
  BY DEF TaskStates, Looking, Kinds, Loops, Convs

\* checkPin and mergeSyncedPin make pins.
LEMMA PinType ==
  ASSUME TypeOK, NEW h \in Peers, NEW fp \in Keys
  PROVE  PinAfter(h, fp) \in Pins /\ PinAfter(h, fp) # None /\ PinAfter(h, fp).fp = fp
<1>1. pins[h] = None \/ pins[h] \in Pins BY DEF TypeOK
<1>2. \A pin \in Pins : pin # None BY DEF Pins
<1>3. PinAfter(h, fp) \in Pins BY <1>1 DEF PinAfter, Pins
<1>4. PinAfter(h, fp).fp = fp BY DEF PinAfter
<1> QED BY <1>2, <1>3, <1>4

LEMMA MergedType ==
  ASSUME NEW local \in Pins \cup {None}, NEW synced \in Pins \cup {None}
  PROVE  Merged(local, synced) \in Pins \cup {None}
  BY DEF Merged, Pins

LEMMA FirstPinType ==
  ASSUME NEW h \in Peers, NEW pin \in Pins \cup {None}
  PROVE  FirstPin(h, pin) \subseteq Keys
  BY DEF FirstPin, Pins

LEMMA TookType ==
  ASSUME TypeOK, NEW h \in Peers, NEW fp \in Keys, Took(h, fp)
  PROVE  /\ pins' \in [Peers -> Pins \cup {None}]
         /\ contacts' \in [Peers -> Keys \cup {None}]
         /\ vouched' \in [Peers -> SUBSET Keys]
<1>1. PinAfter(h, fp) \in Pins BY PinType
<1>2. FirstPin(h, PinAfter(h, fp)) \subseteq Keys BY <1>1, FirstPinType
<1> QED BY <1>1, <1>2 DEF Took, TypeOK

LEMMA NextHandleType ==
  ASSUME TypeOK, NEW t \in Tasks, NEW kind \in Loops, NEW conv \in Convs(kind),
         NEW captured \in SUBSET Peers, NEW todo \in SUBSET Peers,
         NextHandle(t, kind, conv, captured, todo)
  PROVE  task' \in [Tasks -> TaskStates]
<1>1. Idle \in TaskStates BY DEF TaskStates
<1>2. Looking({kind}, Convs(kind)) \subseteq TaskStates BY LookingIsTask DEF Kinds
<1>3. ASSUME NEW h \in todo, NEW S \in SUBSET todo,
             task' = [task EXCEPT ![t] = [kind |-> kind, conv |-> conv, captured |-> captured,
                        todo |-> todo \ (S \cup {h}), at |-> "lookup", h |-> h]]
      PROVE  task' \in [Tasks -> TaskStates]
  <2>1. [kind |-> kind, conv |-> conv, captured |-> captured,
         todo |-> todo \ (S \cup {h}), at |-> "lookup", h |-> h] \in Looking({kind}, Convs(kind))
    BY DEF Looking
  <2> QED BY <1>2, <1>3, <2>1 DEF TypeOK
<1>4. CASE task' = [task EXCEPT ![t] = IF kind \in {"open", "sync"} THEN Idle ELSE
                      [kind |-> kind, conv |-> conv, captured |-> captured,
                       todo |-> {}, at |-> "looked", h |-> None]]
  <2>1. [kind |-> kind, conv |-> conv, captured |-> captured,
         todo |-> {}, at |-> "looked", h |-> None] \in Looking({kind}, Convs(kind))
    BY DEF Looking
  <2> QED BY <1>1, <1>2, <1>4, <2>1 DEF TypeOK
<1> QED BY <1>3, <1>4 DEF NextHandle

LEMMA TypeInit == Init => TypeOK
  BY DEF Init, TypeOK, TaskStates, Idle, EmptyDisk

\* The number on the screen is that of a pinned handle, so that its confirmation
\* marks a pin.
ShownPinned == shown # None => pins[shown.h] # None

LEMMA TypeStep == TypeOK /\ ShownPinned /\ [Next]_vars => TypeOK'
<1> SUFFICES ASSUME TypeOK, ShownPinned, [Next]_vars PROVE TypeOK' OBVIOUS
<1> USE DEF state, history, saveContactsLocal, TypeOK, Groups, Answers
<1>id. Idle \in TaskStates BY DEF TaskStates
<1>1. ASSUME NEW t \in Tasks, NEW fp \in Answers, fetchBundle(t, fp) PROVE TypeOK'
  <2>1. /\ task[t] \in Looking({task[t].kind}, Convs(task[t].kind))
        /\ task[t].kind \in Loops /\ task[t].at = "lookup"
    BY <1>1, TaskFields DEF fetchBundle, AtLookup, Loops, Kinds
  <2>2. task[t].h \in Peers BY <2>1 DEF Looking
  <2>3. task' \in [Tasks -> TaskStates]
    BY <1>1, <2>1, NextHandleType DEF fetchBundle, Looking
  <2>4. CASE fp = None BY <1>1, <2>3, <2>4 DEF fetchBundle
  <2>5. CASE fp # None BY <1>1, <2>2, <2>3, <2>5, TookType DEF fetchBundle
  <2> QED BY <2>4, <2>5
<1>2. ASSUME NEW t \in Tasks, NEW h \in Peers, OpenContact(t, h) PROVE TypeOK'
  <2>1. NextHandle(t, "open", h, {}, {h}) BY <1>2 DEF OpenContact
  <2>2. "open" \in Loops /\ h \in Convs("open") BY DEF Loops, Convs
  <2>3. {} \in SUBSET Peers /\ {h} \in SUBSET Peers OBVIOUS
  <2>4. task' \in [Tasks -> TaskStates] BY <2>1, <2>2, <2>3, NextHandleType
  <2> QED BY <1>2, <2>4 DEF OpenContact
<1>3. ASSUME NEW t \in Tasks, NEW h \in Peers, StartCall(t, h) PROVE TypeOK'
  <2>1. NextHandle(t, "call", h, {h}, {h}) BY <1>3 DEF StartCall
  <2>2. "call" \in Loops /\ h \in Convs("call") /\ {h} \in SUBSET Peers BY DEF Loops, Convs
  <2>3. task' \in [Tasks -> TaskStates] BY <2>1, <2>2, NextHandleType
  <2> QED BY <1>3, <2>3 DEF StartCall
<1>4. ASSUME NEW t \in Tasks, NEW kind \in {"fan", "profile"}, NEW conv \in Peers \cup {None},
             StartSend(t, kind, conv)
      PROVE TypeOK'
  <2>1. [kind |-> kind, conv |-> conv, captured |-> {}, todo |-> {}, at |-> "mine", h |-> None]
          \in TaskStates
    BY DEF TaskStates, Looking
  <2> QED BY <1>4, <2>1 DEF StartSend
<1>5. ASSUME NEW t \in Tasks, loadMyBundle(t) PROVE TypeOK'
  <2>1. task[t].conv \in Peers \cup {None}
    BY <1>5, TaskFields DEF loadMyBundle, Looking, Convs, Kinds, Loops
  <2>2. Recipients(task[t].conv) \subseteq Peers BY <2>1 DEF Recipients, Members
  <2> QED BY <1>5, <2>1, <2>2, NextHandleType DEF loadMyBundle, Loops, Convs
<1>6. ASSUME NEW t \in Tasks, fanOutConv(t) PROVE TypeOK'
  <2>1. task[t].captured \subseteq Peers
    BY <1>6, TaskFields DEF fanOutConv, Looking, Kinds, Loops
  <2> QED BY <1>6, <1>id, <2>1 DEF fanOutConv, SendTo
<1>7. ASSUME NEW t \in Tasks, broadcastProfile(t) PROVE TypeOK'
  BY <1>7, <1>id DEF broadcastProfile, SendTo
<1>8. ASSUME NEW t \in Tasks, CallChecked(t) PROVE TypeOK'
  <2>1. task[t] \in Looking({"call"}, Peers) /\ task[t].at = "looked"
    BY <1>8, TaskFields DEF CallChecked, Convs, Kinds, Loops
  <2>2. [task[t] EXCEPT !.at = "media"] \in Looking({"call"}, Peers) BY <2>1 DEF Looking
  <2>3. [task[t] EXCEPT !.at = "media"] \in TaskStates BY <2>2 DEF TaskStates
  <2> QED BY <1>8, <1>id, <2>3 DEF CallChecked
<1>9. ASSUME NEW t \in Tasks, CallOffered(t) PROVE TypeOK'
  <2>1. task[t].conv \in Peers
    BY <1>9, TaskFields DEF CallOffered, Looking, Convs, Kinds, Loops
  <2> QED BY <1>9, <1>id, <2>1 DEF CallOffered, SendTo
<1>10. ASSUME NEW t \in Tasks, NEW h \in Peers, NEW key \in Keys, NEW g \in Groups,
              Deliver(t, h, key, g)
       PROVE TypeOK'
  <2>1. [kind |-> "verify", key |-> key, h |-> h] \in TaskStates BY DEF TaskStates
  <2>2. CASE contacts[h] = key BY <1>10, <2>2 DEF Deliver, Shown, Adopts
  <2>3. CASE contacts[h] # key BY <1>10, <2>1, <2>3 DEF Deliver
  <2> QED BY <2>2, <2>3
<1>11. ASSUME NEW t \in Tasks, NEW fp \in Answers, NEW g \in Groups, verifySender(t, fp, g)
       PROVE TypeOK'
  <2>1. task[t].h \in Peers /\ task[t].key \in Keys BY <1>11, TaskFields DEF verifySender
  <2>2. /\ pins' \in [Peers -> Pins \cup {None}]
        /\ contacts' \in [Peers -> Keys \cup {None}]
        /\ vouched' \in [Peers -> SUBSET Keys]
    BY <1>11, <2>1, TookType DEF verifySender
  <2>3. /\ group' \in Groups /\ trusted' \subseteq Peers
        /\ disk' \in [contacts : [Peers -> Keys \cup {None}], group : Groups]
    BY <1>11, <2>1, <2>2 DEF verifySender, Shown, Adopts
  <2> QED BY <1>11, <1>id, <2>2, <2>3 DEF verifySender
<1>12. ASSUME NEW h \in Peers, openSafetyNumber(h) PROVE TypeOK'
  BY <1>12 DEF openSafetyNumber
<1>13. CASE markVerified
  <2>1. shown.h \in Peers /\ shown.key \in Keys BY <1>13 DEF markVerified
  <2>2. pins[shown.h] \in Pins BY <1>13, <2>1 DEF markVerified, ShownPinned
  <2>3. [pins[shown.h] EXCEPT !.ok = TRUE] \in Pins BY <2>2 DEF Pins
  <2> DEFINE h == shown.h
  <2>4. pins' = [pins EXCEPT ![h] = [pins[h] EXCEPT !.ok = TRUE]] BY <1>13 DEF markVerified
  <2>5. pins' \in [Peers -> Pins \cup {None}] BY <2>1, <2>3, <2>4
  <2>6. vouched' \in [Peers -> SUBSET Keys] /\ misread' \subseteq Peers BY <1>13, <2>1 DEF markVerified
  <2> QED BY <1>13, <2>5, <2>6 DEF markVerified
<1>14. ASSUME NEW h \in Peers, NEW block \in BOOLEAN, Forget(h, block) PROVE TypeOK'
  BY <1>14 DEF Forget
<1>15. ASSUME NEW h \in Peers, unblock(h) PROVE TypeOK' BY <1>15 DEF unblock
<1>16. CASE leaveGroup BY <1>16 DEF leaveGroup
<1>17. ASSUME NEW t \in Tasks, NEW g \in SUBSET Peers, createGroup(t, g) PROVE TypeOK'
  BY <1>17, NextHandleType DEF createGroup, Loops, Convs
<1>18. ASSUME NEW t \in Tasks, GroupCreated(t) PROVE TypeOK'
  <2>1. task[t] \in Looking({"create"}, Peers \cup {None}) /\ task[t].at = "looked"
    BY <1>18, TaskFields DEF GroupCreated, Convs, Kinds, Loops
  <2>2. [task[t] EXCEPT !.kind = "fan", !.at = "mine"] \in Looking({"fan"}, Peers \cup {None})
    BY <2>1 DEF Looking
  <2>3. [task[t] EXCEPT !.kind = "fan", !.at = "mine"] \in TaskStates
    BY <2>2, LookingIsTask DEF Kinds, Loops, Convs
  <2> QED BY <1>18, <2>3 DEF GroupCreated
<1>19. ASSUME NEW t \in Tasks, AskBlob(t) PROVE TypeOK'
  <2>1. [kind |-> "blob"] \in TaskStates BY DEF TaskStates
  <2> QED BY <1>19, <2>1 DEF AskBlob
<1>20. ASSUME NEW t \in Tasks, NEW synced \in [Peers -> Pins \cup {None}],
              NEW blocks \in SUBSET Peers, NEW handles \in SUBSET Peers, NEW g \in Groups,
              loadContactsFromBlob(t, synced, blocks, g, handles)
       PROVE TypeOK'
  <2>1. pins' \in [Peers -> Pins \cup {None}]
    BY <1>20, MergedType DEF loadContactsFromBlob
  <2>2. vouched' \in [Peers -> SUBSET Keys]
    BY <1>20, FirstPinType DEF loadContactsFromBlob
  <2>3. task' \in [Tasks -> TaskStates]
    BY <1>20, NextHandleType DEF loadContactsFromBlob, Loops, Convs
  <2> QED BY <1>20, <2>1, <2>2, <2>3 DEF loadContactsFromBlob
<1>21. CASE Reload
  <2>1. pins' \in [Peers -> Pins \cup {None}] BY <1>21, PinType DEF Reload
  <2>2. vouched' \in [Peers -> SUBSET Keys] BY <1>21, <2>1, FirstPinType DEF Reload
  <2> QED BY <1>21, <1>id, <2>1, <2>2 DEF Reload
<1>22. CASE UNCHANGED vars BY <1>22 DEF vars
<1>24. CASE clearSession BY <1>24, <1>id DEF clearSession, EmptyDisk
<1> HIDE DEF TypeOK, Groups, Answers, state, history, saveContactsLocal
<1>23. ASSUME NEW t \in Tasks, TaskNext(t) PROVE TypeOK'
  BY <1>1, <1>2, <1>3, <1>4, <1>5, <1>6, <1>7, <1>8, <1>9, <1>10, <1>11, <1>17, <1>18, <1>19,
     <1>20, <1>23 DEF TaskNext
<1> QED BY <1>12, <1>13, <1>14, <1>15, <1>16, <1>21, <1>22, <1>23, <1>24 DEF Next

-----------------------------------------------------------------------------
(* What is pinned *)

\* A pin that raises no warning is of keys that were vouched for, unless the
\* user confirmed other keys than the ones on the screen.
PinVouched(h) == pins[h] # None /\ pins[h].ok /\ h \notin misread => pins[h].fp \in vouched[h]
PinsVouched == \A h \in Peers : PinVouched(h)

PinInv == PinnedCards /\ ShownPinned /\ PinsVouched

\* What an action does to the pin, the cards and the record of one handle.
Kept(h) ==
  /\ pins'[h] = pins[h] /\ vouched[h] \subseteq vouched'[h]
  /\ contacts'[h] \in {contacts[h], None}
Seen(h, fp) ==
  /\ pins'[h] = PinAfter(h, fp) /\ contacts'[h] \in {fp, None}
  /\ vouched'[h] = vouched[h] \cup FirstPin(h, PinAfter(h, fp))

\* Neither can end a warning, part a card from its pin, or unpin.
LEMMA KeptOrSeen ==
  ASSUME TypeOK, PinInv, NEW h \in Peers, Kept(h) \/ \E fp \in Keys : Seen(h, fp),
         misread \subseteq misread'
  PROVE  /\ contacts'[h] # None => pins'[h] # None /\ pins'[h].fp = contacts'[h]
         /\ pins[h] # None => pins'[h] # None
         /\ PinVouched(h)'
         /\ isUnverified(h) => Changed(pins'[h])
<1> USE DEF PinInv, PinnedCards, PinsVouched, PinVouched, isUnverified, Changed, TypeOK
<1>1. CASE Kept(h) BY <1>1 DEF Kept
<1>2. ASSUME NEW fp \in Keys, Seen(h, fp)
      PROVE  /\ contacts'[h] # None => pins'[h] # None /\ pins'[h].fp = contacts'[h]
             /\ pins[h] # None => pins'[h] # None
             /\ PinVouched(h)'
             /\ isUnverified(h) => Changed(pins'[h])
  <2>1. PinAfter(h, fp) \in Pins BY PinType
  <2>2. pins'[h] # None /\ pins'[h].fp = fp BY <1>2, PinType DEF Seen
  <2>3. isUnverified(h) => Changed(pins'[h]) BY <1>2, <2>1 DEF Seen, PinAfter, Pins
  <2>4. PinVouched(h)'
    <3>1. CASE pins[h] = None BY <1>2, <3>1 DEF Seen, PinAfter, FirstPin, Pins
    <3>2. CASE pins[h] # None /\ pins[h].fp = fp BY <1>2, <3>2 DEF Seen, PinAfter
    <3>3. CASE pins[h] # None /\ pins[h].fp # fp BY <1>2, <3>3 DEF Seen, PinAfter
    <3> QED BY <3>1, <3>2, <3>3
  <2> QED BY <1>2, <2>2, <2>3, <2>4 DEF Seen
<1> QED BY <1>1, <1>2

Blob ==
  \E t \in Tasks, synced \in [Peers -> Pins \cup {None}], blocks, handles \in SUBSET Peers,
     g \in Groups : loadContactsFromBlob(t, synced, blocks, g, handles)

LEMMA TookSeen ==
  ASSUME TypeOK, NEW h \in Peers, NEW fp, Took(h, fp), NEW k \in Peers
  PROVE  IF k = h THEN Seen(k, fp) ELSE Kept(k)
  BY DEF TypeOK, Took, Seen, Kept

\* All but the sync, the user's click and the end of the session look cards up or
\* leave them.
LEMMA CardsStep ==
  ASSUME TypeOK, [Next]_vars, ~Blob, ~markVerified, ~clearSession, NEW k \in Peers
  PROVE  (Kept(k) \/ \E fp \in Keys : Seen(k, fp)) /\ misread' = misread
<1> USE DEF state, history
<1> DEFINE Goal == (Kept(k) \/ \E fp \in Keys : Seen(k, fp)) /\ misread' = misread
<1> SUFFICES Goal OBVIOUS
<1>0. ASSUME UNCHANGED <<pins, contacts, vouched, misread>> PROVE Goal BY <1>0 DEF Kept
<1>1. ASSUME NEW t \in Tasks, NEW fp \in Answers, fetchBundle(t, fp) PROVE Goal
  <2>1. task[t].h \in Peers
    BY <1>1, TaskFields DEF fetchBundle, AtLookup, Looking, Loops, Kinds
  <2>2. CASE fp = None BY <1>1, <2>2 DEF fetchBundle, Kept
  <2>3. CASE fp # None
    <3>1. fp \in Keys /\ Took(task[t].h, fp) BY <1>1, <2>3 DEF fetchBundle, Answers
    <3> QED BY <1>1, <2>1, <3>1, TookSeen DEF fetchBundle
  <2> QED BY <2>2, <2>3
<1>2. ASSUME NEW t \in Tasks, NEW fp \in Answers, NEW g \in Groups, verifySender(t, fp, g)
      PROVE Goal
  <2>1. task[t].h \in Peers BY <1>2, TaskFields DEF verifySender
  <2>2. CASE fp = None BY <1>2, <2>2 DEF verifySender, Kept
  <2>3. CASE fp # None
    <3>1. fp \in Keys /\ Took(task[t].h, fp) BY <1>2, <2>3 DEF verifySender, Answers
    <3> QED BY <1>2, <2>1, <3>1, TookSeen DEF verifySender
  <2> QED BY <2>2, <2>3
<1>3. ASSUME NEW h \in Peers, NEW block \in BOOLEAN, Forget(h, block) PROVE Goal
  BY <1>3 DEF Forget, Kept, TypeOK
<1>4. CASE Reload
  <2>1. CASE disk.contacts[k] = None BY <1>4, <2>1 DEF Reload, Kept, TypeOK
  <2>2. CASE disk.contacts[k] # None
    <3>1. disk.contacts[k] \in Keys BY <2>2 DEF TypeOK
    <3>2. Seen(k, disk.contacts[k]) BY <1>4, <2>2 DEF Reload, Seen
    <3> QED BY <1>4, <3>1, <3>2 DEF Reload
  <2> QED BY <2>1, <2>2
<1>5. ASSUME NEW t \in Tasks, TaskNext(t) PROVE Goal
  <2>1. ASSUME NEW h \in Peers, OpenContact(t, h) \/ StartCall(t, h) \/ StartSend(t, "fan", h)
        PROVE Goal
    BY <1>0, <2>1 DEF OpenContact, StartCall, StartSend
  <2>2. CASE StartSend(t, "fan", None) \/ StartSend(t, "profile", None) \/ loadMyBundle(t)
    BY <1>0, <2>2 DEF StartSend, loadMyBundle
  <2>3. CASE fanOutConv(t) \/ broadcastProfile(t) BY <1>0, <2>3 DEF fanOutConv, broadcastProfile
  <2>4. CASE CallChecked(t) \/ CallOffered(t) BY <1>0, <2>4 DEF CallChecked, CallOffered
  <2>5. ASSUME NEW h \in Peers, NEW key \in Keys, NEW g \in Groups, Deliver(t, h, key, g)
        PROVE Goal
    BY <1>0, <2>5 DEF Deliver
  <2>6. ASSUME NEW g \in SUBSET Peers, createGroup(t, g) PROVE Goal
    BY <1>0, <2>6 DEF createGroup
  <2>7. CASE GroupCreated(t) \/ AskBlob(t) BY <1>0, <2>7 DEF GroupCreated, AskBlob
  <2> HIDE DEF Goal
  <2> QED BY <1>1, <1>2, <1>5, <2>1, <2>2, <2>3, <2>4, <2>5, <2>6, <2>7 DEF TaskNext, Blob
<1>6. ASSUME NEW h \in Peers, openSafetyNumber(h) PROVE Goal BY <1>0, <1>6 DEF openSafetyNumber
<1>7. ASSUME NEW h \in Peers, unblock(h) PROVE Goal BY <1>0, <1>7 DEF unblock
<1>8. CASE leaveGroup BY <1>0, <1>8 DEF leaveGroup
<1>9. CASE UNCHANGED vars BY <1>0, <1>9 DEF vars
<1> HIDE DEF Goal, state, history
<1> QED BY <1>3, <1>4, <1>5, <1>6, <1>7, <1>8, <1>9 DEF Next

\* A sync: mergeSyncedPin keeps a warning, and trusts only what it first pins.
LEMMA BlobStep ==
  ASSUME TypeOK, PinInv, Blob, NEW h \in Peers
  PROVE  /\ contacts'[h] # None => pins'[h] # None /\ pins'[h].fp = contacts'[h]
         /\ pins[h] # None => pins'[h] # None
         /\ PinVouched(h)'
         /\ isUnverified(h) => Changed(pins'[h])
<1>1. PICK t \in Tasks, synced \in [Peers -> Pins \cup {None}], blocks \in SUBSET Peers,
           handles \in SUBSET Peers, g \in Groups :
        loadContactsFromBlob(t, synced, blocks, g, handles)
  BY DEF Blob
<1>2. /\ pins'[h] = Merged(pins[h], synced[h]) /\ contacts'[h] = contacts[h]
      /\ vouched'[h] = vouched[h] \cup FirstPin(h, synced[h]) /\ misread' = misread
  BY <1>1 DEF loadContactsFromBlob
<1>3. /\ pins[h] \in Pins \cup {None} /\ synced[h] \in Pins \cup {None}
      /\ \A pin \in Pins : pin # None
  BY DEF TypeOK, Pins
<1> USE DEF PinInv, PinnedCards, PinsVouched, PinVouched, isUnverified, Changed
<1>4. CASE pins[h] = None BY <1>2, <1>3, <1>4 DEF Merged, FirstPin
<1>5. CASE pins[h] # None
  <2>1. pins'[h] \in {pins[h], [pins[h] EXCEPT !.ok = FALSE]} BY <1>2, <1>5 DEF Merged
  <2>2. ~pins[h].ok => ~pins'[h].ok BY <1>2, <1>3, <1>5, <2>1 DEF Pins
  <2>3. pins'[h] \in Pins /\ pins'[h].fp = pins[h].fp /\ (pins'[h].ok => pins[h].ok)
    BY <1>3, <1>5, <2>1 DEF Pins
  <2> QED BY <1>2, <1>3, <1>5, <2>2, <2>3
<1> QED BY <1>4, <1>5

\* The click: of whatever is pinned by now.
LEMMA ClickStep ==
  ASSUME TypeOK, PinInv, markVerified, NEW h \in Peers
  PROVE  /\ contacts'[h] # None => pins'[h] # None /\ pins'[h].fp = contacts'[h]
         /\ pins[h] # None => pins'[h] # None
         /\ PinVouched(h)'
         /\ shown # None /\ (isUnverified(h) => Changed(pins'[h]) \/ shown.h = h)
<1>1. shown # None /\ shown.h \in Peers /\ pins[shown.h] # None
  BY DEF markVerified, TypeOK, PinInv, ShownPinned
<1>2. /\ pins' = [pins EXCEPT ![shown.h].ok = TRUE] /\ contacts' = contacts
      /\ vouched' = [vouched EXCEPT ![shown.h] = @ \cup {shown.key}]
      /\ misread' = IF pins[shown.h].fp = shown.key THEN misread ELSE misread \cup {shown.h}
  BY DEF markVerified
<1>3. CASE h # shown.h
  <2>1. pins'[h] = pins[h] /\ vouched'[h] = vouched[h] BY <1>2, <1>3 DEF TypeOK
  <2> QED BY <1>1, <1>2, <1>3, <2>1
          DEF PinInv, PinnedCards, PinsVouched, PinVouched, isUnverified, Changed
<1>4. CASE h = shown.h
  <2>1. pins[h] \in Pins BY <1>1, <1>4 DEF TypeOK
  <2>2. pins'[h] = [pins[h] EXCEPT !.ok = TRUE] /\ vouched'[h] = vouched[h] \cup {shown.key}
    BY <1>2, <1>4 DEF TypeOK
  <2>3. pins'[h] \in Pins /\ pins'[h].fp = pins[h].fp /\ pins'[h] # None
    BY <2>1, <2>2 DEF Pins
  <2> QED BY <1>1, <1>2, <1>4, <2>2, <2>3
          DEF PinInv, PinnedCards, PinsVouched, PinVouched
<1> QED BY <1>3, <1>4

\* Every step within a session, for the pin of one handle.
LEMMA PinStepOne ==
  ASSUME TypeOK, PinInv, [Next]_vars, ~clearSession, NEW h \in Peers
  PROVE  /\ contacts'[h] # None => pins'[h] # None /\ pins'[h].fp = contacts'[h]
         /\ pins[h] # None => pins'[h] # None
         /\ PinVouched(h)'
         /\ isUnverified(h) => Changed(pins'[h]) \/ (shown # None /\ shown.h = h)
<1>1. CASE Blob BY <1>1, BlobStep
<1>2. CASE markVerified BY <1>2, ClickStep
<1>3. CASE ~Blob /\ ~markVerified BY <1>3, CardsStep, KeptOrSeen
<1> QED BY <1>1, <1>2, <1>3

\* What is on the screen stays, goes, or is the cards of a contact.
LEMMA ShownStep ==
  ASSUME [Next]_vars
  PROVE  \/ shown' \in {shown, None}
         \/ \E h \in Peers : contacts[h] # None /\ shown' = [h |-> h, key |-> contacts[h]]
<1> DEFINE Goal == \/ shown' \in {shown, None}
                   \/ \E h \in Peers : contacts[h] # None /\ shown' = [h |-> h, key |-> contacts[h]]
<1> SUFFICES Goal OBVIOUS
<1>1. ASSUME NEW h \in Peers, openSafetyNumber(h) PROVE Goal BY <1>1 DEF openSafetyNumber
<1>2. ASSUME NEW t \in Tasks, TaskNext(t) PROVE Goal
  <2>1. shown' = shown
    BY <1>2 DEF TaskNext, fetchBundle, OpenContact, StartCall, StartSend, loadMyBundle, fanOutConv,
       broadcastProfile, CallChecked, CallOffered, Deliver, verifySender, createGroup,
       GroupCreated, AskBlob, loadContactsFromBlob
  <2> QED BY <2>1
<1>3. ASSUME NEW h \in Peers, NEW block \in BOOLEAN, Forget(h, block) PROVE Goal BY <1>3 DEF Forget
<1>4. ASSUME NEW h \in Peers, unblock(h) PROVE Goal BY <1>4 DEF unblock
<1>5. CASE markVerified \/ leaveGroup \/ Reload \/ clearSession
  BY <1>5 DEF markVerified, leaveGroup, Reload, clearSession
<1>6. CASE UNCHANGED vars BY <1>6 DEF vars
<1> HIDE DEF Goal
<1> QED BY <1>1, <1>2, <1>3, <1>4, <1>5, <1>6 DEF Next

LEMMA PinInit == Init => PinInv
  BY DEF Init, PinInv, PinnedCards, ShownPinned, PinsVouched, PinVouched

LEMMA PinStep == TypeOK /\ PinInv /\ [Next]_vars => PinInv'
<1>0. CASE clearSession
  BY <1>0 DEF clearSession, PinInv, PinnedCards, ShownPinned, PinsVouched, PinVouched
<1> SUFFICES ASSUME TypeOK, PinInv, [Next]_vars, ~clearSession PROVE PinInv' BY <1>0
<1>1. PinnedCards' BY PinStepOne DEF PinnedCards
<1>2. PinsVouched' BY PinStepOne DEF PinsVouched
<1>3. ShownPinned'
  <2>1. CASE shown' = shown BY <2>1, PinStepOne DEF ShownPinned, PinInv, TypeOK
  <2>2. CASE shown' = None BY <2>2 DEF ShownPinned
  <2>3. ASSUME NEW h \in Peers, contacts[h] # None, shown' = [h |-> h, key |-> contacts[h]]
        PROVE  ShownPinned'
    <3>1. pins[h] # None BY <2>3 DEF PinInv, PinnedCards
    <3>2. pins'[h] # None BY <3>1, PinStepOne
    <3> QED BY <2>3, <3>2 DEF ShownPinned
  <2> QED BY <2>1, <2>2, <2>3, ShownStep
<1> QED BY <1>1, <1>2, <1>3 DEF PinInv

\* Cards and pins agree in every state, whichever answer, sync, reload or end of
\* the session came last, and a pin without a warning is worth its record.
THEOREM PinInvariant == Spec => [](TypeOK /\ PinInv)
<1>1. Init => TypeOK /\ PinInv BY TypeInit, PinInit
<1>2. TypeOK /\ PinInv /\ [Next]_vars => (TypeOK /\ PinInv)' BY TypeStep, PinStep DEF PinInv
<1> QED BY <1>1, <1>2, PTL DEF Spec

\* Every variable keeps its type.
THEOREM TypeCorrect == Spec => []TypeOK
  BY PinInvariant, PTL

\* The cards that are encrypted to are the pinned ones.
THEOREM CardsPinned == Spec => []PinnedCards
<1>1. PinInv => PinnedCards BY DEF PinInv
<1> QED BY <1>1, PinInvariant, PTL

\* Within a session only the click of the user on the safety number of h ends a
\* warning about h; the other way is the end of the session.
THEOREM UserUnflags == Spec => OnlyUserUnflags
<1>1. TypeOK /\ PinInv /\ [Next]_vars =>
        [\A h \in Peers : isUnverified(h) /\ ~Changed(pins'[h]) =>
           (shown # None /\ shown.h = h) \/ clearSession]_vars
  BY PinStepOne
<1> QED BY <1>1, PinInvariant, PTL DEF Spec, OnlyUserUnflags

-----------------------------------------------------------------------------
(* What is sent and shown *)

\* Cards without a warning are vouched for, or were confirmed by mistake.
LEMMA HeldVouched ==
  ASSUME PinInv, NEW h \in Peers, contacts[h] # None, ~isUnverified(h)
  PROVE  contacts[h] \in vouched[h] \/ h \in misread
  BY DEF PinInv, PinnedCards, PinsVouched, PinVouched, isUnverified, Changed

LEMMA SentVouched ==
  ASSUME PinInv, NEW peers \in SUBSET Peers, SendTo(peers),
         NEW h \in exposed', h \notin exposed, ~isUnverified(h)
  PROVE  h \in misread
  BY HeldVouched DEF SendTo

LEMMA SendsStep == TypeOK /\ PinInv /\ SendsVouched /\ [Next]_vars => SendsVouched'
<1> SUFFICES ASSUME TypeOK, PinInv, SendsVouched, [Next]_vars, NEW h \in exposed'
             PROVE  h \in misread' \/ h \in strayed'
  BY DEF SendsVouched
<1> USE DEF state, history
<1> DEFINE Goal == h \in misread' \/ h \in strayed'
<1> SUFFICES Goal OBVIOUS
<1>0. ASSUME h \in exposed, misread \subseteq misread', strayed \subseteq strayed' PROVE Goal
  BY <1>0 DEF SendsVouched
<1>1. ASSUME NEW t \in Tasks, fanOutConv(t) PROVE Goal
  <2>1. task[t].captured \subseteq Peers
    BY <1>1, TaskFields DEF fanOutConv, Looking, Kinds, Loops
  <2>2. CASE h \in exposed BY <1>0, <1>1, <2>2 DEF fanOutConv
  <2>3. CASE h \notin exposed
    <3>1. /\ SendTo(task[t].captured) /\ misread' = misread
          /\ strayed' = strayed \cup (task[t].captured \ Recipients(task[t].conv))
          /\ ~Blocks(task[t].conv)
      BY <1>1, <2>3 DEF fanOutConv
    <3>2. h \in task[t].captured BY <2>3, <3>1 DEF SendTo
    <3>3. CASE h \in Recipients(task[t].conv)
      <4>1. ~isUnverified(h) BY <3>1, <3>3 DEF Blocks, unverifiedPeers
      <4> QED BY <2>1, <2>3, <3>1, <4>1, SentVouched
    <3> QED BY <3>1, <3>2, <3>3
  <2> QED BY <2>2, <2>3
<1>2. ASSUME NEW t \in Tasks, broadcastProfile(t) PROVE Goal
  <2>1. CASE h \in exposed BY <1>0, <1>2, <2>1 DEF broadcastProfile
  <2>2. CASE h \notin exposed
    <3>1. SendTo({p \in Peers : ~isUnverified(p)}) /\ misread' = misread
      BY <1>2 DEF broadcastProfile
    <3>2. ~isUnverified(h) BY <2>2, <3>1 DEF SendTo
    <3>3. {p \in Peers : ~isUnverified(p)} \in SUBSET Peers OBVIOUS
    <3> QED BY <2>2, <3>1, <3>2, <3>3, SentVouched
  <2> QED BY <2>1, <2>2
<1>3. ASSUME NEW t \in Tasks, CallOffered(t) PROVE Goal
  <2>1. task[t].conv \in Peers
    BY <1>3, TaskFields DEF CallOffered, Looking, Convs, Kinds, Loops
  <2>2. /\ SendTo({task[t].conv}) /\ misread' = misread
        /\ strayed' = strayed \cup {p \in {task[t].conv} : isUnverified(p)}
    BY <1>3 DEF CallOffered
  <2>3. CASE h \in exposed BY <1>0, <2>2, <2>3
  <2>4. CASE h \notin exposed
    <3>1. h = task[t].conv BY <2>2, <2>4 DEF SendTo
    <3>2. CASE ~isUnverified(h) BY <2>1, <2>2, <2>4, <3>2, SentVouched
    <3> QED BY <2>2, <3>1, <3>2
  <2> QED BY <2>3, <2>4
<1>4. ASSUME NEW t \in Tasks, TaskNext(t) PROVE Goal
  <2>1. CASE fanOutConv(t) \/ broadcastProfile(t) \/ CallOffered(t)
    BY <1>1, <1>2, <1>3, <2>1
  <2>2. CASE ~(fanOutConv(t) \/ broadcastProfile(t) \/ CallOffered(t))
    <3>1. exposed' = exposed /\ misread' = misread /\ strayed' = strayed
      BY <1>4, <2>2 DEF TaskNext, fetchBundle, OpenContact, StartCall, StartSend, loadMyBundle,
         CallChecked, Deliver, verifySender, createGroup, GroupCreated, AskBlob,
         loadContactsFromBlob
    <3> QED BY <1>0, <3>1
  <2> QED BY <2>1, <2>2
<1>5. ASSUME NEW p \in Peers, openSafetyNumber(p) \/ unblock(p) PROVE Goal
  BY <1>0, <1>5 DEF openSafetyNumber, unblock
<1>6. ASSUME NEW p \in Peers, NEW block \in BOOLEAN, Forget(p, block) PROVE Goal
  BY <1>0, <1>6 DEF Forget
<1>7. CASE markVerified BY <1>0, <1>7 DEF markVerified
<1>8. CASE leaveGroup \/ Reload \/ clearSession \/ UNCHANGED vars
  BY <1>0, <1>8 DEF leaveGroup, Reload, clearSession, vars
<1> HIDE DEF Goal, state, history
<1> QED BY <1>4, <1>5, <1>6, <1>7, <1>8 DEF Next

\* Messages, profiles and call offers go out under vouched keys, but for the
\* three excepted ways.
THEOREM SendsAreVouched == Spec => []SendsVouched
<1>1. Init => SendsVouched BY DEF Init, SendsVouched
<1> QED BY <1>1, SendsStep, PinInvariant, PTL DEF Spec

\* A display after the await is judged by the pin and the cards of that moment.
LEMMA ShownVouched ==
  ASSUME PinInv', NEW h \in Peers, NEW key \in Keys, NEW g, contacts'[h] = key,
         Shown(h, key, g), misread' = misread, UnflaggedVouched
  PROVE  UnflaggedVouched'
<1>1. CASE trusted' = trusted BY <1>1 DEF UnflaggedVouched
<1>2. CASE trusted' # trusted
  <2>1. ~Warned(h) /\ key \notin vouched'[h] /\ trusted' = trusted \cup {h}
    BY <1>2 DEF Shown
  <2>2. contacts'[h] # None OBVIOUS
  <2>3. h \in misread'
    BY <2>1, <2>2 DEF PinInv, PinnedCards, PinsVouched, PinVouched, Warned, Changed
  <2> QED BY <2>1, <2>3 DEF UnflaggedVouched
<1> QED BY <1>1, <1>2

LEMMA UnflaggedStep == TypeOK /\ PinInv /\ UnflaggedVouched /\ [Next]_vars => UnflaggedVouched'
<1> SUFFICES ASSUME TypeOK, PinInv, UnflaggedVouched, [Next]_vars PROVE UnflaggedVouched'
  OBVIOUS
<1> USE DEF state, history
<1>0. ASSUME trusted' = trusted, misread \subseteq misread' PROVE UnflaggedVouched'
  BY <1>0 DEF UnflaggedVouched
<1>pin. PinInv' BY PinStep
<1>1. ASSUME NEW t \in Tasks, NEW h \in Peers, NEW key \in Keys, NEW g \in Groups,
             Deliver(t, h, key, g)
      PROVE  UnflaggedVouched'
  <2>1. CASE contacts[h] = key
    <3>1. Shown(h, key, g) /\ contacts'[h] = key /\ misread' = misread
      BY <1>1, <2>1 DEF Deliver
    <3> QED BY <1>pin, <3>1, ShownVouched
  <2>2. CASE contacts[h] # key BY <1>0, <1>1, <2>2 DEF Deliver
  <2> QED BY <2>1, <2>2
<1>2. ASSUME NEW t \in Tasks, NEW fp \in Answers, NEW g \in Groups, verifySender(t, fp, g)
      PROVE  UnflaggedVouched'
  <2>1. task[t].h \in Peers /\ task[t].key \in Keys BY <1>2, TaskFields DEF verifySender
  <2>2. misread' = misread BY <1>2 DEF verifySender
  <2>3. CASE contacts'[task[t].h] = task[t].key
    <3>1. Shown(task[t].h, task[t].key, g) BY <1>2, <2>3 DEF verifySender
    <3> QED BY <1>pin, <2>1, <2>2, <2>3, <3>1, ShownVouched
  <2>4. CASE contacts'[task[t].h] # task[t].key BY <1>0, <1>2, <2>4 DEF verifySender
  <2> QED BY <2>3, <2>4
<1>3. ASSUME NEW t \in Tasks, TaskNext(t) PROVE UnflaggedVouched'
  <2>1. CASE \E h \in Peers, key \in Keys, g \in Groups : Deliver(t, h, key, g) BY <1>1, <2>1
  <2>2. CASE \E fp \in Answers, g \in Groups : verifySender(t, fp, g) BY <1>2, <2>2
  <2>3. CASE /\ ~\E h \in Peers, key \in Keys, g \in Groups : Deliver(t, h, key, g)
             /\ ~\E fp \in Answers, g \in Groups : verifySender(t, fp, g)
    <3>1. trusted' = trusted /\ misread' = misread
      BY <1>3, <2>3 DEF TaskNext, fetchBundle, OpenContact, StartCall, StartSend, loadMyBundle,
         fanOutConv, broadcastProfile, CallChecked, CallOffered, createGroup, GroupCreated,
         AskBlob, loadContactsFromBlob
    <3> QED BY <1>0, <3>1
  <2> QED BY <2>1, <2>2, <2>3
<1>4. ASSUME NEW h \in Peers, openSafetyNumber(h) \/ unblock(h) PROVE UnflaggedVouched'
  BY <1>0, <1>4 DEF openSafetyNumber, unblock
<1>5. ASSUME NEW h \in Peers, NEW block \in BOOLEAN, Forget(h, block) PROVE UnflaggedVouched'
  BY <1>0, <1>5 DEF Forget
<1>6. CASE markVerified BY <1>0, <1>6 DEF markVerified
<1>7. CASE leaveGroup \/ Reload \/ clearSession \/ UNCHANGED vars
  BY <1>0, <1>7 DEF leaveGroup, Reload, clearSession, vars
<1> HIDE DEF state, history
<1> QED BY <1>3, <1>4, <1>5, <1>6, <1>7 DEF Next

\* Nothing is shown without a warning under keys that nobody vouched for, but
\* of peers confirmed with other keys than the ones on the screen.
THEOREM UnflaggedAreVouched == Spec => []UnflaggedVouched
<1>1. Init => UnflaggedVouched BY DEF Init, UnflaggedVouched
<1> QED BY <1>1, UnflaggedStep, PinInvariant, PTL DEF Spec
=============================================================================
