------------------------------ MODULE KeyPins -------------------------------
(***************************************************************************)
(* The web client's trust in its contacts' keys (apps/web/src/main.js,     *)
(* pin-utils.js): cards are looked up again and again, their fingerprint   *)
(* is pinned at first sight, and a changed one holds every send until the  *)
(* user has compared it.  Lookups, fan-outs, deliveries, the sync of the   *)
(* contacts blob and the user's clicks interleave at every await.          *)
(*                                                                         *)
(* The gateway may serve any cards at any time, and the blob may hold what *)
(* any other devices of the account wrote: both are chosen freely.  A key  *)
(* stands for the fingerprint of all the cards of a handle.                *)
(***************************************************************************)
EXTENDS FiniteSets

CONSTANTS
  Peers,      \* handles other than the user's
  Keys,       \* fingerprints
  None,       \* no cards, no pin, no group, no group conversation
  Tasks       \* async functions in flight at once (a bound)

ASSUME KeyPinsAssumption ==
  /\ None \notin Keys \cup Peers \cup [fp : Keys, ok : BOOLEAN] \cup [h : Peers, key : Keys]
  /\ \A g \in SUBSET Peers : g # None

VARIABLES
  pins,       \* pins[h]: None or [fp, ok]
  contacts,   \* contacts[h]: the cards held for h
  blocked,    \* blocked handles
  group,      \* the members of one group, without the user
  disk,       \* contacts and group in localStorage
  shown,      \* the safety number on the screen: whose, and of which keys
  task,       \* task[t]: an async function at an await
  vouched,    \* history: vouched[h], keys met first, synced or compared since
              \* the sign-in
  misread,    \* history: peers confirmed with other keys than the shown ones
  strayed,    \* history: peers that were sent to after they left the check
  exposed,    \* history: peers that were sent to under keys not vouched for
  trusted     \* history: peers shown without a warning under such keys

state == <<pins, contacts, blocked, group>>
history == <<vouched, misread, strayed, exposed, trusted>>
vars == <<state, disk, shown, task, history>>

Pins == [fp : Keys, ok : BOOLEAN]
Idle == [kind |-> "idle"]
Free(t) == task[t] = Idle

Changed(pin) == pin # None /\ ~pin.ok
isUnverified(h) == Changed(pins[h])

\* The recipients of a conversation: a peer, or the group as it is now.
Members == IF group = None THEN {} ELSE group
Recipients(conv) == IF conv = None THEN Members ELSE {conv}
unverifiedPeers(conv) == {h \in Recipients(conv) : isUnverified(h)}

\* checkPin: the pin after cards with fingerprint fp were seen for h.
PinAfter(h, fp) ==
  IF pins[h] = None THEN [fp |-> fp, ok |-> TRUE]
  ELSE IF pins[h].fp = fp THEN pins[h] ELSE [fp |-> fp, ok |-> FALSE]

\* (For the mutants.)
MergedUnflagged(local, synced) ==
  IF local = None /\ synced # None THEN [fp |-> synced.fp] ELSE local
MergedSyncedWins(local, synced) == IF synced = None THEN local ELSE synced
MergedSameKey(local, synced) ==
  IF synced = None THEN local
  ELSE IF local # None /\ local.fp # synced.fp THEN [local EXCEPT !.ok = FALSE] ELSE synced

\* mergeSyncedPin
Merged(local, synced) ==
  IF synced = None THEN local
  ELSE IF local = None THEN synced
  ELSE IF local.fp # synced.fp \/ ~local.ok \/ ~synced.ok THEN [local EXCEPT !.ok = FALSE]
  ELSE local

\* What a first pin of h vouches for.
FirstPin(h, pin) == IF pins[h] = None /\ pin # None /\ pin.ok THEN {pin.fp} ELSE {}

EmptyDisk == [contacts |-> [h \in Peers |-> None], group |-> None]

Init ==
  /\ pins = [h \in Peers |-> None] /\ contacts = [h \in Peers |-> None]
  /\ blocked = {} /\ group = None
  /\ disk = EmptyDisk
  /\ shown = None
  /\ task = [t \in Tasks |-> Idle]
  /\ vouched = [h \in Peers |-> {}] /\ misread = {} /\ strayed = {}
  /\ exposed = {} /\ trusted = {}

saveContactsLocal == disk' = [contacts |-> contacts', group |-> group']

-----------------------------------------------------------------------------
(* Lookups                                                                 *)

\* New cards for h: checkPin, then contacts.set.
Took(h, fp) ==
  /\ pins' = [pins EXCEPT ![h] = PinAfter(h, fp)]
  /\ contacts' = [contacts EXCEPT ![h] = fp]
  /\ vouched' = [vouched EXCEPT ![h] = @ \cup FirstPin(h, PinAfter(h, fp))]

\* Handles whose turn passes without a lookup.
Skipped(kind) ==
  blocked' \cup IF kind \in {"sync", "create"} THEN {h \in Peers : contacts'[h] # None} ELSE {}

\* The loop over handles goes to its next lookup (any order of the list), or
\* to what follows the loop.
NextHandle(t, kind, conv, captured, todo) ==
  \/ \E h \in todo \ Skipped(kind), S \in SUBSET (todo \cap Skipped(kind)) :
       task' = [task EXCEPT ![t] = [kind |-> kind, conv |-> conv, captured |-> captured,
                                    todo |-> todo \ (S \cup {h}), at |-> "lookup", h |-> h]]
  \/ /\ todo \subseteq Skipped(kind)
     /\ task' = [task EXCEPT ![t] = IF kind \in {"open", "sync"} THEN Idle ELSE
                  [kind |-> kind, conv |-> conv, captured |-> captured,
                   todo |-> {}, at |-> "looked", h |-> None]]

AtLookup(t) == task[t].kind \in {"open", "fan", "call", "create", "sync"} /\ task[t].at = "lookup"

\* The answer of /api/bundle reaches fetchBundle, which does not look at the
\* blocked set again.  A failed lookup leaves everything as it was.
fetchBundle(t, fp) ==
  /\ AtLookup(t)
  /\ UNCHANGED <<blocked, group, shown, misread, strayed, exposed, trusted>>
  /\ IF fp = None THEN UNCHANGED <<pins, contacts, vouched, disk>>
                  ELSE Took(task[t].h, fp) /\ saveContactsLocal
  /\ NextHandle(t, task[t].kind, task[t].conv, task[t].captured, task[t].todo)

\* Opening a chat, adding a contact, or an own device's message to h.
OpenContact(t, h) ==
  /\ Free(t) /\ h \notin blocked
  /\ UNCHANGED <<state, disk, shown, history>>
  /\ NextHandle(t, "open", h, {}, {h})

-----------------------------------------------------------------------------
(* Sending                                                                 *)

\* fanOutConv (a message, a file, a reaction, an unsend) and broadcastProfile
\* first await the user's own cards.
StartSend(t, kind, conv) ==
  /\ Free(t)
  /\ kind = "fan" /\ conv = None => group # None
  /\ task' = [task EXCEPT ![t] = [kind |-> kind, conv |-> conv, captured |-> {},
                                  todo |-> {}, at |-> "mine", h |-> None]]
  /\ UNCHANGED <<state, disk, shown, history>>

loadMyBundle(t) ==
  /\ task[t].kind = "fan" /\ task[t].at = "mine"
  /\ UNCHANGED <<state, disk, shown, history>>
  /\ NextHandle(t, "fan", task[t].conv, Recipients(task[t].conv), Recipients(task[t].conv))

\* To each of these under the cards held now.
SendTo(peers) ==
  exposed' = exposed \cup {h \in peers : contacts[h] # None /\ contacts[h] \notin vouched[h]}

\* The send block looks at the members of now, the send at those of before.
BlocksUnlessGroup(conv) == conv # None /\ unverifiedPeers(conv) # {}
Blocks(conv) == unverifiedPeers(conv) # {}

fanOutConv(t) ==
  /\ task[t].kind = "fan" /\ task[t].at = "looked"
  /\ IF Blocks(task[t].conv) THEN UNCHANGED <<exposed, strayed>>
     ELSE /\ SendTo(task[t].captured)
          /\ strayed' = strayed \cup (task[t].captured \ Recipients(task[t].conv))
  /\ task' = [task EXCEPT ![t] = Idle]
  /\ UNCHANGED <<state, disk, shown, vouched, misread, trusted>>

broadcastProfile(t) ==
  /\ task[t].kind = "profile"
  /\ SendTo({h \in Peers : ~isUnverified(h)})
  /\ task' = [task EXCEPT ![t] = Idle]
  /\ UNCHANGED <<state, disk, shown, vouched, misread, strayed, trusted>>

\* startCall looks up and checks, then awaits relays and the microphone, and
\* sends its offer without another look.
StartCall(t, h) ==
  /\ Free(t)
  /\ UNCHANGED <<state, disk, shown, history>>
  /\ NextHandle(t, "call", h, {h}, {h})

CallChecked(t) ==
  /\ task[t].kind = "call" /\ task[t].at = "looked"
  /\ task' = [task EXCEPT ![t] = IF isUnverified(@.conv) THEN Idle ELSE [@ EXCEPT !.at = "media"]]
  /\ UNCHANGED <<state, disk, shown, history>>

CallOffered(t) ==
  /\ task[t].kind = "call" /\ task[t].at = "media"
  /\ SendTo({task[t].conv})
  /\ strayed' = strayed \cup {h \in {task[t].conv} : isUnverified(h)}
  /\ task' = [task EXCEPT ![t] = Idle]
  /\ UNCHANGED <<state, disk, shown, vouched, misread, trusted>>

-----------------------------------------------------------------------------
(* Receiving                                                               *)

\* ensureGroup adopts the members a verified message carries (None: 1:1).
Adopts(g) == g # None /\ g # group

WarnedBefore(h) == Changed(pins[h])
Warned(h) == Changed(pins'[h])

\* onDeliver after verifySender: blocked senders are dropped, the rest is shown,
\* with a warning when the sender's keys are not confirmed.
Shown(h, key, g) ==
  IF h \in blocked THEN UNCHANGED <<group, disk, trusted>>
  ELSE /\ IF Adopts(g) THEN group' = g /\ saveContactsLocal ELSE UNCHANGED <<group, disk>>
       /\ trusted' = IF Warned(h) \/ key \in vouched'[h] THEN trusted ELSE trusted \cup {h}

\* verifySender: the cards held, or else one lookup, which saves nothing.
Deliver(t, h, key, g) ==
  /\ UNCHANGED <<pins, contacts, blocked, shown, vouched, misread, strayed, exposed>>
  /\ IF contacts[h] = key
     THEN Shown(h, key, g) /\ UNCHANGED task
     ELSE /\ Free(t)
          /\ task' = [task EXCEPT ![t] = [kind |-> "verify", key |-> key, h |-> h]]
          /\ UNCHANGED <<group, disk, trusted>>

verifySender(t, fp, g) ==
  /\ task[t].kind = "verify"
  /\ IF fp = None THEN UNCHANGED <<pins, contacts, vouched>> ELSE Took(task[t].h, fp)
  /\ IF contacts'[task[t].h] = task[t].key THEN Shown(task[t].h, task[t].key, g)
                                           ELSE UNCHANGED <<group, disk, trusted>>
  /\ task' = [task EXCEPT ![t] = Idle]
  /\ UNCHANGED <<blocked, shown, misread, strayed, exposed>>

-----------------------------------------------------------------------------
(* The user                                                                *)

openSafetyNumber(h) ==
  /\ shown' = IF contacts[h] = None THEN None ELSE [h |-> h, key |-> contacts[h]]
  /\ UNCHANGED <<state, disk, task, history>>

\* The click confirms whatever is pinned by now.
markVerified ==
  /\ shown # None
  /\ LET h == shown.h IN
       /\ pins' = [pins EXCEPT ![h].ok = TRUE]
       /\ vouched' = [vouched EXCEPT ![h] = @ \cup {shown.key}]
       /\ misread' = IF pins[h].fp = shown.key THEN misread ELSE misread \cup {h}
  /\ shown' = None
  /\ UNCHANGED <<contacts, blocked, group, disk, task, strayed, exposed, trusted>>

\* block and deleteChat both forget the contact, and keep its pin.
Forget(h, block) ==
  /\ contacts' = [contacts EXCEPT ![h] = None]
  /\ blocked' = IF block THEN blocked \cup {h} ELSE blocked
  /\ UNCHANGED <<pins, group, shown, task, history>>
  /\ saveContactsLocal

unblock(h) ==
  /\ blocked' = blocked \ {h}
  /\ UNCHANGED <<pins, contacts, group, disk, shown, task, history>>

leaveGroup ==
  /\ group # None
  /\ group' = None
  /\ UNCHANGED <<pins, contacts, blocked, shown, task, history>>
  /\ saveContactsLocal

\* The group exists at once; its members' cards are looked up before it is
\* saved and announced.  The new group takes the place of one that was left.
createGroup(t, g) ==
  /\ Free(t) /\ group = None
  /\ \A s \in Tasks : task[s].kind \in {"fan", "create"} => task[s].conv # None
  /\ group' = g
  /\ UNCHANGED <<pins, contacts, blocked, disk, shown, history>>
  /\ NextHandle(t, "create", None, {}, g)

GroupCreated(t) ==
  /\ task[t].kind = "create" /\ task[t].at = "looked"
  /\ task' = [task EXCEPT ![t] = [@ EXCEPT !.kind = "fan", !.at = "mine"]]
  /\ UNCHANGED <<state, shown, history>>
  /\ saveContactsLocal

-----------------------------------------------------------------------------
(* The contacts blob, a reload, and the end of the session                 *)

\* loadContactsFromBlob asks, merges what it is given, and looks up the handles
\* it does not know.
AskBlob(t) ==
  /\ Free(t)
  /\ task' = [task EXCEPT ![t] = [kind |-> "blob"]]
  /\ UNCHANGED <<state, disk, shown, history>>

loadContactsFromBlob(t, synced, blocks, g, handles) ==
  /\ task[t].kind = "blob"
  /\ pins' = [h \in Peers |-> Merged(pins[h], synced[h])]
  /\ vouched' = [h \in Peers |-> vouched[h] \cup FirstPin(h, synced[h])]
  /\ blocked' = blocked \cup blocks
  /\ group' = IF group = None THEN g ELSE group
  /\ UNCHANGED <<contacts, disk, shown, misread, strayed, exposed, trusted>>
  /\ NextHandle(t, "sync", None, {}, handles)

\* The page is loaded again, still signed in: pins and prefs are saved at each change, contacts
\* and groups only by some of them, and the saved cards are checked again.
Reload ==
  /\ contacts' = disk.contacts
  /\ group' = disk.group
  /\ pins' = [h \in Peers |-> IF disk.contacts[h] = None THEN pins[h]
                              ELSE PinAfter(h, disk.contacts[h])]
  /\ vouched' = [h \in Peers |-> vouched[h] \cup FirstPin(h, pins'[h])]
  /\ shown' = None
  /\ task' = [t \in Tasks |-> Idle]
  /\ UNCHANGED <<blocked, disk, misread, strayed, exposed, trusted>>

\* The session ends: the user logs out, init fails, or the gateway closes with
\* 4001, 4003 or 4004.  Pins, contacts, groups and blocks are deleted from
\* localStorage, and the next sign-in of the user starts without them, with
\* what the blob of the account holds to come.
clearSession ==
  /\ pins' = [h \in Peers |-> None] /\ contacts' = [h \in Peers |-> None]
  /\ blocked' = {} /\ group' = None
  /\ disk' = EmptyDisk
  /\ shown' = None
  /\ task' = [t \in Tasks |-> Idle]
  /\ vouched' = [h \in Peers |-> {}]
  /\ UNCHANGED <<misread, strayed, exposed, trusted>>

-----------------------------------------------------------------------------
Answers == Keys \cup {None}
Groups == {None} \cup SUBSET Peers

TaskNext(t) ==
  \/ \E fp \in Answers : fetchBundle(t, fp)
  \/ \E h \in Peers : OpenContact(t, h) \/ StartCall(t, h) \/ StartSend(t, "fan", h)
  \/ StartSend(t, "fan", None) \/ StartSend(t, "profile", None)
  \/ loadMyBundle(t) \/ fanOutConv(t) \/ broadcastProfile(t)
  \/ CallChecked(t) \/ CallOffered(t)
  \/ \E h \in Peers, key \in Keys, g \in Groups : Deliver(t, h, key, g)
  \/ \E fp \in Answers, g \in Groups : verifySender(t, fp, g)
  \/ \E g \in SUBSET Peers : createGroup(t, g)
  \/ GroupCreated(t)
  \/ AskBlob(t)
  \/ \E synced \in [Peers -> Pins \cup {None}], blocks, handles \in SUBSET Peers, g \in Groups :
       loadContactsFromBlob(t, synced, blocks, g, handles)

Next ==
  \/ \E t \in Tasks : TaskNext(t)
  \/ \E h \in Peers : openSafetyNumber(h) \/ unblock(h)
  \/ \E h \in Peers, block \in BOOLEAN : Forget(h, block)
  \/ markVerified \/ leaveGroup \/ Reload \/ clearSession

Spec == Init /\ [][Next]_vars

-----------------------------------------------------------------------------
(* Properties *)

Looking(kinds, convs) ==
  [kind : kinds, conv : convs, captured : SUBSET Peers, todo : SUBSET Peers,
   at : {"lookup"}, h : Peers]
  \cup [kind : kinds, conv : convs, captured : SUBSET Peers, todo : SUBSET Peers,
        at : {"mine", "looked", "media"}, h : {None}]

TaskStates ==
  {Idle} \cup [kind : {"blob"}] \cup [kind : {"verify"}, key : Keys, h : Peers]
    \cup Looking({"open", "fan", "profile", "create", "sync"}, Peers \cup {None})
    \cup Looking({"call"}, Peers)

\* Every variable has its type.
TypeOK ==
  /\ pins \in [Peers -> Pins \cup {None}]
  /\ contacts \in [Peers -> Keys \cup {None}]
  /\ blocked \subseteq Peers
  /\ group \in {None} \cup SUBSET Peers
  /\ disk \in [contacts : [Peers -> Keys \cup {None}], group : {None} \cup SUBSET Peers]
  /\ shown \in [h : Peers, key : Keys] \cup {None}
  /\ task \in [Tasks -> TaskStates]
  /\ vouched \in [Peers -> SUBSET Keys]
  /\ misread \subseteq Peers /\ strayed \subseteq Peers
  /\ exposed \subseteq Peers /\ trusted \subseteq Peers

\* The cards that are encrypted to and checked against are always the pinned
\* ones, whichever of the lookups, syncs and reloads ended last: a key that
\* arrives unseen by checkPin would carry the trust of another one.
PinnedCards ==
  \A h \in Peers : contacts[h] # None => pins[h] # None /\ pins[h].fp = contacts[h]

\* "Refuse to emit anything to a recipient whose keys changed and are not yet
\* re-verified" (main.js, fanOutConv): messages, profiles and call offers go out
\* under keys met first or compared by the user.  Excepted are peers whose change
\* was confirmed on another one's safety number, members that the group lost
\* during the awaits of a fan-out, and keys that changed during the media prompt.
SendsVouched == exposed \subseteq misread \cup strayed

\* "Any message that verifies only against the new keys is flagged in the
\* transcript until the user confirms the change": what is shown without a
\* warning was signed under such keys, though the flag is read after the await.
UnflaggedVouched == trusted \subseteq misread

\* Within a session only the user's click ends a warning: neither a sync, however
\* old the other device's blob is, nor an answer that brings the old keys back,
\* nor a reload.  The end of the session ends it too: checkPin saves a warning on
\* this device only, and clearSession deletes it, so the next sign-in trusts what
\* the blob or else the first answer says.
OnlyUserUnflags ==
  [][\A h \in Peers : isUnverified(h) /\ ~Changed(pins'[h]) =>
       (shown # None /\ shown.h = h) \/ clearSession]_vars
=============================================================================
