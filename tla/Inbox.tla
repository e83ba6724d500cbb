------------------------------- MODULE Inbox --------------------------------
(***************************************************************************)
(* One device's conversations (apps/web/src/main.js, message-utils.js):    *)
(* what onDeliver does with the contents that come out of the mix network, *)
(* what the user does to the messages, and the history kept across reloads.*)
(* Contents arrive in any order, any number of times, or never; a sender   *)
(* whose keys are not at hand is looked up first, while others arrive.     *)
(*                                                                         *)
(* A content stands for everything but its conversation, its author, its   *)
(* id and what it does; ids are unique (64 random bits).                   *)
(***************************************************************************)
EXTENDS Naturals, Sequences, FiniteSets, SequencesExt

CONSTANTS
  Contents,     \* [id, t, from, chat, target, remove, toMe]
  Me,           \* the user
  Nothing,      \* no content
  Lookups,      \* deliveries awaiting a card lookup at once (a bound)
  SeenCap,      \* ids remembered (10000)
  HistoryCap    \* messages kept per conversation (HISTORY_PER_CHAT, 300)

Ids == {c.id : c \in Contents}
Chats == {c.chat : c \in Contents}
Senders == {c.from : c \in Contents}
Mine == {c \in Contents : c.from = Me}

ASSUME InboxAssumption ==
  /\ IsFiniteSet(Contents)
  /\ \A c, d \in Contents : c.id = d.id => c = d
  /\ \A c \in Contents : c.t \in {"msg", "react", "unsend", "other"}
  /\ SeenCap \in Nat \ {0} /\ HistoryCap \in Nat \ {0}
  /\ Nothing \notin Contents

VARIABLES
  convos,       \* convos[ch]: the messages, oldest first
  seen,         \* the ids remembered, oldest first
  blocked,      \* blocked handles (kept in localStorage)
  awaiting,     \* awaiting[k]: a content whose sender is being looked up
  mine,         \* mine[c]: "new", "sending" (fanOutConv awaits) or "sent",
                \* by this device or by another one of the user's
  timer,        \* a save of the history is due (400 ms)
  stored,       \* the history in localStorage
  gone          \* history: removed or retracted ids that are remembered

inboxVars == <<convos, seen, blocked, awaiting, mine, timer, stored, gone>>

Messages == [id : Ids, sender : Senders, deleted : BOOLEAN, reactions : SUBSET Senders]
Histories == [Chats -> Seq(Messages)]
Empty == [ch \in Chats |-> <<>>]

\* trimHistory, and the eviction of markSeen.
Newest(s, n) == IF Len(s) > n THEN SubSeq(s, Len(s) - n + 1, Len(s)) ELSE s

AllIds(cv) == UNION {{cv[ch][i].id : i \in DOMAIN cv[ch]} : ch \in Chats}
Remembered == Range(seen) \cup AllIds(convos)

InboxInit ==
  /\ convos = Empty /\ seen = <<>> /\ blocked = {}
  /\ awaiting = [k \in Lookups |-> Nothing]
  /\ mine \in [Mine -> {"new", "sent"}]
  /\ \A c, d \in Mine : mine[c] = "sent" /\ d.id = c.target => mine[d] = "sent"
  /\ timer = FALSE /\ stored = Empty /\ gone = {}

-----------------------------------------------------------------------------
(* What is done to the messages of a conversation                          *)

markSeen(id) ==
  seen' = IF id \in Range(seen) THEN seen ELSE Newest(Append(seen, id), SeenCap)

scheduleSaveConvos == timer' = TRUE

\* After a change: what is gone stays so until it is forgotten.
Removes(ids) == gone' = (gone \cup ids) \cap Remembered'

\* (For the mutants.)
HasNever(ch, id) == FALSE

Has(ch, id) == \E i \in DOMAIN convos[ch] : convos[ch][i].id = id
Shown(cv, id) == \E ch \in Chats : \E i \in DOMAIN cv[ch] : cv[ch][i].id = id /\ ~cv[ch][i].deleted

\* (For the mutants.)
applyReactionUnsaved(ch, id, who, remove) ==
  IF ~Has(ch, id) THEN UNCHANGED <<convos, timer>>
  ELSE /\ convos' = [convos EXCEPT ![ch] = [i \in DOMAIN @ |->
            IF @[i].id # id THEN @[i] ELSE [@[i] EXCEPT !.reactions = {who}]]]
       /\ UNCHANGED timer

pushMessage(ch, c) ==
  IF Has(ch, c.id) THEN UNCHANGED <<convos, timer>>
  ELSE /\ convos' = [convos EXCEPT ![ch] = Newest(Append(@,
            [id |-> c.id, sender |-> c.from, deleted |-> FALSE, reactions |-> {}]), HistoryCap)]
       /\ scheduleSaveConvos

canUnsend(m, who) == who = m.sender

\* reactionsAfterToggle, for one emoji.
reactionsAfterToggle(reactors, who, remove) ==
  IF remove THEN reactors \ {who} ELSE reactors \cup {who}

applyReaction(ch, id, who, remove) ==
  IF ~Has(ch, id) THEN UNCHANGED <<convos, timer>>
  ELSE /\ convos' = [convos EXCEPT ![ch] = [i \in DOMAIN @ |->
            IF @[i].id # id THEN @[i]
            ELSE [@[i] EXCEPT !.reactions = reactionsAfterToggle(convos[ch][i].reactions, who, remove)]]]
       /\ scheduleSaveConvos

applyUnsend(ch, id, who) ==
  IF ~\E i \in DOMAIN convos[ch] : convos[ch][i].id = id /\ canUnsend(convos[ch][i], who)
  THEN UNCHANGED <<convos, timer>>
  ELSE /\ convos' = [convos EXCEPT ![ch] = [i \in DOMAIN @ |->
            IF @[i].id # id THEN @[i] ELSE [@[i] EXCEPT !.deleted = TRUE, !.reactions = {}]]]
       /\ scheduleSaveConvos

-----------------------------------------------------------------------------
(* Deliveries                                                              *)

\* (For the mutants.)
IsNewAlways(c) == TRUE

IsNew(c) == c.id \notin Range(seen)
Heard(c) == c.from = Me \/ c.from \notin blocked

\* A retraction by its author that finds its message.
Retracts(c) ==
  {id \in {c.target} : c.t = "unsend" /\ \E m \in Contents : m.id = id /\ m.from = c.from /\ Has(c.chat, id)}

\* The mix network holds a content of the user's once it was sent.
Arrives(c) == c \in Mine => mine[c] = "sent"

\* onDeliver, from the verified signature on.  A call or a profile (and the
\* ping of a new group) leaves only its id.
Handled(c) ==
  /\ UNCHANGED <<blocked, mine, stored>>
  /\ IF ~IsNew(c) THEN UNCHANGED <<convos, seen, timer, gone>>
     ELSE /\ markSeen(c.id)
          /\ IF ~Heard(c) \/ ~c.toMe \/ c.t = "other" THEN UNCHANGED <<convos, timer>> /\ Removes({})
             ELSE /\ CASE c.t = "msg" -> pushMessage(c.chat, c)
                       [] c.t = "react" -> applyReaction(c.chat, c.target, c.from, c.remove)
                       [] c.t = "unsend" -> applyUnsend(c.chat, c.target, c.from)
                  /\ Removes(Retracts(c))

\* The sender's cards are at hand.
onDeliver(c) == Arrives(c) /\ Handled(c) /\ UNCHANGED awaiting

\* They are not, or no longer match: verifySender awaits the sender's bundle.
verifySender(k, c) ==
  /\ awaiting[k] = Nothing /\ Arrives(c)
  /\ awaiting' = [awaiting EXCEPT ![k] = c]
  /\ UNCHANGED <<convos, seen, blocked, mine, timer, stored, gone>>

\* Its answer settles the signature.
Verified(k, valid) ==
  /\ awaiting[k] # Nothing
  /\ awaiting' = [awaiting EXCEPT ![k] = Nothing]
  /\ IF valid THEN Handled(awaiting[k])
     ELSE UNCHANGED <<convos, seen, blocked, mine, timer, stored, gone>>

-----------------------------------------------------------------------------
(* The user                                                                *)

\* sendMessage, a file: fanOutConv awaits the cards before anything happens.
deliverContent(c) ==
  /\ mine[c] = "new" /\ c.t = "msg"
  /\ mine' = [mine EXCEPT ![c] = "sending"]
  /\ UNCHANGED <<convos, seen, blocked, awaiting, timer, stored, gone>>

\* toggleReaction and deleteForEveryone act here at once, then fan out.
toggleReaction(c) ==
  /\ mine[c] = "new" /\ c.t = "react" /\ Has(c.chat, c.target)
  /\ \A i \in DOMAIN convos[c.chat] : convos[c.chat][i].id = c.target =>
       ~convos[c.chat][i].deleted /\ (c.remove <=> Me \in convos[c.chat][i].reactions)
  /\ mine' = [mine EXCEPT ![c] = "sending"]
  /\ applyReaction(c.chat, c.target, Me, c.remove)
  /\ UNCHANGED <<seen, blocked, awaiting, stored, gone>>

deleteForEveryone(c) ==
  /\ mine[c] = "new" /\ c.t = "unsend" /\ Retracts(c) # {} /\ Shown(convos, c.target)
  /\ mine' = [mine EXCEPT ![c] = "sending"]
  /\ applyUnsend(c.chat, c.target, Me)
  /\ UNCHANGED <<seen, blocked, awaiting, stored>>
  /\ Removes(Retracts(c))

\* fanOutConv has handed the content to every device, or a changed key held it.
fanOutConv(c, held) ==
  /\ mine[c] = "sending"
  /\ mine' = [mine EXCEPT ![c] = IF held THEN "new" ELSE "sent"]
  /\ IF held THEN UNCHANGED <<convos, seen, timer, gone>>
     ELSE /\ markSeen(c.id)
          /\ IF c.t = "msg" THEN pushMessage(c.chat, c) ELSE UNCHANGED <<convos, timer>>
          /\ Removes({})
  /\ UNCHANGED <<blocked, awaiting, stored>>

deleteForMe(ch, i) ==
  /\ convos' = [convos EXCEPT ![ch] = RemoveAt(@, i)]
  /\ scheduleSaveConvos
  /\ UNCHANGED <<seen, blocked, awaiting, mine, stored>>
  /\ Removes({convos[ch][i].id})

\* clearMessages, deleteChat and leaveGroup
clearMessages(ch) ==
  /\ convos' = [convos EXCEPT ![ch] = <<>>]
  /\ scheduleSaveConvos
  /\ UNCHANGED <<seen, blocked, awaiting, mine, stored>>
  /\ Removes({convos[ch][i].id : i \in DOMAIN convos[ch]})

\* block also deletes the chat with h, which is named after h.
block(h) ==
  /\ h # Me /\ h \notin blocked
  /\ blocked' = blocked \cup {h}
  /\ convos' = [ch \in Chats |-> IF ch = h THEN <<>> ELSE convos[ch]]
  /\ scheduleSaveConvos
  /\ UNCHANGED <<seen, awaiting, mine, stored>>
  /\ Removes(IF h \in Chats THEN {convos[h][i].id : i \in DOMAIN convos[h]} ELSE {})

unblock(h) ==
  /\ h \in blocked
  /\ blocked' = blocked \ {h}
  /\ UNCHANGED <<convos, seen, awaiting, mine, timer, stored, gone>>

-----------------------------------------------------------------------------
(* The history on disk                                                     *)

\* The timer fires.  The snapshot is encrypted before it is written: a page that
\* dies in between has not saved, and nothing else reads the history, so the
\* write counts as made at the snapshot (bounds: one save at a time).
saveConvos ==
  /\ timer
  /\ timer' = FALSE /\ stored' = convos
  /\ UNCHANGED <<convos, seen, blocked, awaiting, mine, gone>>

\* The page is reloaded or the browser dies; loadConvos ends before the socket
\* opens, and knows the ids of the stored messages only.
loadConvos ==
  /\ convos' = stored
  /\ seen' = LET order == SetToSeq(Chats)
                 ids(ch) == [i \in DOMAIN stored[ch] |-> stored[ch][i].id]
             IN Newest(FlattenSeq([n \in DOMAIN order |-> ids(order[n])]), SeenCap)
  /\ awaiting' = [k \in Lookups |-> Nothing]
  /\ mine' = [c \in Mine |-> IF mine[c] = "sending" THEN "new" ELSE mine[c]]
  /\ timer' = FALSE
  /\ gone' = {id \in gone : id \in AllIds(stored) /\ ~Shown(stored, id)}
  /\ UNCHANGED <<blocked, stored>>

-----------------------------------------------------------------------------
InboxNext ==
  \/ \E c \in Contents : onDeliver(c) \/ \E k \in Lookups : verifySender(k, c)
  \/ \E k \in Lookups, valid \in BOOLEAN : Verified(k, valid)
  \/ \E c \in Mine : deliverContent(c) \/ toggleReaction(c) \/ deleteForEveryone(c)
  \/ \E c \in Mine, held \in BOOLEAN : fanOutConv(c, held)
  \/ \E ch \in Chats : clearMessages(ch) \/ \E i \in DOMAIN convos[ch] : deleteForMe(ch, i)
  \/ \E h \in Senders : block(h) \/ unblock(h)
  \/ saveConvos \/ loadConvos

InboxSpec == InboxInit /\ [][InboxNext]_inboxVars

\* The types, and: no conversation shows an id twice or outgrows its cap, and
\* no id is remembered twice (pushMessage's second guard, the two caps).
InboxTypeOK ==
  /\ convos \in Histories /\ stored \in Histories
  /\ seen \in Seq(Ids) /\ Len(seen) <= SeenCap
  /\ blocked \subseteq Senders \ {Me}
  /\ awaiting \in [Lookups -> Contents \cup {Nothing}]
  /\ mine \in [Mine -> {"new", "sending", "sent"}]
  /\ timer \in BOOLEAN /\ gone \subseteq Ids
  /\ \A i, j \in DOMAIN seen : seen[i] = seen[j] => i = j
  /\ \A ch \in Chats : /\ Len(convos[ch]) <= HistoryCap
                       /\ \A i, j \in DOMAIN convos[ch] : convos[ch][i].id = convos[ch][j].id => i = j

\* A message that the user removed, or that its author retracted while it was
\* there, is not shown again by any late, repeated or overtaken delivery, while
\* its id is remembered (seen is capped, and a reload knows the stored ids
\* only); a stored retraction outlives the reload.
RemovedStays == \A id \in gone : ~Shown(convos, id)

\* What is shown is what a reload would show, or a save is due: no change of the
\* history, by whoever made it, is left unsaved for good.
SaveScheduled == stored = convos \/ timer
=============================================================================
