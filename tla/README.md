# NobleChat: TLA+ models, checks and proofs

NobleChat is a messenger. A browser client encrypts every message end to end,
wraps it in a fixed-size layered packet and posts it to an entry mix; mixes peel,
delay and forward; the last one posts the envelope to the gateway
(`apps/server`), which hands it to the recipient's live WebSocket or keeps it in a
Postgres queue. This directory holds models of the parts whose correctness
depends on order: handlers that interleave at every `await`, sockets that die
without a word, processes that restart, and two stores that no transaction spans.

Both the gateway and the client are single JavaScript threads. A handler runs
alone up to its next `await`. Everywhere in these modules an action is what a
handler does between two awaits, and anything else may happen in between.

## Inventory

| component | state | operations | what makes it hard |
|---|---|---|---|
| last hop and queue (`server.js` WebSocket part, `router.js`, `store.js` mailbox) | connections, heartbeat flag, router callbacks, presence map, mailbox rows | connect, subscribe, deliver, push, drain, flush, expire, heartbeat, close, crash | the subscribe handler awaits twice, then a flush drains in the background; a half-open socket swallows deliveries |
| transport switch (`server.js`, `nym.js`) | wanted, effective and stored transport, sidecar link, back-off | admin switch, link up/down/retry, broadcast, restart | the check comes before an await, the effect after it |
| attachments (`server.js` upload/file, `store.js` files) | rows, files on disk, upload handlers, sweep | upload, quota, save, read, expire, delete account, sweep orphans, crash | rows and files are written apart |
| accounts and bans (`store.js`, `server.js`) | accounts, sessions, devices, ban set | register, sign in, add/remove device, ban, unban, delete | handlers that passed a check before the ban |
| sign-in lockout, rate limits (`util.js`, `server.js`) | failure counters, buckets, connection slots | fail, clear, prune, take, acquire, release, sweep | read before scrypt, counted after it; counted by one event and released by another |
| mix node and replay guard (`node.js`, `replay.js`) | two windows of tags | peel, delay, forward, rotate | restarts, rotation on time and on size |
| packets and letters (`sphinx.js`, `protocol.js`, `wire.js`, `client.js`) | none | build, peel, pad, seal, open | the filler at every path length; lengths that a reader believes |
| client: key pins and fan-out (`main.js`, `pin-utils.js`) | cards, pins, verified marks | look up, pin, confirm, block, send to a group | membership read before awaits, checks after |
| client: calls | call, peer connection, microphone | start, ring, accept, hang up | awaits of lookups and permissions, crossing hang-ups |
| client: inbox and groups | seen ids, chats, stored history | deliver, react, unsend, remove, block, save | duplicates, overtaking, caps, reloads |
| client: attachments | descriptor in the message, ciphertext at the gateway | encrypt, upload, open, sweep | two clocks that delete, chunk boundaries |
| client: contacts blob | one encrypted document per account | load, merge, save | several devices, last writer wins |
| client: session | token, device id, identity, blob key, socket | sign in, boot, reconnect, log out, wipe | the page dies between two writes |
| client: uplink | gateway socket, nym client | choose, warm up, fall back, cover | a send that fails after it was reported |
| deployment (`noblechat-autodeploy.sh`) | two state files, checkout | poll, reset, build, mark | crash between two writes |

`PROJECT.json` lists each of them with its status, and under `hazards` the lines
where each hard behaviour bites.

Interactions. The mix fleet and the nym sidecar feed the last hop. The account
handlers close sockets that the last hop owns and delete rows of its queue. The
transport switch tells clients which uplink to use. Account deletion takes files.
The client's fan-out reads what the inbox and the card refresh write. A letter is
sealed (`Envelope`), wrapped (`Sphinx`), relayed (`MixNode`), handed over
(`Delivery`) and shown (`Inbox`).

## Modules

| module | models | state ↔ code |
|---|---|---|
| `Mailbox` | the abstract promise: an accepted envelope is handed over or held, held ones are handed over or given up, nothing comes back | specification only |
| `Delivery` | the last hop | `conn`, `isAlive`, `myMbkey` are a connection's closure; `subs` is `Mixnet.subscribers`; `mbkeySockets` the presence map; `table` the mailbox table; `pushing` and `flush` the promises in flight; `injected`, `sentOn`, `lost` are history |
| `Transport` | the switch and the link | `desired`, `live`, `persisted` are `desiredTransport`, `live.transport` and the settings row; `link`, `address`, `backoff` are `connectNym`'s locals; `request` the admin's POST between its awaits; `told` the last status each client was sent; `raced` and `clashed` are history |
| `FileStore` | attachments | `rows` and `disk` are the two stores; `upload`, `sweep`, `reading`, `account`, `unlinking` are handlers between their awaits; `tx[i]` is the transaction that saves a row, which holds its owner's advisory lock while it is open, `total[i]` the `SUM` it read |
| `Accounts` | accounts, devices, sessions, bans, and the sockets they govern | `accounts`, `banned`, `sessions` are the tables, `devices` the cards that device rows hold and `idOf` their device ids; `bannedMbkeys` and `live` the process's memory; `request[c]` and `job[j]` the handlers between two queries, with what they have read; `late`, `stale` and `orphaned` are history |
| `SignIn` | registration, sign-in, the lockout | `hits`, `fails`, `locked` are `makeLockout`'s map in its order; `secretOf`, `sessions` the tables; `attempt[r]` a handler between its awaits; `burst` is history |
| `Admission` | connection slots and token buckets | `connPerIp` and `buckets` are the maps of the same name, `links` the sockets; `budget` is history: a bucket that no sweep touches |
| `MixNode` | relaying and the replay guard | `guard[n]` is a node's `cur`, `prev` and epoch age; `timers` its mixing delay; `posted` what the network may bring again; `met`, `forgot` are history |
| `Sphinx` | the packet | `packet` has `alpha`, `beta`, `gamma` and the payload's layers, in blocks of 16 bytes |
| `Envelope` | letters and the uplink that carries them | `uplink` is the page's socket, nym client and last status; `net` the two networks; `taken[d]` what `openEnvelope` and `verifySender` let through; `reported` what `sendToCard` returned true for |
| `KeyPins` | cards, pins and what is sent under them | `pins`, `contacts`, `blocked`, `group` are fields of `state`, `disk` their localStorage, which a reload reads and `clearSession` empties; `task[t]` an async function between its awaits; `vouched`, `misread`, `strayed` are history |
| `Inbox` | conversations | `convos`, `seen`, `blocked` are fields of `state`; `stored` is localStorage, `timer` the pending save; `awaiting` a delivery that looks up its sender; `gone` is history |
| `Calls` | one page's calls | `call` is `state.call`, `object[c]` a call's fields, `running[t]` `startCall` or `acceptCall` between its awaits, `mics` and `pcs` the browser's streams and connections, `turn` the cached answer |
| `ClientSession` | sign-in and session of a browser | `local` is localStorage, `blobKey` IndexedDB, `page` where `init` or `doAuth` awaits, `ws` and `retry` the socket and its timer; `tokens`, `devices` are the server's |
| `Attachments` | a file from sender to reader | `cipher` is the gateway's row and file, `expireAt` the descriptor's, `attached[p]` and `saved[p]` the message in memory and in the stored history |
| `MCDelivery`, `MCTransport`, `MCFileStore`, `MCAccounts`, `MCKeyPins`, `MCCalls` | instances for TLC | constants, symmetry and views only |
| `MCGateway` | `Delivery` with two accounts, `SignIn`, `Admission`, `MixNode`, `Sphinx`, `Envelope` in one instance | `part` says which of them runs |
| `Page` | `Inbox`, `Calls`, `ClientSession` and `Attachments` side by side, as the one thread of a page runs them | the variables of all four |
| `MCPage` | an instance of `Page` for TLC | likewise |
| `…Proofs` | theorems | see "Proofs" |

`MCGateway` and `Page` extend modules that share no variable. Their steps commute
and no property relates two of them, so exploring each with the others at rest
visits every state that a property can tell apart.

Four instances name a `VIEW`. It leaves out what no action reads and no property
of the run asks for, now or later: history (`lost` in the last hop, `late[u]` of
a handle without a client), what a closed socket leaves behind and its next
`Connect` overwrites, and which of two alike handlers is which. Two states with
one view have the same futures as far as the run's properties go.

Comments in each module name the handler behind each action; `map` in
`PROJECT.json` gives the lines.

Simplifications:

* A closed socket slot of `Delivery` stands for a later connection; it is reused
  only when no handler of the old one is pending, so a late handler always
  meets its own connection. `Owns` is fixed: bans and device removal
  belong to the account component.
* The two queries of `subscribe` (session, mailboxes) are one step, as the
  properties do not tell them apart.
* A sweep in `FileStore` fixes its cutoff with its query; a file that is older
  than the cutoff is never written again, so the later `stat` gives the same answer.
* `FileStore`: a transaction whose handler died or gave up ends at the database
  within `UploadLimit` of the upload's last byte, like everything else of an upload.
* In `Accounts` a client is one set of keys: one card, which names a mailbox of its
  own, and one token. It registers under any device id, so two clients of an account
  under one id are a device that registers other keys. The unique index refuses a mailbox
  under a second id; a card that names somebody else's mailbox is refused by the same
  index, changes nothing and is not a step. The session check of a self-deletion or of "sign out other
  devices" is one step with the reading of the mailboxes that follows; the
  queue, blob and files that a ban or deletion removes belong to the other
  modules (`FileStore_deletion` looks at the files). `InFlight` bounds the handlers
  that overlap. The admin flag and the passwords do not appear.
* `SignIn`: a delay ends and a count is forgotten at some point; all accounts are
  on the auth-secret scheme. A sign-in that a deletion of its account crossed
  leaves a session that no property speaks of.
* `Admission`: as many proxies as `trustedProxyHops` says. The assumption that a
  bucket refills within the ten idle minutes is what the configured limits do
  (the slowest, 60 tokens at 0.5/s, takes two minutes).
* `Sphinx`: `place` names a node or says that the packet is nowhere, travels or was
  dropped; the assumption is that no node has such a name.
* `Inbox`, `Attachments`: finitely many contents, at least one tick.
* `MixNode`, `Sphinx`, `Envelope`: cryptography is symbolic. A key, MAC or signature
  is the tuple of what it is made of; XOR is symmetric difference; a payload is
  the stack of its layers. Fields longer than `pack` can write are not reached.
* `KeyPins`: the gateway may serve any cards and the blob hold anything other
  devices may have written. A key stands for the fingerprint of all the cards of
  a handle; one group; the user's own cards are not pinned. `clearSession` and the
  loss of the page (`location.reload`, or the login form and the boot that follows a
  sign-in) are one step; `vouched` counts from the last sign-in.
* `Inbox` and `Attachments` follow one signed-in session. Its end deletes the stored
  history, and they start again.
* `Envelope`: the sender's cards that a device has at hand are any set, other at each
  arrival: those held, and what one lookup brings, which may fail or leave a device out.
  How cards are held is in `KeyPins`. A device has its own card.
* `Inbox`: ids are unique. Messages without sender of older builds, a full
  localStorage and a second tab are left out.
* `Calls`: WebRTC is a connection that succeeds or fails; candidates are the
  browser's.
* `ClientSession`: passwords are right; back-off times are durations that end.
* `Attachments`: one file and one clock; what the menu offers is far below the
  server's clamp.
* Ciphertext, names, keys and wording do not appear: an envelope, a
  file id, an address is a model value.

## Runs

| run | question | bounds, and why they are enough |
|---|---|---|
| `Delivery_custody` | can an envelope be lost, doubled or evicted by anything but a known reason? | two sockets on one mailbox, two envelopes, two drains at once, cap and drain limit 1: both limits bite with two envelopes, two flushes can overlap, every fault is on |
| `Delivery_live` | is what is queued served, and a dead socket reclaimed? | one socket that comes and goes, two envelopes, drain limit 1 so that one flush does not empty the queue |
| `Delivery_flush_loss` | does a callback's `false` keep a queued envelope? No. | the same instance without faults |
| `Transport_switching` | do wish, effect, store and clients agree, and does nym come back? | two overlapping switches, two sidecar addresses, one client, failing saves, restarts |
| `Transport_dead_uplink` | is the gateway ever on nym without a sidecar? Yes, after a race. | one switch |
| `FileStore_files` | do rows and files stay together, the quota hold, orphans and ghosts go? | two uploads of one owner whose sizes exceed the quota together, one of which may lose its COMMIT's answer, each saving statement by statement, so that without the lock both would read the same `SUM`; one reader, ages up to two ticks past the limit |
| `FileStore_deletion` | does deleting an account take all its attachments? No. | one upload |
| `Accounts_bans` | what does a ban, a deletion or a device removal leave behind? | two cards of one account, each under either of two device ids, and a second handle; a device limit of one, so that it bites and a second card gets in by taking over the row, by a removal or after a deletion (rows side by side are in the proofs only); two handlers in flight of any of the six kinds, each cut anywhere by a failing query or a restart: two is what an overlap takes, and a third handler meets the same two steps |
| `KeyPins_trust` | what goes out, is shown or loses its warning under keys nobody vouched for? | one peer who may also be the group's member, two keys, two async functions in flight: a lookup or a sync against a send, a delivery or a click |
| `Calls_ip_consent` | is there a direct connection without consent? Yes. | two calls, one task |
| `Page_parts` | inbox: does what was removed stay away, and is every change saved? calls: is the microphone off after the call? session: does the next sign-in find its device? files: does an attachment come out whole, and end? | five contents, of which one is a reaction and one a retraction, one delivery in lookup, two ids remembered and two messages kept, so that both caps bite; two calls and two tasks; two users, three keypairs and device ids; two pages, files of no, one and a half and two chunks, four ticks |
| `Gateway_parts` | last hop: do the router, presence and the accounts agree? sign-in: what does the lockout let through, who holds a token? mix: what is delivered twice? packet: does every path length peel? letters: who can have written what is taken? counts: is a client charged for its own, exactly? | two sockets of two accounts, two mailboxes, one client that subscribes again; two handles and two handlers, a table of one entry; two packets that meet at one exit, an epoch of three ticks that holds one tag; paths of one to five hops; three devices of two users, three seals; two clients behind two proxies, two connections |

`Page_parts` and `Gateway_parts` do not check deadlock: bounded ids, keypairs, seals
and ticks run out, and a packet comes to its end. Their type invariants are those of
the parts that run; `Gateway_parts` leaves them out, having eight properties already.

The four violated properties quote the comment they contradict; `findings` in
`PROJECT.json` gives the line. More disagreements are stated as exceptions
inside properties that hold, so that the rest of the property stays checked:

* a second `subscribe` on one socket leaves the first mailbox in the presence
  map (`server.js:813`; `RegistrationsExact` excludes `Resubscribers`);
* pushes that overlap pass the cap together (`store.js:274`), so no property
  bounds a mailbox by `Cap`;
* two overlapping switches can leave wish and effect apart, and a failed save
  leaves the wish unsaved (`server.js:744-747`; `clashed`);
* a COMMIT whose answer is lost leaves a row whose file was unlinked
  (`store.js:356`; `LostCommits`). `TableMeetsDisk` says it goes in the end.
* a sign-in, a device registration or a subscribe that passed its check before
  a ban or a removal of its own account, or a ban that was cut short, leaves a
  session or a socket behind (`server.js:431-440`, `server.js:454-458`,
  `store.js:383-388`); two refreshes that overlap leave the older answer
  (`server.js:236`). `late` and `stale` mark exactly these, so
  `BannedIsOut`, `ListensOnOwnDevice` and `BanSetExact` say
  that nothing else but the next does: neither the moderation of another account, nor the
  moment in which a refresh leaves the set empty, nor a restart.
* a device id that registers another card keeps its row and changes its mailbox
  (`store.js:190-193`, called at `server.js:458`), and no socket is closed. The one that is
  subscribed to the old mailbox, or about to be, stays so: no row names it any more, so every later ban,
  deletion or removal closes other sockets, and the ban set never holds its mailbox.
  Nothing has to overlap or fail. `orphaned` marks exactly these sockets in `BannedIsOut` and
  `ListensOnOwnDevice`;
* the end of a session deletes the pins, contacts, blocks and history with it
  (`clearSession`, `main.js:224-230`): on a close with 4001, 4003 or 4004, at logout, and
  on any failure of `init`, so also when the device registration is rate limited or
  answers 5xx (`main.js:215`). A warning that `checkPin` saved locally and no sync took along
  ends so without a click, though `main.js:219-222` says that only the token and
  password-derived material are cleared and `main.js:503-510` that sending is blocked
  until the user confirms. `OnlyUserUnflags` names it as the second way a warning ends;
* `fanOutConv` sends to the members that it read before its awaits and checks those
  of after; a safety number may be confirmed after the pins changed under it
  (`main.js:863`, `main.js:540`; `strayed`, `misread` in `KeyPins`);
* a microphone whose prompt is answered after its call ended or was replaced stays
  on (`main.js:1772`, `main.js:1801`; `strayed` in `Calls`);
* a page that dies, or finds localStorage full, between the device id and the
  identity signs in next time with a mailbox that the server knows under another
  device, and is refused for ever (`main.js:317`; `torn` in `ClientSession`);
* a restart of a node, or more than `MAX_PER_EPOCH` packets within an epoch, lets a
  replay pass; `replay.js` says a tag is kept for about two epochs, the code
  promises one (`forgot` in `MixNode`).

Seen while modelling, and not the subject of a run: a nym send that fails while the
gateway socket is closed is lost although it was reported as sent (`main.js:844`);
a submit over the limit or during maintenance is dropped without an answer
(`server.js:789-790`); an unspoilt envelope whose sender's card is not
held and whose lookup fails is dropped for good, since the gateway has handed it over
(`main.js:710`, `main.js:724`; `LettersTrue` says that what has its sender's card at hand is
taken); an unsend or a reaction that overtakes its message finds
nothing to act on (`main.js:770-784`; `Inbox` only counts a retraction that found
its message); `expires_at` counts from the start of an upload, so a slow one uses up
part of the attachment's life (`server.js:584`); a download that began before the
sweep may open after it (`main.js:1372`); a sign-in of a pre-split account, crossed
by a deletion and a registration of the same handle, sets the new account's secret
(`store.js:148`).

## Fairness

`Delivery!Fairness` gives weak fairness to what the event loop runs by itself
(timers, close events, the answers of queries) and strong fairness to a client
that keeps subscribing: a phone that reconnects for ever gets through between two
losses of its link. No fault and no peer's close is fair. `QueueServed` is
conditional on subscriptions that end again and again, because a row pushed during the
flush of a subscription that never ends stays in the table.
`Transport!FairSpec` assumes timers, `open`/`close` events of the sidecar socket and
its answer. `FileStore!Fairness` assumes handlers, timers and time.
`NymRestored` and `TableMeetsDisk` hold once restarts stop.

The modules of the page and of the networks state safety only: nothing makes a network
deliver or a user click.

## Proofs

`tlapm` proves, for every value of the constants that satisfies the named
assumption of the module, every invariant and action property that a passing run
checks, and the refinement of `Mailbox`. None of the invariants is inductive alone;
what each needs is the content of these modules.

* `DeliveryProofs`: `TypeCorrect`, `RegistrationsCorrect` (from `SubscriptionsCorrect` and
  `PresenceCorrect`), `OwnMailOnly`, `OneHolderCorrect`, `AccountedCorrect`, `EvictionFree`, and
  `Refinement`: every step of `Delivery` is a step of `Mailbox` or leaves its
  three variables alone. `PresenceInv` ties the
  presence map to the closure's `myMbkey`; custody needs the three
  disjointness facts and the accounting together, since a drain moves an envelope
  between holders and a crash empties two of them at once.
* `TransportProofs`: `TypeCorrect`, `UplinkCorrect`, `ToldCorrect`,
  `WishCorrect`. `UplinkInv` adds that a pending switch to
  nym still has the link it was checked against unless `raced`; `WishInv`
  adds what a pending switch has done so far. And of the replay guard `MixInvariant`
  and `DeliversOnce`: an exit that accepted a packet within the window still has its
  tag, among the current ones or among those before, and then the epoch is no older
  and no fuller than the time and the tags since (`Remembers`). This is what makes
  rotating by age and by size safe together.
* `FileStoreProofs`: `TypeCorrect`, `RowHasFileCorrect`, `QuotaCorrect` and
  `KeptUntilDueCorrect`. `FileInv`
  adds that the sweep's names are neither rows nor files of a running upload:
  this is where the assumption `UploadLimit <= MinAge` (the request timeout is
  shorter than the sweep's age guard) is used. `QuotaCorrect` needs `LockInv`: of one
  owner at most one transaction is open, and while it is, the rows are no more than the
  `SUM` it read, since nobody else inserts and a deletion only lowers it. So what fitted at the
  check fits at the COMMIT, also if the handler has died by then. Lemmas say what adding
  and removing a row does to a sum over the rows of an owner.
* `AccountsProofs`: `TypeCorrect`, `BannedOut` (from `SessionsRevoked` and
  `SocketsShut`), `OwnersListen` and `BanSetCorrect`. The properties speak of settled accounts;
  the induction needs what each step has achieved by then. `CustodyInv` says
  that what a request's earlier answers told it is still so, that sessions go at
  the job's revoking step, and that the job's list names every subscription that
  the rows no longer justify, but the `orphaned` ones. `RowTaken` says what the upsert
  of a card leaves of the rows. `BanInv` follows one refresh from clear to fill. Both are
  stated for accounts that are not `late`, on which a job is alone, and for sockets that are
  not `orphaned`.
* `KeyPinsProofs`: `TypeCorrect`, `PinInvariant`, `CardsPinned`, `UserUnflags`,
  `SendsAreVouched` and `UnflaggedAreVouched`. Already the types need that the safety
  number on the screen is of a pinned handle (`ShownPinned`). `PinInv` says of the pin
  of one handle that its card is the pinned one, and that a pin without a warning is of
  keys somebody vouched for, unless the user confirmed others than those shown; every
  action leaves the pin, sees keys that differ (`Kept`, `Seen`), or is the sync, the
  click or the end of the session. What is sent and shown follows from it step by step.
* `SignInProofs`: `TokensAreOwners` (what a handler read of an account holds
  of its secret, or a deletion crossed it), `BurstIsBounded` (what was counted in a lock and
  what is still in flight are together no more than the handlers) and `CountsAreExact` (every open
  link is charged once, to the address it came from; a bucket that a sweep took would
  have been full).
* `PacketProofs`, `OnionCorrect`: for every `MAX_HOPS` and every path. `createHeader`
  builds the header from the last hop to the first, the hops peel it from the first to
  the last. `FillerBlocks` says what stands at each place of the filler, the XOR of the streams
  of the hops before; `HeaderBlocks` what stands at each place of a header, carried from the exit
  to the entry by `DownFrom`; `HeaderEndsInFiller` that each ends in just what the next hop's
  padding decrypts to; and `HopPeels` reads off that a hop finds its command, its MAC and the
  next header.
* `PacketProofs`, `LettersAreTrue`: the invariant is about what is on the networks. Every message reads, by the
  lengths in its fields, as an envelope that one device sealed for another with a
  signature that this sender made, or it is torn and unpacks to nothing
  (`Letter`, `Spoilt`). What is refused although it was unspoilt had no sender's card
  at hand. It needs that the fields of `pack` are found again
  by `unpack` whatever stands behind them, and that the transcripts of two
  letters differ if anything in them does.
* `PageProofs`: of the calls `MicIsReleased` (a stream is the current call's, or strayed); of the session
  `SignInReusesDevice` (what the server knows under the stored keys, at each of the places
  where a page may die); of the inbox `RemovedStaysRemoved` and `ChangesAreSaved` (an id is one
  content's, hence in one conversation; what the user has not sent is nowhere); of the
  whole page `PageTypeCorrect`, which includes that a reload collects distinct ids from all
  conversations.
* `PageProofs`, `AttachmentsCorrect`: all three parts of `AttachmentsEnd`, for files and chunks of any
  size. `FlattenPieces` says where in a concatenation each piece stands if all but the last have one length, `PlaceInPiece`
  that every place is in one. With the first, the offsets that
  `decryptChunkedToBlob` steps through are the starts of the chunks; with the second, the
  pieces joined are the file. The clocks need that the gateway's starts no later than the page's.

Induction over numbers is one lemma, `NaturalsFrom0`, with a set for the predicate: the
library's theorems take an operator, which the provers cannot instantiate. A function
that `LET` defines recursively (the filler, the header, `FlattenSeq`) is shown to exist,
then to be what `CHOOSE` finds.

Assumptions beyond types: `UploadLimit <= MinAge`, a bucket that refills within the idle time, no node named like a
state of the packet, unique ids. No theorem assumes that networks deliver or that handlers end.

Only model-checked: the liveness properties `QueueServed`, `StaleReclaimed`, `NymRestored` and
`TableMeetsDisk`, which need fairness and `ENABLED`. What contradicts a comment is a counterexample
of TLC and needs no proof.

## Not modelled

* `Mixnet.inject` serves tests only. The fleet of `node.js` processes relays.
* The upgrade of pre-split accounts, which ends at a deadline.
* Cryptographic primitives and key derivation: pure computation by a library.
  What the program composes of them is in `Envelope` and `Sphinx`.
* The passphrase gate, the admin page, the shells around the web client: views and
  wrappers; one sequential unlock.
* The service worker, TURN credentials, the event log: stateless or bounded I/O.
* Deployment scripts around git and docker share no state with the program.
* Rendering, menus, previews, statistics and wording of the web client, which are
  most of what `main.js` and `server.js` have beyond the mapped lines.

## Plan

Done: every component above whose behaviour depends on order, and a proof of every
safety property that a run checks. Next:

1. Lemmas that the proofs share but each module states for itself (sums over a set,
   cardinalities of a set with one element more) in one place.
2. Properties of the composition: what `Page` and `KeyPins` promise together when a
   reload falls between a look-up and a send.
3. The upgrade of pre-split accounts as an action of `SignIn`, with the crossing that
   "Seen while modelling" names as a run of its own.
