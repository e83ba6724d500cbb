------------------------------ MODULE Envelope ------------------------------
(***************************************************************************)
(* A letter from the page that sends it to the device that opens it: the   *)
(* envelope of packages/protocol (protocol.js, wire.js), sealed with the   *)
(* primitives of packages/crypto, and the uplink that main.js picks: the   *)
(* mix network (Sphinx, MixNode) or the public Nym network, which may      *)
(* refuse a message after it has taken it.                                 *)
(*                                                                         *)
(* Cryptography is symbolic: a key, a signature or a hash is the tuple of  *)
(* what it is made of.  A byte string is a sequence of blocks, with the    *)
(* lengths that pack writes and unpack believes; the networks may lose,    *)
(* repeat, reorder or spoil it.                                            *)
(***************************************************************************)
EXTENDS Naturals, Sequences, FiniteSets, SequencesExt

CONSTANTS
  Devices,      \* each has keys of its own
  HandleOf,     \* HandleOf[d]: whose device it is
  ProviderOf,   \* ProviderOf[d]: where its mailbox is
  Page,         \* the device that sends
  Letters,      \* ids of contents
  Unsent,       \* no such letter
  Padding,      \* blocks that the onion adds to a payload (a bound)
  MaxNet,       \* messages in the networks at once (a bound)
  MaxSeals      \* envelopes sealed in all (a bound)

ASSUME EnvelopeAssumption ==
  Page \in Devices /\ Padding \in Nat /\ MaxNet \in Nat /\ MaxSeals \in Nat

VARIABLES
  uplink,       \* the page: ws open?, its Nym client, and the status it was told
  letters,      \* letters[l]: the device it was sent to
  reported,     \* letters that sendToCard reported as sent
  sends,        \* Nym sends that are not settled
  net,          \* messages in the two networks: [provider, payload, of, whole]
  taken,        \* taken[d]: [content, sig] that d opened and verified
  seals,        \* envelopes sealed so far
  sealedFor,    \* history: <<content, handle that signed it, recipient>>
  refused       \* history: contents of unspoilt envelopes not taken though
                \* the card of the device that sent them was at hand

letterVars == <<uplink, letters, reported, sends, net, taken, seals, sealedFor, refused>>

-----------------------------------------------------------------------------
(* wire.js                                                                 *)

Torn == <<>>
Block(x) == <<<<"block", x>>>>
pack(fields) ==
  FlattenSeq([i \in DOMAIN fields |-> <<<<"length", Len(fields[i])>>>> \o fields[i]])

\* Starts[i] is where the length of field i stands, 0 after one that is cut off.
Starts(bytes, count) ==
  LET starts[i \in 1..count + 1] ==
        IF i = 1 THEN 1
        ELSE LET at == starts[i - 1]
             IN IF at = 0 \/ at > Len(bytes) THEN 0
                ELSE IF bytes[at][1] # "length" \/ at + bytes[at][2] > Len(bytes) THEN 0
                ELSE at + bytes[at][2] + 1
  IN starts

Fields(bytes, starts) ==
  [i \in 1..Cardinality(DOMAIN starts) - 1 |-> SubSeq(bytes, starts[i] + 1, starts[i + 1] - 1)]

\* What follows the last field is ignored: the padding of the onion.
unpack(bytes, count) ==
  LET starts == Starts(bytes, count)
  IN IF starts[count + 1] = 0 THEN Torn ELSE Fields(bytes, starts)

-----------------------------------------------------------------------------
(* packages/crypto                                                         *)

kemPublicBundle(d) == [x |-> <<"x", d>>, kem |-> <<"kem", d>>]
signPublicBundle(d) == [ed |-> <<"ed", d>>, dsa |-> <<"dsa", d>>]

\* X25519 and ML-KEM: both sides arrive at the same two secrets.
dh(p, q) == <<"dh", {p, q}>>
kemSecret(e, pk) == <<"ss", e, pk>>
transcript(ephX, bundle, kct) == <<ephX, bundle, kct>>

encapsulate(bundle, e) ==
  LET ephPublic == <<"eph", e>>
      cipherText == [seed |-> e, pk |-> bundle.kem]
  IN [header |-> [epk |-> ephPublic, kct |-> cipherText],
      sharedSecret |-> <<dh(ephPublic, bundle.x), kemSecret(e, bundle.kem),
                         transcript(ephPublic, bundle, cipherText)>>]

\* ML-KEM answers a ciphertext that is not its own with a secret of no use.
decapsulate(d, header) ==
  LET own == kemPublicBundle(d)
  IN <<dh(header.epk, own.x),
       IF header.kct.pk = own.kem THEN kemSecret(header.kct.seed, own.kem) ELSE kemSecret(0, own.kem),
       transcript(header.epk, own, header.kct)>>

sign(d, message) == [ed |-> <<<<"ed", d>>, message>>, dsa |-> <<<<"dsa", d>>, message>>]
verify(bundle, message, sig) ==
  sig.ed = <<bundle.ed, message>> /\ sig.dsa = <<bundle.dsa, message>>

-----------------------------------------------------------------------------
(* protocol.js and client.js                                               *)

mailboxId(bundle) == Block(<<"hash", bundle>>)
card(d) == [handle |-> HandleOf[d], providerId |-> ProviderOf[d],
            mailbox |-> mailboxId(kemPublicBundle(d)), kem |-> kemPublicBundle(d)]

\* (For the mutants.)
signedTranscriptUnbound(bundle, content) == <<"signed-envelope/v1", content>>

signedTranscript(bundle, content) == <<"signed-envelope/v1", bundle, content>>

\* A content and a signature, sealed for a bundle.
Sealed(bundle, content, sig, e) ==
  LET kem == encapsulate(bundle, e)
      plain == <<<<"version", 1>>>> \o pack(<<Block(content), Block(sig.ed), Block(sig.dsa)>>)
  IN pack(<<Block(kem.header.epk), Block(kem.header.kct), Block([key |-> kem.sharedSecret, plain |-> plain])>>)

sealEnvelope(bundle, content, d, e) ==
  Sealed(bundle, content, sign(d, signedTranscript(bundle, content)), e)

\* The content, with what its signature has to be of, unless something throws.
Refuses == [content |-> Unsent]
openEnvelope(d, bytes) ==
  LET field == unpack(bytes, 3)
  IN IF field = Torn THEN Refuses
     ELSE LET header == [epk |-> field[1][1][2], kct |-> field[2][1][2]]
              aead == field[3][1][2]
              inside == unpack(Tail(aead.plain), 3)
          IN IF aead.key # decapsulate(d, header) \/ Head(aead.plain) # <<"version", 1>> \/ inside = Torn THEN Refuses
             ELSE [content |-> inside[1][1][2], sig |-> [ed |-> inside[2][1][2], dsa |-> inside[3][1][2]],
                   message |-> signedTranscript(kemPublicBundle(d), inside[1][1][2])]

\* The mailbox and the envelope; over Nym as they are, in an onion padded.
buildInner(c, content, d, e) == pack(<<c.mailbox, sealEnvelope(c.kem, content, d, e)>>)
paddedInner(c, content, d, e) ==
  buildInner(c, content, d, e) \o [i \in 1..Padding |-> <<"zero", 0>>]

-----------------------------------------------------------------------------
(* The uplink (main.js)                                                    *)

LettersInit ==
  /\ uplink = [ws |-> FALSE, nym |-> "none", via |-> "internal", address |-> FALSE]
  /\ letters = [l \in Letters |-> Unsent] /\ reported = {} /\ sends = {}
  /\ net = <<>> /\ taken = [d \in Devices |-> {}]
  /\ seals = 0 /\ sealedFor = {} /\ refused = {}

ContentOf(l) == [id |-> l, from |-> HandleOf[Page]]
Cover == [id |-> "cover", from |-> HandleOf[Page]]
Outbox == <<letters, reported, sends, net, taken, seals, sealedFor, refused>>

\* The socket opens and closes (ClientSession), ensureConnected included.
socketChanges == uplink' = [uplink EXCEPT !.ws = ~@] /\ UNCHANGED Outbox

\* ensureNymClient: one at a time, and again after a failure.
Warmed == IF uplink.nym = "none" THEN "loading" ELSE uplink.nym
nymCreated(ok) ==
  /\ uplink.nym = "loading"
  /\ uplink' = [uplink EXCEPT !.nym = IF ok THEN "started" ELSE "none"]
  /\ UNCHANGED Outbox
nymConnected ==
  /\ uplink.nym = "started" /\ uplink' = [uplink EXCEPT !.nym = "ready"]
  /\ UNCHANGED Outbox

\* A status of the gateway: an address, once known, is kept.
applyStatus(via, address) ==
  /\ uplink' = [uplink EXCEPT !.via = via, !.address = @ \/ address,
                              !.nym = IF via = "nym" THEN Warmed ELSE @]
  /\ UNCHANGED Outbox

OverNym == uplink.via = "nym" /\ uplink.nym = "ready" /\ uplink.address
Seals(content, d, r) ==
  /\ seals < MaxSeals /\ seals' = seals + 1
  /\ sealedFor' = sealedFor \cup {<<content, HandleOf[d], r>>}
Posts(r, payload, content) ==
  /\ Len(net) < MaxNet
  /\ net' = Append(net, [provider |-> ProviderOf[r], payload |-> payload, of |-> content, whole |-> TRUE])

\* internalSubmit throws when the socket is not open.
internalSubmit(content, r) ==
  IF ~uplink.ws THEN UNCHANGED <<net, seals, sealedFor>>
  ELSE Seals(content, Page, r) /\ Posts(r, paddedInner(card(r), content, Page, seals + 1), content)

\* Nym may have taken a message that it reports as failed, or lose one.
nymSubmit(content, r) ==
  /\ Seals(content, Page, r)
  /\ Posts(r, buildInner(card(r), content, Page, seals + 1), content) \/ UNCHANGED net
  /\ sends' = sends \cup {[content |-> content, to |-> r]}

\* activeTransport().submit: on Nym before its client is ready, the mix network.
submit(content, r) ==
  IF OverNym THEN nymSubmit(content, r) /\ UNCHANGED uplink
  ELSE /\ internalSubmit(content, r) /\ UNCHANGED sends
       /\ uplink' = IF uplink.via = "nym" THEN [uplink EXCEPT !.nym = Warmed] ELSE uplink

sendToCard(l, r) ==
  /\ letters[l] = Unsent /\ letters' = [letters EXCEPT ![l] = r]
  /\ submit(ContentOf(l), r)
  /\ reported' = IF OverNym \/ uplink.ws THEN reported \cup {l} ELSE reported
  /\ UNCHANGED <<taken, refused>>

\* Cover traffic: a letter of the page to itself.
sendCover ==
  /\ uplink.ws /\ submit(Cover, Page)
  /\ UNCHANGED <<letters, reported, taken, refused>>

\* c.send settles: a failure goes out again by the mix network, where a closed
\* socket throws with nobody to catch it.
nymSettles(s, failed) ==
  /\ sends' = sends \ {s}
  /\ IF failed THEN internalSubmit(s.content, s.to) ELSE UNCHANGED <<net, seals, sealedFor>>
  /\ UNCHANGED <<uplink, letters, reported, taken, refused>>

-----------------------------------------------------------------------------
(* The networks, the gateway and the recipient                             *)

loses(i) ==
  /\ net' = RemoveAt(net, i)
  /\ UNCHANGED <<uplink, letters, reported, sends, taken, seals, sealedFor, refused>>

\* On the way its payload became noise, which reads as one field cut off.
spoils(i) ==
  /\ net[i].whole
  /\ net' = [net EXCEPT ![i].payload = <<<<"length", Len(@)>>>>, ![i].whole = FALSE]
  /\ UNCHANGED <<uplink, letters, reported, sends, taken, seals, sealedFor, refused>>

\* verifySender tries the device's own card and those in known: the cards it holds
\* and, when none of them verifies, those that one lookup brings.  The lookup may
\* fail, or leave a device out (KeyPins), so known is any set.
SignedBy(d, known, handle, opened) ==
  \E c \in known \cup {d} :
    HandleOf[c] = handle /\ verify(signPublicBundle(c), opened.message, opened.sig)

\* onDeliver returns when no card verifies: the envelope has left the server and
\* is gone.
Unseals(d, known, envelope) ==
  LET opened == openEnvelope(d, envelope)
  IN IF opened = Refuses THEN {}
     ELSE {x \in {[content |-> opened.content, sig |-> opened.sig]} :
             SignedBy(d, known, opened.content.from, opened)}

\* The gateway reads the mailbox (_deliver, Delivery) and the device takes what
\* it can verify with the cards in known, cover apart; the message may come again.
arrives(i, again, known) ==
  LET inner == unpack(net[i].payload, 2)
      at == {d \in Devices : inner # Torn /\ ProviderOf[d] = net[i].provider /\ card(d).mailbox = inner[1]}
      got == [d \in Devices |-> IF d \in at THEN Unseals(d, known, inner[2]) ELSE {}]
  IN /\ net' = IF again THEN net ELSE RemoveAt(net, i)
     /\ taken' = [d \in Devices |-> taken[d] \cup {x \in got[d] : x.content # Cover}]
     /\ refused' = IF net[i].whole /\ Page \in known /\ ~\E d \in Devices : \E x \in got[d] : x.content = net[i].of
                   THEN refused \cup {net[i].of} ELSE refused
     /\ UNCHANGED <<uplink, letters, reported, sends, seals, sealedFor>>

\* A recipient passes a letter on as it got it, signature and all, or signs it.
passesOn(d, x, r, signs) ==
  /\ IF signs THEN Seals(x.content, d, r) ELSE seals < MaxSeals /\ seals' = seals + 1 /\ UNCHANGED sealedFor
  /\ Len(net) < MaxNet
  /\ LET bundle == kemPublicBundle(r)
         sig == IF signs THEN sign(d, signedTranscript(bundle, x.content)) ELSE x.sig
     IN net' = Append(net, [provider |-> ProviderOf[r], of |-> x.content, whole |-> FALSE,
                            payload |-> pack(<<card(r).mailbox, Sealed(bundle, x.content, sig, seals + 1)>>)])
  /\ UNCHANGED <<uplink, letters, reported, sends, taken, refused>>

LettersNext ==
  \/ socketChanges \/ nymConnected \/ sendCover
  \/ \E ok \in BOOLEAN : nymCreated(ok)
  \/ \E via \in {"internal", "nym"}, address \in BOOLEAN : applyStatus(via, address)
  \/ \E l \in Letters, r \in Devices \ {Page} : sendToCard(l, r)
  \/ \E s \in sends, failed \in BOOLEAN : nymSettles(s, failed)
  \/ \E i \in DOMAIN net : loses(i) \/ spoils(i) \/ \E again \in BOOLEAN, known \in SUBSET Devices : arrives(i, again, known)
  \/ \E d, r \in Devices, signs \in BOOLEAN : \E x \in taken[d] : d # Page /\ r \notin {d, Page} /\ passesOn(d, x, r, signs)

LettersSpec == LettersInit /\ [][LettersNext]_letterVars

LettersTypeOK ==
  /\ uplink \in [ws : BOOLEAN, nym : {"none", "loading", "started", "ready"}, via : {"internal", "nym"}, address : BOOLEAN]
  /\ letters \in [Letters -> Devices \cup {Unsent}] /\ reported \subseteq Letters
  /\ Len(net) <= MaxNet /\ seals \in 0..MaxSeals
  /\ \A s \in sends : s.to \in Devices

\* A device takes a content under a handle only if a device of that handle
\* signed and sealed it for this very device: one that is passed on is not taken,
\* whatever its signature was good for.  What was reported as not sent reaches
\* nobody.  And every envelope that comes unspoilt, by either network and first
\* or repeated, is taken by the device that it was sealed for if that device has,
\* or looks up, the card of the sender's device; if not it is lost.
LettersTrue ==
  /\ \A d \in Devices : \A x \in taken[d] : <<x.content, x.content.from, d>> \in sealedFor
  /\ \A d \in Devices : \A x \in taken[d] : x.content.id \in reported
  /\ refused = {}
=============================================================================
