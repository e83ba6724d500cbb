--------------------------- MODULE ClientSession ----------------------------
(***************************************************************************)
(* Sign-in on one browser (apps/web/src/main.js, keystore.js): what doAuth *)
(* and init write to localStorage and IndexedDB, await by await, and what  *)
(* is found there after the page died in between, a sign-out, the end of   *)
(* the session or a sign-in under another handle; with the gateway socket  *)
(* that the signed-in page keeps.                                          *)
(*                                                                         *)
(* A keypair stands for the identity and its mailbox; the blob key of a    *)
(* handle is named after the handle.  Passwords are right.                 *)
(***************************************************************************)
EXTENDS FiniteSets

CONSTANTS
  Users,        \* handles that sign in on this browser
  Keypairs,     \* identities it generates (a bound)
  DeviceIds,    \* device ids it draws (a bound)
  Absent        \* a missing value

Identities == [of : Users, key : Keypairs, under : Users \cup {Absent}]

ASSUME ClientSessionAssumption ==
  /\ Absent \notin Users \cup Keypairs \cup DeviceIds \cup Identities
  /\ Keypairs # {} /\ DeviceIds # {}

VARIABLES
  local,        \* localStorage: user (with its token), dev and id
  blobKey,      \* whose blob key IndexedDB holds
  page,         \* the page: where it is, for whom, with which device
  ws,           \* its gateway socket
  retry,        \* is a reconnect timer pending?
  tokens,       \* users whose token of this browser is still good
  devices,      \* device rows at the server: [user, dev, key]
  drawn,        \* keypairs and device ids drawn so far
  torn          \* history: a new device id was stored, its identity was not

sessionVars == <<local, blobKey, page, ws, retry, tokens, devices, drawn, torn>>
socket == <<ws, retry>>

Boot == [at |-> "boot", user |-> Absent, dev |-> Absent, key |-> Absent, fresh |-> FALSE]
Form == [Boot EXCEPT !.at = "form"]
GoesTo(at) == page' = [page EXCEPT !.at = at]

\* A keypair or id not drawn yet; they are interchangeable, so one stands for all.
Fresh(ids) == IF ids \subseteq drawn THEN {} ELSE {CHOOSE x \in ids : x \notin drawn}

\* What an older build left in the clear.
Legacy(u, d, k) ==
  /\ local = [user |-> u, dev |-> d, id |-> [of |-> u, key |-> k, under |-> Absent]]
  /\ devices = {[user |-> u, dev |-> d, key |-> k]} /\ tokens = {u} /\ drawn = {d, k}

SessionInit ==
  /\ \/ /\ local = [user |-> Absent, dev |-> Absent, id |-> Absent]
        /\ devices = {} /\ tokens = {} /\ drawn = {}
     \/ \E u \in Users : Legacy(u, CHOOSE d \in DeviceIds : TRUE, CHOOSE k \in Keypairs : TRUE)
  /\ blobKey = Absent /\ page = Boot /\ ws = "none" /\ retry = FALSE /\ torn = FALSE

\* (For the mutants.)
clearSessionDevice ==
  /\ local' = [local EXCEPT !.user = Absent, !.dev = Absent]
  /\ blobKey' = Absent

\* clearSession keeps the device id and the identity.
clearSession ==
  /\ local' = [local EXCEPT !.user = Absent]
  /\ blobKey' = Absent

\* loadIdentityFrom: sealed under the key at hand, or left in the clear.
Opens(id, key) == id # Absent /\ (id.under = Absent \/ id.under = key)

\* init: an auto-login needs all four values; a plaintext identity is sealed.
init(staleNet) ==
  /\ page.at = "boot"
  /\ UNCHANGED <<socket, tokens, devices, drawn, torn>>
  /\ IF Absent \in {local.user, local.dev, local.id}
     THEN page' = Form /\ UNCHANGED <<local, blobKey>>
     ELSE IF ~Opens(local.id, blobKey) \/ staleNet
     THEN page' = Form /\ clearSession
     ELSE /\ page' = [at |-> "init", user |-> local.user, dev |-> local.dev, key |-> local.id.key, fresh |-> FALSE]
          /\ local' = IF local.id.under = Absent THEN [local EXCEPT !.id.under = blobKey] ELSE local
          /\ UNCHANGED blobKey

-----------------------------------------------------------------------------
(* doAuth                                                                  *)

\* The server accepted the sign-in or registration: token and user are stored.
signIn(u) ==
  /\ page.at = "form"
  /\ local' = [local EXCEPT !.user = u]
  /\ tokens' = tokens \cup {u}
  /\ page' = [Form EXCEPT !.at = "derive", !.user = u]
  /\ UNCHANGED <<blobKey, socket, devices, drawn, torn>>

\* putKey fails quietly where IndexedDB is refused.
putKey(stored) ==
  /\ page.at = "derive"
  /\ blobKey' = IF stored THEN page.user ELSE blobKey
  /\ GoesTo("device")
  /\ UNCHANGED <<local, socket, tokens, devices, drawn, torn>>

\* The stored identity serves again when it is this user's.
reuseDevice(id, staleNet) == ~staleNet /\ Opens(id, page.user) /\ id.of = page.user

\* The device id is stored here, the identity after its encryption.
takeDevice(staleNet) ==
  /\ page.at = "device"
  /\ UNCHANGED <<blobKey, socket, tokens, devices, torn>>
  /\ IF reuseDevice(local.id, staleNet)
     THEN /\ page' = [page EXCEPT !.at = "save", !.dev = local.dev, !.key = local.id.key]
          /\ UNCHANGED <<local, drawn>>
     ELSE \E d \in Fresh(DeviceIds), k \in Fresh(Keypairs) :
            /\ page' = [page EXCEPT !.at = "save", !.dev = d, !.key = k, !.fresh = TRUE]
            /\ local' = [local EXCEPT !.dev = d]
            /\ drawn' = drawn \cup {d, k}

\* localStorage may be full: ls.set swallows that.
saveIdentity(stored) ==
  /\ page.at = "save"
  /\ local' = IF stored THEN [local EXCEPT !.id = [of |-> page.user, key |-> page.key, under |-> page.user]] ELSE local
  /\ torn' = IF stored /\ page.fresh THEN FALSE ELSE torn \/ (~stored /\ page.fresh)
  /\ GoesTo("auth")
  /\ UNCHANGED <<blobKey, socket, tokens, devices, drawn>>

\* The server upserts the row of this account and device, unless the token is
\* dead, the card is another handle's or its mailbox another row's.
Registers ==
  /\ page.user \in tokens
  /\ page.at = "init" => local.id.of = page.user
  /\ \A r \in devices : r.key = page.key => r.user = page.user /\ r.dev = page.dev

\* connectWS leaves a socket that is connecting or open alone.
connectWS == ws' = IF ws \in {"connecting", "open"} THEN ws ELSE "connecting"

registerDevice ==
  /\ page.at \in {"init", "auth"}
  /\ UNCHANGED <<tokens, drawn, torn, retry>>
  /\ IF Registers
     THEN /\ devices' = {r \in devices : r.user # page.user \/ r.dev # page.dev}
                        \cup {[user |-> page.user, dev |-> page.dev, key |-> page.key]}
          /\ GoesTo("app") /\ connectWS
          /\ UNCHANGED <<local, blobKey>>
     ELSE /\ page' = Form
          /\ IF page.at = "init" THEN clearSession ELSE UNCHANGED <<local, blobKey>>
          /\ UNCHANGED <<devices, ws>>

-----------------------------------------------------------------------------
(* The signed-in page                                                      *)

\* A timer, the network's return or the foreground wakes the connection.
ensureConnected ==
  /\ page.at = "app" /\ connectWS
  /\ retry' \in {retry, FALSE}
  /\ UNCHANGED <<local, blobKey, page, tokens, devices, drawn, torn>>

opened ==
  /\ ws = "connecting" /\ ws' = "open"
  /\ UNCHANGED <<local, blobKey, page, retry, tokens, devices, drawn, torn>>

Reloads == page' = Boot /\ ws' = "none" /\ retry' = FALSE

\* The socket closes: with 4001, 4003 or 4004 the session is over.
closed(over) ==
  /\ ws \in {"connecting", "open"}
  /\ UNCHANGED <<tokens, devices, drawn, torn>>
  /\ IF over THEN clearSession /\ Reloads
     ELSE ws' = "closed" /\ retry' = TRUE /\ UNCHANGED <<local, blobKey, page>>

\* The user signs out; the server drops the token.
logout ==
  /\ page.at = "app" /\ clearSession /\ Reloads
  /\ tokens' = tokens \ {page.user}
  /\ UNCHANGED <<devices, drawn, torn>>

\* Nothing is kept of the account on this browser, the identity included.
Wiped ==
  /\ local' = [user |-> Absent, dev |-> Absent, id |-> Absent]
  /\ blobKey' = Absent /\ torn' = FALSE /\ Reloads

panicWipe ==
  /\ page.at = "app" /\ Wiped
  /\ UNCHANGED <<tokens, devices, drawn>>

\* The server has deleted the account; when its answer is lost nothing is wiped.
deleteAccountFlow ==
  /\ page.at = "app" /\ page.user \in tokens /\ Wiped
  /\ tokens' = tokens \ {page.user} /\ devices' = {r \in devices : r.user # page.user}
  /\ UNCHANGED drawn

\* The page is reloaded or dies anywhere.
dies ==
  /\ page.at # "boot" /\ Reloads
  /\ torn' = (torn \/ (page.at = "save" /\ page.fresh))
  /\ UNCHANGED <<local, blobKey, tokens, devices, drawn>>

\* At the server a session ends, or the devices of a user are cleared.
expires(u) ==
  /\ u \in tokens /\ tokens' = tokens \ {u}
  /\ UNCHANGED <<local, blobKey, page, socket, devices, drawn, torn>>
cleared(u) ==
  /\ devices' = {r \in devices : r.user # u}
  /\ UNCHANGED <<local, blobKey, page, socket, tokens, drawn, torn>>

SessionNext ==
  \/ \E b \in BOOLEAN : init(b) \/ putKey(b) \/ takeDevice(b) \/ saveIdentity(b) \/ closed(b)
  \/ registerDevice \/ ensureConnected \/ opened \/ logout \/ panicWipe \/ deleteAccountFlow \/ dies
  \/ \E u \in Users : signIn(u) \/ expires(u) \/ cleared(u)

SessionSpec == SessionInit /\ [][SessionNext]_sessionVars

SessionTypeOK ==
  /\ local \in [user : Users \cup {Absent}, dev : DeviceIds \cup {Absent}, id : Identities \cup {Absent}]
  /\ blobKey \in Users \cup {Absent}
  /\ page \in [at : {"boot", "form", "init", "derive", "device", "save", "auth", "app"}, user : Users \cup {Absent},
               dev : DeviceIds \cup {Absent}, key : Keypairs \cup {Absent}, fresh : BOOLEAN]
  /\ ws \in {"none", "connecting", "open", "closed"} /\ retry \in BOOLEAN
  /\ tokens \subseteq Users
  /\ devices \subseteq [user : Users, dev : DeviceIds, key : Keypairs]
  /\ drawn \subseteq DeviceIds \cup Keypairs /\ torn \in BOOLEAN

\* Signing in again on this browser updates the same device row: the server
\* knows the stored identity, if at all, as its handle's under the stored device
\* id (else it refuses the registration, for ever: its mailbox is taken), unless
\* the page died, or the storage was full, between the two writes.
LoginReusesDevice ==
  local.id # Absent /\ ~torn /\ page.at # "save" =>
    \A r \in devices : r.key = local.id.key => r.user = local.id.of /\ r.dev = local.dev
=============================================================================
