------------------------------- MODULE SignIn -------------------------------
(***************************************************************************)
(* Registration, sign-in and the lockout of a handle (apps/server/         *)
(* server.js, makeLockout of util.js).  The lockout is read before the     *)
(* account and scrypt are awaited, and counted after them; the table is in *)
(* memory and drops its oldest entries at its cap.                         *)
(*                                                                         *)
(* A lock's delay is a duration that ends at some point, and a count is    *)
(* forgotten at some later one: an entry past either is as good as gone.   *)
(* Accounts are on the auth-secret scheme.                                 *)
(***************************************************************************)
EXTENDS Naturals, Sequences, FiniteSets

LOCAL INSTANCE Functions

CONSTANTS
  Names,        \* handles that are tried, taken or not
  Secrets,      \* auth secrets, one for each password
  Attempts,     \* registrations and sign-ins in flight at once (a bound)
  Threshold,    \* wrong passwords before the first lock (8)
  MaxEntries,   \* entries of the table (10000)
  NoAccount     \* no such row

ASSUME SignInAssumption ==
  /\ Threshold \in Nat \ {0} /\ MaxEntries \in Nat \ {0} /\ NoAccount \notin Secrets
  /\ IsFiniteSet(Attempts)

VARIABLES
  hits,         \* the handles in the table, oldest first
  fails,        \* their counts, up to Threshold
  locked,       \* those whose delay has not elapsed
  secretOf,     \* the accounts: secretOf[h] is what the hash is of
  sessions,       \* [of, secret]: rows of sessions, by the secret that was proved or set,
                \* but for those whose handler a deletion of the account crossed
  deleting,     \* accounts between the two queries of their deletion
  attempt,      \* attempt[r]: where a handler awaits
  burst         \* history: wrong passwords checked in the lock, its cause included

lockout == <<hits, fails, locked, burst>>
signInVars == <<lockout, secretOf, sessions, deleting, attempt>>

NoAttempt == [at |-> "none"]
AttemptStates ==
  {NoAttempt} \cup [at : {"lookup", "verify", "insert", "session"}, of : Names, secret : Secrets,
                    row : Secrets \cup {NoAccount}, crossed : BOOLEAN]

SignInInit ==
  /\ hits = <<>> /\ fails = [h \in Names |-> 0] /\ locked = {}
  /\ secretOf = [h \in Names |-> NoAccount] /\ sessions = {} /\ deleting = {}
  /\ attempt = [r \in Attempts |-> NoAttempt]
  /\ burst = [h \in Names |-> 0]

-----------------------------------------------------------------------------
(* makeLockout                                                             *)

Least(m, n) == IF m < n THEN m ELSE n
Without(h) == SelectSeq(hits, LAMBDA x : x # h)

\* At the cap the oldest entry goes (expired ones, already gone here, first).
Kept(s) == IF Len(s) > MaxEntries THEN Tail(s) ELSE s

\* A wrong password for h: its entry becomes the newest.
fail(h) ==
  LET count == Least(fails[h] + 1, Threshold)
      locks == IF count = Threshold THEN {h} ELSE {}
      table == Kept(Append(Without(h), h))
      evicted == Range(hits) \ Range(table)
  IN /\ hits' = table
     /\ fails' = [x \in Names |-> IF x \in evicted THEN 0 ELSE IF x = h THEN count ELSE fails[x]]
     /\ locked' = (locked \cup locks) \ evicted
     /\ burst' = [x \in Names |->
          IF x \in evicted THEN 0 ELSE IF x # h THEN burst[x]
          ELSE IF h \in locked THEN Least(burst[h] + 1, Cardinality(Attempts) + 1) ELSE Cardinality(locks)]

Gone(h) == hits' = Without(h) /\ fails' = [fails EXCEPT ![h] = 0]
Unlocked(h) == locked' = locked \ {h} /\ burst' = [burst EXCEPT ![h] = 0]

succeed(h) == Gone(h) /\ Unlocked(h)

\* retryAfter; its deletion of a forgotten entry shows nowhere.
retryAfterNone(h) == FALSE
retryAfter(h) == h \in locked

\* The delay is over; later the count is forgotten.
elapses(h) ==
  /\ h \in locked /\ Unlocked(h)
  /\ UNCHANGED <<hits, fails, secretOf, sessions, deleting, attempt>>
forgets(h) ==
  /\ h \in Range(hits) \ locked /\ Gone(h)
  /\ UNCHANGED <<locked, burst, secretOf, sessions, deleting, attempt>>

-----------------------------------------------------------------------------
(* The handlers                                                            *)

Awaits(r, at) == attempt' = [attempt EXCEPT ![r].at = at]
Answers(r) == attempt' = [attempt EXCEPT ![r] = NoAttempt]
Asks(r, at, h, s) ==
  /\ attempt[r] = NoAttempt
  /\ attempt' = [attempt EXCEPT ![r] = [at |-> at, of |-> h, secret |-> s, row |-> NoAccount, crossed |-> h \in deleting]]

\* Sign-in, of a user or of an admin.
login(r, h, s) ==
  /\ ~retryAfter(h)
  /\ Asks(r, "lookup", h, s)
  /\ UNCHANGED <<lockout, secretOf, sessions, deleting>>

\* An unknown handle counts as a wrong password.
getAccount(r) ==
  /\ attempt[r].at = "lookup"
  /\ LET row == secretOf[attempt[r].of]
     IN IF row = NoAccount THEN fail(attempt[r].of) /\ Answers(r)
        ELSE attempt' = [attempt EXCEPT ![r].at = "verify", ![r].row = row] /\ UNCHANGED lockout
  /\ UNCHANGED <<secretOf, sessions, deleting>>

\* scrypt has ended.  A banned account, or at the panel one that is no admin's,
\* is refused; its count stays.
verifyAuth(r, refused) ==
  /\ attempt[r].at = "verify"
  /\ IF attempt[r].secret # attempt[r].row THEN fail(attempt[r].of) /\ Answers(r)
     ELSE IF refused THEN Answers(r) /\ UNCHANGED lockout
     ELSE succeed(attempt[r].of) /\ Awaits(r, "session")
  /\ UNCHANGED <<secretOf, sessions, deleting>>

register(r, h, s) ==
  /\ secretOf[h] = NoAccount
  /\ Asks(r, "insert", h, s)
  /\ UNCHANGED <<lockout, secretOf, sessions, deleting>>

\* (For the mutants: ON CONFLICT DO UPDATE.)
InsertsAlways(h) == TRUE

\* The primary key decides.
Inserts(h) == secretOf[h] = NoAccount

createAccount(r) ==
  /\ attempt[r].at = "insert"
  /\ IF Inserts(attempt[r].of)
     THEN secretOf' = [secretOf EXCEPT ![attempt[r].of] = attempt[r].secret] /\ Awaits(r, "session")
     ELSE Answers(r) /\ UNCHANGED secretOf
  /\ UNCHANGED <<lockout, sessions, deleting>>

createSession(r) ==
  /\ attempt[r].at = "session"
  /\ sessions' = IF attempt[r].crossed THEN sessions
               ELSE sessions \cup {[of |-> attempt[r].of, secret |-> attempt[r].secret]}
  /\ Answers(r)
  /\ UNCHANGED <<lockout, secretOf, deleting>>

\* A query throws.
attemptFails(r) ==
  /\ attempt[r] # NoAttempt /\ Answers(r)
  /\ UNCHANGED <<lockout, secretOf, sessions, deleting>>

\* deleteAccount: the sessions, then the row.
Crossed(h) ==
  attempt' = [r \in Attempts |-> IF attempt[r] # NoAttempt /\ attempt[r].of = h
                                 THEN [attempt[r] EXCEPT !.crossed = TRUE] ELSE attempt[r]]
deleteSessions(h) ==
  /\ secretOf[h] # NoAccount /\ h \notin deleting
  /\ deleting' = deleting \cup {h}
  /\ sessions' = {x \in sessions : x.of # h}
  /\ Crossed(h)
  /\ UNCHANGED <<lockout, secretOf>>
deleteRow(h) ==
  /\ h \in deleting /\ deleting' = deleting \ {h}
  /\ secretOf' = [secretOf EXCEPT ![h] = NoAccount]
  /\ Crossed(h)
  /\ UNCHANGED <<lockout, sessions>>

\* A restart forgets the table, and cuts every handler.
crash ==
  /\ hits' = <<>> /\ fails' = [h \in Names |-> 0] /\ locked' = {}
  /\ burst' = [h \in Names |-> 0]
  /\ attempt' = [r \in Attempts |-> NoAttempt] /\ deleting' = {}
  /\ UNCHANGED <<secretOf, sessions>>

SignInNext ==
  \/ crash
  \/ \E h \in Names : elapses(h) \/ forgets(h) \/ deleteSessions(h) \/ deleteRow(h)
  \/ \E r \in Attempts :
       \/ getAccount(r) \/ createAccount(r) \/ createSession(r) \/ attemptFails(r)
       \/ \E refused \in BOOLEAN : verifyAuth(r, refused)
       \/ \E h \in Names, s \in Secrets : login(r, h, s) \/ register(r, h, s)

SignInSpec == SignInInit /\ [][SignInNext]_signInVars

SignInTypeOK ==
  /\ hits \in Seq(Names) /\ Len(hits) <= MaxEntries
  /\ fails \in [Names -> 0..Threshold] /\ locked \subseteq Range(hits)
  /\ secretOf \in [Names -> Secrets \cup {NoAccount}]
  /\ sessions \subseteq [of : Names, secret : Secrets]
  /\ deleting \subseteq Names /\ attempt \in [Attempts -> AttemptStates]
  /\ burst \in [Names -> 0..(Cardinality(Attempts) + 1)]

\* Sign-ins that run side by side pass the lockout together, but only those
\* that were in flight when the handle locked: no more wrong passwords than these
\* are checked in a lock (which a full table or a restart may end early).
BurstBounded == \A h \in Names : burst[h] <= Cardinality(Attempts)

\* A token of a handle is in the hands of someone who knows the account's
\* secret: also of two registrations that both found the handle free, and of
\* sign-ins that await scrypt; unless a deletion of the account crossed them.
TokensOfOwner == \A x \in sessions : secretOf[x.of] = x.secret
=============================================================================
