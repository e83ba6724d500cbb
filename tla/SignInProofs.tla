----------------------------- MODULE SignInProofs -----------------------------
(***************************************************************************)
(* For every set of handles, secrets, handlers in flight, addresses and    *)
(* buckets: what the gateway counts against a client before it serves it,  *)
(* and whom its tokens are of (SignIn, Admission).                         *)
(***************************************************************************)
EXTENDS SignIn, Admission, FiniteSetTheorems, TLAPS

-----------------------------------------------------------------------------
(* The handlers of SignIn *)

\* The variables that the handlers read; the table of the lockout is apart.
HandlersTyped ==
  /\ attempt \in [Attempts -> AttemptStates]
  /\ secretOf \in [Names -> Secrets \cup {NoAccount}]
  /\ sessions \subseteq [of : Names, secret : Secrets]
  /\ deleting \subseteq Names

\* What an await may rely on, unless a deletion crossed it; and what the first
\* query of a deletion has left behind for its second one.
SessionsDue ==
  \A r \in Attempts : attempt[r].at = "session" /\ ~attempt[r].crossed =>
    secretOf[attempt[r].of] = attempt[r].secret
RowsRead ==
  \A r \in Attempts : attempt[r].at = "verify" /\ ~attempt[r].crossed =>
    secretOf[attempt[r].of] = attempt[r].row /\ attempt[r].row # NoAccount
Deleted ==
  \A h \in deleting : /\ \A x \in sessions : x.of # h
                      /\ \A r \in Attempts : attempt[r] # NoAttempt /\ attempt[r].of = h =>
                           attempt[r].crossed

TokenInv == HandlersTyped /\ SessionsDue /\ RowsRead /\ Deleted /\ TokensOfOwner

\* A handler at an await has its fields.
LEMMA AttemptFields ==
  ASSUME HandlersTyped, NEW r \in Attempts, attempt[r].at # "none"
  PROVE  /\ attempt[r] # NoAttempt
         /\ attempt[r] \in [at : {"lookup", "verify", "insert", "session"}, of : Names,
                            secret : Secrets, row : Secrets \cup {NoAccount}, crossed : BOOLEAN]
  BY DEF HandlersTyped, AttemptStates, NoAttempt

LEMMA NoAttemptAt ==
  /\ NoAttempt \in AttemptStates /\ NoAttempt.at = "none"
  /\ \A x \in AttemptStates : x.at = "none" => x = NoAttempt
  BY DEF AttemptStates, NoAttempt

\* An answered handler owes nothing.
LEMMA AnswersStep ==
  ASSUME TokenInv, NEW r \in Attempts, Answers(r), UNCHANGED <<secretOf, sessions, deleting>>
  PROVE  TokenInv'
<1>1. \A q \in Attempts : attempt'[q] \in {attempt[q], NoAttempt}
  BY DEF Answers, TokenInv, HandlersTyped
<1>2. HandlersTyped' BY NoAttemptAt DEF Answers, TokenInv, HandlersTyped
<1>3. SessionsDue' /\ RowsRead' BY <1>1, NoAttemptAt DEF TokenInv, SessionsDue, RowsRead
<1>4. Deleted' BY <1>1 DEF TokenInv, Deleted
<1>5. TokensOfOwner' BY DEF TokenInv, TokensOfOwner
<1> QED BY <1>2, <1>3, <1>4, <1>5 DEF TokenInv

\* A new one owes nothing yet, and knows whether its account is being deleted.
LEMMA AsksStep ==
  ASSUME TokenInv, NEW r \in Attempts, NEW at \in {"lookup", "insert"}, NEW h \in Names,
         NEW s \in Secrets, Asks(r, at, h, s), UNCHANGED <<secretOf, sessions, deleting>>
  PROVE  TokenInv'
<1> DEFINE new == [at |-> at, of |-> h, secret |-> s, row |-> NoAccount, crossed |-> h \in deleting]
<1>1. attempt' = [attempt EXCEPT ![r] = new] BY DEF Asks
<1>2. new \in AttemptStates /\ new.at \in {"lookup", "insert"} BY DEF AttemptStates
<1>3. \A q \in Attempts : attempt'[q] = attempt[q] \/ attempt'[q] = new
  BY <1>1 DEF TokenInv, HandlersTyped
<1>4. HandlersTyped' BY <1>1, <1>2 DEF TokenInv, HandlersTyped
<1>5. SessionsDue' /\ RowsRead' BY <1>2, <1>3 DEF TokenInv, SessionsDue, RowsRead
<1>6. new.of = h /\ (h \in deleting => new.crossed) OBVIOUS
<1>7. Deleted'
  <2> HIDE DEF new
  <2> QED BY <1>3, <1>6 DEF TokenInv, Deleted
<1>8. TokensOfOwner' BY DEF TokenInv, TokensOfOwner
<1> QED BY <1>4, <1>5, <1>7, <1>8 DEF TokenInv

\* An await that goes on to the next keeps whose it is and whether it is crossed.
LEMMA AwaitsStep ==
  ASSUME TokenInv, NEW r \in Attempts, NEW next \in AttemptStates, attempt[r].at # "none",
         attempt' = [attempt EXCEPT ![r] = next],
         next.at # "none", next.of = attempt[r].of, next.crossed = attempt[r].crossed,
         next.at = "session" /\ ~next.crossed => secretOf[next.of] = next.secret,
         next.at = "verify" /\ ~next.crossed => secretOf[next.of] = next.row /\ next.row # NoAccount,
         UNCHANGED <<secretOf, sessions, deleting>>
  PROVE  TokenInv'
<1>1. \A q \in Attempts : attempt'[q] = IF q = r THEN next ELSE attempt[q]
  BY DEF TokenInv, HandlersTyped
<1>2. HandlersTyped' BY DEF TokenInv, HandlersTyped
<1>3. SessionsDue' /\ RowsRead' BY <1>1 DEF TokenInv, SessionsDue, RowsRead
<1>4. attempt[r] # NoAttempt BY NoAttemptAt
<1>5. Deleted' BY <1>1, <1>4 DEF TokenInv, Deleted
<1>6. TokensOfOwner' BY DEF TokenInv, TokensOfOwner
<1> QED BY <1>2, <1>3, <1>5, <1>6 DEF TokenInv

\* scrypt, the insertion and the session, each at the end of its await.
LEMMA VerifyAuthStep ==
  ASSUME TokenInv, NEW r \in Attempts, NEW refused \in BOOLEAN, verifyAuth(r, refused)
  PROVE  TokenInv'
<1>1. attempt[r].at = "verify" /\ UNCHANGED <<secretOf, sessions, deleting>> BY DEF verifyAuth
<1>2. CASE Answers(r) BY <1>1, <1>2, AnswersStep
<1>3. CASE attempt[r].secret = attempt[r].row /\ Awaits(r, "session")
  <2> DEFINE next == [attempt[r] EXCEPT !.at = "session"]
  <2>1. attempt[r] \in [at : {"lookup", "verify", "insert", "session"}, of : Names,
                        secret : Secrets, row : Secrets \cup {NoAccount}, crossed : BOOLEAN]
    BY <1>1, AttemptFields DEF TokenInv
  <2>2. /\ next \in AttemptStates /\ next.at = "session" /\ next.of = attempt[r].of
        /\ next.secret = attempt[r].secret /\ next.crossed = attempt[r].crossed
    BY <2>1 DEF AttemptStates
  <2>3. attempt' = [attempt EXCEPT ![r] = next] BY <1>3 DEF Awaits
  <2>4. ~next.crossed => secretOf[next.of] = next.secret
    BY <1>1, <1>3, <2>2 DEF TokenInv, RowsRead
  <2> HIDE DEF next
  <2> QED BY <1>1, <2>2, <2>3, <2>4, AwaitsStep
<1> QED BY <1>2, <1>3 DEF verifyAuth

LEMMA GetAccountStep ==
  ASSUME TokenInv, NEW r \in Attempts, getAccount(r)
  PROVE  TokenInv'
<1>1. attempt[r].at = "lookup" /\ UNCHANGED <<secretOf, sessions, deleting>> BY DEF getAccount
<1> DEFINE row == secretOf[attempt[r].of]
<1>2. CASE row = NoAccount BY <1>1, <1>2, AnswersStep DEF getAccount
<1>3. CASE row # NoAccount
  <2> DEFINE next == [attempt[r] EXCEPT !.at = "verify", !.row = row]
  <2>1. attempt[r] \in [at : {"lookup", "verify", "insert", "session"}, of : Names,
                        secret : Secrets, row : Secrets \cup {NoAccount}, crossed : BOOLEAN]
    BY <1>1, AttemptFields DEF TokenInv
  <2>2. row \in Secrets \cup {NoAccount} BY <2>1 DEF TokenInv, HandlersTyped
  <2>3. /\ next \in AttemptStates /\ next.at = "verify" /\ next.of = attempt[r].of
        /\ next.row = row /\ next.crossed = attempt[r].crossed
    BY <2>1, <2>2 DEF AttemptStates
  <2>4. attempt' = [attempt EXCEPT ![r] = next] BY <1>3, <2>1 DEF getAccount
  <2>5. secretOf[next.of] = next.row /\ next.row # NoAccount BY <1>3, <2>3
  <2> HIDE DEF next, row
  <2> QED BY <1>1, <2>3, <2>4, <2>5, AwaitsStep
<1> QED BY <1>2, <1>3

\* The primary key decides between registrations that both found the handle
\* free; the account of the winner is one that nobody else has a token of.
LEMMA CreateAccountStep ==
  ASSUME TokenInv, NEW r \in Attempts, createAccount(r)
  PROVE  TokenInv'
<1> USE SignInAssumption
<1> DEFINE h == attempt[r].of
           next == [attempt[r] EXCEPT !.at = "session"]
<1>1. attempt[r].at = "insert" /\ UNCHANGED <<sessions, deleting>> BY DEF createAccount
<1>2. CASE ~Inserts(h) BY <1>1, <1>2, AnswersStep DEF createAccount
<1>3. CASE Inserts(h)
  <2>1. attempt[r] \in [at : {"lookup", "verify", "insert", "session"}, of : Names,
                        secret : Secrets, row : Secrets \cup {NoAccount}, crossed : BOOLEAN]
    BY <1>1, AttemptFields DEF TokenInv
  <2>2. /\ next \in AttemptStates /\ next.at = "session" /\ next.of = h /\ h \in Names
        /\ next.secret = attempt[r].secret /\ next.crossed = attempt[r].crossed
        /\ attempt[r].secret \in Secrets
    BY <2>1 DEF AttemptStates
  <2>3. /\ attempt' = [attempt EXCEPT ![r] = next]
        /\ secretOf' = [secretOf EXCEPT ![h] = attempt[r].secret] /\ secretOf[h] = NoAccount
    BY <1>3 DEF createAccount, Awaits, Inserts
  <2>4. \A q \in Attempts : attempt'[q] = IF q = r THEN next ELSE attempt[q]
    BY <2>3 DEF TokenInv, HandlersTyped
  <2>5. HandlersTyped' BY <1>1, <2>2, <2>3 DEF TokenInv, HandlersTyped
  <2>6. \A n \in Names : secretOf'[n] = IF n = h THEN attempt[r].secret ELSE secretOf[n]
    BY <2>3 DEF TokenInv, HandlersTyped
  <2> HIDE DEF next, h
  <2>7. ASSUME NEW q \in Attempts, attempt'[q].at \in {"session", "verify"}, ~attempt'[q].crossed
        PROVE  /\ attempt'[q].at = "session" => secretOf'[attempt'[q].of] = attempt'[q].secret
               /\ attempt'[q].at = "verify" =>
                    secretOf'[attempt'[q].of] = attempt'[q].row /\ attempt'[q].row # NoAccount
    <3>1. CASE q = r BY <2>2, <2>4, <2>6, <3>1
    <3>2. CASE q # r
      <4>1. attempt'[q] = attempt[q] BY <2>4, <3>2
      <4>2. attempt[q].of \in Names /\ attempt[q].secret \in Secrets
        BY <2>7, <4>1, AttemptFields DEF TokenInv
      <4>3. attempt[q].of # h
        BY <2>3, <2>7, <4>1, <4>2 DEF TokenInv, SessionsDue, RowsRead
      <4> QED BY <2>6, <2>7, <4>1, <4>2, <4>3 DEF TokenInv, SessionsDue, RowsRead
    <3> QED BY <3>1, <3>2
  <2>8. SessionsDue' /\ RowsRead' BY <2>7 DEF SessionsDue, RowsRead
  <2>9. Deleted'
    <3>1. attempt[r] # NoAttempt /\ attempt[r].of = h BY <1>1, NoAttemptAt DEF h
    <3> QED BY <1>1, <2>2, <2>4, <3>1 DEF TokenInv, Deleted
  <2>10. TokensOfOwner'
    <3> SUFFICES ASSUME NEW x \in sessions PROVE secretOf'[x.of] = x.secret
      BY <1>1 DEF TokensOfOwner
    <3>1. x.of \in Names /\ x.secret \in Secrets /\ secretOf[x.of] = x.secret
      BY DEF TokenInv, TokensOfOwner, HandlersTyped
    <3>2. x.of # h BY <2>3, <3>1
    <3> QED BY <2>6, <3>1, <3>2
  <2> QED BY <2>5, <2>8, <2>9, <2>10 DEF TokenInv
<1> QED BY <1>2, <1>3

LEMMA CreateSessionStep ==
  ASSUME TokenInv, NEW r \in Attempts, createSession(r)
  PROVE  TokenInv'
<1> DEFINE new == [of |-> attempt[r].of, secret |-> attempt[r].secret]
<1>1. /\ attempt[r].at = "session" /\ Answers(r) /\ UNCHANGED <<secretOf, deleting>>
      /\ sessions' = IF attempt[r].crossed THEN sessions ELSE sessions \cup {new}
  BY DEF createSession
<1>2. CASE attempt[r].crossed BY <1>1, <1>2, AnswersStep
<1>3. CASE ~attempt[r].crossed
  <2>1. attempt[r] # NoAttempt /\ attempt[r].of \in Names /\ attempt[r].secret \in Secrets
    BY <1>1, AttemptFields DEF TokenInv
  <2>2. new \in [of : Names, secret : Secrets] /\ sessions' = sessions \cup {new}
    BY <1>1, <1>3, <2>1
  <2>3. secretOf[new.of] = new.secret BY <1>1, <1>3 DEF TokenInv, SessionsDue
  <2>4. new.of \notin deleting BY <1>3, <2>1 DEF TokenInv, Deleted
  <2>5. \A q \in Attempts : attempt'[q] \in {attempt[q], NoAttempt}
    BY <1>1 DEF Answers, TokenInv, HandlersTyped
  <2> HIDE DEF new
  <2>6. HandlersTyped' BY <1>1, <2>2, NoAttemptAt DEF Answers, TokenInv, HandlersTyped
  <2>7. SessionsDue' /\ RowsRead' BY <1>1, <2>5, NoAttemptAt DEF TokenInv, SessionsDue, RowsRead
  <2>8. Deleted' BY <1>1, <2>2, <2>4, <2>5 DEF TokenInv, Deleted
  <2>9. TokensOfOwner' BY <1>1, <2>2, <2>3 DEF TokenInv, TokensOfOwner
  <2> QED BY <2>6, <2>7, <2>8, <2>9 DEF TokenInv
<1> QED BY <1>2, <1>3

\* The two queries of a deletion, each crossing the handlers of the account.
LEMMA CrossedStep ==
  ASSUME HandlersTyped, NEW h \in Names, Crossed(h), NEW r \in Attempts
  PROVE  /\ attempt'[r] \in AttemptStates
         /\ attempt'[r].at = attempt[r].at /\ (attempt'[r] = NoAttempt <=> attempt[r] = NoAttempt)
         /\ attempt[r] # NoAttempt =>
              /\ attempt'[r].of = attempt[r].of /\ attempt'[r].secret = attempt[r].secret
              /\ attempt'[r].row = attempt[r].row
              /\ IF attempt[r].of = h THEN attempt'[r].crossed
                                      ELSE attempt'[r] = attempt[r]
<1>1. attempt[r] \in AttemptStates BY DEF HandlersTyped
<1>2. CASE attempt[r] = NoAttempt BY <1>1, <1>2 DEF Crossed
<1>3. CASE attempt[r] # NoAttempt /\ attempt[r].of # h BY <1>1, <1>3 DEF Crossed
<1>4. CASE attempt[r] # NoAttempt /\ attempt[r].of = h
  <2>1. attempt'[r] = [attempt[r] EXCEPT !.crossed = TRUE] BY <1>4 DEF Crossed
  <2>2. attempt[r] \in [at : {"lookup", "verify", "insert", "session"}, of : Names,
                        secret : Secrets, row : Secrets \cup {NoAccount}, crossed : BOOLEAN]
    BY <1>1, <1>4 DEF AttemptStates
  <2>3. attempt'[r] \in AttemptStates /\ attempt'[r].at = attempt[r].at /\ attempt'[r].at # "none"
    BY <2>1, <2>2 DEF AttemptStates
  <2>4. attempt'[r] # NoAttempt BY <2>3, NoAttemptAt
  <2>5. /\ attempt'[r].of = attempt[r].of /\ attempt'[r].secret = attempt[r].secret
        /\ attempt'[r].row = attempt[r].row /\ attempt'[r].crossed
    BY <2>1, <2>2
  <2> QED BY <1>4, <2>3, <2>4, <2>5
<1> QED BY <1>2, <1>3, <1>4

LEMMA DeletionStep ==
  ASSUME TokenInv, NEW h \in Names, deleteSessions(h) \/ deleteRow(h)
  PROVE  TokenInv'
<1>1. /\ Crossed(h) /\ sessions' \subseteq sessions /\ deleting' \subseteq deleting \cup {h}
      /\ \A x \in sessions' : x.of # h
  BY DEF deleteSessions, deleteRow, TokenInv, Deleted
<1>2. secretOf' = secretOf \/ secretOf' = [secretOf EXCEPT ![h] = NoAccount]
  BY DEF deleteSessions, deleteRow
<1>3. \A n \in Names : n # h => secretOf'[n] = secretOf[n]
  BY <1>2 DEF TokenInv, HandlersTyped
<1>4. HandlersTyped'
  <2>1. attempt' \in [Attempts -> AttemptStates]
    BY <1>1, CrossedStep DEF Crossed, TokenInv
  <2>2. secretOf' \in [Names -> Secrets \cup {NoAccount}]
    BY <1>2 DEF TokenInv, HandlersTyped
  <2> QED BY <1>1, <2>1, <2>2 DEF TokenInv, HandlersTyped
<1>5. ASSUME NEW r \in Attempts, attempt'[r].at \in {"session", "verify"}, ~attempt'[r].crossed
      PROVE  /\ attempt'[r].at = "session" => secretOf'[attempt'[r].of] = attempt'[r].secret
             /\ attempt'[r].at = "verify" =>
                  secretOf'[attempt'[r].of] = attempt'[r].row /\ attempt'[r].row # NoAccount
  <2>1. attempt[r].at \in {"session", "verify"} BY <1>1, <1>5, CrossedStep DEF TokenInv
  <2>2. attempt[r] # NoAttempt /\ attempt[r].of \in Names
    BY <2>1, AttemptFields DEF TokenInv
  <2>3. attempt[r].of # h /\ attempt'[r] = attempt[r]
    BY <1>1, <1>5, <2>2, CrossedStep DEF TokenInv
  <2> QED BY <1>3, <1>5, <2>2, <2>3 DEF TokenInv, SessionsDue, RowsRead
<1>6. SessionsDue' /\ RowsRead' BY <1>5 DEF SessionsDue, RowsRead
<1>7. Deleted'
  <2>1. ASSUME NEW n \in deleting' PROVE \A x \in sessions' : x.of # n
    BY <1>1 DEF TokenInv, Deleted
  <2>2. ASSUME NEW n \in deleting', NEW r \in Attempts, attempt'[r] # NoAttempt, attempt'[r].of = n
        PROVE  attempt'[r].crossed
    <3>1. attempt[r] # NoAttempt /\ attempt[r].of = n
      BY <1>1, <2>2, CrossedStep DEF TokenInv
    <3>2. n # h => attempt'[r] = attempt[r] /\ n \in deleting
      BY <1>1, <3>1, CrossedStep DEF TokenInv
    <3>3. n = h => attempt'[r].crossed BY <1>1, <3>1, CrossedStep DEF TokenInv
    <3> QED BY <3>1, <3>2, <3>3 DEF TokenInv, Deleted
  <2> QED BY <2>1, <2>2 DEF Deleted
<1>8. TokensOfOwner'
  <2> SUFFICES ASSUME NEW x \in sessions' PROVE secretOf'[x.of] = x.secret BY DEF TokensOfOwner
  <2>1. x.of \in Names /\ x.of # h /\ secretOf[x.of] = x.secret
    BY <1>1 DEF TokenInv, TokensOfOwner, HandlersTyped
  <2> QED BY <1>3, <2>1
<1> QED BY <1>4, <1>6, <1>7, <1>8 DEF TokenInv

LEMMA TokenStep == TokenInv /\ [SignInNext]_signInVars => TokenInv'
<1> SUFFICES ASSUME TokenInv, [SignInNext]_signInVars PROVE TokenInv' OBVIOUS
<1>1. CASE UNCHANGED <<secretOf, sessions, deleting, attempt>>
  BY <1>1 DEF TokenInv, HandlersTyped, SessionsDue, RowsRead, Deleted, TokensOfOwner
<1>2. CASE crash
  <2>1. /\ attempt' = [r \in Attempts |-> NoAttempt] /\ deleting' = {}
        /\ UNCHANGED <<secretOf, sessions>>
    BY <1>2 DEF crash
  <2> QED BY <2>1, NoAttemptAt
          DEF TokenInv, HandlersTyped, SessionsDue, RowsRead, Deleted, TokensOfOwner
<1>3. ASSUME NEW h \in Names, elapses(h) \/ forgets(h) PROVE TokenInv'
  BY <1>1, <1>3 DEF elapses, forgets
<1>4. ASSUME NEW r \in Attempts, attemptFails(r) PROVE TokenInv'
  BY <1>4, AnswersStep DEF attemptFails
<1>5. ASSUME NEW r \in Attempts, NEW h \in Names, NEW s \in Secrets, login(r, h, s) PROVE TokenInv'
  BY <1>5, AsksStep DEF login
<1>6. ASSUME NEW r \in Attempts, NEW h \in Names, NEW s \in Secrets, register(r, h, s)
      PROVE TokenInv'
  BY <1>6, AsksStep DEF register
<1>7. CASE UNCHANGED signInVars BY <1>1, <1>7 DEF signInVars
<1> QED BY <1>2, <1>3, <1>4, <1>5, <1>6, <1>7, VerifyAuthStep, GetAccountStep, CreateAccountStep,
           CreateSessionStep, DeletionStep DEF SignInNext

\* What handlers may rely on across their awaits.
THEOREM TokenInvariant == SignInSpec => []TokenInv
<1>1. SignInInit => TokenInv
  BY NoAttemptAt DEF SignInInit, TokenInv, HandlersTyped, SessionsDue, RowsRead, Deleted, TokensOfOwner
<1> QED BY <1>1, TokenStep, PTL DEF SignInSpec

\* A token of a handle is in the hands of someone who knows its secret.
THEOREM TokensAreOwners == SignInSpec => []TokensOfOwner
<1>1. TokenInv => TokensOfOwner BY DEF TokenInv
<1> QED BY <1>1, TokenInvariant, PTL

-----------------------------------------------------------------------------
(* The lockout *)

\* Handlers that may still count a wrong password for h.
Flying(h) == {r \in Attempts : attempt[r].at \in {"lookup", "verify"} /\ attempt[r].of = h}

\* Wrong passwords counted in a lock came out of those in flight as it began.
BurstOf(h) ==
  /\ burst[h] \in 0..(Cardinality(Attempts) + 1)
  /\ h \notin locked => burst[h] = 0
  /\ h \in locked => burst[h] + Cardinality(Flying(h)) <= Cardinality(Attempts)

BurstInv ==
  /\ attempt \in [Attempts -> AttemptStates]
  /\ burst \in [Names -> 0..(Cardinality(Attempts) + 1)]
  /\ \A h \in Names : BurstOf(h)

LEMMA FlyingFinite ==
  ASSUME NEW h
  PROVE  /\ IsFiniteSet(Flying(h)) /\ Cardinality(Flying(h)) \in Nat
         /\ Cardinality(Attempts) \in Nat /\ Cardinality(Flying(h)) <= Cardinality(Attempts)
<1>1. IsFiniteSet(Attempts) BY SignInAssumption
<1>2. Flying(h) \subseteq Attempts BY DEF Flying
<1> QED BY <1>1, <1>2, FS_Subset, FS_CardinalityType

\* Fewer in flight for h, and no more counted.
LEMMA BurstKept ==
  ASSUME BurstInv, NEW h \in Names, Flying(h)' \subseteq Flying(h),
         \/ burst'[h] = burst[h] /\ (h \in locked' <=> h \in locked)
         \/ burst'[h] = 0 /\ h \notin locked'
  PROVE  BurstOf(h)'
<1>1. IsFiniteSet(Flying(h)) /\ Cardinality(Attempts) \in Nat BY FlyingFinite
<1>2. /\ Cardinality(Flying(h)') \in Nat /\ Cardinality(Flying(h)) \in Nat
      /\ Cardinality(Flying(h)') <= Cardinality(Flying(h))
  BY <1>1, FS_Subset, FS_CardinalityType
<1>3. BurstOf(h) /\ burst[h] \in 0..(Cardinality(Attempts) + 1) BY DEF BurstInv
<1>4. CASE burst'[h] = burst[h] /\ (h \in locked' <=> h \in locked)
  BY <1>1, <1>2, <1>3, <1>4 DEF BurstOf
<1>5. CASE burst'[h] = 0 /\ h \notin locked' BY <1>1, <1>2, <1>5 DEF BurstOf
<1> QED BY <1>4, <1>5

\* What a wrong password does to the locks; evicted: what the table dropped.
Counts(h, locks, evicted) ==
  /\ locked' = (locked \cup locks) \ evicted
  /\ burst' = [x \in Names |->
       IF x \in evicted THEN 0 ELSE IF x # h THEN burst[x]
       ELSE IF h \in locked THEN Least(burst[h] + 1, Cardinality(Attempts) + 1) ELSE Cardinality(locks)]

\* A wrong password takes its handler out of those in flight, and is counted at
\* most once.
LEMMA FailStep ==
  ASSUME BurstInv, NEW r \in Attempts, attempt[r].at \in {"lookup", "verify"},
         NEW h \in Names, h = attempt[r].of, fail(h), Answers(r)
  PROVE  BurstInv'
<1>1. PICK locks \in {{}, {h}} : \E evicted : Counts(h, locks, evicted) BY DEF fail, Counts
<1>2. PICK evicted : Counts(h, locks, evicted) BY <1>1
<1>3. attempt' = [attempt EXCEPT ![r] = NoAttempt] BY DEF Answers
<1>4. attempt' \in [Attempts -> AttemptStates] BY <1>3, NoAttemptAt DEF BurstInv
<1>5. \A q \in Attempts : attempt'[q] = IF q = r THEN NoAttempt ELSE attempt[q]
  BY <1>3 DEF BurstInv
<1>6. \A x : Flying(x)' = Flying(x) \ {r} BY <1>5, NoAttemptAt DEF Flying
<1>7. Cardinality(Attempts) \in Nat /\ burst[h] \in 0..(Cardinality(Attempts) + 1)
  BY FlyingFinite DEF BurstInv
<1>8. Cardinality({}) = 0 /\ Cardinality({h}) = 1
  BY FS_EmptySet, FS_Singleton
<1>9. ASSUME NEW x \in Names PROVE BurstOf(x)'
  <2>1. CASE x \in evicted
    <3>1. burst'[x] = 0 /\ x \notin locked' BY <1>2, <2>1 DEF Counts
    <3> QED BY <1>6, <3>1, BurstKept
  <2>2. CASE x \notin evicted /\ x # h
    <3>1. burst'[x] = burst[x] /\ (x \in locked' <=> x \in locked) BY <1>2, <1>8, <2>2 DEF Counts
    <3> QED BY <1>6, <3>1, BurstKept
  <2>3. CASE x \notin evicted /\ x = h
    <3>1. r \in Flying(h) BY DEF Flying
    <3>2. /\ Cardinality(Flying(h)') = Cardinality(Flying(h)) - 1 /\ Cardinality(Flying(h)) \in Nat
          /\ Cardinality(Flying(h)') \in Nat /\ Cardinality(Flying(h)) <= Cardinality(Attempts)
      <4>1. IsFiniteSet(Flying(h)) BY FlyingFinite
      <4>2. Flying(h)' = Flying(h) \ {r} BY <1>6
      <4>3. Cardinality(Flying(h) \ {r}) = Cardinality(Flying(h)) - 1 /\ IsFiniteSet(Flying(h) \ {r})
        BY <3>1, <4>1, FS_RemoveElement
      <4> QED BY <4>2, <4>3, FlyingFinite, FS_CardinalityType
    <3>3. CASE h \in locked
      <4>1. h \in locked' /\ burst'[h] = Least(burst[h] + 1, Cardinality(Attempts) + 1)
        BY <1>2, <2>3, <3>3 DEF Counts
      <4>2. burst[h] + Cardinality(Flying(h)) <= Cardinality(Attempts)
        BY <3>3 DEF BurstInv, BurstOf
      <4>3. burst'[h] = burst[h] + 1 BY <1>7, <3>2, <4>1, <4>2 DEF Least
      <4>4. /\ burst'[h] \in 0..(Cardinality(Attempts) + 1)
            /\ burst'[h] + Cardinality(Flying(h)') <= Cardinality(Attempts)
        BY <1>7, <3>2, <4>2, <4>3
      <4> QED BY <2>3, <4>1, <4>4 DEF BurstOf
    <3>4. CASE h \notin locked
      <4>1. burst'[h] = Cardinality(locks) /\ (h \in locked' <=> h \in locks)
        BY <1>2, <2>3, <3>4 DEF Counts
      <4>2. CASE locks = {}
        <5>1. burst'[h] = 0 /\ h \notin locked' BY <1>8, <4>1, <4>2
        <5> QED BY <1>7, <2>3, <5>1 DEF BurstOf
      <4>3. CASE locks = {h}
        <5>1. burst'[h] = 1 /\ h \in locked' BY <1>8, <4>1, <4>3
        <5>2. burst'[h] + Cardinality(Flying(h)') <= Cardinality(Attempts) BY <1>7, <3>2, <5>1
        <5> QED BY <1>7, <2>3, <5>1, <5>2 DEF BurstOf
      <4> QED BY <4>2, <4>3
    <3> QED BY <3>3, <3>4
  <2> QED BY <2>1, <2>2, <2>3
<1>10. burst' \in [Names -> 0..(Cardinality(Attempts) + 1)] BY <1>2, <1>9 DEF BurstOf, Counts
<1> QED BY <1>4, <1>9, <1>10 DEF BurstInv

\* Steps of the handlers that count nothing; only of an account that is not
\* locked another sign-in starts.
LEMMA FlightStep ==
  ASSUME BurstInv, attempt' \in [Attempts -> AttemptStates],
         burst' \in [Names -> 0..(Cardinality(Attempts) + 1)],
         \A h \in Names : \/ h \notin locked' /\ burst'[h] = 0
                         \/ /\ burst'[h] = burst[h] /\ (h \in locked' <=> h \in locked)
                            /\ Flying(h)' \subseteq Flying(h)
  PROVE  BurstInv'
<1>1. ASSUME NEW h \in Names PROVE BurstOf(h)'
  <2>1. CASE h \notin locked' /\ burst'[h] = 0 BY <2>1, FlyingFinite DEF BurstOf
  <2>2. CASE /\ burst'[h] = burst[h] /\ (h \in locked' <=> h \in locked)
             /\ Flying(h)' \subseteq Flying(h)
    BY <2>2, BurstKept
  <2> QED BY <2>1, <2>2
<1> QED BY <1>1 DEF BurstInv

LEMMA BurstStep == HandlersTyped /\ BurstInv /\ [SignInNext]_signInVars => BurstInv'
<1> SUFFICES ASSUME HandlersTyped, BurstInv, [SignInNext]_signInVars PROVE BurstInv' OBVIOUS
<1>1. ASSUME attempt' \in [Attempts -> AttemptStates], burst' = burst, locked' = locked,
             \A h \in Names : h \in locked => Flying(h)' \subseteq Flying(h)
      PROVE  BurstInv'
  BY <1>1, FlightStep DEF BurstInv, BurstOf
<1>2. ASSUME NEW r \in Attempts, Answers(r)
      PROVE  attempt' \in [Attempts -> AttemptStates] /\ \A h : Flying(h)' \subseteq Flying(h)
  <2>1. \A q \in Attempts : attempt'[q] = IF q = r THEN NoAttempt ELSE attempt[q]
    BY <1>2 DEF Answers, BurstInv
  <2>2. \A h : Flying(h)' \subseteq Flying(h) BY <2>1, NoAttemptAt DEF Flying
  <2> QED BY <1>2, <2>2, NoAttemptAt DEF Answers, BurstInv
<1>3. ASSUME NEW r \in Attempts, NEW next \in AttemptStates, next.of = attempt[r].of,
             next.at \in {"lookup", "verify"} => attempt[r].at \in {"lookup", "verify"},
             attempt' = [attempt EXCEPT ![r] = next]
      PROVE  attempt' \in [Attempts -> AttemptStates] /\ \A h : Flying(h)' \subseteq Flying(h)
  <2>1. \A q \in Attempts : attempt'[q] = IF q = r THEN next ELSE attempt[q]
    BY <1>3 DEF BurstInv
  <2>2. \A h : Flying(h)' \subseteq Flying(h) BY <1>3, <2>1 DEF Flying
  <2> QED BY <1>3, <2>2 DEF BurstInv
<1>4. ASSUME NEW r \in Attempts, NEW at \in {"lookup", "insert"}, NEW h \in Names,
             NEW s \in Secrets, Asks(r, at, h, s)
      PROVE  /\ attempt' \in [Attempts -> AttemptStates]
             /\ \A x \in Names : x # h \/ at = "insert" => Flying(x)' \subseteq Flying(x)
  <2> DEFINE new == [at |-> at, of |-> h, secret |-> s, row |-> NoAccount, crossed |-> h \in deleting]
  <2>1. attempt' = [attempt EXCEPT ![r] = new] BY <1>4 DEF Asks
  <2>2. new \in AttemptStates /\ new.at = at /\ new.of = h BY DEF AttemptStates
  <2> HIDE DEF new
  <2>3. \A q \in Attempts : attempt'[q] = IF q = r THEN new ELSE attempt[q] BY <2>1 DEF BurstInv
  <2>4. attempt' \in [Attempts -> AttemptStates] BY <2>1, <2>2 DEF BurstInv
  <2> QED BY <2>2, <2>3, <2>4 DEF Flying
<1>5. ASSUME NEW h \in Names, Unlocked(h), attempt' \in [Attempts -> AttemptStates],
             \A x \in Names : Flying(x)' \subseteq Flying(x)
      PROVE  BurstInv'
  <2>1. locked' = locked \ {h} /\ burst' = [burst EXCEPT ![h] = 0] BY <1>5 DEF Unlocked
  <2>2. burst' \in [Names -> 0..(Cardinality(Attempts) + 1)]
    BY <2>1, FlyingFinite DEF BurstInv
  <2>3. h \notin locked' /\ burst'[h] = 0 BY <2>1 DEF BurstInv
  <2>4. \A x \in Names : x # h => burst'[x] = burst[x] /\ (x \in locked' <=> x \in locked)
    BY <2>1 DEF BurstInv
  <2> QED BY <1>5, <2>2, <2>3, <2>4, FlightStep
<1>6. CASE crash
  <2>1. burst' \in [Names -> 0..(Cardinality(Attempts) + 1)] BY <1>6, FlyingFinite DEF crash
  <2>2. attempt' \in [Attempts -> AttemptStates] BY <1>6, NoAttemptAt DEF crash
  <2>3. \A h \in Names : h \notin locked' /\ burst'[h] = 0 BY <1>6 DEF crash
  <2> QED BY <2>1, <2>2, <2>3, FlightStep
<1>7. CASE UNCHANGED <<burst, locked, attempt>> BY <1>1, <1>7 DEF BurstInv, Flying
<1>8. ASSUME NEW h \in Names, elapses(h) PROVE BurstInv'
  <2>1. Unlocked(h) /\ attempt' = attempt BY <1>8 DEF elapses
  <2> QED BY <1>5, <2>1 DEF BurstInv, Flying
<1>9. ASSUME NEW h \in Names, forgets(h) PROVE BurstInv' BY <1>7, <1>9 DEF forgets
<1>10. ASSUME NEW h \in Names, deleteSessions(h) \/ deleteRow(h) PROVE BurstInv'
  <2>1. UNCHANGED <<burst, locked>> BY <1>10 DEF deleteSessions, deleteRow, lockout
  <2>2. \A r \in Attempts :
          /\ attempt'[r] \in AttemptStates /\ attempt'[r].at = attempt[r].at
          /\ attempt[r] # NoAttempt => attempt'[r].of = attempt[r].of
    BY <1>10, CrossedStep DEF deleteSessions, deleteRow
  <2>3. attempt' \in [Attempts -> AttemptStates]
    <3>1. Crossed(h) BY <1>10 DEF deleteSessions, deleteRow
    <3> QED BY <2>2, <3>1 DEF Crossed
  <2>4. ASSUME NEW x, NEW r \in Flying(x)' PROVE r \in Flying(x)
    <3>1. r \in Attempts /\ attempt'[r].at \in {"lookup", "verify"} /\ attempt'[r].of = x
      BY DEF Flying
    <3>2. attempt[r].at \in {"lookup", "verify"} BY <2>2, <3>1
    <3>3. attempt[r] # NoAttempt BY <3>2, NoAttemptAt
    <3> QED BY <2>2, <3>1, <3>2, <3>3 DEF Flying
  <2> QED BY <1>1, <2>1, <2>3, <2>4
<1>11. ASSUME NEW r \in Attempts, getAccount(r) PROVE BurstInv'
  <2>1. attempt[r].at = "lookup" BY <1>11 DEF getAccount
  <2>2. CASE secretOf[attempt[r].of] = NoAccount
    <3>1. fail(attempt[r].of) /\ Answers(r) BY <1>11, <2>2 DEF getAccount
    <3>2. attempt[r].of \in Names BY <2>1 DEF BurstInv, AttemptStates, NoAttempt
    <3> QED BY <2>1, <3>1, <3>2, FailStep
  <2>3. CASE secretOf[attempt[r].of] # NoAccount
    <3> DEFINE next == [attempt[r] EXCEPT !.at = "verify", !.row = secretOf[attempt[r].of]]
    <3>1. /\ next \in AttemptStates /\ next.of = attempt[r].of
      BY <2>1, AttemptFields DEF AttemptStates, HandlersTyped
    <3>2. attempt' = [attempt EXCEPT ![r] = next] /\ UNCHANGED <<burst, locked>>
      BY <1>11, <2>3 DEF getAccount, lockout
    <3> HIDE DEF next
    <3> QED BY <1>1, <1>3, <2>1, <3>1, <3>2
  <2> QED BY <2>2, <2>3
<1>12. ASSUME NEW r \in Attempts, attempt[r].at # "none", Awaits(r, "session")
       PROVE  attempt' \in [Attempts -> AttemptStates] /\ \A h : Flying(h)' \subseteq Flying(h)
  <2> DEFINE next == [attempt[r] EXCEPT !.at = "session"]
  <2>1. next \in AttemptStates /\ next.of = attempt[r].of /\ next.at = "session"
    BY <1>12, AttemptFields DEF AttemptStates
  <2>2. attempt' = [attempt EXCEPT ![r] = next] BY <1>12 DEF Awaits
  <2> HIDE DEF next
  <2> QED BY <1>3, <2>1, <2>2
<1>13. ASSUME NEW r \in Attempts, NEW refused \in BOOLEAN, verifyAuth(r, refused) PROVE BurstInv'
  <2>1. attempt[r].at = "verify" BY <1>13 DEF verifyAuth
  <2>2. attempt[r].of \in Names BY <2>1, AttemptFields
  <2>3. CASE fail(attempt[r].of) /\ Answers(r) BY <2>1, <2>2, <2>3, FailStep
  <2>4. CASE Answers(r) /\ UNCHANGED lockout BY <1>1, <1>2, <2>4 DEF lockout
  <2>5. CASE succeed(attempt[r].of) /\ Awaits(r, "session")
    BY <1>5, <1>12, <2>1, <2>2, <2>5 DEF succeed
  <2> QED BY <1>13, <2>3, <2>4, <2>5 DEF verifyAuth
<1>14. ASSUME NEW r \in Attempts, createAccount(r) PROVE BurstInv'
  <2>1. attempt[r].at = "insert" /\ UNCHANGED <<burst, locked>> BY <1>14 DEF createAccount, lockout
  <2>2. Awaits(r, "session") \/ Answers(r) BY <1>14 DEF createAccount
  <2> QED BY <1>1, <1>2, <1>12, <2>1, <2>2
<1>15. ASSUME NEW r \in Attempts, createSession(r) \/ attemptFails(r) PROVE BurstInv'
  <2>1. Answers(r) /\ UNCHANGED <<burst, locked>>
    BY <1>15 DEF createSession, attemptFails, lockout
  <2> QED BY <1>1, <1>2, <2>1
<1>16. ASSUME NEW r \in Attempts, NEW h \in Names, NEW s \in Secrets, login(r, h, s)
       PROVE BurstInv'
  <2>1. h \notin locked /\ Asks(r, "lookup", h, s) /\ UNCHANGED <<burst, locked>>
    BY <1>16 DEF login, retryAfter, lockout
  <2> QED BY <1>1, <1>4, <2>1
<1>17. ASSUME NEW r \in Attempts, NEW h \in Names, NEW s \in Secrets, register(r, h, s)
       PROVE BurstInv'
  <2>1. Asks(r, "insert", h, s) /\ UNCHANGED <<burst, locked>> BY <1>17 DEF register, lockout
  <2> QED BY <1>1, <1>4, <2>1
<1>18. CASE UNCHANGED signInVars BY <1>7, <1>18 DEF signInVars, lockout
<1> QED BY <1>6, <1>8, <1>9, <1>10, <1>11, <1>13, <1>14, <1>15, <1>16, <1>17, <1>18
        DEF SignInNext

LEMMA BurstInit == SignInInit => BurstInv
<1> SUFFICES ASSUME SignInInit PROVE BurstInv OBVIOUS
<1>1. burst = [h \in Names |-> 0] /\ locked = {} /\ attempt = [r \in Attempts |-> NoAttempt]
  BY DEF SignInInit
<1>2. Cardinality(Attempts) \in Nat BY SignInAssumption, FS_CardinalityType
<1> QED BY <1>1, <1>2, NoAttemptAt DEF BurstInv, BurstOf

\* No more wrong passwords are checked in a lock than sign-ins were in flight.
THEOREM BurstIsBounded == SignInSpec => []BurstBounded
<1>1. TokenInv => HandlersTyped BY DEF TokenInv
<1>2. BurstInv => BurstBounded
  <2> SUFFICES ASSUME BurstInv, NEW h \in Names PROVE burst[h] <= Cardinality(Attempts)
    BY DEF BurstBounded
  <2>1. BurstOf(h) BY DEF BurstInv
  <2> QED BY <2>1, FlyingFinite DEF BurstOf
<1> QED BY <1>1, <1>2, BurstInit, BurstStep, TokenInvariant, PTL DEF SignInSpec

-----------------------------------------------------------------------------
(* The address of a client *)

\* However long the header that a client sends, its own address is the one that
\* the outermost proxy of ours appended.
LEMMA IpIsOwn ==
  ASSUME NEW client \in Clients, NEW claim \in Claims
  PROVE  IpOf(client, claim) = client
<1> USE AdmissionAssumption
<1>1. CASE Hops = 0 BY <1>1 DEF IpOf, clientIp, Direct
<1>2. CASE Hops # 0
  <2> DEFINE ours == [n \in 1..Hops |-> IF n = 1 THEN client ELSE Proxy]
             parts == claim \o ours
  <2>1. claim \in Seq(Addresses) /\ Hops \in Nat /\ Hops >= 1 BY <1>2
  <2>2. ours \in Seq(Addresses) /\ Len(ours) = Hops /\ ours[1] = client
    <3>1. \A n \in 1..Hops : (IF n = 1 THEN client ELSE Proxy) \in Addresses BY DEF Addresses
    <3>2. ours \in [1..Hops -> Addresses] BY <3>1
    <3>3. 1 \in 1..Hops BY <2>1
    <3> QED BY <2>1, <3>2, <3>3
  <2> HIDE DEF ours
  <2>3. Len(parts) = Len(claim) + Hops /\ Len(claim) \in Nat BY <2>1, <2>2
  <2>4. parts[Len(claim) + 1] = ours[1] BY <2>1, <2>2, <2>3
  <2>5. Len(parts) - Hops + 1 = Len(claim) + 1 /\ ~(Len(parts) < Hops) BY <2>1, <2>3
  <2>6. IpOf(client, claim) = clientIp(Direct(client), parts) BY DEF IpOf, Forwarded, ours
  <2> HIDE DEF parts
  <2> QED BY <1>2, <2>2, <2>4, <2>5, <2>6 DEF clientIp
<1> QED BY <1>1, <1>2

-----------------------------------------------------------------------------
(* Connections *)

Links == [state : {"none", "open", "refused"}, of : Addresses, ip : Addresses]
OpenOf(a) == {s \in Conns : links[s].state = "open" /\ links[s].of = a}

\* What CountsExact says of connections.
ConnsExact == \A a \in Addresses : connPerIp[a] = Cardinality(OpenOf(a))

\* The count that a close takes back is the one that the connection was put on.
ConnInv ==
  /\ links \in [Conns -> Links]
  /\ connPerIp \in [Addresses -> 0..MaxConnPerIp]
  /\ \A s \in Conns : links[s].state = "open" => links[s].ip = links[s].of
  /\ ConnsExact

LEMMA OpenFinite ==
  ASSUME NEW a
  PROVE  IsFiniteSet(OpenOf(a)) /\ Cardinality(OpenOf(a)) \in Nat
<1>1. IsFiniteSet(Conns) BY AdmissionAssumption
<1>2. OpenOf(a) \subseteq Conns BY DEF OpenOf
<1> QED BY <1>1, <1>2, FS_Subset, FS_CardinalityType

LEMMA ConnectionStep ==
  ASSUME ConnInv, NEW s \in Conns, NEW client \in Clients, NEW claim \in Claims, NEW origin,
         connection(s, client, claim, origin)
  PROVE  ConnInv'
<1> USE AdmissionAssumption
<1> DEFINE admitted == originAllowed(origin) /\ tryAcquireConn(client)
           new == [state |-> IF admitted THEN "open" ELSE "refused", of |-> client, ip |-> client]
<1>1. /\ links[s].state = "none" /\ links' = [links EXCEPT ![s] = new]
      /\ connPerIp' = IF admitted THEN [connPerIp EXCEPT ![client] = @ + 1] ELSE connPerIp
  BY IpIsOwn DEF connection
<1>2. client \in Addresses BY DEF Addresses
<1>3. connPerIp[client] \in 0..MaxConnPerIp BY <1>2 DEF ConnInv
<1>4. CASE admitted
  <2>1. connPerIp[client] + 1 <= MaxConnPerIp BY <1>4 DEF tryAcquireConn
  <2>2. new = [state |-> "open", of |-> client, ip |-> client] BY <1>4
  <2>3. connPerIp' = [connPerIp EXCEPT ![client] = @ + 1] BY <1>1, <1>4
  <2> HIDE DEF new, admitted
  <2>4. links' \in [Conns -> Links] /\ \A c \in Conns : links'[c] = IF c = s THEN new ELSE links[c]
    BY <1>1, <1>2, <2>2 DEF ConnInv, Links
  <2>5. connPerIp' \in [Addresses -> 0..MaxConnPerIp]
    <3>1. connPerIp[client] + 1 \in 0..MaxConnPerIp BY <1>3, <2>1
    <3> QED BY <2>3, <3>1 DEF ConnInv
  <2>6. \A c \in Conns : links'[c].state = "open" => links'[c].ip = links'[c].of
    BY <2>2, <2>4 DEF ConnInv
  <2>7. ASSUME NEW a \in Addresses PROVE connPerIp'[a] = Cardinality(OpenOf(a))'
    <3>1. CASE a = client
      <4>1. OpenOf(a)' = OpenOf(a) \cup {s} /\ s \notin OpenOf(a)
        BY <1>1, <2>2, <2>4, <3>1 DEF OpenOf
      <4>2. Cardinality(OpenOf(a) \cup {s}) = Cardinality(OpenOf(a)) + 1
        BY <4>1, OpenFinite, FS_AddElement
      <4>3. connPerIp'[a] = connPerIp[a] + 1 BY <2>3, <3>1 DEF ConnInv
      <4> QED BY <4>1, <4>2, <4>3 DEF ConnInv, ConnsExact
    <3>2. CASE a # client
      <4>1. OpenOf(a)' = OpenOf(a) BY <1>1, <2>2, <2>4, <3>2 DEF OpenOf
      <4> QED BY <2>3, <3>2, <4>1 DEF ConnInv, ConnsExact
    <3> QED BY <3>1, <3>2
  <2> QED BY <2>4, <2>5, <2>6, <2>7 DEF ConnInv, ConnsExact
<1>5. CASE ~admitted
  <2>1. new = [state |-> "refused", of |-> client, ip |-> client] BY <1>5
  <2>2. connPerIp' = connPerIp BY <1>1, <1>5
  <2> HIDE DEF new, admitted
  <2>3. links' \in [Conns -> Links] /\ \A c \in Conns : links'[c] = IF c = s THEN new ELSE links[c]
    BY <1>1, <1>2, <2>1 DEF ConnInv, Links
  <2>4. \A a : OpenOf(a)' = OpenOf(a) BY <1>1, <2>1, <2>3 DEF OpenOf
  <2> QED BY <2>1, <2>2, <2>3, <2>4 DEF ConnInv, ConnsExact
<1> QED BY <1>4, <1>5

LEMMA CloseStep ==
  ASSUME ConnInv, NEW s \in Conns, close(s)
  PROVE  ConnInv'
<1> USE AdmissionAssumption
<1>1. /\ links' = [links EXCEPT ![s] = NoConn(Proxy)]
      /\ connPerIp' = IF links[s].state = "open" THEN releaseConn(links[s].ip) ELSE connPerIp
  BY DEF close
<1>2. NoConn(Proxy) \in Links /\ NoConn(Proxy).state = "none" BY DEF NoConn, Links, Addresses
<1>3. links' \in [Conns -> Links] /\ \A c \in Conns : links'[c] = IF c = s THEN NoConn(Proxy) ELSE links[c]
  BY <1>1, <1>2 DEF ConnInv
<1>4. \A a : OpenOf(a)' = OpenOf(a) \ {s} BY <1>2, <1>3 DEF OpenOf
<1>5. \A c \in Conns : links'[c].state = "open" => links'[c].ip = links'[c].of
  BY <1>2, <1>3 DEF ConnInv
<1>6. CASE links[s].state = "open"
  <2>1. PICK client \in Addresses : client = links[s].of BY DEF ConnInv, Links
  <2>2. connPerIp' = releaseConn(client) BY <1>1, <1>6, <2>1 DEF ConnInv
  <2>3. s \in OpenOf(client) BY <1>6, <2>1 DEF OpenOf
  <2>4. Cardinality(OpenOf(client) \ {s}) = Cardinality(OpenOf(client)) - 1
    BY <2>3, OpenFinite, FS_RemoveElement
  <2>5. Cardinality(OpenOf(client) \ {s}) \in Nat BY <1>4, OpenFinite, FS_RemoveElement, FS_CardinalityType
  <2>6. connPerIp[client] = Cardinality(OpenOf(client)) /\ connPerIp[client] \in 0..MaxConnPerIp
    BY DEF ConnInv, ConnsExact
  <2>7. connPerIp[client] # 0 /\ connPerIp[client] - 1 \in 0..MaxConnPerIp BY <2>4, <2>5, <2>6
  <2>8. connPerIp' = [connPerIp EXCEPT ![client] = connPerIp[client] - 1]
    BY <2>2, <2>7 DEF releaseConn
  <2>9. connPerIp' \in [Addresses -> 0..MaxConnPerIp] BY <2>7, <2>8 DEF ConnInv
  <2>10. ASSUME NEW a \in Addresses PROVE connPerIp'[a] = Cardinality(OpenOf(a))'
    <3>1. CASE a = client BY <1>4, <2>4, <2>6, <2>8, <3>1 DEF ConnInv
    <3>2. CASE a # client
      <4>1. OpenOf(a)' = OpenOf(a) BY <1>4, <2>1, <3>2 DEF OpenOf
      <4> QED BY <2>8, <3>2, <4>1 DEF ConnInv, ConnsExact
    <3> QED BY <3>1, <3>2
  <2> QED BY <1>3, <1>5, <2>9, <2>10 DEF ConnInv, ConnsExact
<1>7. CASE links[s].state # "open"
  <2>1. \A a : OpenOf(a)' = OpenOf(a) BY <1>4, <1>7 DEF OpenOf
  <2> QED BY <1>1, <1>3, <1>5, <1>7, <2>1 DEF ConnInv, ConnsExact
<1> QED BY <1>6, <1>7

-----------------------------------------------------------------------------
(* Buckets *)

Buckets == [tokens : 0..Capacity, idle : -1..IdleTicks + 1]

\* A bucket holds what one that is never swept would hold.
BucketExact(b, tokens) == b \in Buckets /\ (b.idle = -1 => b = Unused) /\ tokens = Refilled(b)
BucketInv ==
  /\ buckets = [k \in Keys |-> buckets[k]] /\ budget = [k \in Keys |-> budget[k]]
  /\ \A k \in Keys : BucketExact(buckets[k], budget[k])

LEMMA UnusedExact == BucketExact(Unused, Capacity)
  BY AdmissionAssumption DEF BucketExact, Buckets, Unused, Refilled

\* What a bucket gives is what it holds and what its idle time brought.
LEMMA RefilledValue ==
  ASSUME NEW b \in Buckets, b.idle = -1 => b = Unused
  PROVE  /\ Refilled(b) \in 0..Capacity
         /\ b # Unused => b.idle \in 0..(IdleTicks + 1) /\ Refilled(b) = Capped(b.tokens + b.idle * Refill)
<1> USE AdmissionAssumption
<1>1. CASE b = Unused BY <1>1 DEF Refilled
<1>2. CASE b # Unused
  <2>1. b.idle \in Nat /\ b.idle \in 0..(IdleTicks + 1) /\ b.tokens \in 0..Capacity
    BY <1>2 DEF Buckets
  <2>2. b.idle * Refill \in Nat BY <2>1
  <2>3. Refilled(b) = Capped(b.tokens + b.idle * Refill) BY <1>2 DEF Refilled
  <2> DEFINE brought == b.idle * Refill
  <2> HIDE DEF brought
  <2>4. Capped(b.tokens + brought) \in 0..Capacity BY <2>1, <2>2 DEF Capped, brought
  <2> QED BY <2>1, <2>3, <2>4 DEF brought
<1> QED BY <1>1, <1>2

\* Whatever may be swept is full: a limiter refills within the idle time.
LEMMA SweptIsFull ==
  ASSUME NEW b \in Buckets, b.idle > IdleTicks
  PROVE  Refilled(b) = Capacity
<1> USE AdmissionAssumption
<1>1. CASE b = Unused BY <1>1 DEF Refilled
<1>2. CASE b # Unused
  <2>1. b.idle = IdleTicks + 1 /\ b.tokens \in 0..Capacity BY DEF Buckets
  <2>2. b.idle * Refill = IdleTicks * Refill + Refill /\ IdleTicks * Refill \in Nat
    <3>1. \A i, n \in Nat : (i + 1) * n = i * n + n /\ i * n \in Nat OBVIOUS
    <3> QED BY <2>1, <3>1
  <2>3. IdleTicks * Refill = Refill * IdleTicks OBVIOUS
  <2> DEFINE brought == b.idle * Refill
             within == IdleTicks * Refill
  <2>4. brought = within + Refill /\ within \in Nat /\ Capacity <= within BY <2>2, <2>3
  <2>5. Refilled(b) = Capped(b.tokens + brought) BY <1>2 DEF Refilled
  <2> HIDE DEF brought, within
  <2> QED BY <2>1, <2>4, <2>5 DEF Capped
<1> QED BY <1>1, <1>2

\* A request takes the same from both.
LEMMA ChargedExact ==
  ASSUME NEW b, NEW tokens, NEW cost \in Nat, BucketExact(b, tokens)
  PROVE  BucketExact([tokens |-> Left(Refilled(b), cost), idle |-> 0], Left(tokens, cost))
<1> USE AdmissionAssumption
<1> DEFINE after == [tokens |-> Left(Refilled(b), cost), idle |-> 0]
<1>1. tokens = Refilled(b) /\ tokens \in 0..Capacity BY RefilledValue DEF BucketExact
<1>2. Left(tokens, cost) \in 0..Capacity BY <1>1 DEF Left
<1>3. after \in Buckets /\ after.idle = 0 /\ after.tokens = Left(tokens, cost) BY <1>1, <1>2 DEF Buckets
<1>4. after # Unused BY <1>3 DEF Unused
<1>5. after.idle * Refill = 0 BY <1>3
<1>6. Refilled(after) = Capped(after.tokens + 0) BY <1>4, <1>5 DEF Refilled
<1> HIDE DEF after
<1>7. Refilled(after) = Left(tokens, cost) BY <1>2, <1>3, <1>6 DEF Capped
<1>8. BucketExact(after, Left(tokens, cost)) BY <1>3, <1>7 DEF BucketExact
<1> QED BY <1>8 DEF after

\* A tick brings the same to both.
LEMMA TickedExact ==
  ASSUME NEW b, NEW tokens, BucketExact(b, tokens)
  PROVE  BucketExact(IF b = Unused \/ b.idle > IdleTicks THEN b ELSE [b EXCEPT !.idle = @ + 1],
                     Capped(tokens + Refill))
<1> USE AdmissionAssumption
<1>1. b \in Buckets /\ tokens = Refilled(b) /\ tokens \in 0..Capacity BY RefilledValue DEF BucketExact
<1>2. CASE b = Unused \/ b.idle > IdleTicks
  <2>1. tokens = Capacity BY <1>1, <1>2, SweptIsFull DEF Refilled
  <2>2. Capped(tokens + Refill) = Capacity BY <2>1 DEF Capped
  <2> QED BY <1>2, <2>1, <2>2
<1>3. CASE ~(b = Unused \/ b.idle > IdleTicks)
  <2> DEFINE after == [b EXCEPT !.idle = @ + 1]
  <2>1. b.idle \in 0..IdleTicks /\ b.tokens \in 0..Capacity BY <1>1, <1>3 DEF Buckets, BucketExact
  <2>2. after \in Buckets /\ after.idle = b.idle + 1 /\ after.tokens = b.tokens BY <1>1, <2>1 DEF Buckets
  <2>3. after # Unused BY <2>1, <2>2 DEF Unused
  <2> DEFINE brought == b.idle * Refill
  <2>4. brought \in Nat /\ after.idle * Refill = brought + Refill
    <3>1. \A i, n \in Nat : (i + 1) * n = i * n + n /\ i * n \in Nat OBVIOUS
    <3>2. b.idle \in Nat BY <2>1
    <3> QED BY <2>2, <3>1, <3>2
  <2>5. tokens = Capped(b.tokens + brought) BY <1>1, <1>3 DEF Refilled
  <2>6. Refilled(after) = Capped(b.tokens + (brought + Refill)) BY <2>2, <2>3, <2>4 DEF Refilled
  <2> HIDE DEF brought, after
  <2>7. Refilled(after) = Capped(tokens + Refill) BY <2>1, <2>4, <2>5, <2>6 DEF Capped
  <2>8. BucketExact(after, Capped(tokens + Refill)) BY <2>1, <2>2, <2>7 DEF BucketExact
  <2> QED BY <1>3, <2>8 DEF after
<1> QED BY <1>2, <1>3

\* What a step may charge: tokens of buckets, each a natural number.
LEMMA TakeStep ==
  ASSUME BucketInv, NEW charges, \A k \in DOMAIN charges : charges[k] \in Nat, take(charges)
  PROVE  BucketInv'
<1>1. /\ buckets' = [k \in Keys |-> IF k \notin DOMAIN charges THEN buckets[k]
                       ELSE [tokens |-> Left(Refilled(buckets[k]), charges[k]), idle |-> 0]]
      /\ budget' = [k \in Keys |-> IF k \notin DOMAIN charges THEN budget[k]
                      ELSE Left(budget[k], charges[k])]
  BY DEF take
<1>2. ASSUME NEW k \in Keys PROVE BucketExact(buckets'[k], budget'[k])
  <2>1. BucketExact(buckets[k], budget[k]) BY DEF BucketInv
  <2>2. CASE k \notin DOMAIN charges BY <1>1, <2>1, <2>2
  <2>3. CASE k \in DOMAIN charges
    <3>1. /\ buckets'[k] = [tokens |-> Left(Refilled(buckets[k]), charges[k]), idle |-> 0]
          /\ budget'[k] = Left(budget[k], charges[k])
      BY <1>1, <2>3
    <3> QED BY <2>1, <2>3, <3>1, ChargedExact
  <2> QED BY <2>2, <2>3
<1>3. /\ buckets' = [k \in Keys |-> buckets'[k]] /\ budget' = [k \in Keys |-> budget'[k]] BY <1>1
<1> QED BY <1>2, <1>3 DEF BucketInv, BucketExact, Refilled

LEMMA SweepStep == BucketInv /\ sweepBuckets => BucketInv'
<1> SUFFICES ASSUME BucketInv, sweepBuckets PROVE BucketInv' OBVIOUS
<1>1. /\ buckets' = [k \in Keys |-> IF buckets[k].idle > IdleTicks THEN Unused ELSE buckets[k]]
      /\ budget' = budget
  BY DEF sweepBuckets
<1>2. ASSUME NEW k \in Keys PROVE BucketExact(buckets'[k], budget'[k])
  <2>1. BucketExact(buckets[k], budget[k]) BY DEF BucketInv
  <2>2. CASE buckets[k].idle > IdleTicks
    <3>1. buckets'[k] = Unused BY <1>1, <2>2
    <3>2. budget'[k] = Capacity BY <1>1, <2>1, <2>2, SweptIsFull DEF BucketExact
    <3> QED BY <3>1, <3>2, UnusedExact
  <2>3. CASE ~(buckets[k].idle > IdleTicks)
    <3>1. buckets'[k] = buckets[k] /\ budget'[k] = budget[k] BY <1>1, <2>3
    <3> QED BY <2>1, <3>1
  <2> QED BY <2>2, <2>3
<1>3. buckets' = [k \in Keys |-> buckets'[k]] /\ budget' = [k \in Keys |-> budget'[k]]
  BY <1>1 DEF BucketInv
<1> QED BY <1>2, <1>3 DEF BucketInv, BucketExact, Refilled

LEMMA SecondStep == BucketInv /\ secondPasses => BucketInv'
<1> SUFFICES ASSUME BucketInv, secondPasses PROVE BucketInv' OBVIOUS
<1>1. /\ buckets' = [k \in Keys |-> IF buckets[k] = Unused \/ buckets[k].idle > IdleTicks THEN buckets[k]
                       ELSE [buckets[k] EXCEPT !.idle = @ + 1]]
      /\ budget' = [k \in Keys |-> Capped(budget[k] + Refill)]
  BY DEF secondPasses
<1>2. ASSUME NEW k \in Keys PROVE BucketExact(buckets'[k], budget'[k])
  <2>1. BucketExact(buckets[k], budget[k]) BY DEF BucketInv
  <2>2. /\ buckets'[k] = IF buckets[k] = Unused \/ buckets[k].idle > IdleTicks THEN buckets[k]
                          ELSE [buckets[k] EXCEPT !.idle = @ + 1]
        /\ budget'[k] = Capped(budget[k] + Refill)
    BY <1>1
  <2> QED BY <2>1, <2>2, TickedExact
<1>3. buckets' = [k \in Keys |-> buckets'[k]] /\ budget' = [k \in Keys |-> budget'[k]] BY <1>1
<1> QED BY <1>2, <1>3 DEF BucketInv, BucketExact, Refilled

LEMMA NewSocketStep ==
  ASSUME BucketInv, NEW own,
         buckets' = [k \in Keys |-> IF k = own THEN Unused ELSE buckets[k]],
         budget' = [k \in Keys |-> IF k = own THEN Capacity ELSE budget[k]]
  PROVE  BucketInv'
<1>1. ASSUME NEW k \in Keys PROVE BucketExact(buckets'[k], budget'[k])
  BY UnusedExact DEF BucketInv
<1> QED BY <1>1 DEF BucketInv, BucketExact, Refilled

LEMMA AdmissionStep == ConnInv /\ BucketInv /\ [AdmissionNext]_admissionVars => (ConnInv /\ BucketInv)'
<1> SUFFICES ASSUME ConnInv, BucketInv, [AdmissionNext]_admissionVars PROVE ConnInv' /\ BucketInv'
  OBVIOUS
<1>1. ASSUME UNCHANGED <<connPerIp, links>> PROVE ConnInv'
  BY <1>1 DEF ConnInv, ConnsExact, OpenOf
<1>2. ASSUME UNCHANGED <<buckets, budget>> PROVE BucketInv'
  BY <1>2 DEF BucketInv, BucketExact, Refilled
<1>3. ASSUME NEW s \in Conns, NEW client \in Clients, NEW claim \in Claims, NEW origin,
             connection(s, client, claim, origin)
      PROVE  ConnInv' /\ BucketInv'
  <2>1. /\ buckets' = [k \in Keys |-> IF k = <<"submit", s>> THEN Unused ELSE buckets[k]]
        /\ budget' = [k \in Keys |-> IF k = <<"submit", s>> THEN Capacity ELSE budget[k]]
    BY <1>3 DEF connection
  <2> QED BY <1>3, <2>1, ConnectionStep, NewSocketStep
<1>4. ASSUME NEW s \in Conns, close(s) PROVE ConnInv' /\ BucketInv'
  BY <1>2, <1>4, CloseStep DEF close
<1>5. ASSUME NEW s \in Conns, submitted(s) PROVE ConnInv' /\ BucketInv'
  BY <1>1, <1>5, TakeStep DEF submitted
<1>6. ASSUME NEW client \in Clients, NEW claim \in Claims, NEW cost \in Costs, request(client, claim, cost)
      PROVE  ConnInv' /\ BucketInv'
  <2>1. cost \in Nat BY AdmissionAssumption
  <2> QED BY <1>1, <1>6, <2>1, TakeStep DEF request
<1>7. ASSUME NEW client \in Clients, NEW claim \in Claims, NEW user \in Accounts, NEW cost \in Costs,
             presence(client, claim, user, cost)
      PROVE  ConnInv' /\ BucketInv'
  <2>1. cost \in Nat BY AdmissionAssumption
  <2>2. UNCHANGED <<connPerIp, links>> BY <1>7 DEF presence
  <2>3. \E charges : (\A k \in DOMAIN charges : charges[k] \in Nat) /\ take(charges)
    <3> DEFINE http == <<"http", IpOf(client, claim)>>
               charges == [k \in {http} \cup (IF Allows(http, 1) THEN {<<"presence", user>>} ELSE {})
                             |-> IF k = http THEN 1 ELSE cost]
    <3>1. take(charges) BY <1>7 DEF presence
    <3>2. \A k \in DOMAIN charges : charges[k] \in Nat BY <2>1
    <3> HIDE DEF charges
    <3> QED BY <3>1, <3>2
  <2> QED BY <1>1, <2>2, <2>3, TakeStep
<1>8. CASE sweepBuckets BY <1>1, <1>8, SweepStep DEF sweepBuckets
<1>9. CASE secondPasses BY <1>1, <1>9, SecondStep DEF secondPasses
<1>10. CASE UNCHANGED admissionVars BY <1>1, <1>2, <1>10 DEF admissionVars
<1> QED BY <1>3, <1>4, <1>5, <1>6, <1>7, <1>8, <1>9, <1>10 DEF AdmissionNext

LEMMA AdmissionBegins == AdmissionInit => ConnInv /\ BucketInv
<1> SUFFICES ASSUME AdmissionInit PROVE ConnInv /\ BucketInv OBVIOUS
<1> USE AdmissionAssumption
<1>1. \A a : OpenOf(a) = {} BY DEF AdmissionInit, OpenOf, NoConn
<1>2. ConnsExact BY <1>1, FS_EmptySet DEF AdmissionInit, ConnsExact
<1>3. NoConn(Proxy) \in Links /\ NoConn(Proxy).state = "none" BY DEF NoConn, Links, Addresses
<1>4. ConnInv BY <1>2, <1>3 DEF AdmissionInit, ConnInv
<1>5. BucketInv BY UnusedExact DEF AdmissionInit, BucketInv
<1> QED BY <1>4, <1>5

\* Every connection is counted on the address it came from and taken back from
\* there once, and no sweep forgives or takes a token of any bucket.
THEOREM CountsAreExact == AdmissionSpec => []CountsExact
<1>1. ConnInv /\ BucketInv => CountsExact
  BY DEF ConnInv, BucketInv, ConnsExact, OpenOf, BucketExact, CountsExact
<1> QED BY <1>1, AdmissionBegins, AdmissionStep, PTL DEF AdmissionSpec
===============================================================================
