------------------------------- MODULE Mailbox -------------------------------
(***************************************************************************)
(* What the gateway promises about an envelope, without sockets, timers or *)
(* SQL.  An envelope is accepted once: then it is handed to the live       *)
(* subscribers, or held.  What is held is later handed over or given up.   *)
(* It never comes back: nothing that was handed over or given up is held   *)
(* again, so nobody is given what the queue kept after it went out live.   *)
(***************************************************************************)
CONSTANT Envelopes

VARIABLES
  seen,     \* envelopes the gateway accepted
  held,     \* envelopes it still answers for
  handed    \* envelopes it put on a connection

vars == <<seen, held, handed>>

Init == seen = {} /\ held = {} /\ handed = {}

AcceptLive(e) ==
  /\ e \notin seen
  /\ seen' = seen \cup {e}
  /\ handed' = handed \cup {e}
  /\ UNCHANGED held

AcceptHeld(e) ==
  /\ e \notin seen
  /\ seen' = seen \cup {e}
  /\ held' = held \cup {e}
  /\ UNCHANGED handed

HandOver(S) ==
  /\ S \subseteq held
  /\ held' = held \ S
  /\ handed' = handed \cup S
  /\ UNCHANGED seen

GiveUp(S) ==
  /\ S \subseteq held
  /\ held' = held \ S
  /\ UNCHANGED <<seen, handed>>

Next ==
  \/ \E e \in Envelopes : AcceptLive(e) \/ AcceptHeld(e)
  \/ \E S \in SUBSET Envelopes : HandOver(S) \/ GiveUp(S)

Spec == Init /\ [][Next]_vars
=============================================================================
