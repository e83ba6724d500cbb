-------------------------------- MODULE MCPage --------------------------------
(***************************************************************************)
(* An instance of Page for TLC.  The steps of its parts commute, so that a *)
(* behaviour of all is one of each: every run of one part is explored with *)
(* the others at rest.                                                     *)
(***************************************************************************)
EXTENDS Page

\* t1, t2 are the async functions of a page that run side by side.
CONSTANTS p, me, m1, m2, r1, w1, v1, c1, c2, t1, t2

VARIABLE part       \* the part that runs

Content(id, t, from, target) ==
  [id |-> id, t |-> t, from |-> from, chat |-> p, target |-> target, remove |-> FALSE, toMe |-> TRUE]

\* Two messages of p's, the user's reaction to the first; the user's own
\* message and its retraction, from this device or from another one.
MCContents ==
  { Content(m1, "msg", p, Nothing), Content(m2, "msg", p, Nothing), Content(r1, "react", me, m1),
    Content(w1, "msg", me, Nothing), Content(v1, "unsend", me, w1) }

MCInit ==
  /\ part \in {"inbox", "calls", "session", "files"}
  /\ PageInit
  /\ part # "inbox" => \A c \in Mine : mine[c] = "new"
  /\ part # "session" => devices = {}
  /\ part # "files" => file = [size |-> 0, expire |-> 0, enc |-> ""]

MCNext ==
  /\ UNCHANGED part
  /\ \/ part = "inbox" /\ InboxMoves
     \/ part = "calls" /\ CallsMove
     \/ part = "session" /\ SessionMoves
     \/ part = "files" /\ AttachmentsMove

MCSpec == MCInit /\ [][MCNext]_<<part, inboxVars, callsVars, sessionVars, attachmentVars>>

\* The consent of a call is read by no action and no property of this run, and a
\* stream that is off is asked for by none.
PageView == <<part, inboxVars, call, object, running, mics, pcs, turn, strayed \cap mics, sessionVars, attachmentVars>>
===============================================================================
