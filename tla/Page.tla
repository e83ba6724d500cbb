--------------------------------- MODULE Page ---------------------------------
(***************************************************************************)
(* The parts of a page that share no state (apps/web/src/main.js): its     *)
(* inbox, its calls, its session, and the attachments of a message.  One   *)
(* thread runs them all, so a step of the page is a step of one part.      *)
(***************************************************************************)
EXTENDS Inbox, Calls, ClientSession, Attachments

InboxMoves == InboxNext /\ UNCHANGED <<callsVars, sessionVars, attachmentVars>>
CallsMove == CallsNext /\ UNCHANGED <<inboxVars, sessionVars, attachmentVars>>
SessionMoves == SessionNext /\ UNCHANGED <<inboxVars, callsVars, attachmentVars>>
AttachmentsMove == AttachmentsNext /\ UNCHANGED <<inboxVars, callsVars, sessionVars>>

PageInit == InboxInit /\ CallsInit /\ SessionInit /\ AttachmentsInit
PageNext == InboxMoves \/ CallsMove \/ SessionMoves \/ AttachmentsMove
PageSpec == PageInit /\ [][PageNext]_<<inboxVars, callsVars, sessionVars, attachmentVars>>

\* Every variable of the page has its type; no conversation shows an id twice or
\* outgrows its cap, and no id is remembered twice.
PageTypeOK == InboxTypeOK /\ CallsTypeOK /\ SessionTypeOK /\ AttachmentsTypeOK
===============================================================================
