----------------------------- MODULE MCEndings -----------------------------
(***************************************************************************)
(* What must end, under fairness: the delivery of a queued message and the *)
(* answer to a request for the profile editor.  The two share no state; a  *)
(* behaviour is one of either.  The editor has a form, its save and a      *)
(* third request that needs the same lock; its imports, catalogue, other   *)
(* writers and expiring tokens are left to MCPeople: no request waits *)
(* for them.                                                               *)
(***************************************************************************)
EXTENDS EmailOutbox

CONSTANTS Requests, Sessions, Null
VARIABLES part, exists, live, profile, imported, active, ledger, tx, token, expired, req, durable, late

Editor == INSTANCE ProfileSave WITH
  Fields <- {"objective"}, Countries <- {}, Kuwait <- None, Texts <- {}, Imports <- {}, MaxReceipts <- 0
editor == <<exists, live, profile, imported, active, ledger, tx, token, expired, req, durable, late>>
all == <<part, vars, editor>>

EndingsInit == part \in {"email", "editor"} /\ Init /\ Editor!Init
Mail(A) == part = "email" /\ A /\ UNCHANGED <<part, editor>>
Edit(A) == part = "editor" /\ A /\ UNCHANGED <<part, vars>>
EndingsNext == Mail(Next) \/ Edit(Editor!Next /\ UNCHANGED expired)

\* The fairness of each part.
EndingsSpec ==
  /\ EndingsInit /\ [][EndingsNext]_all
  /\ \A w \in Workers : WF_all(Mail(Progress(w)))
  /\ \A m \in Messages :
       /\ WF_all(Mail(ComesDue(m)))
       /\ SF_all(Mail(\E w \in Workers, ms \in SUBSET Messages : m \in ms /\ ClaimDue(w, ms, TRUE)))
  /\ \A r \in Requests : WF_all(Edit(Editor!Progress(r))) /\ WF_all(Edit(Editor!ServerStep(r)))

\* Every request is answered, or dies with its process.
EveryRequestEnds == Editor!EveryRequestEnds
=============================================================================
