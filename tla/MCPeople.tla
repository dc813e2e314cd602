------------------------------ MODULE MCPeople ------------------------------
(***************************************************************************)
(* What the gateway and the worker do with people, five parts that share   *)
(* no state side by side: a behaviour is one of them.                      *)
(*                                                                         *)
(* Login: three callbacks of two logins, two browsers, two addresses,      *)
(* tokens with or without a stable id.  Field: the profile editor with one *)
(* ordinary field, one session and three requests, for example a form and  *)
(* two submissions of it, or a form, its save and a status check.  Origin: *)
(* the editor with nationality and the question about the mother, which    *)
(* exclude each other: a form and its save beside confirms and catalogue   *)
(* changes.  Search: three publishers and two contents.  Job: two runs,    *)
(* one of which takes over the lease of the other.                         *)
(***************************************************************************)
EXTENDS JobRunner, TLC

CONSTANTS
  Threes, Pairs,  \* names of what a part has three, or two, of
  Browsers, Subjects, Stables, Sessions, Countries, Kuwait, Texts, Imports, Null,
  Ordinary, Offered, MaxReceipts  \* the ordinary editor: its fields and countries
VARIABLES
  part, login, grant, people, identity, sessions, cb, put, coll, alias, pub, stray, shaken,
  exists, live, profile, imported, active, ledger, tx, token, expired, req, durable, late

SignIn == INSTANCE Login WITH Callbacks <- Threes, Logins <- Pairs
signin == <<login, grant, people, identity, sessions, cb, put>>
ASSUME PeopleAssumption == None \notin Threes \cup Pairs \cup Browsers \cup Subjects
Search == INSTANCE SearchPublish WITH Publishers <- Threes, Digests <- Subjects, late <- stray
search == <<coll, alias, pub, stray, shaken>>
Field == INSTANCE ProfileSave WITH
  Requests <- Threes, Fields <- Ordinary, Countries <- Offered
Origin == INSTANCE ProfileSave WITH
  Requests <- Pairs, Fields <- {"nationality", "kuwaitiMother"}, Texts <- {}, Imports <- {}
ASSUME EditorAssumption == None \notin Field!Answers \cup {"edit", "save", "status"}
editor == <<exists, live, profile, imported, active, ledger, tx, token, expired, req, durable, late>>

AllInit ==
  /\ Init /\ SignIn!Init /\ Search!Init
  /\ \/ part = "origin" /\ Origin!Init
     \/ part = "field" /\ Field!Init
     \/ part \in {"login", "search", "job"} /\ Field!Init /\ imported = [f \in Ordinary |-> None]
AllNext ==
  \/ part = "login" /\ SignIn!Next /\ UNCHANGED <<part, search, editor, vars>>
  \/ part = "search" /\ Search!Next /\ UNCHANGED <<part, signin, editor, vars>>
  \/ part = "field" /\ Field!Next /\ UNCHANGED <<part, signin, search, vars>>
  \/ part = "origin" /\ Origin!Next /\ UNCHANGED <<part, signin, search, vars>>
  \/ part = "job" /\ Next /\ UNCHANGED <<part, signin, search, editor>>
AllSpec == AllInit /\ [][AllNext]_<<part, signin, search, editor, vars>>

\* A token expires when a save is about to ask, an import changes when it is
\* about to be read: nobody reads either before.
EditorBound ==
  /\ expired' # expired => \E r \in Threes : req[r].stage = "verify" /\ req[r].token \in expired' \ expired
  /\ imported' # imported => \E r \in Threes : req[r].stage \in {"prepare", "verify"}
MCBound == part = "field" => EditorBound
\* Requests, callbacks, logins, publishers and texts are interchangeable.
MCSymmetry == Permutations(Threes) \cup Permutations(Pairs) \cup Permutations(Texts)

\* Every variable has its type.
AllTypesOK ==
  /\ TypeOK /\ SignIn!TypeOK /\ Search!TypeOK
  /\ (part = "field" => Field!TypeOK) /\ (part = "origin" => Origin!TypeOK)
\* Login: a session is earned by its browser's login, once.
SessionsAreEarned == SignIn!SessionsAreEarned
\* Login: no person is left without an identity.
NoOrphans == SignIn!NoOrphans
\* Login: only the recorded stable id signs in.
OnlyTheRecordedId == SignIn!OnlyTheRecordedId
\* Search: the alias names a complete collection.
AliasIsComplete == Search!AliasIsComplete
\* Editor: a form saves at most once, over what it showed.
FormSavesOnce == part = "field" => Field!FormSavesOnce
\* Editor: what the page says of a request is true.
AnswerIsTrue == part = "field" => Field!AnswerIsTrue
\* Editor: a session that ended while its save waited saves nothing.
LateNeverSaves == part = "field" => Field!LateNeverSaves
\* Editor: nobody is Kuwaiti and has answered the question about a Kuwaiti
\* mother.
MotherRule == part = "origin" => Origin!MotherRule
=============================================================================
