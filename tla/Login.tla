------------------------------- MODULE Login -------------------------------
(***************************************************************************)
(* Browser login through the identity provider                             *)
(* (apps/gateway/src/login-application.ts) over its PostgreSQL stores      *)
(* (packages/db/src/postgres-login-store.ts): a login started in one       *)
(* browser, the callback that turns the provider's code into a person and  *)
(* a session, the stable-id guard against a reassigned address, logout,    *)
(* expiry, and the staff's unlock.                                         *)
(*                                                                         *)
(* Every statement and every transaction of a callback is one action:      *)
(* callbacks of any number of gateway processes interleave between them.   *)
(* A transaction that fails may have been committed before its answer was  *)
(* lost; the callback is then rejected whatever happened.                  *)
(*                                                                         *)
(* Abstractions.  There is one issuer.  A login stands for its state,      *)
(* nonce and code verifier, and names the code the provider issues for it; *)
(* a principal and a session are named by the callback that creates them,  *)
(* as random identifiers would.  The provider is external: nothing is      *)
(* assumed of it but that the token of a code carries the nonce and the    *)
(* claims of the login the code was issued for.  Signature, audience and   *)
(* time checks of the token, which reject without touching state, are the  *)
(* refusal any exchange may end with.                                      *)
(***************************************************************************)
EXTENDS Naturals

CONSTANTS
  Logins,      \* the logins started in one behaviour (bound)
  Browsers,    \* values of the __Host-studenthub_browser cookie
  Callbacks,   \* the callback requests of one behaviour (bound)
  Subjects,    \* subjects (e-mail addresses) of the issuer
  Stables,     \* the stable ids tokens carry; None is a token without one
  None         \* nothing

VARIABLES
  login,       \* table login_states, and what became of each row
  grant,       \* the provider: login -> what its code's token claims
  people,      \* table principals
  identity,    \* table external_identities: subject -> its row
  sessions,    \* table login_sessions: session -> person_id
  cb,          \* the callbacks being served
  put          \* history: the callbacks whose session was ever stored

vars == <<login, grant, people, identity, sessions, cb, put>>

----------------------------------------------------------------------------

NoIdentity == [person |-> None, stable |-> None, locked |-> FALSE]
Identity ==
  [person : Callbacks, stable : Stables \cup {None}, locked : BOOLEAN]

NoGrant == [subject |-> None, stable |-> None]
Grant == [subject : Subjects, stable : Stables \cup {None}]

LoginState ==
  [browser : Browsers \cup {None}, row : {"none", "valid", "expired", "consumed"}]

Stages == {"idle", "exchange", "find", "create", "bind", "put", "signed_in", "rejected"}
Callback ==
  [stage : Stages, browser : Browsers \cup {None}, login : Logins \cup {None},
   code : Logins \cup {None}, subject : Subjects \cup {None},
   stable : Stables \cup {None}, person : Callbacks \cup {None}]

NewCallback ==
  [stage |-> "idle", browser |-> None, login |-> None, code |-> None,
   subject |-> None, stable |-> None, person |-> None]

Active(c) == cb[c].stage \notin {"idle", "signed_in", "rejected"}
Goto(c, s) == cb' = [cb EXCEPT ![c].stage = s]
Reject(c) == Goto(c, "rejected")

Init ==
  /\ login = [l \in Logins |-> [browser |-> None, row |-> "none"]]
  /\ grant = [l \in Logins |-> NoGrant]
  /\ people = {}
  /\ identity = [s \in Subjects |-> NoIdentity]
  /\ sessions = [c \in Callbacks |-> None]
  /\ cb = [c \in Callbacks |-> NewCallback]
  /\ put = {}

----------------------------------------------------------------------------
(* The browser's requests and the provider                                 *)

\* GET /login/universe: a state row bound to the browser's cookie.
Start(l, b) ==
  /\ login[l].row = "none"
  /\ login' = [login EXCEPT ![l] = [browser |-> b, row |-> "valid"]]
  /\ UNCHANGED <<grant, people, identity, sessions, cb, put>>

\* The provider signs somebody in for the login and issues a code.
Authenticate(l, s, u) ==
  /\ login[l].row # "none" /\ grant[l] = NoGrant
  /\ grant' = [grant EXCEPT ![l] = [subject |-> s, stable |-> u]]
  /\ UNCHANGED <<login, people, identity, sessions, cb, put>>

\* DELETE ... RETURNING: whatever the row was, it is gone.
Consume(l) == [login EXCEPT ![l].row = "consumed"]

\* GET /login/callback.  The state is consumed before the browser is compared.
Return(c, b, l, code) ==
  /\ cb[c].stage = "idle"
  /\ login[l].row # "none" /\ grant[code] # NoGrant
  /\ login' = Consume(l)
  /\ cb' = [cb EXCEPT ![c] =
       [stage |-> IF login[l].row = "valid" /\ login[l].browser = b THEN "exchange" ELSE "rejected",
        browser |-> b, login |-> l, code |-> code, subject |-> None, stable |-> None, person |-> None]]
  /\ UNCHANGED <<grant, people, identity, sessions, put>>

\* Mutant: the nonce of the token is not compared.
NonceIgnored(c) == TRUE

\* validateIdToken: the token was made for this login.
NonceMatches(c) == cb[c].code = cb[c].login

\* The code is exchanged and its token validated.
Exchange(c) ==
  /\ cb[c].stage = "exchange" /\ NonceMatches(c)
  /\ LET g == grant[cb[c].code] IN cb' = [cb EXCEPT ![c] =
       [stage |-> "find", browser |-> @.browser, login |-> @.login, code |-> @.code,
        subject |-> g.subject, stable |-> g.stable, person |-> @.person]]
  /\ UNCHANGED <<login, grant, people, identity, sessions, put>>

\* Where a callback that knows its person goes on.
AfterPerson(c) == IF cb[c].stable = None THEN "put" ELSE "bind"

FindIdentity(c) ==
  LET p == identity[cb[c].subject].person
  IN /\ cb[c].stage = "find"
     /\ cb' = [cb EXCEPT ![c].person = p,
                         ![c].stage = IF p = None THEN "create" ELSE AfterPerson(c)]
     /\ UNCHANGED <<login, grant, people, identity, sessions, put>>

----------------------------------------------------------------------------
(* The transactions of a callback; answered is FALSE when the answer is    *)
(* lost after COMMIT                                                       *)

\* Mutant: the principal is inserted before the identity is looked for.
NewPeopleEarly(c) == people \cup {c}

\* The principals after a first callback: one more, unless under the lock on
\* the subject an identity is found.
NewPeople(c) ==
  IF identity[cb[c].subject].person = None THEN people \cup {c} ELSE people

CreateIdentity(c, answered) ==
  LET s == cb[c].subject
      p == IF identity[s].person = None THEN c ELSE identity[s].person
  IN /\ cb[c].stage = "create"
     /\ people' = NewPeople(c)
     /\ identity' = [identity EXCEPT ![s].person = p]
     /\ IF answered
          THEN cb' = [cb EXCEPT ![c].person = p, ![c].stage = AfterPerson(c)]
          ELSE Reject(c)
     /\ UNCHANGED <<login, grant, sessions, put>>

\* What the stable id of the token is to the identity's row.
Binding(c) ==
  LET i == identity[cb[c].subject]
  IN IF i.locked THEN "locked"
     ELSE IF i.stable = None THEN "bound"
     ELSE IF i.stable = cb[c].stable THEN "matched"
     ELSE "mismatch"

\* The row after the UPDATE: the first stable id stays, a mismatch locks.
BoundRow(c) ==
  [identity[cb[c].subject] EXCEPT
     !.stable = IF @ = None THEN cb[c].stable ELSE @,
     !.locked = @ \/ Binding(c) = "mismatch"]

\* The sessions after a mismatch.
Revoked(c, p) == [d \in Callbacks |-> IF sessions[d] = p THEN None ELSE sessions[d]]

\* Mutant: only an earlier lock rejects.
RefusedLocked(c) == Binding(c) = "locked"

Refused(c) == Binding(c) \in {"mismatch", "locked"}

BindStableId(c, answered) ==
  LET s == cb[c].subject
  IN /\ cb[c].stage = "bind"
     /\ identity[s].person # None
     /\ identity' = [identity EXCEPT ![s] = BoundRow(c)]
     /\ sessions' = IF Binding(c) = "mismatch"
                      THEN Revoked(c, identity[s].person) ELSE sessions
     /\ IF answered /\ ~Refused(c) THEN Goto(c, "put") ELSE Reject(c)
     /\ UNCHANGED <<login, grant, people, put>>

\* login_sessions.person_id REFERENCES principals.
ReferenceHolds(c) == cb[c].person \in people

PutSession(c, answered) ==
  /\ cb[c].stage = "put" /\ ReferenceHolds(c)
  /\ sessions' = [sessions EXCEPT ![c] = cb[c].person]
  /\ put' = put \cup {c}
  /\ IF answered THEN Goto(c, "signed_in") ELSE Reject(c)
  /\ UNCHANGED <<login, grant, people, identity>>

\* Anything that throws rejects: a refused exchange or token, a row or a
\* principal that is gone, a failed statement, a process that died.
Fails(c) ==
  /\ Active(c)
  /\ Reject(c)
  /\ UNCHANGED <<login, grant, people, identity, sessions, put>>

----------------------------------------------------------------------------
(* The rest of the system                                                  *)

StateExpires(l) ==
  /\ login[l].row = "valid"
  /\ login' = [login EXCEPT ![l].row = "expired"]
  /\ UNCHANGED <<grant, people, identity, sessions, cb, put>>

\* DELETE /session, or the session's time is over.
EndSession(c) ==
  /\ sessions[c] # None
  /\ sessions' = [sessions EXCEPT ![c] = None]
  /\ UNCHANGED <<login, grant, people, identity, cb, put>>

\* Staff clear the lock; the recorded stable id stays.
UnlockIdentity(s) ==
  /\ identity[s].locked
  /\ identity' = [identity EXCEPT ![s].locked = FALSE]
  /\ UNCHANGED <<login, grant, people, sessions, cb, put>>

\* A principal is deleted; its identity and its sessions go with it.
RemovePrincipal(p) ==
  /\ p \in people
  /\ people' = people \ {p}
  /\ identity' = [s \in Subjects |->
       IF identity[s].person = p THEN NoIdentity ELSE identity[s]]
  /\ sessions' = [d \in Callbacks |-> IF sessions[d] = p THEN None ELSE sessions[d]]
  /\ UNCHANGED <<login, grant, cb, put>>

----------------------------------------------------------------------------

Browse ==
  \/ \E l \in Logins, b \in Browsers : Start(l, b)
  \/ \E c \in Callbacks, b \in Browsers, l, code \in Logins : Return(c, b, l, code)

Serve(c) ==
  \/ Exchange(c) \/ FindIdentity(c) \/ Fails(c)
  \/ \E answered \in BOOLEAN :
       CreateIdentity(c, answered) \/ BindStableId(c, answered) \/ PutSession(c, answered)

Environment ==
  \/ \E l \in Logins, s \in Subjects, u \in Stables : Authenticate(l, s, u)
  \/ \E l \in Logins : StateExpires(l)
  \/ \E c \in Callbacks : EndSession(c)
  \/ \E s \in Subjects : UnlockIdentity(s)
  \/ \E p \in people : RemovePrincipal(p)

Next == Browse \/ (\E c \in Callbacks : Serve(c)) \/ Environment

Spec == Init /\ [][Next]_vars

----------------------------------------------------------------------------
(* Properties                                                              *)

\* The shapes of the variables (the type invariant).
TypeOK ==
  /\ login \in [Logins -> LoginState]
  /\ grant \in [Logins -> Grant \cup {NoGrant}]
  /\ people \in SUBSET Callbacks
  /\ identity \in [Subjects -> Identity \cup {NoIdentity}]
  /\ sessions \in [Callbacks -> people \cup {None}]
  /\ cb \in [Callbacks -> Callback]
  /\ put \in SUBSET Callbacks

\* A login gives at most one session, however often and by however many
\* processes its callback is served (DELETE ... RETURNING in consume), and a
\* session in a browser is of the person whom the provider signed in for
\* the login that this browser started, also when the principal is deleted
\* and the address registered again meanwhile (state binding, nonce, the
\* identity's key and the session's reference to its principal).
SessionsAreEarned ==
  /\ \A c, d \in put : cb[c].login = cb[d].login => c = d
  /\ \A c \in Callbacks : sessions[c] # None =>
       LET l == cb[c].login
       IN /\ login[l].browser = cb[c].browser
          /\ grant[l].subject = cb[c].subject
          /\ identity[cb[c].subject].person = sessions[c]

\* Concurrent first callbacks of one subject register one person: every
\* principal is reachable through its identity (createIdentity).
NoOrphans == \A p \in people : \E s \in Subjects : identity[s].person = p

\* Of the tokens that carry a stable id, only those with the recorded one
\* are ever given a session, whichever callback came first (bindStableId).
OnlyTheRecordedId ==
  \A c \in Callbacks : sessions[c] # None /\ cb[c].stable # None =>
    identity[cb[c].subject].stable = cb[c].stable

\* No browser that was given a session of the person still holds it while the
\* identity is locked.  docs/authz-roles.md: a mismatch "locks the identity,
\* revokes its login sessions, and rejects all later sign-ins until staff clear
\* the lock".
LockedHasNoSession ==
  \A s \in Subjects : identity[s].locked =>
    \A c \in Callbacks :
      cb[c].stage = "signed_in" => sessions[c] # identity[s].person

=============================================================================
