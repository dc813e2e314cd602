---------------------------- MODULE PeopleProofs ----------------------------
(***************************************************************************)
(* Sessions, publications, saves of a profile and runs of a job, for any   *)
(* number of browsers, callbacks, publishers, requests and runs.           *)
(***************************************************************************)
EXTENDS MCPeople, Naturals, Sequences, TLAPS

-----------------------------------------------------------------------------
(* Login: the inductive invariant                                          *)

\* A callback that consumed a valid state of its browser's login.
Admitted(c) == cb[c].stage \in {"exchange", "find", "create", "bind", "put", "signed_in"} \/ c \in put
\* A callback that has read whom the provider signed in for its login.
Identified(c) == cb[c].stage \in {"find", "create", "bind", "put", "signed_in"} \/ c \in put
\* A callback that has not yet found or created a person.
Early == {"idle", "exchange", "find", "create"}

CallbacksFollow ==
  /\ \A c \in put : cb[c].stage \in {"signed_in", "rejected"}
  /\ \A c, d \in Threes : Admitted(c) /\ Admitted(d) /\ cb[c].login = cb[d].login => c = d
  /\ \A c \in Threes : Admitted(c) =>
       /\ cb[c].login \in Pairs /\ login[cb[c].login].row = "consumed"
       /\ login[cb[c].login].browser = cb[c].browser
       /\ cb[c].code \in Pairs /\ grant[cb[c].code] # SignIn!NoGrant
  /\ \A c \in Threes : Identified(c) =>
       /\ cb[c].code = cb[c].login /\ cb[c].subject \in Subjects
       /\ grant[cb[c].code] = [subject |-> cb[c].subject, stable |-> cb[c].stable]

\* The person a callback knows has the identity of its subject, while there is
\* such a person; and has the callback's stable id, once that is bound.
Knows(c) ==
  /\ identity[cb[c].subject].person = cb[c].person
  /\ cb[c].stage = "put" /\ cb[c].stable # None => identity[cb[c].subject].stable = cb[c].stable
PeopleFollow ==
  /\ \A s \in Subjects : identity[s].person \in people \cup {None}
  /\ \A p \in people : cb[p].stage \notin Early
  /\ \A c \in Threes : cb[c].stage \in Early => cb[c].person = None
  /\ \A c \in Threes : cb[c].stage = "bind" => cb[c].stable # None
  /\ \A c \in Threes : cb[c].person # None => cb[cb[c].person].stage \notin Early
  /\ \A c \in Threes : cb[c].stage \in {"bind", "put"} =>
       /\ cb[c].person \in Threes
       /\ cb[c].person \in people => Knows(c)
SessionsFollow ==
  /\ \A c \in Threes : sessions[c] # None =>
       c \in put /\ sessions[c] \in people /\ identity[cb[c].subject].person = sessions[c]
  /\ SignIn!OnlyTheRecordedId

LoginInv == SignIn!TypeOK /\ SignIn!NoOrphans /\ CallbacksFollow /\ PeopleFollow /\ SessionsFollow

LEMMA SomeoneIsNobody ==
  /\ None \notin Threes /\ None \notin Pairs /\ None \notin Browsers /\ None \notin Subjects
  /\ SignIn!NoGrant.subject = None /\ SignIn!NoIdentity.person = None /\ SignIn!NoIdentity.stable = None
  /\ SignIn!NoIdentity.locked = FALSE
  /\ SignIn!NewCallback \in SignIn!Callback /\ SignIn!NewCallback.stage = "idle" /\ SignIn!NewCallback.person = None
  BY PeopleAssumption DEF SignIn!NoGrant, SignIn!NoIdentity, SignIn!NewCallback, SignIn!Callback, SignIn!Stages

\* One callback moves on, or is rejected, and knows what it knew.
OneMoves(c, stage) ==
  /\ cb' \in [Threes -> SignIn!Callback] /\ cb'[c].stage = stage
  /\ \A d \in Threes : d # c => cb'[d] = cb[d]
SameKnowledge == \A d \in Threes :
  /\ cb'[d].browser = cb[d].browser /\ cb'[d].login = cb[d].login /\ cb'[d].code = cb[d].code
  /\ cb'[d].subject = cb[d].subject /\ cb'[d].stable = cb[d].stable

LEMMA Gone ==
  ASSUME SignIn!TypeOK, NEW c \in Threes, NEW stage \in SignIn!Stages, SignIn!Goto(c, stage)
  PROVE  OneMoves(c, stage) /\ SameKnowledge /\ \A d \in Threes : cb'[d].person = cb[d].person
  BY DEF SignIn!TypeOK, SignIn!Goto, SignIn!Callback, OneMoves, SameKnowledge

LEMMA WithPerson ==
  ASSUME SignIn!TypeOK, NEW c \in Threes, NEW stage \in SignIn!Stages, NEW p \in Threes \cup {None},
         cb' = [cb EXCEPT ![c].person = p, ![c].stage = stage]
  PROVE  OneMoves(c, stage) /\ SameKnowledge /\ cb'[c].person = p
<1>1. cb' = [cb EXCEPT ![c] = [cb[c] EXCEPT !.person = p, !.stage = stage]]
  BY DEF SignIn!TypeOK
<1>. QED  BY <1>1 DEF SignIn!TypeOK, SignIn!Callback, OneMoves, SameKnowledge

LEMMA StagesAre ==
  SignIn!Stages = {"idle", "exchange", "find", "create", "bind", "put", "signed_in", "rejected"}
  BY DEF SignIn!Stages

\* Callbacks that get no further keep what is known of them.
LEMMA CallbacksKept ==
  ASSUME LoginInv, SameKnowledge, UNCHANGED <<login, grant>>, put' \in SUBSET Threes,
         \A d \in put' : cb'[d].stage \in {"signed_in", "rejected"},
         \A d \in Threes : (Admitted(d)' => Admitted(d)) /\ (Identified(d)' => Identified(d))
  PROVE  CallbacksFollow'
<1>1. \A d \in Threes : cb'[d].login = cb[d].login /\ cb'[d].browser = cb[d].browser /\ cb'[d].code = cb[d].code
                       /\ cb'[d].subject = cb[d].subject /\ cb'[d].stable = cb[d].stable
  BY DEF SameKnowledge
<1>2. \A d, e \in Threes : Admitted(d)' /\ Admitted(e)' /\ cb'[d].login = cb'[e].login => d = e
  BY <1>1 DEF LoginInv, CallbacksFollow
<1>3. \A d \in Threes : Admitted(d)' =>
        /\ cb'[d].login \in Pairs /\ login'[cb'[d].login].row = "consumed"
        /\ login'[cb'[d].login].browser = cb'[d].browser
        /\ cb'[d].code \in Pairs /\ grant'[cb'[d].code] # SignIn!NoGrant
  BY <1>1 DEF LoginInv, CallbacksFollow
<1>4. \A d \in Threes : Identified(d)' =>
        /\ cb'[d].code = cb'[d].login /\ cb'[d].subject \in Subjects
        /\ grant'[cb'[d].code] = [subject |-> cb'[d].subject, stable |-> cb'[d].stable]
  BY <1>1 DEF LoginInv, CallbacksFollow
<1>. QED  BY <1>2, <1>3, <1>4 DEF CallbacksFollow

\* A callback that fails is rejected, whatever it knew.
LEMMA RejectedKeeps ==
  ASSUME LoginInv, NEW c \in Threes, SignIn!Reject(c), cb[c].stage # "idle",
         UNCHANGED <<login, grant, people, identity, sessions, put>>
  PROVE  LoginInv'
<1>1. OneMoves(c, "rejected") /\ SameKnowledge /\ \A d \in Threes : cb'[d].person = cb[d].person
  BY Gone, StagesAre DEF LoginInv, SignIn!Reject
<1>2. SignIn!TypeOK' /\ SignIn!NoOrphans'
  BY <1>1 DEF LoginInv, SignIn!TypeOK, SignIn!NoOrphans, OneMoves
<1>3. CallbacksFollow'
  <2>1. \A d \in Threes : (Admitted(d)' => Admitted(d)) /\ (Identified(d)' => Identified(d))
    BY <1>1 DEF Admitted, Identified, OneMoves
  <2>2. put' \in SUBSET Threes /\ \A d \in put' : cb'[d].stage \in {"signed_in", "rejected"}
    BY <1>1 DEF LoginInv, CallbacksFollow, OneMoves, SignIn!TypeOK
  <2>. QED  BY <1>1, <2>1, <2>2, CallbacksKept
<1>4. PeopleFollow'
  <2>1. \A d \in Threes : cb'[d].stage \in Early => cb[d].stage \in Early
    BY <1>1 DEF OneMoves, Early
  <2>2. \A d \in Threes : cb'[d].stage \in {"bind", "put"} => cb'[d] = cb[d]
    BY <1>1 DEF OneMoves
  <2>3. \A d \in Threes : cb[d].person \in Threes \cup {None}
    BY DEF LoginInv, SignIn!TypeOK, SignIn!Callback
  <2>4. people \in SUBSET Threes
    BY DEF LoginInv, SignIn!TypeOK
  <2>5. \A d \in Threes : cb'[d].stage \in {"bind", "put"} => cb'[d].person \in Threes /\ (cb'[d].person \in people' => Knows(d)')
    BY <2>2 DEF LoginInv, PeopleFollow, Knows
  <2>6. \A d \in Threes : cb'[d].stage = "bind" => cb'[d].stable # None
    BY <2>2 DEF LoginInv, PeopleFollow
  <2>. QED  BY <1>1, <2>1, <2>3, <2>4, <2>5, <2>6 DEF LoginInv, PeopleFollow
<1>5. SessionsFollow'
  BY <1>1 DEF LoginInv, SessionsFollow, SignIn!OnlyTheRecordedId, SameKnowledge
<1>. QED  BY <1>2, <1>3, <1>4, <1>5 DEF LoginInv

-----------------------------------------------------------------------------
(* Login: browsers, the provider and the environment                       *)

\* Nothing that callbacks know of people has changed.
LEMMA PeopleSame ==
  ASSUME LoginInv, UNCHANGED <<people, identity, sessions, cb, put>>
  PROVE  SignIn!NoOrphans' /\ PeopleFollow' /\ SessionsFollow'
  BY DEF LoginInv, SignIn!NoOrphans, PeopleFollow, SessionsFollow, SignIn!OnlyTheRecordedId, Knows

LEMMA StartKeeps ==
  ASSUME LoginInv, NEW l \in Pairs, NEW b \in Browsers, SignIn!Start(l, b)
  PROVE  LoginInv'
<1>1. /\ login' = [login EXCEPT ![l] = [browser |-> b, row |-> "valid"]] /\ login[l].row = "none"
      /\ UNCHANGED <<grant, people, identity, sessions, cb, put>>
  BY DEF SignIn!Start
<1>2. SignIn!TypeOK'
  BY <1>1 DEF LoginInv, SignIn!TypeOK, SignIn!LoginState
<1>3. CallbacksFollow'
  <2>1. \A k \in Pairs : k # l => login'[k] = login[k]
    BY <1>1 DEF LoginInv, SignIn!TypeOK
  <2>2. \A c \in Threes : Admitted(c) => cb[c].login # l
    BY <1>1 DEF LoginInv, CallbacksFollow
  <2>. QED  BY <1>1, <2>1, <2>2 DEF LoginInv, CallbacksFollow, Admitted, Identified
<1>. QED  BY <1>1, <1>2, <1>3, PeopleSame DEF LoginInv

LEMMA StateExpiresKeeps ==
  ASSUME LoginInv, NEW l \in Pairs, SignIn!StateExpires(l)
  PROVE  LoginInv'
<1>1. /\ login' = [login EXCEPT ![l] = [login[l] EXCEPT !.row = "expired"]] /\ login[l].row = "valid"
      /\ UNCHANGED <<grant, people, identity, sessions, cb, put>>
  BY DEF SignIn!StateExpires
<1>2. SignIn!TypeOK'
  BY <1>1 DEF LoginInv, SignIn!TypeOK, SignIn!LoginState
<1>3. CallbacksFollow'
  <2>1. \A k \in Pairs : k # l => login'[k] = login[k]
    BY <1>1 DEF LoginInv, SignIn!TypeOK
  <2>2. \A c \in Threes : Admitted(c) => cb[c].login # l
    BY <1>1 DEF LoginInv, CallbacksFollow
  <2>. QED  BY <1>1, <2>1, <2>2 DEF LoginInv, CallbacksFollow, Admitted, Identified
<1>. QED  BY <1>1, <1>2, <1>3, PeopleSame DEF LoginInv

LEMMA AuthenticateKeeps ==
  ASSUME LoginInv, NEW l \in Pairs, NEW s \in Subjects, NEW u \in Stables, SignIn!Authenticate(l, s, u)
  PROVE  LoginInv'
<1>1. /\ grant' = [grant EXCEPT ![l] = [subject |-> s, stable |-> u]] /\ grant[l] = SignIn!NoGrant
      /\ UNCHANGED <<login, people, identity, sessions, cb, put>>
  BY DEF SignIn!Authenticate
<1>2. SignIn!TypeOK'
  BY <1>1 DEF LoginInv, SignIn!TypeOK, SignIn!Grant
<1>3. CallbacksFollow'
  <2>1. \A k \in Pairs : k # l => grant'[k] = grant[k]
    BY <1>1 DEF LoginInv, SignIn!TypeOK
  <2>2. \A c \in Threes : Admitted(c) => cb[c].code # l
    BY <1>1 DEF LoginInv, CallbacksFollow
  <2>3. \A c \in Threes : Identified(c) => Admitted(c)
    BY DEF Identified, Admitted
  <2>. QED  BY <1>1, <2>1, <2>2, <2>3 DEF LoginInv, CallbacksFollow, Admitted, Identified
<1>. QED  BY <1>1, <1>2, <1>3, PeopleSame DEF LoginInv

\* A state is consumed once: two callbacks are never admitted for one login.
LEMMA ReturnKeeps ==
  ASSUME LoginInv, NEW c \in Threes, NEW b \in Browsers, NEW l \in Pairs, NEW code \in Pairs, SignIn!Return(c, b, l, code)
  PROVE  LoginInv'
<1>. DEFINE to == IF login[l].row = "valid" /\ login[l].browser = b THEN "exchange" ELSE "rejected"
            r == [stage |-> to, browser |-> b, login |-> l, code |-> code,
                  subject |-> None, stable |-> None, person |-> None]
<1>1. /\ cb[c].stage = "idle" /\ grant[code] # SignIn!NoGrant
      /\ login' = [login EXCEPT ![l] = [login[l] EXCEPT !.row = "consumed"]]
      /\ UNCHANGED <<grant, people, identity, sessions, put>>
  BY DEF SignIn!Return, SignIn!Consume
<1>2. cb' = [cb EXCEPT ![c] = r]
  BY DEF SignIn!Return
<1>3. r \in SignIn!Callback /\ r.stage = to /\ r.person = None /\ r.login = l /\ r.browser = b /\ r.code = code /\ to \in {"exchange", "rejected"}
  BY StagesAre DEF SignIn!Callback
<1>. HIDE DEF r
<1>4. cb' \in [Threes -> SignIn!Callback] /\ cb'[c] = r /\ \A d \in Threes : d # c => cb'[d] = cb[d]
  BY <1>2, <1>3 DEF LoginInv, SignIn!TypeOK
<1>5. SignIn!TypeOK'
  BY <1>1, <1>4 DEF LoginInv, SignIn!TypeOK, SignIn!LoginState
<1>6. SignIn!NoOrphans'
  BY <1>1 DEF LoginInv, SignIn!NoOrphans
<1>7. c \notin put /\ c \notin people
  BY <1>1 DEF LoginInv, CallbacksFollow, PeopleFollow, Early
<1>8. CallbacksFollow'
  <2>1. \A k \in Pairs : k # l => login'[k] = login[k]
    BY <1>1 DEF LoginInv, SignIn!TypeOK
  <2>2. login'[l].row = "consumed" /\ login'[l].browser = login[l].browser
    BY <1>1 DEF LoginInv, SignIn!TypeOK, SignIn!LoginState
  <2>3. \A d \in Threes : d # c => (Admitted(d)' <=> Admitted(d)) /\ (Identified(d)' <=> Identified(d))
    BY <1>1, <1>4 DEF Admitted, Identified
  <2>4. Admitted(c)' <=> to = "exchange"
    BY <1>1, <1>3, <1>4, <1>7 DEF Admitted
  <2>5. ~Identified(c)'
    BY <1>1, <1>3, <1>4, <1>7 DEF Identified
  <2>6. to = "exchange" => login[l].row = "valid" /\ login[l].browser = b
    OBVIOUS
  <2>7. \A d \in Threes : Admitted(d) /\ to = "exchange" => cb[d].login # l
    BY <2>6 DEF LoginInv, CallbacksFollow
  <2>8. \A d \in put' : cb'[d].stage \in {"signed_in", "rejected"}
    BY <1>1, <1>4, <1>7 DEF LoginInv, CallbacksFollow, SignIn!TypeOK
  <2>. HIDE DEF to
  <2>9. \A d, e \in Threes : Admitted(d)' /\ Admitted(e)' /\ cb'[d].login = cb'[e].login => d = e
    <3>1. SUFFICES ASSUME NEW d \in Threes, NEW e \in Threes, Admitted(d)', Admitted(e)', cb'[d].login = cb'[e].login, d # e
                   PROVE  FALSE
      OBVIOUS
    <3>2. CASE d # c /\ e # c
      BY <1>4, <2>3, <3>1, <3>2 DEF LoginInv, CallbacksFollow
    <3>3. CASE d = c
      BY <1>3, <1>4, <2>3, <2>4, <2>7, <3>1, <3>3
    <3>4. CASE e = c
      BY <1>3, <1>4, <2>3, <2>4, <2>7, <3>1, <3>4
    <3>. QED  BY <3>2, <3>3, <3>4
  <2>10. ASSUME NEW d \in Threes, Admitted(d)'
         PROVE  /\ cb'[d].login \in Pairs /\ login'[cb'[d].login].row = "consumed"
                /\ login'[cb'[d].login].browser = cb'[d].browser
                /\ cb'[d].code \in Pairs /\ grant'[cb'[d].code] # SignIn!NoGrant
    <3>1. CASE d = c
      BY <1>1, <1>3, <1>4, <2>2, <2>4, <2>6, <2>10, <3>1
    <3>2. CASE d # c
      <4>1. Admitted(d) /\ cb'[d] = cb[d]
        BY <1>4, <2>3, <2>10, <3>2
      <4>. QED  BY <1>1, <2>1, <2>2, <4>1 DEF LoginInv, CallbacksFollow
    <3>. QED  BY <3>1, <3>2
  <2>11. ASSUME NEW d \in Threes, Identified(d)'
         PROVE  /\ cb'[d].code = cb'[d].login /\ cb'[d].subject \in Subjects
                /\ grant'[cb'[d].code] = [subject |-> cb'[d].subject, stable |-> cb'[d].stable]
    <3>1. d # c /\ Identified(d) /\ cb'[d] = cb[d]
      BY <1>4, <2>3, <2>5, <2>11
    <3>. QED  BY <1>1, <3>1 DEF LoginInv, CallbacksFollow
  <2>. QED  BY <2>8, <2>9, <2>10, <2>11 DEF CallbacksFollow
<1>9. PeopleFollow'
  <2>. HIDE DEF to
  <2>1. \A d \in Threes : cb'[d].stage \in Early => cb[d].stage \in Early
    BY <1>1, <1>4 DEF Early
  <2>2. \A d \in Threes : cb'[d].stage \in {"bind", "put"} => d # c
    BY <1>3, <1>4
  <2>3. \A d \in Threes : cb[d].person \in Threes \cup {None}
    BY DEF LoginInv, SignIn!TypeOK, SignIn!Callback
  <2>4. people \in SUBSET Threes
    BY DEF LoginInv, SignIn!TypeOK
  <2>5. \A d \in Threes : cb'[d].stage \in {"bind", "put"} => cb'[d].person \in Threes /\ (cb'[d].person \in people' => Knows(d)')
    BY <1>1, <1>4, <2>2 DEF LoginInv, PeopleFollow, Knows
  <2>6. \A d \in Threes : cb'[d].stage = "bind" => cb'[d].stable # None
    BY <1>4, <2>2 DEF LoginInv, PeopleFollow
  <2>7. \A d \in Threes : cb'[d].person = (IF d = c THEN None ELSE cb[d].person)
    BY <1>3, <1>4
  <2>. QED  BY <1>1, <1>4, <2>1, <2>3, <2>4, <2>5, <2>6, <2>7 DEF LoginInv, PeopleFollow
<1>10. SessionsFollow'
  <2>1. \A d \in Threes : sessions[d] # None => d # c
    BY <1>7 DEF LoginInv, SessionsFollow
  <2>. QED  BY <1>1, <1>4, <2>1 DEF LoginInv, SessionsFollow, SignIn!OnlyTheRecordedId
<1>. QED  BY <1>5, <1>6, <1>8, <1>9, <1>10 DEF LoginInv

-----------------------------------------------------------------------------
(* Login: what a callback reads                                            *)

LEMMA ExchangeKeeps ==
  ASSUME LoginInv, NEW c \in Threes, SignIn!Exchange(c)
  PROVE  LoginInv'
<1>1. /\ cb[c].stage = "exchange" /\ cb[c].code = cb[c].login
      /\ UNCHANGED <<login, grant, people, identity, sessions, put>>
  BY DEF SignIn!Exchange, SignIn!NonceMatches
<1>2. /\ Admitted(c) /\ cb[c].code \in Pairs /\ grant[cb[c].code] \in SignIn!Grant
      /\ c \notin put /\ c \notin people
  BY <1>1 DEF LoginInv, CallbacksFollow, PeopleFollow, Admitted, Early, SignIn!TypeOK
<1>3. PICK g \in SignIn!Grant : g = grant[cb[c].code]
  BY <1>2
<1>4. /\ OneMoves(c, "find") /\ cb'[c].subject = g.subject /\ cb'[c].stable = g.stable
      /\ cb'[c].browser = cb[c].browser /\ cb'[c].login = cb[c].login /\ cb'[c].code = cb[c].code
      /\ cb'[c].person = cb[c].person
  <2>2. cb' = [cb EXCEPT ![c] = [stage |-> "find", browser |-> cb[c].browser, login |-> cb[c].login, code |-> cb[c].code,
                                 subject |-> g.subject, stable |-> g.stable, person |-> cb[c].person]]
    BY <1>3 DEF SignIn!Exchange
  <2>3. g.subject \in Subjects /\ g.stable \in Stables \cup {None}
    BY DEF SignIn!Grant
  <2>. QED  BY <2>2, <2>3, StagesAre DEF LoginInv, SignIn!TypeOK, SignIn!Callback, OneMoves
<1>5. SignIn!TypeOK' /\ SignIn!NoOrphans'
  BY <1>1, <1>4 DEF LoginInv, SignIn!TypeOK, SignIn!NoOrphans, OneMoves
<1>6. CallbacksFollow'
  <2>1. \A d \in Threes : /\ cb'[d].login = cb[d].login /\ cb'[d].browser = cb[d].browser /\ cb'[d].code = cb[d].code
                          /\ Admitted(d)' <=> Admitted(d)
    BY <1>1, <1>4 DEF OneMoves, Admitted
  <2>2. \A d \in Threes : d # c => (Identified(d)' <=> Identified(d))
    BY <1>1, <1>4 DEF OneMoves, Identified
  <2>3. g = [subject |-> g.subject, stable |-> g.stable] /\ g.subject \in Subjects
    BY DEF SignIn!Grant
  <2>4. \A d \in Threes : Identified(d)' =>
          /\ cb'[d].code = cb'[d].login /\ cb'[d].subject \in Subjects
          /\ grant'[cb'[d].code] = [subject |-> cb'[d].subject, stable |-> cb'[d].stable]
    <3>1. ASSUME NEW d \in Threes, d # c, Identified(d)'
          PROVE  /\ cb'[d].code = cb'[d].login /\ cb'[d].subject \in Subjects
                 /\ grant'[cb'[d].code] = [subject |-> cb'[d].subject, stable |-> cb'[d].stable]
      BY <1>1, <1>4, <2>2, <3>1 DEF OneMoves, LoginInv, CallbacksFollow
    <3>2. /\ cb'[c].code = cb'[c].login /\ cb'[c].subject \in Subjects
          /\ grant'[cb'[c].code] = [subject |-> cb'[c].subject, stable |-> cb'[c].stable]
      BY <1>1, <1>3, <1>4, <2>3
    <3>. QED  BY <3>1, <3>2
  <2>5. \A d \in put' : cb'[d].stage \in {"signed_in", "rejected"}
    BY <1>1, <1>2, <1>4 DEF OneMoves, LoginInv, CallbacksFollow, SignIn!TypeOK
  <2>6. \A d, e \in Threes : Admitted(d)' /\ Admitted(e)' /\ cb'[d].login = cb'[e].login => d = e
    BY <2>1 DEF LoginInv, CallbacksFollow
  <2>7. \A d \in Threes : Admitted(d)' =>
          /\ cb'[d].login \in Pairs /\ login'[cb'[d].login].row = "consumed"
          /\ login'[cb'[d].login].browser = cb'[d].browser
          /\ cb'[d].code \in Pairs /\ grant'[cb'[d].code] # SignIn!NoGrant
    BY <1>1, <2>1 DEF LoginInv, CallbacksFollow
  <2>. QED  BY <2>4, <2>5, <2>6, <2>7 DEF CallbacksFollow
<1>7. PeopleFollow'
  <2>1. \A d \in Threes : (cb'[d].stage \in Early <=> cb[d].stage \in Early) /\ cb'[d].person = cb[d].person
    BY <1>1, <1>4 DEF OneMoves, Early
  <2>2. \A d \in Threes : cb'[d].stage \in {"bind", "put"} => cb'[d] = cb[d]
    BY <1>4 DEF OneMoves
  <2>3. \A d \in Threes : cb[d].person \in Threes \cup {None}
    BY DEF LoginInv, SignIn!TypeOK, SignIn!Callback
  <2>4. people \in SUBSET Threes
    BY DEF LoginInv, SignIn!TypeOK
  <2>5. \A d \in Threes : cb'[d].stage \in {"bind", "put"} => cb'[d].person \in Threes /\ (cb'[d].person \in people' => Knows(d)')
    BY <1>1, <2>2 DEF LoginInv, PeopleFollow, Knows
  <2>6. \A d \in Threes : cb'[d].stage = "bind" => cb'[d].stable # None
    BY <2>2 DEF LoginInv, PeopleFollow
  <2>. QED  BY <1>1, <2>1, <2>3, <2>4, <2>5, <2>6 DEF LoginInv, PeopleFollow
<1>8. SessionsFollow'
  <2>1. \A d \in Threes : sessions[d] # None => cb'[d] = cb[d]
    BY <1>2, <1>4 DEF LoginInv, SessionsFollow, OneMoves
  <2>. QED  BY <1>1, <2>1 DEF LoginInv, SessionsFollow, SignIn!OnlyTheRecordedId
<1>. QED  BY <1>5, <1>6, <1>7, <1>8 DEF LoginInv

LEMMA FindIdentityKeeps ==
  ASSUME LoginInv, NEW c \in Threes, SignIn!FindIdentity(c)
  PROVE  LoginInv'
<1>1. /\ cb[c].stage = "find" /\ UNCHANGED <<login, grant, people, identity, sessions, put>>
      /\ Identified(c) /\ cb[c].subject \in Subjects /\ c \notin put /\ c \notin people
  BY DEF SignIn!FindIdentity, LoginInv, CallbacksFollow, PeopleFollow, Identified, Early
<1>2. PICK p \in people \cup {None} : p = identity[cb[c].subject].person
  BY <1>1 DEF LoginInv, PeopleFollow
<1>3. PICK to \in {"create", "put", "bind"} :
        /\ cb' = [cb EXCEPT ![c].person = p, ![c].stage = to]
        /\ to = "create" <=> p = None
        /\ p # None => (to = "bind" <=> cb[c].stable # None)
  BY <1>2 DEF SignIn!FindIdentity, SignIn!AfterPerson
<1>4. p \in Threes \cup {None} /\ people \in SUBSET Threes
  BY DEF LoginInv, SignIn!TypeOK
<1>5. OneMoves(c, to) /\ SameKnowledge /\ cb'[c].person = p
  BY <1>3, <1>4, WithPerson, StagesAre DEF LoginInv
<1>6. SignIn!TypeOK' /\ SignIn!NoOrphans'
  BY <1>1, <1>5 DEF LoginInv, SignIn!TypeOK, SignIn!NoOrphans, OneMoves
<1>7. CallbacksFollow'
  <2>1. \A d \in Threes : (Admitted(d)' => Admitted(d)) /\ (Identified(d)' => Identified(d))
    BY <1>1, <1>5 DEF Admitted, Identified, OneMoves
  <2>2. put' \in SUBSET Threes /\ \A d \in put' : cb'[d].stage \in {"signed_in", "rejected"}
    BY <1>1, <1>5 DEF LoginInv, CallbacksFollow, OneMoves, SignIn!TypeOK
  <2>. QED  BY <1>1, <1>5, <2>1, <2>2, CallbacksKept
<1>8. PeopleFollow'
  <2>1. \A d \in Threes : cb'[d].stage \in Early => cb[d].stage \in Early
    BY <1>1, <1>5 DEF OneMoves, Early
  <2>2. \A d \in Threes : d # c => cb'[d] = cb[d]
    BY <1>5 DEF OneMoves
  <2>3. \A d \in Threes : cb[d].person \in Threes \cup {None}
    BY DEF LoginInv, SignIn!TypeOK, SignIn!Callback
  <2>4. p \in people => cb[p].stage \notin Early /\ cb'[p].stage \notin Early
    BY <1>1, <1>4, <2>2 DEF LoginInv, PeopleFollow
  <2>5. cb'[c].stage = to
    BY <1>5 DEF OneMoves
  <2>6. ASSUME NEW d \in Threes, cb'[d].stage \in {"bind", "put"}
        PROVE  cb'[d].person \in Threes /\ (cb'[d].person \in people' => Knows(d)')
    <3>1. CASE d # c
      BY <1>1, <2>2, <2>6, <3>1 DEF LoginInv, PeopleFollow, Knows
    <3>2. CASE d = c
      <4>1. to \in {"put", "bind"} /\ p # None /\ cb'[d].person = p
        BY <1>3, <1>5, <2>5, <2>6, <3>2
      <4>2. cb'[d].subject = cb[c].subject /\ cb'[d].stable = cb[c].stable
        BY <1>5, <3>2 DEF SameKnowledge
      <4>3. identity'[cb'[d].subject].person = cb'[d].person
        BY <1>1, <1>2, <4>1, <4>2
      <4>4. ~(cb'[d].stage = "put" /\ cb'[d].stable # None)
        BY <1>3, <2>5, <3>2, <4>1, <4>2
      <4>. QED  BY <1>4, <4>1, <4>3, <4>4 DEF Knows
    <3>. QED  BY <3>1, <3>2
  <2>7. \A d \in Threes : cb'[d].stage = "bind" => cb'[d].stable # None
    <3>1. ASSUME NEW d \in Threes, cb'[d].stage = "bind", d # c PROVE cb'[d].stable # None
      BY <2>2, <3>1 DEF LoginInv, PeopleFollow
    <3>2. cb'[c].stable = cb[c].stable
      BY <1>5 DEF SameKnowledge
    <3>3. to = "bind" => cb[c].stable # None
      BY <1>3
    <3>. QED  BY <2>5, <3>1, <3>2, <3>3
  <2>8. \A d \in Threes : cb'[d].stage \in Early => cb'[d].person = None
    BY <1>3, <1>4, <1>5, <2>2, <2>5 DEF LoginInv, PeopleFollow, Early
  <2>9. \A d \in Threes : cb'[d].person # None => cb'[cb'[d].person].stage \notin Early
    <3>1. ASSUME NEW d \in Threes, cb'[d].person # None PROVE cb[cb'[d].person].stage \notin Early /\ cb'[d].person \in Threes
      BY <1>2, <1>4, <1>5, <2>2, <2>3, <2>4, <3>1 DEF LoginInv, PeopleFollow
    <3>. QED  BY <2>1, <3>1
  <2>10. \A q \in people' : cb'[q].stage \notin Early
    BY <1>1, <1>4, <2>1 DEF LoginInv, PeopleFollow
  <2>11. \A s \in Subjects : identity'[s].person \in people' \cup {None}
    BY <1>1 DEF LoginInv, PeopleFollow
  <2>. QED  BY <2>6, <2>7, <2>8, <2>9, <2>10, <2>11 DEF PeopleFollow
<1>9. SessionsFollow'
  BY <1>1, <1>5 DEF LoginInv, SessionsFollow, SignIn!OnlyTheRecordedId, SameKnowledge
<1>. QED  BY <1>6, <1>7, <1>8, <1>9 DEF LoginInv

-----------------------------------------------------------------------------
(* Login: the transactions of a callback                                   *)

\* Whoever is there keeps the identity, and an identity its stable id.
IdentitiesKept ==
  /\ \A s \in Subjects : identity[s].person # None => identity'[s].person = identity[s].person
  /\ \A s \in Subjects : identity[s].person # None /\ identity[s].stable # None => identity'[s].stable = identity[s].stable

\* Sessions that stay are of people who stay.
LEMMA SessionsKept ==
  ASSUME LoginInv, SameKnowledge, IdentitiesKept, put \subseteq put', people \subseteq people',
         sessions' \in [Threes -> people' \cup {None}], \A d \in Threes : sessions'[d] \in {sessions[d], None}
  PROVE  SessionsFollow'
<1>1. ASSUME NEW d \in Threes, sessions'[d] # None
      PROVE  /\ d \in put' /\ sessions'[d] \in people' /\ identity'[cb'[d].subject].person = sessions'[d]
             /\ cb'[d].stable # None => identity'[cb'[d].subject].stable = cb'[d].stable
  <2>1. sessions[d] # None /\ sessions'[d] = sessions[d] /\ cb'[d].subject = cb[d].subject /\ cb'[d].stable = cb[d].stable
    BY <1>1 DEF SameKnowledge
  <2>2. d \in put /\ sessions[d] \in people /\ identity[cb[d].subject].person = sessions[d] /\ cb[d].subject \in Subjects
        /\ (cb[d].stable # None => identity[cb[d].subject].stable = cb[d].stable)
    BY <2>1 DEF LoginInv, SessionsFollow, SignIn!OnlyTheRecordedId, CallbacksFollow, Identified
  <2>. QED  BY <2>1, <2>2 DEF IdentitiesKept
<1>. QED  BY <1>1 DEF SessionsFollow, SignIn!OnlyTheRecordedId

\* Concurrent first callbacks of a subject: the identity's row decides.
LEMMA CreateIdentityKeeps ==
  ASSUME LoginInv, NEW c \in Threes, NEW answered \in BOOLEAN, SignIn!CreateIdentity(c, answered)
  PROVE  LoginInv'
<1>. DEFINE s == cb[c].subject
<1>1. /\ cb[c].stage = "create" /\ UNCHANGED <<login, grant, sessions, put>> /\ s \in Subjects
      /\ c \notin put /\ c \notin people /\ Identified(c)
  BY DEF SignIn!CreateIdentity, LoginInv, CallbacksFollow, PeopleFollow, Identified, Early
<1>2. /\ people \in SUBSET Threes /\ \A x \in Subjects : identity[x].person \in people \cup {None}
      /\ \A d \in Threes : cb[d].person \in Threes \cup {None} /\ cb[d].person # c
  <2>1. /\ people \in SUBSET Threes /\ \A x \in Subjects : identity[x].person \in people \cup {None}
        /\ \A d \in Threes : cb[d].person \in Threes \cup {None}
    BY DEF LoginInv, PeopleFollow, SignIn!TypeOK, SignIn!Callback
  <2>2. \A d \in Threes : cb[d].person # None => cb[cb[d].person].stage # "create"
    BY DEF LoginInv, PeopleFollow, Early
  <2>. QED  BY <1>1, <2>1, <2>2, SomeoneIsNobody
<1>3. PICK p \in Threes : p = (IF identity[s].person = None THEN c ELSE identity[s].person)
  BY <1>1, <1>2
<1>4. /\ people' = (IF identity[s].person = None THEN people \cup {c} ELSE people)
      /\ identity' = [identity EXCEPT ![s].person = p]
  BY <1>3 DEF SignIn!CreateIdentity, SignIn!NewPeople
<1>5. PICK to \in {"put", "bind", "rejected"} : OneMoves(c, to) /\ SameKnowledge /\ (to # "rejected" => cb'[c].person = p)
        /\ (to = "rejected" => cb'[c].person = cb[c].person) /\ (to \in {"put", "bind"} => (to = "bind" <=> cb[c].stable # None))
  <2>1. CASE answered
    <3>1. PICK to \in {"put", "bind"} : cb' = [cb EXCEPT ![c].person = p, ![c].stage = to] /\ (to = "bind" <=> cb[c].stable # None)
      BY <1>3, <2>1 DEF SignIn!CreateIdentity, SignIn!AfterPerson
    <3>2. OneMoves(c, to) /\ SameKnowledge /\ cb'[c].person = p
      BY <3>1, WithPerson, StagesAre DEF LoginInv
    <3>. QED  BY <3>1, <3>2
  <2>2. CASE ~answered
    <3>1. OneMoves(c, "rejected") /\ SameKnowledge /\ cb'[c].person = cb[c].person
      BY <2>2, Gone, StagesAre DEF LoginInv, SignIn!CreateIdentity, SignIn!Reject
    <3>. QED  BY <3>1
  <2>. QED  BY <2>1, <2>2
<1>6. /\ identity'[s].person = p /\ p \in people' /\ people \subseteq people' /\ people' \in SUBSET (people \cup {c})
      /\ \A x \in Subjects : x # s => identity'[x] = identity[x]
      /\ \A x \in Subjects : identity'[x].stable = identity[x].stable
      /\ identity' \in [Subjects -> SignIn!Identity \cup {SignIn!NoIdentity}]
  <2>1. identity \in [Subjects -> SignIn!Identity \cup {SignIn!NoIdentity}]
    BY DEF LoginInv, SignIn!TypeOK
  <2>2. PICK i \in SignIn!Identity \cup {SignIn!NoIdentity} : i = identity[s]
    BY <1>1, <2>1
  <2>3. [i EXCEPT !.person = p] \in SignIn!Identity /\ [i EXCEPT !.person = p].person = p
        /\ [i EXCEPT !.person = p].stable = i.stable
    <3>1. i \in [person : Threes \cup {None}, stable : Stables \cup {None}, locked : BOOLEAN]
      <4>1. CASE i \in SignIn!Identity
        BY <4>1 DEF SignIn!Identity
      <4>2. CASE i = SignIn!NoIdentity
        BY <4>2 DEF SignIn!NoIdentity
      <4>. QED  BY <2>2, <4>1, <4>2
    <3>. QED  BY <3>1 DEF SignIn!Identity
  <2>4. identity' = [identity EXCEPT ![s] = [i EXCEPT !.person = p]]
    BY <1>4, <2>2
  <2>5. p \in people' /\ people \subseteq people' /\ people' \in SUBSET (people \cup {c})
    BY <1>1, <1>2, <1>3, <1>4
  <2>. HIDE DEF s
  <2>. QED  BY <1>1, <2>1, <2>2, <2>3, <2>4, <2>5
<1>7. IdentitiesKept
  BY <1>1, <1>3, <1>6 DEF IdentitiesKept
<1>8. SignIn!TypeOK'
  BY <1>1, <1>2, <1>5, <1>6 DEF LoginInv, SignIn!TypeOK, OneMoves
<1>9. SignIn!NoOrphans'
  <2>1. ASSUME NEW q \in people' PROVE \E x \in Subjects : identity'[x].person = q
    <3>1. CASE q \in people
      <4>1. PICK x \in Subjects : identity[x].person = q
        BY <3>1 DEF LoginInv, SignIn!NoOrphans
      <4>. QED  BY <1>2, <1>7, <3>1, <4>1, SomeoneIsNobody DEF IdentitiesKept
    <3>2. CASE q \notin people
      BY <1>1, <1>3, <1>4, <1>6, <3>2
    <3>. QED  BY <3>1, <3>2
  <2>. QED  BY <2>1 DEF SignIn!NoOrphans
<1>10. CallbacksFollow'
  <2>1. \A d \in Threes : (Admitted(d)' => Admitted(d)) /\ (Identified(d)' => Identified(d))
    BY <1>1, <1>5 DEF Admitted, Identified, OneMoves
  <2>2. put' \in SUBSET Threes /\ \A d \in put' : cb'[d].stage \in {"signed_in", "rejected"}
    BY <1>1, <1>5 DEF LoginInv, CallbacksFollow, OneMoves, SignIn!TypeOK
  <2>. QED  BY <1>1, <1>5, <2>1, <2>2, CallbacksKept
<1>11. PeopleFollow'
  <2>. HIDE DEF s
  <2>1. \A d \in Threes : d # c => cb'[d] = cb[d]
    BY <1>5 DEF OneMoves
  <2>2. cb'[c].stage = to /\ cb'[c].person \in {p, None} /\ cb[c].person = None
    BY <1>1, <1>5 DEF OneMoves, LoginInv, PeopleFollow, Early
  <2>3. \A q \in people' : cb'[q].stage \notin Early
    BY <1>2, <1>6, <2>1, <2>2 DEF LoginInv, PeopleFollow, Early
  <2>4. \A d \in Threes : cb'[d].stage \in Early => cb'[d].person = None
    BY <2>1, <2>2 DEF LoginInv, PeopleFollow, Early
  <2>5. \A d \in Threes : cb'[d].stage = "bind" => cb'[d].stable # None
    BY <1>5, <2>1, <2>2 DEF LoginInv, PeopleFollow, SameKnowledge
  <2>6. \A d \in Threes : cb'[d].person # None => cb'[cb'[d].person].stage \notin Early
    <3>1. ASSUME NEW d \in Threes, d # c, cb'[d].person # None PROVE cb'[cb'[d].person].stage \notin Early
      BY <1>2, <2>1, <3>1 DEF LoginInv, PeopleFollow
    <3>2. cb'[c].person # None => cb'[cb'[c].person].stage \notin Early
      BY <1>6, <2>2, <2>3
    <3>. QED  BY <3>1, <3>2
  <2>7. ASSUME NEW d \in Threes, cb'[d].stage \in {"bind", "put"}
        PROVE  cb'[d].person \in Threes /\ (cb'[d].person \in people' => Knows(d)')
    <3>1. CASE d = c
      <4>1. to # "rejected" /\ cb'[c].person = p /\ cb'[c].subject = s
        BY <1>5, <2>2, <2>7, <3>1 DEF SameKnowledge, s
      <4>. QED  BY <1>5, <1>6, <2>2, <3>1, <4>1 DEF Knows, SameKnowledge
    <3>2. CASE d # c
      <4>1. cb'[d] = cb[d] /\ cb[d].person \in Threes /\ (cb[d].person \in people' => cb[d].person \in people)
        BY <1>2, <1>6, <2>1, <2>7, <3>2 DEF LoginInv, PeopleFollow
      <4>2. cb[d].person \in people => Knows(d) /\ cb[d].subject \in Subjects
        BY <2>7, <4>1 DEF LoginInv, PeopleFollow, CallbacksFollow, Identified
      <4>3. cb[d].person # None
        BY <4>1, SomeoneIsNobody
      <4>. QED  BY <1>6, <1>7, <4>1, <4>2, <4>3 DEF Knows, IdentitiesKept
    <3>. QED  BY <3>1, <3>2
  <2>8. \A x \in Subjects : identity'[x].person \in people' \cup {None}
    BY <1>2, <1>6
  <2>. QED  BY <2>3, <2>4, <2>5, <2>6, <2>7, <2>8 DEF PeopleFollow
<1>12. SessionsFollow'
  BY <1>1, <1>5, <1>6, <1>7, <1>8, SessionsKept DEF SignIn!TypeOK
<1>. QED  BY <1>8, <1>9, <1>10, <1>11, <1>12 DEF LoginInv

LEMMA IdentityIs == \A i \in SignIn!Identity \cup {SignIn!NoIdentity} :
  i \in [person : Threes \cup {None}, stable : Stables \cup {None}, locked : BOOLEAN]
<1>1. ASSUME NEW i \in SignIn!Identity PROVE i \in [person : Threes \cup {None}, stable : Stables \cup {None}, locked : BOOLEAN]
  BY DEF SignIn!Identity
<1>2. SignIn!NoIdentity \in [person : Threes \cup {None}, stable : Stables \cup {None}, locked : BOOLEAN]
  BY DEF SignIn!NoIdentity
<1>. QED  BY <1>1, <1>2

\* No person comes or goes, and no callback learns of one.
LEMMA PeopleKept ==
  ASSUME LoginInv, SameKnowledge, UNCHANGED people,
         \A s \in Subjects : identity'[s].person = identity[s].person,
         \A s \in Subjects : identity[s].stable # None => identity'[s].stable = identity[s].stable,
         \A d \in Threes : cb'[d].person = cb[d].person,
         \A d \in Threes : cb'[d].stage \in Early <=> cb[d].stage \in Early,
         \A d \in Threes : cb'[d].stage \in {"bind", "put"} =>
           /\ cb[d].stage \in {"bind", "put"} /\ (cb'[d].stage = "bind" => cb[d].stage = "bind")
           /\ (cb'[d].stage = "put" /\ cb[d].stage = "bind" => identity'[cb[d].subject].stable = cb[d].stable)
  PROVE  PeopleFollow' /\ SignIn!NoOrphans'
<1>1. \A d \in Threes : cb[d].person \in Threes \cup {None}
  BY DEF LoginInv, SignIn!TypeOK, SignIn!Callback
<1>2. people \in SUBSET Threes
  BY DEF LoginInv, SignIn!TypeOK
<1>3. ASSUME NEW d \in Threes, cb'[d].stage \in {"bind", "put"}
      PROVE  cb'[d].person \in Threes /\ (cb'[d].person \in people' => Knows(d)')
  <2>1. /\ cb[d].stage \in {"bind", "put"} /\ cb[d].person \in Threes /\ cb[d].subject \in Subjects
        /\ cb[d].person \in people => Knows(d)
    BY <1>3 DEF LoginInv, PeopleFollow, CallbacksFollow, Identified
  <2>2. cb'[d].subject = cb[d].subject /\ cb'[d].stable = cb[d].stable /\ cb'[d].person = cb[d].person
    BY DEF SameKnowledge
  <2>3. CASE cb[d].stage = "put"
    BY <1>3, <2>1, <2>2, <2>3 DEF Knows
  <2>4. CASE cb[d].stage = "bind"
    BY <1>3, <2>1, <2>2, <2>4 DEF Knows
  <2>. QED  BY <2>1, <2>2, <2>3, <2>4
<1>4. \A d \in Threes : cb'[d].stage = "bind" => cb'[d].stable # None
  BY DEF LoginInv, PeopleFollow, SameKnowledge
<1>5. SignIn!NoOrphans'
  BY DEF LoginInv, SignIn!NoOrphans
<1>. QED  BY <1>1, <1>2, <1>3, <1>4, <1>5 DEF LoginInv, PeopleFollow

\* The first stable id that is bound stays; another one is refused.
LEMMA BindStableIdKeeps ==
  ASSUME LoginInv, NEW c \in Threes, NEW answered \in BOOLEAN, SignIn!BindStableId(c, answered)
  PROVE  LoginInv'
<1>1. /\ cb[c].stage = "bind" /\ UNCHANGED <<login, grant, people, put>>
      /\ Identified(c) /\ cb[c].subject \in Subjects /\ cb[c].stable # None /\ cb[c].stable \in Stables \cup {None} /\ c \notin put
  BY DEF SignIn!BindStableId, LoginInv, CallbacksFollow, PeopleFollow, Identified, SignIn!TypeOK, SignIn!Callback
<1>2. PICK s \in Subjects : s = cb[c].subject
  BY <1>1
<1>3. PICK i \in SignIn!Identity : i = identity[s] /\ i.person # None
  <2>1. identity[s] \in SignIn!Identity \cup {SignIn!NoIdentity} /\ identity[s].person # None
    BY <1>2 DEF SignIn!BindStableId, LoginInv, SignIn!TypeOK
  <2>. QED  BY <2>1, SomeoneIsNobody
<1>4. PICK j \in SignIn!Identity : /\ identity' = [identity EXCEPT ![s] = j] /\ j.person = i.person
                                   /\ j.stable = (IF i.stable = None THEN cb[c].stable ELSE i.stable)
  <2>1. PICK bl \in BOOLEAN : bl = (i.locked \/ SignIn!Binding(c) = "mismatch")
    OBVIOUS
  <2>2. SignIn!BoundRow(c) = [i EXCEPT !.stable = IF i.stable = None THEN cb[c].stable ELSE i.stable, !.locked = bl]
    BY <1>2, <1>3, <2>1 DEF SignIn!BoundRow
  <2>3. PICK st \in Stables \cup {None} : st = (IF i.stable = None THEN cb[c].stable ELSE i.stable)
    BY <1>1 DEF SignIn!Identity
  <2>4. SignIn!BoundRow(c) = [i EXCEPT !.stable = st, !.locked = bl]
    BY <2>2, <2>3
  <2>5. [i EXCEPT !.stable = st, !.locked = bl] \in SignIn!Identity
        /\ [i EXCEPT !.stable = st, !.locked = bl].person = i.person /\ [i EXCEPT !.stable = st, !.locked = bl].stable = st
    BY DEF SignIn!Identity
  <2>6. identity' = [identity EXCEPT ![s] = SignIn!BoundRow(c)]
    BY <1>2 DEF SignIn!BindStableId
  <2>. QED  BY <2>3, <2>4, <2>5, <2>6
<1>5. PICK to \in {"put", "rejected"} : /\ OneMoves(c, to) /\ SameKnowledge /\ \A d \in Threes : cb'[d].person = cb[d].person
                                        /\ to = "put" => ~SignIn!Refused(c)
  <2>1. PICK to \in {"put", "rejected"} : SignIn!Goto(c, to) /\ (to = "put" => ~SignIn!Refused(c))
    BY DEF SignIn!BindStableId, SignIn!Reject
  <2>. QED  BY <2>1, Gone, StagesAre DEF LoginInv
<1>6. to = "put" => j.stable = cb[c].stable
  BY <1>1, <1>2, <1>3, <1>4, <1>5 DEF SignIn!Refused, SignIn!Binding
<1>7. /\ \A x \in Subjects : identity'[x].person = identity[x].person
      /\ \A x \in Subjects : identity[x].stable # None => identity'[x].stable = identity[x].stable
      /\ identity'[s] = j /\ identity' \in [Subjects -> SignIn!Identity \cup {SignIn!NoIdentity}]
  <2>1. identity \in [Subjects -> SignIn!Identity \cup {SignIn!NoIdentity}]
    BY DEF LoginInv, SignIn!TypeOK
  <2>. QED  BY <1>3, <1>4, <2>1
<1>8. sessions' \in [Threes -> people' \cup {None}] /\ \A d \in Threes : sessions'[d] \in {sessions[d], None}
  <2>1. sessions' = sessions \/ sessions' = SignIn!Revoked(c, identity[s].person)
    BY <1>2 DEF SignIn!BindStableId
  <2>. QED  BY <1>1, <2>1 DEF LoginInv, SignIn!TypeOK, SignIn!Revoked
<1>9. SignIn!TypeOK'
  BY <1>1, <1>5, <1>7, <1>8 DEF LoginInv, SignIn!TypeOK, OneMoves
<1>10. CallbacksFollow'
  <2>1. \A d \in Threes : (Admitted(d)' => Admitted(d)) /\ (Identified(d)' => Identified(d))
    BY <1>1, <1>5 DEF Admitted, Identified, OneMoves
  <2>2. put' \in SUBSET Threes /\ \A d \in put' : cb'[d].stage \in {"signed_in", "rejected"}
    BY <1>1, <1>5 DEF LoginInv, CallbacksFollow, OneMoves, SignIn!TypeOK
  <2>. QED  BY <1>1, <1>5, <2>1, <2>2, CallbacksKept
<1>11. PeopleFollow' /\ SignIn!NoOrphans'
  <2>1. \A d \in Threes : d # c => cb'[d].stage = cb[d].stage
    BY <1>5 DEF OneMoves
  <2>2. cb'[c].stage = to
    BY <1>5 DEF OneMoves
  <2>3. \A d \in Threes : cb'[d].stage \in Early <=> cb[d].stage \in Early
    BY <1>1, <2>1, <2>2 DEF Early
  <2>4. \A d \in Threes : cb'[d].stage \in {"bind", "put"} =>
          /\ cb[d].stage \in {"bind", "put"} /\ (cb'[d].stage = "bind" => cb[d].stage = "bind")
          /\ (cb'[d].stage = "put" /\ cb[d].stage = "bind" => identity'[cb[d].subject].stable = cb[d].stable)
    BY <1>1, <1>2, <1>6, <1>7, <2>1, <2>2
  <2>. QED  BY <1>1, <1>5, <1>7, <2>3, <2>4, PeopleKept
<1>12. SessionsFollow'
  BY <1>1, <1>5, <1>7, <1>8, SessionsKept DEF IdentitiesKept
<1>. QED  BY <1>9, <1>10, <1>11, <1>12 DEF LoginInv

\* A session is stored only of a person who is there.
LEMMA PutSessionKeeps ==
  ASSUME LoginInv, NEW c \in Threes, NEW answered \in BOOLEAN, SignIn!PutSession(c, answered)
  PROVE  LoginInv'
<1>1. /\ cb[c].stage = "put" /\ cb[c].person \in people /\ UNCHANGED <<login, grant, people, identity>>
      /\ sessions' = [sessions EXCEPT ![c] = cb[c].person] /\ put' = put \cup {c}
      /\ Knows(c) /\ Identified(c) /\ Admitted(c)
  BY DEF SignIn!PutSession, SignIn!ReferenceHolds, LoginInv, PeopleFollow, Identified, Admitted
<1>2. PICK to \in {"signed_in", "rejected"} : OneMoves(c, to) /\ SameKnowledge /\ \A d \in Threes : cb'[d].person = cb[d].person
  <2>1. PICK to \in {"signed_in", "rejected"} : SignIn!Goto(c, to)
    BY DEF SignIn!PutSession, SignIn!Reject
  <2>. QED  BY <2>1, Gone, StagesAre DEF LoginInv
<1>3. sessions' \in [Threes -> people' \cup {None}] /\ sessions'[c] = cb[c].person /\ \A d \in Threes : d # c => sessions'[d] = sessions[d]
  BY <1>1 DEF LoginInv, SignIn!TypeOK
<1>4. SignIn!TypeOK'
  BY <1>1, <1>2, <1>3 DEF LoginInv, SignIn!TypeOK, OneMoves
<1>5. CallbacksFollow'
  <2>1. \A d \in Threes : (Admitted(d)' => Admitted(d)) /\ (Identified(d)' => Identified(d))
    BY <1>1, <1>2 DEF Admitted, Identified, OneMoves
  <2>2. put' \in SUBSET Threes /\ \A d \in put' : cb'[d].stage \in {"signed_in", "rejected"}
    BY <1>1, <1>2 DEF LoginInv, CallbacksFollow, OneMoves, SignIn!TypeOK
  <2>. QED  BY <1>1, <1>2, <2>1, <2>2, CallbacksKept
<1>6. PeopleFollow' /\ SignIn!NoOrphans'
  <2>1. \A d \in Threes : d # c => cb'[d].stage = cb[d].stage
    BY <1>2 DEF OneMoves
  <2>2. cb'[c].stage = to
    BY <1>2 DEF OneMoves
  <2>3. \A d \in Threes : cb'[d].stage \in Early <=> cb[d].stage \in Early
    BY <1>1, <2>1, <2>2 DEF Early
  <2>4. \A d \in Threes : cb'[d].stage \in {"bind", "put"} => cb[d].stage = cb'[d].stage
    BY <1>1, <2>1, <2>2
  <2>. QED  BY <1>1, <1>2, <2>3, <2>4, PeopleKept
<1>7. SessionsFollow'
  <2>1. ASSUME NEW d \in Threes, d # c, sessions'[d] # None
        PROVE  /\ d \in put' /\ sessions'[d] \in people' /\ identity'[cb'[d].subject].person = sessions'[d]
               /\ cb'[d].stable # None => identity'[cb'[d].subject].stable = cb'[d].stable
    BY <1>1, <1>2, <1>3, <2>1 DEF LoginInv, SessionsFollow, SignIn!OnlyTheRecordedId, SameKnowledge
  <2>2. /\ c \in put' /\ sessions'[c] \in people' /\ identity'[cb'[c].subject].person = sessions'[c]
        /\ cb'[c].stable # None => identity'[cb'[c].subject].stable = cb'[c].stable
    BY <1>1, <1>2, <1>3 DEF Knows, SameKnowledge
  <2>. QED  BY <2>1, <2>2 DEF SessionsFollow, SignIn!OnlyTheRecordedId
<1>. QED  BY <1>4, <1>5, <1>6, <1>7 DEF LoginInv

-----------------------------------------------------------------------------
(* Login: logout, staff and removal                                        *)

LEMMA SameCallbacks == ASSUME UNCHANGED cb PROVE SameKnowledge
  BY DEF SameKnowledge

LEMMA EndSessionKeeps ==
  ASSUME LoginInv, NEW c \in Threes, SignIn!EndSession(c)
  PROVE  LoginInv'
<1>1. sessions' = [sessions EXCEPT ![c] = None] /\ UNCHANGED <<login, grant, people, identity, cb, put>>
  BY DEF SignIn!EndSession
<1>2. SignIn!TypeOK' /\ \A d \in Threes : sessions'[d] \in {sessions[d], None}
  BY <1>1 DEF LoginInv, SignIn!TypeOK
<1>3. CallbacksFollow' /\ PeopleFollow' /\ SignIn!NoOrphans'
  BY <1>1 DEF LoginInv, CallbacksFollow, PeopleFollow, SignIn!NoOrphans, Admitted, Identified, Knows
<1>4. SessionsFollow'
  BY <1>1, <1>2, SameCallbacks, SessionsKept DEF IdentitiesKept, SignIn!TypeOK
<1>. QED  BY <1>2, <1>3, <1>4 DEF LoginInv

LEMMA UnlockIdentityKeeps ==
  ASSUME LoginInv, NEW s \in Subjects, SignIn!UnlockIdentity(s)
  PROVE  LoginInv'
<1>1. identity' = [identity EXCEPT ![s].locked = FALSE] /\ UNCHANGED <<login, grant, people, sessions, cb, put>>
      /\ identity[s].locked
  BY DEF SignIn!UnlockIdentity
<1>2. PICK i \in SignIn!Identity : i = identity[s]
  <2>1. identity[s] \in SignIn!Identity \cup {SignIn!NoIdentity}
    BY DEF LoginInv, SignIn!TypeOK
  <2>. QED  BY <1>1, <2>1, SomeoneIsNobody
<1>3. /\ [i EXCEPT !.locked = FALSE] \in SignIn!Identity
      /\ [i EXCEPT !.locked = FALSE].person = i.person /\ [i EXCEPT !.locked = FALSE].stable = i.stable
  BY DEF SignIn!Identity
<1>4. identity' = [identity EXCEPT ![s] = [i EXCEPT !.locked = FALSE]]
  BY <1>1, <1>2
<1>5. /\ \A x \in Subjects : identity'[x].person = identity[x].person /\ identity'[x].stable = identity[x].stable
      /\ identity' \in [Subjects -> SignIn!Identity \cup {SignIn!NoIdentity}]
  <2>1. identity \in [Subjects -> SignIn!Identity \cup {SignIn!NoIdentity}]
    BY DEF LoginInv, SignIn!TypeOK
  <2>. QED  BY <1>2, <1>3, <1>4, <2>1
<1>6. SignIn!TypeOK' /\ \A d \in Threes : sessions'[d] \in {sessions[d], None}
  BY <1>1, <1>5 DEF LoginInv, SignIn!TypeOK
<1>7. CallbacksFollow'
  BY <1>1 DEF LoginInv, CallbacksFollow, Admitted, Identified
<1>8. PeopleFollow' /\ SignIn!NoOrphans'
  BY <1>1, <1>5, SameCallbacks, PeopleKept
<1>9. SessionsFollow'
  BY <1>1, <1>5, <1>6, SameCallbacks, SessionsKept DEF IdentitiesKept, SignIn!TypeOK
<1>. QED  BY <1>6, <1>7, <1>8, <1>9 DEF LoginInv

\* A person who is removed leaves no identity and no session behind.
LEMMA RemovePrincipalKeeps ==
  ASSUME LoginInv, NEW p \in people, SignIn!RemovePrincipal(p)
  PROVE  LoginInv'
<1>1. /\ people' = people \ {p} /\ UNCHANGED <<login, grant, cb, put>>
      /\ identity' = [s \in Subjects |-> IF identity[s].person = p THEN SignIn!NoIdentity ELSE identity[s]]
      /\ sessions' = [d \in Threes |-> IF sessions[d] = p THEN None ELSE sessions[d]]
  BY DEF SignIn!RemovePrincipal
<1>2. \A s \in Subjects : identity[s].person # p => identity'[s] = identity[s]
  BY <1>1
<1>3. SignIn!TypeOK'
  BY <1>1 DEF LoginInv, SignIn!TypeOK
<1>4. SignIn!NoOrphans'
  BY <1>1, <1>2 DEF LoginInv, SignIn!NoOrphans
<1>5. CallbacksFollow'
  BY <1>1 DEF LoginInv, CallbacksFollow, Admitted, Identified
<1>6. PeopleFollow'
  <2>1. \A s \in Subjects : identity'[s].person \in people' \cup {None}
    BY <1>1, SomeoneIsNobody DEF LoginInv, PeopleFollow
  <2>2. ASSUME NEW d \in Threes, cb'[d].stage \in {"bind", "put"}
        PROVE  cb'[d].person \in Threes /\ (cb'[d].person \in people' => Knows(d)')
    <3>1. cb[d].person \in Threes /\ (cb[d].person \in people => Knows(d)) /\ cb[d].subject \in Subjects
      BY <1>1, <2>2 DEF LoginInv, PeopleFollow, CallbacksFollow, Identified
    <3>. QED  BY <1>1, <1>2, <3>1 DEF Knows
  <2>. QED  BY <1>1, <2>1, <2>2 DEF LoginInv, PeopleFollow
<1>7. SessionsFollow'
  <2>1. ASSUME NEW d \in Threes, sessions'[d] # None
        PROVE  /\ d \in put' /\ sessions'[d] \in people' /\ identity'[cb'[d].subject].person = sessions'[d]
               /\ cb'[d].stable # None => identity'[cb'[d].subject].stable = cb'[d].stable
    <3>1. sessions[d] # p /\ sessions[d] # None /\ sessions'[d] = sessions[d]
      BY <1>1, <2>1
    <3>2. d \in put /\ sessions[d] \in people /\ identity[cb[d].subject].person = sessions[d] /\ cb[d].subject \in Subjects
          /\ (cb[d].stable # None => identity[cb[d].subject].stable = cb[d].stable)
      BY <3>1 DEF LoginInv, SessionsFollow, SignIn!OnlyTheRecordedId, CallbacksFollow, Identified
    <3>. QED  BY <1>1, <1>2, <3>1, <3>2
  <2>. QED  BY <2>1 DEF SessionsFollow, SignIn!OnlyTheRecordedId
<1>. QED  BY <1>3, <1>4, <1>5, <1>6, <1>7 DEF LoginInv

-----------------------------------------------------------------------------
(* Login: the theorems                                                     *)

LEMMA LoginStart == SignIn!Init => LoginInv
<1>. SUFFICES ASSUME SignIn!Init PROVE LoginInv
  OBVIOUS
<1>1. /\ login = [l \in Pairs |-> [browser |-> None, row |-> "none"]] /\ grant = [l \in Pairs |-> SignIn!NoGrant]
      /\ people = {} /\ identity = [s \in Subjects |-> SignIn!NoIdentity] /\ sessions = [c \in Threes |-> None]
      /\ cb = [c \in Threes |-> SignIn!NewCallback] /\ put = {}
  BY DEF SignIn!Init
<1>2. SignIn!TypeOK
  BY <1>1, SomeoneIsNobody DEF SignIn!TypeOK, SignIn!LoginState
<1>3. \A c \in Threes : cb[c].stage = "idle" /\ cb[c].person = None
  BY <1>1, SomeoneIsNobody
<1>4. CallbacksFollow
  BY <1>1, <1>3 DEF CallbacksFollow, Admitted, Identified
<1>5. PeopleFollow
  BY <1>1, <1>3, SomeoneIsNobody DEF PeopleFollow
<1>6. SignIn!NoOrphans /\ SessionsFollow
  BY <1>1 DEF SignIn!NoOrphans, SessionsFollow, SignIn!OnlyTheRecordedId
<1>. QED  BY <1>2, <1>4, <1>5, <1>6 DEF LoginInv

LEMMA LoginGoesOn == LoginInv /\ [SignIn!Next]_signin => LoginInv'
<1>. SUFFICES ASSUME LoginInv, [SignIn!Next]_signin PROVE LoginInv'
  OBVIOUS
<1>1. CASE UNCHANGED signin
  <2>1. UNCHANGED <<login, grant, people, identity, sessions, cb, put>>
    BY <1>1 DEF signin
  <2>2. SignIn!TypeOK' /\ CallbacksFollow'
    BY <2>1 DEF LoginInv, SignIn!TypeOK, CallbacksFollow, Admitted, Identified
  <2>. QED  BY <2>1, <2>2, PeopleSame DEF LoginInv
<1>2. CASE SignIn!Browse
  BY <1>2, StartKeeps, ReturnKeeps DEF SignIn!Browse
<1>3. ASSUME NEW c \in Threes, SignIn!Serve(c) PROVE LoginInv'
  <2>1. CASE SignIn!Exchange(c) \/ SignIn!FindIdentity(c)
    BY <2>1, ExchangeKeeps, FindIdentityKeeps
  <2>2. CASE SignIn!Fails(c)
    BY <2>2, RejectedKeeps DEF SignIn!Fails, SignIn!Active
  <2>3. ASSUME NEW answered \in BOOLEAN, SignIn!CreateIdentity(c, answered) PROVE LoginInv'
    BY <2>3, CreateIdentityKeeps
  <2>4. ASSUME NEW answered \in BOOLEAN, SignIn!BindStableId(c, answered) PROVE LoginInv'
    BY <2>4, BindStableIdKeeps
  <2>5. ASSUME NEW answered \in BOOLEAN, SignIn!PutSession(c, answered) PROVE LoginInv'
    BY <2>5, PutSessionKeeps
  <2>. QED  BY <1>3, <2>1, <2>2, <2>3, <2>4, <2>5 DEF SignIn!Serve
<1>4. CASE SignIn!Environment
  BY <1>4, AuthenticateKeeps, StateExpiresKeeps, EndSessionKeeps, UnlockIdentityKeeps, RemovePrincipalKeeps DEF SignIn!Environment
<1>. QED  BY <1>1, <1>2, <1>3, <1>4 DEF SignIn!Next

THEOREM LoginInvariance == AllSpec => []LoginInv
<1>1. AllInit => LoginInv
  BY LoginStart DEF AllInit
<1>2. LoginInv /\ [AllNext]_<<part, signin, search, editor, vars>> => LoginInv'
  BY LoginGoesOn DEF AllNext
<1>. QED  BY <1>1, <1>2, PTL DEF AllSpec

\* login-application.ts, postgres-login-store.ts: a login gives one session at
\* most, in the browser that started it, to the person whom the provider signed
\* in for it.
THEOREM SessionsAreEarnedHolds == AllSpec => []SessionsAreEarned
<1>1. ASSUME LoginInv PROVE SignIn!SessionsAreEarned
  <2>1. put \in SUBSET Threes
    BY <1>1 DEF LoginInv, SignIn!TypeOK
  <2>2. \A c \in put : Admitted(c) /\ Identified(c)
    BY DEF Admitted, Identified
  <2>3. \A c, d \in put : cb[c].login = cb[d].login => c = d
    BY <1>1, <2>1, <2>2 DEF LoginInv, CallbacksFollow
  <2>4. ASSUME NEW c \in Threes, sessions[c] # None
        PROVE  /\ login[cb[c].login].browser = cb[c].browser /\ grant[cb[c].login].subject = cb[c].subject
               /\ identity[cb[c].subject].person = sessions[c]
    <3>1. c \in put /\ identity[cb[c].subject].person = sessions[c]
      BY <1>1, <2>4 DEF LoginInv, SessionsFollow
    <3>2. Admitted(c) /\ Identified(c)
      BY <2>2, <3>1
    <3>3. login[cb[c].login].browser = cb[c].browser
      BY <1>1, <3>2 DEF LoginInv, CallbacksFollow
    <3>4. cb[c].code = cb[c].login
          /\ grant[cb[c].code] = [subject |-> cb[c].subject, stable |-> cb[c].stable]
      BY <1>1, <3>2 DEF LoginInv, CallbacksFollow
    <3>5. grant[cb[c].login].subject = cb[c].subject
      BY <3>4
    <3>. QED  BY <3>1, <3>3, <3>5
  <2>. QED  BY <2>3, <2>4 DEF SignIn!SessionsAreEarned
<1>2. LoginInv => SessionsAreEarned
  BY <1>1 DEF SessionsAreEarned
<1>. QED  BY <1>2, LoginInvariance, PTL

\* createIdentity: concurrent first callbacks of an address register one person.
THEOREM NoOrphansHolds == AllSpec => []NoOrphans
<1>1. LoginInv => NoOrphans
  BY DEF LoginInv, NoOrphans
<1>. QED  BY <1>1, LoginInvariance, PTL

\* bindStableId: of the tokens with a stable id only those with the recorded one
\* have a session.
THEOREM OnlyTheRecordedIdHolds == AllSpec => []OnlyTheRecordedId
<1>1. LoginInv => OnlyTheRecordedId
  BY DEF LoginInv, SessionsFollow, OnlyTheRecordedId
<1>. QED  BY <1>1, LoginInvariance, PTL

-----------------------------------------------------------------------------
(* Publications: the inductive invariant                                   *)

\* A content whose switch or deletion was not in doubt and that one publisher
\* at a time published: what the alias names and what is about to be switched
\* to is complete, and nobody who would delete it is at work.
Certain == Subjects \ shaken
PublishersFollow ==
  /\ \A p \in Threes : Search!Active(p) => Search!Of(p) \in Subjects
  /\ \A r \in stray : pub[r[2]].pc # "idle" /\ Search!Of(r[2]) \in Subjects
  /\ \A p \in Threes : pub[p].pc = "clean" => pub[p].created
  /\ \A p \in Threes : pub[p].pc = "idle" => ~pub[p].created
AloneAtWork ==
  /\ \A p, q \in Threes : Search!Active(p) /\ Search!Active(q) /\ Search!Of(p) = Search!Of(q)
                          /\ Search!Of(p) \in Certain => p = q
  /\ \A r \in stray : Search!Of(r[2]) \in Certain => r[1] \in {"create", "import"}
CompleteWhenNamed ==
  /\ \A p \in Threes : pub[p].pc = "switch" /\ Search!Of(p) \in Certain => coll[Search!Of(p)] = "complete"
  /\ alias \in Certain => /\ coll[alias] = "complete"
                          /\ \A p \in Threes : Search!Active(p) /\ Search!Of(p) = alias => ~pub[p].created
SearchInv == Search!TypeOK /\ PublishersFollow /\ AloneAtWork /\ CompleteWhenNamed

-----------------------------------------------------------------------------
(* Publications: what a step leaves of it                                  *)

\* The publisher p, at work, goes on; the content it publishes stays the same.
GoesOn(p) ==
  /\ Search!Active(p)
  /\ \A q \in Threes \ {p} : pub'[q] = pub[q]
  /\ pub'[p].digest = pub[p].digest
  /\ pub'[p].pc # "idle" /\ (pub'[p].pc = "clean" => pub'[p].created)

\* A publisher's move is a change of its stage.
LEMMA GotoGoesOn ==
  ASSUME Search!TypeOK, NEW p \in Threes, Search!Active(p),
         NEW s \in Search!Stages \cup {"done", "failed", "dead"}, Search!Goto(p, s),
         s = "clean" => pub[p].created
  PROVE  /\ GoesOn(p) /\ pub'[p].pc = s /\ pub'[p].created = pub[p].created
         /\ pub' \in [Threes -> [pc : Search!Stages \cup {"idle", "done", "failed", "dead"},
                                 digest : Subjects \cup {None}, created : BOOLEAN]]
<1>1. pub' = [pub EXCEPT ![p].pc = s]
  BY DEF Search!Goto
<1>2. pub \in [Threes -> [pc : Search!Stages \cup {"idle", "done", "failed", "dead"},
                          digest : Subjects \cup {None}, created : BOOLEAN]]
  BY DEF Search!TypeOK
<1>3. pub'[p] = [pc |-> s, digest |-> pub[p].digest, created |-> pub[p].created]
  BY <1>1, <1>2
<1>4. \A q \in Threes \ {p} : pub'[q] = pub[q]
  BY <1>1, <1>2
<1>5. s # "idle"
  BY DEF Search!Stages
<1>6. GoesOn(p)
  BY <1>3, <1>4, <1>5 DEF GoesOn
<1>. QED  BY <1>1, <1>2, <1>3, <1>6

\* A request that is given up is a creation or an import, or its content is no
\* longer certain.
LEMMA PublishersGoOn ==
  ASSUME SearchInv, NEW p \in Threes, GoesOn(p),
         stray' \subseteq stray \cup {<<pub[p].pc, p>>}, shaken \subseteq shaken',
         <<pub[p].pc, p>> \in stray' \ stray => pub[p].pc \in {"create", "import"} \/ Search!Of(p) \in shaken'
  PROVE  PublishersFollow' /\ AloneAtWork'
<1>1. \A q \in Threes : pub'[q].digest = pub[q].digest /\ Search!Of(q)' = Search!Of(q)
  BY DEF GoesOn, Search!Of
<1>2. \A q \in Threes : Search!Active(q)' => Search!Active(q)
  BY DEF GoesOn, Search!Active
<1>3. pub[p].pc # "idle" /\ Search!Of(p) \in Subjects
  BY DEF SearchInv, PublishersFollow, GoesOn, Search!Active, Search!Stages
<1>4. \A r \in stray : r \in Search!Requests
  BY DEF SearchInv, Search!TypeOK
<1>5. \A r \in stray : r[2] \in Threes
  BY <1>4 DEF Search!Requests
<1>6. ASSUME NEW r \in stray' PROVE r = <<pub[p].pc, p>> \/ r \in stray
  OBVIOUS
<1>7. PublishersFollow'
  <2>1. \A q \in Threes : Search!Active(q)' => Search!Of(q)' \in Subjects
    BY <1>1, <1>2 DEF SearchInv, PublishersFollow
  <2>2. ASSUME NEW r \in stray' PROVE pub'[r[2]].pc # "idle" /\ Search!Of(r[2])' \in Subjects
    <3>1. r[2] \in Threes
      BY <1>5, <1>6
    <3>2. pub[r[2]].pc # "idle" /\ Search!Of(r[2]) \in Subjects
      BY <1>3, <1>6 DEF SearchInv, PublishersFollow
    <3>. QED  BY <1>1, <3>1, <3>2 DEF GoesOn
  <2>3. \A q \in Threes : pub'[q].pc = "clean" => pub'[q].created
    BY DEF SearchInv, PublishersFollow, GoesOn
  <2>4. \A q \in Threes : pub'[q].pc = "idle" => ~pub'[q].created
    BY DEF SearchInv, PublishersFollow, GoesOn
  <2>. QED  BY <2>1, <2>2, <2>3, <2>4 DEF PublishersFollow
<1>8. AloneAtWork'
  <2>1. Certain' \subseteq Certain
    BY DEF Certain
  <2>2. ASSUME NEW r \in stray', Search!Of(r[2])' \in Certain' PROVE r[1] \in {"create", "import"}
    <3>1. r[2] \in Threes
      BY <1>5, <1>6
    <3>2. Search!Of(r[2]) \in Certain' /\ Search!Of(r[2]) \in Certain
      BY <1>1, <2>1, <2>2, <3>1
    <3>3. CASE r \in stray
      BY <3>2, <3>3 DEF SearchInv, AloneAtWork
    <3>4. CASE r \notin stray
      BY <1>6, <3>2, <3>4 DEF Certain
    <3>. QED  BY <3>3, <3>4
  <2>3. \A q, s \in Threes : Search!Active(q)' /\ Search!Active(s)' /\ Search!Of(q)' = Search!Of(s)'
                             /\ Search!Of(q)' \in Certain' => q = s
    BY <1>1, <1>2, <2>1 DEF SearchInv, AloneAtWork
  <2>. QED  BY <2>2, <2>3 DEF AloneAtWork
<1>. QED  BY <1>7, <1>8

\* No request but a deletion takes what is complete away.
LEMMA CompleteStays ==
  ASSUME Search!TypeOK, NEW kind \in {"create", "import", "switch", "clean"}, NEW p \in Threes,
         Search!Of(p) \in Subjects, Search!Obeys(kind, p)
  PROVE  /\ coll' \in [Subjects -> {"absent", "partial", "complete"}] /\ alias' \in Subjects \cup {None}
         /\ \A d \in Subjects : coll[d] = "complete" /\ (kind = "clean" => d # Search!Of(p)) => coll'[d] = "complete"
         /\ kind = "import" /\ coll[Search!Of(p)] # "absent" => coll'[Search!Of(p)] = "complete"
         /\ alias' = IF kind = "switch" THEN Search!Of(p) ELSE alias
<1> DEFINE d == Search!Of(p)
<1>1. coll \in [Subjects -> {"absent", "partial", "complete"}] /\ alias \in Subjects \cup {None} /\ d \in Subjects
  BY DEF Search!TypeOK
<1>2. alias' = IF kind = "switch" THEN d ELSE alias
  BY DEF Search!Obeys
<1>3. coll' = CASE kind = "create" /\ coll[d] = "absent" -> [coll EXCEPT ![d] = "partial"]
                [] kind = "import" /\ coll[d] # "absent" -> [coll EXCEPT ![d] = "complete"]
                [] kind = "clean" -> [coll EXCEPT ![d] = "absent"]
                [] OTHER -> coll
  BY DEF Search!Obeys
<1> HIDE DEF d
<1>4. CASE kind = "create" /\ coll[d] = "absent"
  <2>1. coll' = [coll EXCEPT ![d] = "partial"]
    BY <1>3, <1>4
  <2>. QED  BY <1>1, <1>2, <1>4, <2>1 DEF d
<1>5. CASE kind = "import" /\ coll[d] # "absent"
  <2>1. coll' = [coll EXCEPT ![d] = "complete"]
    BY <1>3, <1>5
  <2>. QED  BY <1>1, <1>2, <1>5, <2>1 DEF d
<1>6. CASE kind = "clean"
  <2>1. coll' = [coll EXCEPT ![d] = "absent"]
    BY <1>3, <1>6
  <2>. QED  BY <1>1, <1>2, <1>6, <2>1 DEF d
<1>7. CASE ~(kind = "create" /\ coll[d] = "absent") /\ ~(kind = "import" /\ coll[d] # "absent") /\ kind # "clean"
  <2>1. coll' = coll
    BY <1>3, <1>7
  <2>. QED  BY <1>1, <1>2, <1>7, <2>1 DEF d
<1>. QED  BY <1>4, <1>5, <1>6, <1>7

\* The server does what p asks, or nothing; p goes on.
LEMMA NamedIsComplete ==
  ASSUME SearchInv, NEW p \in Threes, GoesOn(p), shaken \subseteq shaken',
         \/ Search!Ignores
         \/ pub[p].pc \in {"create", "import", "switch", "clean"} /\ Search!Obeys(pub[p].pc, p)
            /\ (pub[p].pc = "switch" => Search!Of(p) \in shaken' \/ ~Search!Active(p)'),
         pub'[p].created => pub[p].created \/ coll[Search!Of(p)] = "absent",
         pub'[p].pc = "switch" => pub[p].pc = "verify" /\ coll[Search!Of(p)] = "complete"
  PROVE  /\ CompleteWhenNamed'
         /\ coll' \in [Subjects -> {"absent", "partial", "complete"}] /\ alias' \in Subjects \cup {None}
<1>1. Search!Of(p) \in Subjects /\ Search!TypeOK
  BY DEF SearchInv, PublishersFollow, GoesOn
<1>2. Certain' \subseteq Certain /\ \A d \in Certain' : d \in Subjects /\ d \notin shaken'
  BY DEF Certain
<1>3. \A q \in Threes : Search!Of(q)' = Search!Of(q) /\ (Search!Active(q)' => Search!Active(q))
  BY DEF GoesOn, Search!Of, Search!Active
<1>4. /\ coll' \in [Subjects -> {"absent", "partial", "complete"}] /\ alias' \in Subjects \cup {None}
      /\ \A d \in Subjects : coll[d] = "complete" /\ (pub[p].pc = "clean" => d # Search!Of(p)) => coll'[d] = "complete"
      /\ \/ alias' = alias
         \/ pub[p].pc = "switch" /\ alias' = Search!Of(p) /\ (Search!Of(p) \in shaken' \/ ~Search!Active(p)')
  <2>1. CASE pub[p].pc \in {"create", "import", "switch", "clean"} /\ Search!Obeys(pub[p].pc, p)
             /\ (pub[p].pc = "switch" => Search!Of(p) \in shaken' \/ ~Search!Active(p)')
    BY <1>1, <2>1, CompleteStays
  <2>2. CASE Search!Ignores
    BY <1>1, <2>2 DEF Search!Ignores, Search!TypeOK
  <2>. QED  BY <2>1, <2>2
<1>5. \A q \in Threes : Search!Active(q) /\ Search!Of(q) = Search!Of(p) /\ Search!Of(p) \in Certain => q = p
  BY DEF SearchInv, AloneAtWork, GoesOn
<1>6. ASSUME NEW q \in Threes, pub'[q].pc = "switch", Search!Of(q)' \in Certain' PROVE coll'[Search!Of(q)'] = "complete"
  <2>1. CASE q = p
    BY <1>1, <1>3, <1>4, <1>6, <2>1
  <2>2. CASE q # p
    <3>1. pub[q].pc = "switch" /\ Search!Active(q)
      BY <1>6, <2>2 DEF GoesOn, Search!Active, Search!Stages
    <3>2. Search!Of(q) \in Certain /\ Search!Of(q) \in Subjects /\ coll[Search!Of(q)] = "complete"
      BY <1>2, <1>3, <1>6, <3>1 DEF SearchInv, CompleteWhenNamed
    <3>3. Search!Of(q) # Search!Of(p)
      BY <1>5, <2>2, <3>1, <3>2
    <3>. QED  BY <1>3, <1>4, <3>2, <3>3
  <2>. QED  BY <2>1, <2>2
<1>7. ASSUME alias' \in Certain'
      PROVE  /\ coll'[alias'] = "complete"
             /\ \A q \in Threes : Search!Active(q)' /\ Search!Of(q)' = alias' => ~pub'[q].created
  <2>1. CASE alias' = alias
    <3>1. /\ alias \in Certain /\ alias \in Subjects /\ coll[alias] = "complete"
          /\ \A q \in Threes : Search!Active(q) /\ Search!Of(q) = alias => ~pub[q].created
      BY <1>2, <1>7, <2>1 DEF SearchInv, CompleteWhenNamed
    <3>2. pub[p].pc = "clean" => alias # Search!Of(p)
      BY <3>1 DEF SearchInv, PublishersFollow, GoesOn
    <3>3. ASSUME NEW q \in Threes, Search!Active(q)', Search!Of(q)' = alias' PROVE ~pub'[q].created
      BY <1>3, <2>1, <3>1, <3>3 DEF GoesOn
    <3>. QED  BY <1>4, <2>1, <3>1, <3>2, <3>3
  <2>2. CASE pub[p].pc = "switch" /\ alias' = Search!Of(p) /\ (Search!Of(p) \in shaken' \/ ~Search!Active(p)')
    <3>1. Search!Of(p) \in Certain /\ coll[Search!Of(p)] = "complete" /\ ~Search!Active(p)'
      BY <1>2, <1>7, <2>2 DEF SearchInv, CompleteWhenNamed
    <3>2. \A q \in Threes : Search!Active(q)' => Search!Of(q)' # alias'
      BY <1>3, <1>5, <2>2, <3>1
    <3>. QED  BY <1>1, <1>4, <2>2, <3>1, <3>2
  <2>. QED  BY <1>4, <2>1, <2>2
<1>. QED  BY <1>4, <1>6, <1>7 DEF CompleteWhenNamed

-----------------------------------------------------------------------------
(* Publications: the steps                                                 *)

LEMMA SearchStart == Search!Init => SearchInv
<1>. SUFFICES ASSUME Search!Init PROVE SearchInv
  OBVIOUS
<1>1. Search!TypeOK
  BY DEF Search!Init, Search!TypeOK
<1>2. \A p \in Threes : pub[p].pc = "idle" /\ ~pub[p].created /\ ~Search!Active(p)
  BY DEF Search!Init, Search!Active, Search!Stages
<1>3. PublishersFollow /\ AloneAtWork
  BY <1>2 DEF Search!Init, PublishersFollow, AloneAtWork
<1>4. CompleteWhenNamed
  BY <1>2, PeopleAssumption DEF Search!Init, CompleteWhenNamed, Certain
<1>. QED  BY <1>1, <1>3, <1>4 DEF SearchInv

\* A content that is already being published is from now on not certain.
LEMMA StartKeepsSearch ==
  ASSUME SearchInv, NEW p \in Threes, NEW d \in Subjects, Search!Start(p, d) PROVE SearchInv'
<1>1. /\ pub[p].pc = "idle" /\ coll' = coll /\ alias' = alias /\ stray' = stray
      /\ pub' = [pub EXCEPT ![p].pc = "look", ![p].digest = d]
      /\ shaken' = shaken \cup (IF \E q \in Threes : Search!Active(q) /\ Search!Of(q) = d THEN {d} ELSE {})
  BY DEF Search!Start, Search!Ignores
<1>2. /\ pub \in [Threes -> [pc : Search!Stages \cup {"idle", "done", "failed", "dead"},
                             digest : Subjects \cup {None}, created : BOOLEAN]]
      /\ stray \subseteq Search!Requests /\ shaken \subseteq Subjects
  BY DEF SearchInv, Search!TypeOK
<1>3. pub'[p] = [pc |-> "look", digest |-> d, created |-> pub[p].created] /\ ~pub[p].created
  BY <1>1, <1>2 DEF SearchInv, PublishersFollow
<1>4. \A q \in Threes \ {p} : pub'[q] = pub[q]
  BY <1>1, <1>2
<1>5. /\ shaken \subseteq shaken' /\ shaken' \subseteq Subjects
      /\ (\E q \in Threes : Search!Active(q) /\ Search!Of(q) = d) => d \in shaken'
  BY <1>1, <1>2
<1>6. Search!TypeOK'
  <2>1. pub' \in [Threes -> [pc : Search!Stages \cup {"idle", "done", "failed", "dead"},
                             digest : Subjects \cup {None}, created : BOOLEAN]]
    BY <1>1, <1>2 DEF Search!Stages
  <2>. QED  BY <1>1, <1>5, <2>1 DEF SearchInv, Search!TypeOK
<1>7. Certain' \subseteq Certain
  BY <1>5 DEF Certain
<1>8. \A q \in Threes \ {p} : Search!Of(q)' = Search!Of(q) /\ Search!Active(q)' = Search!Active(q)
  BY <1>4 DEF Search!Of, Search!Active
<1>9. Search!Of(p)' = d /\ ~Search!Active(p)
  BY <1>1, <1>3 DEF Search!Of, Search!Active, Search!Stages
<1>10. \A r \in stray : r[2] \in Threes \ {p}
  BY <1>1, <1>2 DEF SearchInv, PublishersFollow, Search!Requests
<1>11. PublishersFollow'
  <2>1. \A q \in Threes : Search!Active(q)' => Search!Of(q)' \in Subjects
    BY <1>8, <1>9 DEF SearchInv, PublishersFollow
  <2>2. \A r \in stray' : pub'[r[2]].pc # "idle" /\ Search!Of(r[2])' \in Subjects
    BY <1>1, <1>4, <1>8, <1>10 DEF SearchInv, PublishersFollow
  <2>3. \A q \in Threes : (pub'[q].pc = "clean" => pub'[q].created) /\ (pub'[q].pc = "idle" => ~pub'[q].created)
    BY <1>3, <1>4 DEF SearchInv, PublishersFollow
  <2>. QED  BY <2>1, <2>2, <2>3 DEF PublishersFollow
<1>12. \A q \in Threes \ {p} : Search!Active(q)' /\ Search!Of(q)' \in Certain' => Search!Of(q)' # d
  BY <1>5, <1>8 DEF Certain
<1>13. AloneAtWork'
  <2>1. \A r \in stray' : Search!Of(r[2])' \in Certain' => r[1] \in {"create", "import"}
    BY <1>1, <1>7, <1>8, <1>10 DEF SearchInv, AloneAtWork
  <2>2. \A q, s \in Threes : Search!Active(q)' /\ Search!Active(s)' /\ Search!Of(q)' = Search!Of(s)'
                             /\ Search!Of(q)' \in Certain' => q = s
    BY <1>7, <1>8, <1>9, <1>12 DEF SearchInv, AloneAtWork
  <2>. QED  BY <2>1, <2>2 DEF AloneAtWork
<1>14. CompleteWhenNamed'
  <2>1. ASSUME NEW q \in Threes, pub'[q].pc = "switch", Search!Of(q)' \in Certain' PROVE coll'[Search!Of(q)'] = "complete"
    <3>1. q # p
      BY <1>3, <2>1
    <3>2. pub[q].pc = "switch" /\ Search!Of(q)' = Search!Of(q) /\ Search!Of(q) \in Certain
      BY <1>4, <1>7, <1>8, <2>1, <3>1
    <3>. QED  BY <1>1, <3>2 DEF SearchInv, CompleteWhenNamed
  <2>2. ASSUME alias' \in Certain'
        PROVE  /\ coll'[alias'] = "complete"
               /\ \A q \in Threes : Search!Active(q)' /\ Search!Of(q)' = alias' => ~pub'[q].created
    <3>1. /\ alias' = alias /\ coll[alias] = "complete"
          /\ \A q \in Threes : Search!Active(q) /\ Search!Of(q) = alias => ~pub[q].created
      BY <1>1, <1>7, <2>2 DEF SearchInv, CompleteWhenNamed
    <3>2. ~pub'[p].created
      <4>1. pub'[p].created = pub[p].created
        BY <1>3
      <4>. QED  BY <1>3, <4>1
    <3>3. \A q \in Threes \ {p} : Search!Active(q)' /\ Search!Of(q)' = alias' => ~pub'[q].created
      BY <1>4, <1>8, <3>1
    <3>. QED  BY <1>1, <3>1, <3>2, <3>3
  <2>. QED  BY <2>1, <2>2 DEF CompleteWhenNamed
<1>. QED  BY <1>6, <1>11, <1>13, <1>14 DEF SearchInv

\* A move of a publisher whose request, if it makes one, is obeyed at once.
LEMMA MoveKeepsSearch ==
  ASSUME SearchInv, NEW p \in Threes, Search!Active(p),
         NEW s \in Search!Stages \cup {"done", "failed", "dead"}, Search!Goto(p, s),
         s = "clean" => pub[p].created,
         s = "switch" => pub[p].pc = "verify" /\ coll[Search!Of(p)] = "complete",
         \/ Search!Ignores
         \/ pub[p].pc \in {"create", "import", "switch", "clean"} /\ Search!Obeys(pub[p].pc, p)
            /\ (pub[p].pc = "switch" => Search!Of(p) \in shaken' \/ s \notin Search!Stages),
         stray' = stray, shaken \subseteq shaken', shaken' \subseteq Subjects
  PROVE  SearchInv'
<1>1. /\ GoesOn(p) /\ pub'[p].pc = s /\ pub'[p].created = pub[p].created
      /\ pub' \in [Threes -> [pc : Search!Stages \cup {"idle", "done", "failed", "dead"},
                              digest : Subjects \cup {None}, created : BOOLEAN]]
  BY GotoGoesOn DEF SearchInv
<1>2. PublishersFollow' /\ AloneAtWork'
  BY <1>1, PublishersGoOn
<1>3. s \notin Search!Stages => ~Search!Active(p)'
  BY <1>1 DEF Search!Active
<1>4. /\ CompleteWhenNamed'
      /\ coll' \in [Subjects -> {"absent", "partial", "complete"}] /\ alias' \in Subjects \cup {None}
  BY <1>1, <1>3, NamedIsComplete
<1>5. Search!TypeOK'
  BY <1>1, <1>4 DEF SearchInv, Search!TypeOK
<1>. QED  BY <1>2, <1>4, <1>5 DEF SearchInv

LEMMA LookKeeps == ASSUME SearchInv, NEW p \in Threes, Search!Look(p) PROVE SearchInv'
<1>1. PICK s \in {"create", "import"} : Search!Goto(p, s)
  BY DEF Search!Look
<1>2. Search!Active(p) /\ Search!Ignores /\ stray' = stray /\ shaken' = shaken /\ s \in Search!Stages
  BY DEF Search!Look, Search!Active, Search!Stages
<1>3. shaken' \subseteq Subjects
  BY <1>2 DEF SearchInv, Search!TypeOK
<1>. QED  BY <1>1, <1>2, <1>3, MoveKeepsSearch

LEMMA CreateKeeps == ASSUME SearchInv, NEW p \in Threes, Search!Create(p) PROVE SearchInv'
<1>1. /\ pub[p].pc = "create" /\ Search!Obeys("create", p) /\ stray' = stray /\ shaken' = shaken
      /\ pub' = [pub EXCEPT ![p].pc = "import", ![p].created = coll[Search!Of(p)] = "absent"]
  BY DEF Search!Create
<1>2. pub \in [Threes -> [pc : Search!Stages \cup {"idle", "done", "failed", "dead"},
                          digest : Subjects \cup {None}, created : BOOLEAN]]
  BY DEF SearchInv, Search!TypeOK
<1>3. PICK b \in BOOLEAN : b = (coll[Search!Of(p)] = "absent")
  OBVIOUS
<1>4. pub'[p] = [pc |-> "import", digest |-> pub[p].digest, created |-> b]
  BY <1>1, <1>2, <1>3
<1>5. \A q \in Threes \ {p} : pub'[q] = pub[q]
  BY <1>1, <1>2
<1>6. GoesOn(p)
  <2>1. pub'[p].pc = "import" /\ pub'[p].digest = pub[p].digest
    BY <1>4
  <2>. QED  BY <1>1, <1>5, <2>1 DEF GoesOn, Search!Active, Search!Stages
<1>7. PublishersFollow' /\ AloneAtWork'
  BY <1>1, <1>6, PublishersGoOn
<1>8. pub'[p].created => coll[Search!Of(p)] = "absent"
  <2>1. pub'[p].created = b
    BY <1>4
  <2>. QED  BY <1>3, <2>1
<1>9. pub'[p].pc # "switch"
  BY <1>4
<1>10. /\ CompleteWhenNamed'
       /\ coll' \in [Subjects -> {"absent", "partial", "complete"}] /\ alias' \in Subjects \cup {None}
  BY <1>1, <1>6, <1>8, <1>9, NamedIsComplete
<1>11. pub' \in [Threes -> [pc : Search!Stages \cup {"idle", "done", "failed", "dead"},
                            digest : Subjects \cup {None}, created : BOOLEAN]]
  <2>1. pub'[p] \in [pc : Search!Stages \cup {"idle", "done", "failed", "dead"},
                     digest : Subjects \cup {None}, created : BOOLEAN]
    BY <1>2, <1>4 DEF Search!Stages
  <2>2. DOMAIN pub' = Threes /\ pub' = [q \in Threes |-> pub'[q]]
    BY <1>1, <1>2
  <2>. QED  BY <1>2, <1>5, <2>1, <2>2
<1>. QED  BY <1>1, <1>7, <1>10, <1>11 DEF SearchInv, Search!TypeOK

LEMMA ImportKeeps == ASSUME SearchInv, NEW p \in Threes, Search!Import(p) PROVE SearchInv'
<1>1. Search!Active(p) /\ "verify" \in Search!Stages /\ Search!Goto(p, "verify") /\ pub[p].pc = "import"
      /\ Search!Obeys(pub[p].pc, p) /\ stray' = stray /\ shaken' = shaken
  BY DEF Search!Import, Search!Active, Search!Stages
<1>2. shaken' \subseteq Subjects
  BY <1>1 DEF SearchInv, Search!TypeOK
<1>. QED  BY <1>1, <1>2, MoveKeepsSearch

LEMMA VerifyKeepsSearch == ASSUME SearchInv, NEW p \in Threes, Search!Verify(p) PROVE SearchInv'
<1>1. Search!Active(p) /\ "switch" \in Search!Stages /\ Search!Goto(p, "switch") /\ pub[p].pc = "verify"
      /\ coll[Search!Of(p)] = "complete" /\ Search!Ignores /\ stray' = stray /\ shaken' = shaken
  BY DEF Search!Verify, Search!Active, Search!Stages
<1>2. shaken' \subseteq Subjects
  BY <1>1 DEF SearchInv, Search!TypeOK
<1>. QED  BY <1>1, <1>2, MoveKeepsSearch

LEMMA SwitchKeeps == ASSUME SearchInv, NEW p \in Threes, Search!Switch(p) PROVE SearchInv'
<1>1. Search!Active(p) /\ "done" \notin Search!Stages /\ Search!Goto(p, "done") /\ pub[p].pc = "switch"
      /\ Search!Obeys(pub[p].pc, p) /\ stray' = stray /\ shaken' = shaken
  BY DEF Search!Switch, Search!Active, Search!Stages
<1>2. shaken' \subseteq Subjects
  BY <1>1 DEF SearchInv, Search!TypeOK
<1>. QED  BY <1>1, <1>2, MoveKeepsSearch

LEMMA CleanKeeps == ASSUME SearchInv, NEW p \in Threes, Search!Clean(p) PROVE SearchInv'
<1>1. Search!Active(p) /\ Search!Goto(p, "failed") /\ pub[p].pc = "clean"
      /\ Search!Obeys(pub[p].pc, p) /\ stray' = stray /\ shaken' = shaken
  BY DEF Search!Clean, Search!Active, Search!Stages
<1>2. shaken' \subseteq Subjects
  BY <1>1 DEF SearchInv, Search!TypeOK
<1>. QED  BY <1>1, <1>2, MoveKeepsSearch

LEMMA RefusedKeeps == ASSUME SearchInv, NEW p \in Threes, Search!Refused(p) PROVE SearchInv'
<1>1. PICK s \in {"clean", "failed"} : s = Search!OnError(p)
  BY DEF Search!OnError
<1>2. Search!Active(p) /\ Search!Goto(p, s) /\ Search!Ignores /\ stray' = stray /\ shaken' = shaken
  BY <1>1 DEF Search!Refused
<1>3. s = "clean" => pub[p].created
  BY <1>1 DEF Search!OnError
<1>4. shaken' \subseteq Subjects /\ s \in Search!Stages \cup {"failed"} /\ s # "switch"
  BY <1>2 DEF SearchInv, Search!TypeOK, Search!Stages
<1>. QED  BY <1>2, <1>3, <1>4, MoveKeepsSearch

\* What a publisher that does not know does next, and what is obeyed late.
LEMMA NoAnswerKeeps == ASSUME SearchInv, NEW p \in Threes, Search!NoAnswer(p) PROVE SearchInv'
<1>1. PICK s \in {"clean", "failed", "dead"} : (s = Search!OnError(p) \/ s = "dead") /\ Search!Goto(p, s)
  BY DEF Search!NoAnswer, Search!OnError
<1>2. s = "clean" => pub[p].created
  BY <1>1 DEF Search!OnError
<1>3. s \in Search!Stages \cup {"done", "failed", "dead"} /\ s # "switch"
  BY DEF Search!Stages
<1>4. Search!Active(p) /\ Search!Of(p) \in Subjects
  BY DEF Search!NoAnswer, SearchInv, PublishersFollow
<1>5. shaken \subseteq shaken' /\ shaken' \subseteq Subjects
      /\ (pub[p].pc \in {"switch", "clean"} => Search!Of(p) \in shaken')
  BY <1>4 DEF Search!NoAnswer, SearchInv, Search!TypeOK
<1>6. pub[p].pc \notin {"look", "verify"} => pub[p].pc \in {"create", "import", "switch", "clean"}
  BY <1>4 DEF Search!Active, Search!Stages
<1>7. CASE stray' = stray /\ (Search!Ignores \/ (pub[p].pc \notin {"look", "verify"} /\ Search!Obeys(pub[p].pc, p)))
  BY <1>1, <1>2, <1>3, <1>4, <1>5, <1>6, <1>7, MoveKeepsSearch
<1>8. CASE pub[p].pc \notin {"look", "verify"} /\ Search!Ignores /\ stray' = stray \cup {<<pub[p].pc, p>>}
  <2>1. /\ GoesOn(p) /\ pub'[p].pc = s /\ pub'[p].created = pub[p].created
        /\ pub' \in [Threes -> [pc : Search!Stages \cup {"idle", "done", "failed", "dead"},
                                digest : Subjects \cup {None}, created : BOOLEAN]]
    BY <1>1, <1>2, <1>3, <1>4, GotoGoesOn DEF SearchInv
  <2>2. PublishersFollow' /\ AloneAtWork'
    BY <1>5, <1>6, <1>8, <2>1, PublishersGoOn
  <2>3. /\ CompleteWhenNamed'
        /\ coll' \in [Subjects -> {"absent", "partial", "complete"}] /\ alias' \in Subjects \cup {None}
    BY <1>3, <1>5, <1>8, <2>1, NamedIsComplete
  <2>4. stray' \subseteq Search!Requests
    BY <1>6, <1>8 DEF SearchInv, Search!TypeOK, Search!Requests
  <2>5. Search!TypeOK'
    BY <1>5, <2>1, <2>3, <2>4 DEF SearchInv, Search!TypeOK
  <2>. QED  BY <2>2, <2>3, <2>5 DEF SearchInv
<1>. QED  BY <1>7, <1>8 DEF Search!NoAnswer

\* A request that is obeyed late takes nothing away from a certain content: it
\* is a creation or an import.
LEMMA LandKeeps == ASSUME SearchInv, Search!Land PROVE SearchInv'
<1>1. PICK r \in stray : Search!Obeys(r[1], r[2]) /\ stray' = stray \ {r} /\ pub' = pub /\ shaken' = shaken
  BY DEF Search!Land
<1>2. r[1] \in {"create", "import", "switch", "clean"} /\ r[2] \in Threes /\ Search!Of(r[2]) \in Subjects
  BY DEF SearchInv, Search!TypeOK, Search!Requests, PublishersFollow
<1>3. /\ coll' \in [Subjects -> {"absent", "partial", "complete"}] /\ alias' \in Subjects \cup {None}
      /\ \A d \in Subjects : coll[d] = "complete" /\ (r[1] = "clean" => d # Search!Of(r[2])) => coll'[d] = "complete"
      /\ alias' = IF r[1] = "switch" THEN Search!Of(r[2]) ELSE alias
  BY <1>1, <1>2, CompleteStays DEF SearchInv
<1>4. \A q \in Threes : Search!Of(q)' = Search!Of(q) /\ Search!Active(q)' = Search!Active(q)
  BY <1>1 DEF Search!Of, Search!Active
<1>5. Certain' = Certain /\ Certain \subseteq Subjects
  BY <1>1 DEF Certain
<1>6. Search!Of(r[2]) \in Certain => r[1] \in {"create", "import"}
  BY DEF SearchInv, AloneAtWork
<1>7. Search!TypeOK'
  BY <1>1, <1>3 DEF SearchInv, Search!TypeOK
<1>8. \A x \in stray' : x \in stray /\ x[2] \in Threes
  BY <1>1 DEF SearchInv, Search!TypeOK, Search!Requests
<1>9. PublishersFollow'
  BY <1>1, <1>4, <1>8 DEF SearchInv, PublishersFollow
<1>10. AloneAtWork'
  BY <1>4, <1>5, <1>8 DEF SearchInv, AloneAtWork
<1>11. \A d \in Certain : coll[d] = "complete" => coll'[d] = "complete"
  BY <1>3, <1>5, <1>6
<1>12. \A p \in Threes : pub'[p].pc = "switch" /\ Search!Of(p)' \in Certain' => coll'[Search!Of(p)'] = "complete"
  BY <1>1, <1>4, <1>5, <1>11 DEF SearchInv, CompleteWhenNamed
<1>13. alias' \in Certain' => /\ coll'[alias'] = "complete"
                              /\ \A p \in Threes : Search!Active(p)' /\ Search!Of(p)' = alias' => ~pub'[p].created
  <2>1. alias' \in Certain' => alias' = alias
    BY <1>3, <1>5, <1>6
  <2>. QED  BY <1>1, <1>4, <1>5, <1>11, <2>1 DEF SearchInv, CompleteWhenNamed
<1>. QED  BY <1>7, <1>9, <1>10, <1>12, <1>13 DEF SearchInv, CompleteWhenNamed

LEMMA SearchGoesOn == SearchInv /\ [Search!Next]_search => SearchInv'
<1>. SUFFICES ASSUME SearchInv, [Search!Next]_search PROVE SearchInv'
  OBVIOUS
<1>1. CASE UNCHANGED search
  BY <1>1 DEF search, SearchInv, Search!TypeOK, PublishersFollow, AloneAtWork, CompleteWhenNamed,
       Certain, Search!Active, Search!Of
<1>2. ASSUME NEW p \in Threes, Search!Look(p) \/ Search!Create(p) \/ Search!Import(p) \/ Search!Verify(p)
             \/ Search!Switch(p) \/ Search!Refused(p) \/ Search!NoAnswer(p) \/ Search!Clean(p)
      PROVE SearchInv'
  BY <1>2, LookKeeps, CreateKeeps, ImportKeeps, VerifyKeepsSearch, SwitchKeeps, RefusedKeeps, NoAnswerKeeps, CleanKeeps
<1>3. ASSUME NEW p \in Threes, NEW d \in Subjects, Search!Start(p, d) PROVE SearchInv'
  BY <1>3, StartKeepsSearch
<1>4. CASE Search!Land
  BY <1>4, LandKeeps
<1>. QED  BY <1>1, <1>2, <1>3, <1>4 DEF Search!Next

THEOREM SearchInvariance == AllSpec => []SearchInv
<1>1. AllInit => SearchInv
  BY SearchStart DEF AllInit
<1>2. SearchInv /\ [AllNext]_<<part, signin, search, editor, vars>> => SearchInv'
  BY SearchGoesOn DEF AllNext
<1>. QED  BY <1>1, <1>2, PTL DEF AllSpec

\* TypesenseCandidateIndexer.publish: the alias names a complete collection,
\* unless the answer to a switch or a deletion was lost or two publications of
\* its content overlapped.
THEOREM AliasIsCompleteHolds == AllSpec => []AliasIsComplete
<1>1. ASSUME SearchInv PROVE Search!AliasIsComplete
  <2>1. alias # None /\ alias \notin shaken => alias \in Certain
    BY <1>1 DEF SearchInv, Search!TypeOK, Certain
  <2>. QED  BY <1>1, <2>1 DEF SearchInv, CompleteWhenNamed, Search!AliasIsComplete
<1>2. SearchInv => AliasIsComplete
  BY <1>1 DEF AliasIsComplete
<1>. QED  BY <1>2, SearchInvariance, PTL

-----------------------------------------------------------------------------
(* The profile editor: the inductive invariant                             *)

\* The stages of a save before it has sent COMMIT; the answers that say it
\* saved nothing; whether it has sent COMMIT for good or may yet succeed.
Saving == {"validate", "begin", "lock", "reauthorize", "verify"}
Denied == {"conflict", "different", "invalid", "nothing_saved"}
Committing(r) == [req |-> r, phase |-> "committing"]
Sent(r) == r \in durable \/ tx = Committing(r)

\* A request has an answer when it is done, and is of the kind its stage is for.
RequestFollows(q) ==
  /\ q.answer # None => q.stage = "done"
  /\ q.stage = "idle" => q.kind = None
  /\ q.page # "saved"
  /\ q.stage \in Saving \cup {"committing"} => q.kind = "save"
  /\ q.stage \in Saving => q.page = None
  /\ q.stage = "receipt" => q.kind \in {"save", "status"}
  /\ q.stage = "prepare" => q.kind \in {"edit", "save"}
  /\ q.kind = "edit" => q.field \in Ordinary
  /\ q.kind \in {"save", "status"} => q.token \in Threes
  /\ q.page \in Field!Recoveries \/ q.answer \in Field!Recoveries => q.token \in Threes
RequestsFollow == \A r \in Threes : RequestFollows(req[r])
\* A save is one of a form that was sent, whose token is final.
SavesFollow ==
  \A r \in Threes : req[r].kind = "save" =>
    req[r].field \in Ordinary /\ Field!Delivered(req[r].token) /\ req[r].field = token[req[r].token].field
LedgerFollows ==
  /\ \A j \in DOMAIN ledger : ledger[j].token # None => Field!Delivered(ledger[j].token)
  /\ Field!FormSavesOnce
AnswersFollow ==
  \A r \in Threes : req[r].answer = "saved" =>
    \E k \in Field!ReceiptsOf(req[r].token) : req[r].kind = "status" \/ ledger[k].after = req[r].value
\* Who has the lock, and what a transaction that has sent COMMIT relies on.
LockFollows ==
  /\ tx # Field!NoTx => req[tx.req].kind = "save"
  /\ \A r \in Threes : req[r].stage \in {"reauthorize", "verify"} => tx = [req |-> r, phase |-> "locked"]
  /\ \A r \in Threes : req[r].stage = "committing" => Sent(r)
CommitFollows ==
  \A r \in Threes : tx = Committing(r) =>
    /\ Field!ReceiptsOf(req[r].token) = {}
    /\ profile[req[r].field].value = token[req[r].token].baseline.value
SentFollows ==
  /\ \A r \in Threes : Sent(r) =>
       /\ req[r].kind = "save" /\ req[r].stage \in {"committing", "recover", "done"}
       /\ req[r].answer \notin Denied /\ req[r].page \notin Denied
  /\ \A r \in durable : \E k \in Field!ReceiptsOf(req[r].token) : ledger[k].after = req[r].value
LateFollows ==
  \A r \in late : ~Field!Live(r) /\ req[r].stage \in {"reauthorize", "recover", "done"} /\ ~Sent(r)
EditorInv ==
  /\ Field!TypeOK /\ RequestsFollow /\ SavesFollow /\ LedgerFollows /\ AnswersFollow
  /\ LockFollows /\ CommitFollows /\ SentFollows /\ LateFollows

-----------------------------------------------------------------------------
(* The profile editor: what a step leaves of it                            *)

LEMMA EditorStart == Field!Init => EditorInv
<1>. SUFFICES ASSUME Field!Init PROVE EditorInv
  OBVIOUS
<1>. USE EditorAssumption
<1>1. \A r \in Threes : req[r] = Field!NewRequest
  BY DEF Field!Init
<1>2. Field!NewRequest \in Field!Request
  BY DEF Field!NewRequest, Field!Request, Field!Stages, Field!Values
<1>3. Field!TypeOK
  <2>1. req \in [Threes -> Field!Request]
    BY <1>2 DEF Field!Init
  <2>2. profile \in [Ordinary -> [value : Field!Values, written : BOOLEAN]]
    BY DEF Field!Init, Field!Values
  <2>3. ledger \in Seq(Field!Receipt)
    BY DEF Field!Init
  <2>. QED  BY <2>1, <2>2, <2>3 DEF Field!Init, Field!TypeOK
<1>4. ledger = <<>> /\ DOMAIN ledger = {} /\ tx = Field!NoTx /\ durable = {} /\ late = {}
  BY DEF Field!Init
<1>5. \A r \in Threes : ~Sent(r) /\ tx # Committing(r)
  BY <1>4, PeopleAssumption DEF Sent, Committing, Field!NoTx
<1>6. RequestsFollow
  BY <1>1 DEF RequestsFollow, RequestFollows, Field!NewRequest, Saving, Field!Recoveries, Field!Answers, Field!Forms
<1>7. SavesFollow /\ AnswersFollow
  BY <1>1 DEF SavesFollow, AnswersFollow, Field!NewRequest, Field!Answers
<1>8. LedgerFollows
  BY <1>4 DEF LedgerFollows, Field!FormSavesOnce
<1>9. LockFollows
  BY <1>1, <1>4 DEF LockFollows, Field!NewRequest
<1>. QED  BY <1>3, <1>4, <1>5, <1>6, <1>7, <1>8, <1>9 DEF EditorInv, CommitFollows, SentFollows, LateFollows

\* The request r, and no other, goes on to stage s, with this page and answer.
Turns(r, s, p, a) ==
  /\ req' \in [Threes -> Field!Request]
  /\ \A q \in Threes \ {r} : req'[q] = req[q]
  /\ req'[r] = [kind |-> req[r].kind, stage |-> s, session |-> req[r].session, token |-> req[r].token,
                field |-> req[r].field, value |-> req[r].value, page |-> p, answer |-> a]

LEMMA RequestTurns ==
  ASSUME EditorInv, NEW r \in Threes, NEW s \in Field!Stages, NEW p \in Field!Answers \cup {None},
         NEW a \in Field!Answers \cup {None}
  PROVE  /\ Field!Goto(r, s) => Turns(r, s, req[r].page, req[r].answer)
         /\ Field!Answer(r, a) => Turns(r, "done", req[r].page, a)
         /\ Field!Then(r, s, p) => Turns(r, s, p, req[r].answer)
<1>1. req \in [Threes -> Field!Request] /\ req[r] \in Field!Request
  BY DEF EditorInv, Field!TypeOK
<1>2. /\ req[r].kind \in {"edit", "save", "status", None} /\ req[r].session \in Sessions \cup {None}
      /\ req[r].token \in Threes \cup {None} /\ req[r].field \in Ordinary \cup {None}
      /\ req[r].value \in Field!Values /\ req[r].page \in Field!Answers \cup {None}
      /\ req[r].answer \in Field!Answers \cup {None}
  BY <1>1 DEF Field!Request
<1>3. "done" \in Field!Stages
  BY DEF Field!Stages
<1>4. ASSUME Field!Goto(r, s) PROVE Turns(r, s, req[r].page, req[r].answer)
  <2>1. req' = [req EXCEPT ![r].stage = s]
    BY <1>4 DEF Field!Goto
  <2>. QED  BY <1>1, <1>2, <2>1 DEF Turns, Field!Request
<1>5. ASSUME Field!Answer(r, a) PROVE Turns(r, "done", req[r].page, a)
  <2>1. req' = [req EXCEPT ![r].stage = "done", ![r].answer = a]
    BY <1>5 DEF Field!Answer
  <2>. QED  BY <1>1, <1>2, <1>3, <2>1 DEF Turns, Field!Request
<1>6. ASSUME Field!Then(r, s, p) PROVE Turns(r, s, p, req[r].answer)
  <2>1. req' = [req EXCEPT ![r].stage = s, ![r].page = p]
    BY <1>6 DEF Field!Then
  <2>. QED  BY <1>1, <1>2, <2>1 DEF Turns, Field!Request
<1>. QED  BY <1>4, <1>5, <1>6

\* A request that is being served goes on; nothing it relies on is written.
Serves(r, s, p, a) ==
  /\ Field!Active(r) /\ Turns(r, s, p, a) /\ RequestFollows(req'[r])
  /\ profile' = profile /\ ledger' = ledger /\ durable' = durable /\ live' = live
  /\ \A t \in Threes : Field!Delivered(t) => token'[t] = token[t]
  /\ a = "saved" => \E k \in Field!ReceiptsOf(req[r].token) : req[r].kind = "status" \/ ledger[k].after = req[r].value

\* Who is being served has no answer yet, and keeps its change.
LEMMA ServedTurns ==
  ASSUME EditorInv, NEW r \in Threes, NEW s, NEW p, NEW a, Serves(r, s, p, a)
  PROVE  /\ ~Field!Delivered(r) /\ req[r].answer = None
         /\ \A q \in Threes : req'[q].kind = req[q].kind /\ req'[q].token = req[q].token
                              /\ req'[q].field = req[q].field /\ req'[q].value = req[q].value
                              /\ req'[q].session = req[q].session
         /\ req'[r].stage = s /\ req'[r].page = p /\ req'[r].answer = a
         /\ \A q \in Threes \ {r} : req'[q] = req[q]
<1>1. req[r].answer = None
  BY DEF Serves, Field!Active, EditorInv, RequestsFollow, RequestFollows
<1>2. ~Field!Delivered(r)
  BY <1>1, EditorAssumption DEF Field!Delivered, Field!Answers
<1>3. /\ \A q \in Threes \ {r} : req'[q] = req[q]
      /\ req'[r] = [kind |-> req[r].kind, stage |-> s, session |-> req[r].session, token |-> req[r].token,
                    field |-> req[r].field, value |-> req[r].value, page |-> p, answer |-> a]
  BY DEF Serves, Turns
<1>4. /\ req'[r].kind = req[r].kind /\ req'[r].token = req[r].token /\ req'[r].field = req[r].field
      /\ req'[r].value = req[r].value /\ req'[r].session = req[r].session
      /\ req'[r].stage = s /\ req'[r].page = p /\ req'[r].answer = a
  BY <1>3
<1>5. \A q \in Threes : req'[q].kind = req[q].kind /\ req'[q].token = req[q].token
                        /\ req'[q].field = req[q].field /\ req'[q].value = req[q].value
                        /\ req'[q].session = req[q].session
  BY <1>3, <1>4
<1>. QED  BY <1>1, <1>2, <1>3, <1>4, <1>5

LEMMA ReceiptsHaveTypes ==
  ASSUME EditorInv PROVE \A j \in DOMAIN ledger : ledger[j] \in Field!Receipt
<1>1. ledger \in Seq(Field!Receipt)
  BY DEF EditorInv, Field!TypeOK
<1>. QED  BY <1>1

LEMMA ServedKeeps ==
  ASSUME EditorInv, NEW r \in Threes, NEW s, NEW p, NEW a, Serves(r, s, p, a)
  PROVE  RequestsFollow' /\ SavesFollow' /\ LedgerFollows' /\ AnswersFollow'
<1>1. /\ ~Field!Delivered(r)
      /\ \A q \in Threes : req'[q].kind = req[q].kind /\ req'[q].token = req[q].token
                           /\ req'[q].field = req[q].field /\ req'[q].value = req[q].value
      /\ req'[r].answer = a
      /\ \A q \in Threes \ {r} : req'[q] = req[q]
  BY ServedTurns
<1>2. ledger' = ledger /\ RequestFollows(req'[r]) /\ \A t \in Threes : Field!Delivered(t) => token'[t] = token[t]
  BY DEF Serves
<1>3. \A t \in Threes : Field!Delivered(t) => Field!Delivered(t)' /\ token'[t] = token[t]
  <2>1. \A t \in Threes : Field!Delivered(t) => t # r
    BY <1>1
  <2>. QED  BY <1>1, <1>2, <2>1 DEF Field!Delivered
<1>4. RequestsFollow'
  BY <1>1, <1>2 DEF EditorInv, RequestsFollow
<1>5. SavesFollow'
  <2>. SUFFICES ASSUME NEW q \in Threes, req'[q].kind = "save"
                PROVE  /\ req'[q].field \in Ordinary /\ req'[req'[q].token].answer \in Field!Forms
                       /\ req'[q].field = token'[req'[q].token].field
    BY DEF SavesFollow, Field!Delivered
  <2>1. req[q].field \in Ordinary /\ Field!Delivered(req[q].token) /\ req[q].field = token[req[q].token].field
    BY <1>1 DEF EditorInv, SavesFollow
  <2>2. req[q].token \in Threes
    BY <1>1 DEF EditorInv, RequestsFollow, RequestFollows
  <2>3. PICK t \in Threes : t = req[q].token
    BY <2>2
  <2>4. Field!Delivered(t)' /\ token'[t] = token[t]
    BY <1>3, <2>1, <2>3
  <2>5. req'[q].token = t /\ req'[q].field = req[q].field
    BY <1>1, <2>3
  <2>. QED  BY <2>1, <2>3, <2>4, <2>5 DEF Field!Delivered
<1>6. LedgerFollows'
  <2>1. \A j \in DOMAIN ledger : ledger[j].token # None => ledger[j].token \in Threes
    BY ReceiptsHaveTypes DEF Field!Receipt
  <2>2. ASSUME NEW j \in DOMAIN ledger, ledger[j].token # None
        PROVE  req'[ledger[j].token].answer \in Field!Forms /\ token'[ledger[j].token] = token[ledger[j].token]
    <3>1. PICK t \in Threes : t = ledger[j].token
      BY <2>1, <2>2
    <3>2. Field!Delivered(t)
      BY <2>2, <3>1 DEF EditorInv, LedgerFollows
    <3>3. Field!Delivered(t)' /\ token'[t] = token[t]
      BY <1>3, <3>2
    <3>. QED  BY <1>2, <3>1, <3>2, <3>3 DEF Field!Delivered
  <2>3. \A j \in DOMAIN ledger' : ledger'[j].token # None => req'[ledger'[j].token].answer \in Field!Forms
    BY <1>2, <2>2
  <2>4. Field!FormSavesOnce'
    BY <1>2, <2>2 DEF EditorInv, LedgerFollows, Field!FormSavesOnce
  <2>. QED  BY <2>3, <2>4 DEF LedgerFollows, Field!Delivered
<1>7. AnswersFollow'
  <2>1. a = "saved" => \E k \in Field!ReceiptsOf(req[r].token) : req[r].kind = "status" \/ ledger[k].after = req[r].value
    BY DEF Serves
  <2>2. ASSUME NEW q \in Threes, req'[q].answer = "saved"
        PROVE  \E k \in DOMAIN ledger : ledger[k].token = req[q].token /\ (req[q].kind = "status" \/ ledger[k].after = req[q].value)
    BY <1>1, <2>1, <2>2 DEF EditorInv, AnswersFollow, Field!ReceiptsOf
  <2>. QED  BY <1>1, <1>2, <2>2 DEF AnswersFollow, Field!ReceiptsOf
<1>. QED  BY <1>4, <1>5, <1>6, <1>7

\* A committing transaction's change has no receipt and replaces what its form
\* showed, whichever other request goes on.
LEMMA CommitKept ==
  ASSUME EditorInv, NEW r \in Threes, NEW s, NEW p, NEW a, Serves(r, s, p, a),
         NEW c \in Threes, tx = Committing(c)
  PROVE  /\ {k \in DOMAIN ledger' : ledger'[k].token = req'[c].token} = {}
         /\ profile'[req'[c].field].value = token'[req'[c].token].baseline.value
<1>1. req[c].kind = "save"
  BY DEF EditorInv, SentFollows, Sent
<1>2. req[c].token \in Threes /\ Field!Delivered(req[c].token)
  BY <1>1 DEF EditorInv, RequestsFollow, RequestFollows, SavesFollow
<1>3. req'[c].token = req[c].token /\ req'[c].field = req[c].field
  BY ServedTurns
<1>4. token'[req[c].token] = token[req[c].token] /\ profile' = profile /\ ledger' = ledger
  BY <1>2 DEF Serves
<1>5. Field!ReceiptsOf(req[c].token) = {} /\ profile[req[c].field].value = token[req[c].token].baseline.value
  BY DEF EditorInv, CommitFollows
<1>. QED  BY <1>3, <1>4, <1>5 DEF Field!ReceiptsOf

\* Whoever is served without the lock changing hands.
LEMMA KeepingLock ==
  ASSUME EditorInv, NEW r \in Threes, NEW s, NEW p, NEW a, Serves(r, s, p, a),
         tx' = tx, late' = late,
         s \in {"reauthorize", "verify"} => req[r].stage \in {"reauthorize", "verify"}, s # "committing",
         Sent(r) => s \in {"recover", "done"} /\ p \notin Denied /\ a \notin Denied,
         r \in late => s \in {"recover", "done"}
  PROVE  LockFollows' /\ CommitFollows' /\ SentFollows' /\ LateFollows'
<1>1. /\ \A q \in Threes : req'[q].kind = req[q].kind /\ req'[q].token = req[q].token
                           /\ req'[q].field = req[q].field /\ req'[q].value = req[q].value
                           /\ req'[q].session = req[q].session
      /\ req'[r].stage = s /\ req'[r].page = p /\ req'[r].answer = a
      /\ \A q \in Threes \ {r} : req'[q] = req[q]
  BY ServedTurns
<1>2. ledger' = ledger /\ durable' = durable /\ live' = live
  BY DEF Serves
<1>3. \A q \in Threes : Sent(q)' = Sent(q) /\ Committing(q)' = Committing(q)
  BY <1>2 DEF Sent, Committing
<1>4. durable \in SUBSET Threes /\ late \in SUBSET Threes /\ tx \in Field!Tx \cup {Field!NoTx}
  BY DEF EditorInv, Field!TypeOK
<1>5. LockFollows'
  <2>1. tx # Field!NoTx => tx.req \in Threes
    BY <1>4 DEF Field!Tx
  <2>2. tx' # Field!NoTx => req'[tx'.req].kind = "save"
    BY <1>1, <2>1 DEF EditorInv, LockFollows
  <2>3. \A q \in Threes : req'[q].stage \in {"reauthorize", "verify"} => tx' = [req |-> q, phase |-> "locked"]
    BY <1>1 DEF EditorInv, LockFollows
  <2>4. \A q \in Threes : req'[q].stage = "committing" => Sent(q)'
    BY <1>1, <1>3 DEF EditorInv, LockFollows
  <2>. QED  BY <2>2, <2>3, <2>4 DEF LockFollows, Field!NoTx
<1>6. CommitFollows'
  <2>1. \A c \in Threes : tx' = Committing(c) =>
          /\ {k \in DOMAIN ledger' : ledger'[k].token = req'[c].token} = {}
          /\ profile'[req'[c].field].value = token'[req'[c].token].baseline.value
    BY CommitKept
  <2>. QED  BY <2>1 DEF CommitFollows, Committing, Field!ReceiptsOf
<1>7. SentFollows'
  <2>1. \A q \in Threes : Sent(q)' => /\ req'[q].kind = "save" /\ req'[q].stage \in {"committing", "recover", "done"}
                                      /\ req'[q].answer \notin Denied /\ req'[q].page \notin Denied
    BY <1>1, <1>3 DEF EditorInv, SentFollows
  <2>2. \A q \in durable' : \E k \in DOMAIN ledger' : ledger'[k].token = req'[q].token /\ ledger'[k].after = req'[q].value
    BY <1>1, <1>2, <1>4 DEF EditorInv, SentFollows, Field!ReceiptsOf
  <2>. QED  BY <2>1, <2>2 DEF SentFollows, Field!ReceiptsOf
<1>8. LateFollows'
  BY <1>1, <1>2, <1>3, <1>4 DEF EditorInv, LateFollows, Field!Live
<1>. QED  BY <1>5, <1>6, <1>7, <1>8

\* Whoever has the lock gives it back before it has sent COMMIT.
LEMMA GivingLockBack ==
  ASSUME EditorInv, NEW r \in Threes, NEW s, NEW p, NEW a, Serves(r, s, p, a),
         req[r].stage \in {"reauthorize", "verify"}, s \notin {"reauthorize", "verify", "committing"},
         r \in late => s = "done", tx' = Field!NoTx, late' = late
  PROVE  LockFollows' /\ CommitFollows' /\ SentFollows' /\ LateFollows'
<1>1. /\ \A q \in Threes : req'[q].kind = req[q].kind /\ req'[q].token = req[q].token
                           /\ req'[q].field = req[q].field /\ req'[q].value = req[q].value
                           /\ req'[q].session = req[q].session
      /\ req'[r].stage = s /\ req'[r].page = p /\ req'[r].answer = a
      /\ \A q \in Threes \ {r} : req'[q] = req[q]
  BY ServedTurns
<1>2. ledger' = ledger /\ durable' = durable /\ live' = live
  BY DEF Serves
<1>3. tx = [req |-> r, phase |-> "locked"] /\ r \notin durable
  BY DEF EditorInv, LockFollows, SentFollows, Sent
<1>4. \A q \in Threes : (Sent(q)' => q \in durable) /\ (Sent(q) => q \in durable) /\ tx' # Committing(q)
  BY <1>2, <1>3, PeopleAssumption DEF Sent, Committing, Field!NoTx
<1>5. durable \in SUBSET Threes /\ late \in SUBSET Threes
  BY DEF EditorInv, Field!TypeOK
<1>6. LockFollows'
  <2>1. \A q \in Threes : req'[q].stage \notin {"reauthorize", "verify"}
    BY <1>1, <1>3 DEF EditorInv, LockFollows
  <2>2. \A q \in Threes : req'[q].stage = "committing" => Sent(q)'
    BY <1>1, <1>2, <1>4 DEF EditorInv, LockFollows, Sent
  <2>. QED  BY <2>1, <2>2 DEF LockFollows, Field!NoTx
<1>7. CommitFollows'
  BY <1>4 DEF CommitFollows, Committing
<1>8. SentFollows'
  <2>1. \A q \in Threes : q \in durable => Sent(q) /\ q # r
    BY <1>3 DEF Sent
  <2>2. \A q \in Threes : Sent(q)' => /\ req'[q].kind = "save" /\ req'[q].stage \in {"committing", "recover", "done"}
                                      /\ req'[q].answer \notin Denied /\ req'[q].page \notin Denied
    BY <1>1, <1>4, <2>1 DEF EditorInv, SentFollows
  <2>3. \A q \in durable' : \E k \in DOMAIN ledger' : ledger'[k].token = req'[q].token /\ ledger'[k].after = req'[q].value
    BY <1>1, <1>2, <1>5 DEF EditorInv, SentFollows, Field!ReceiptsOf
  <2>. QED  BY <2>2, <2>3 DEF SentFollows, Field!ReceiptsOf
<1>9. LateFollows'
  <2>1. \A q \in Threes : Sent(q)' => Sent(q)
    BY <1>4 DEF Sent
  <2>. QED  BY <1>1, <1>2, <1>5, <2>1 DEF EditorInv, LateFollows, Field!Live
<1>. QED  BY <1>6, <1>7, <1>8, <1>9

\* A step that changes no more than the request and its hold of the lock.
LEMMA ServedStep ==
  ASSUME EditorInv, NEW r \in Threes, NEW s, NEW p, NEW a, Serves(r, s, p, a),
         UNCHANGED <<Field!dbVars, token, expired, late>>,
         \/ /\ tx' = tx /\ s # "committing"
            /\ s \in {"reauthorize", "verify"} => req[r].stage \in {"reauthorize", "verify"}
            /\ Sent(r) => s \in {"recover", "done"} /\ p \notin Denied /\ a \notin Denied
            /\ r \in late => s \in {"recover", "done"}
         \/ /\ tx' = Field!NoTx /\ req[r].stage \in {"reauthorize", "verify"}
            /\ s \notin {"reauthorize", "verify", "committing"}
            /\ r \in late => s = "done"
  PROVE  EditorInv'
<1>1. late' = late
  OBVIOUS
<1>2. LockFollows' /\ CommitFollows' /\ SentFollows' /\ LateFollows'
  BY <1>1, KeepingLock, GivingLockBack
<1>3. Field!TypeOK'
  BY DEF Serves, Turns, EditorInv, Field!TypeOK, Field!dbVars
<1>4. RequestsFollow' /\ SavesFollow' /\ LedgerFollows' /\ AnswersFollow'
  BY ServedKeeps
<1>. QED  BY <1>2, <1>3, <1>4 DEF EditorInv

-----------------------------------------------------------------------------
(* The profile editor: requests arrive                                     *)

\* A request arrives: it is refused, or it is one of a form that was sent.
LEMMA ArrivalKeeps ==
  ASSUME EditorInv, NEW r \in Threes, req[r].stage = "idle",
         NEW q \in Field!Request, req' = [req EXCEPT ![r] = q], RequestFollows(q),
         q.stage \notin {"reauthorize", "verify", "committing"}, q.answer # "saved",
         q.kind = "save" => q.field \in Ordinary /\ Field!Delivered(q.token) /\ q.field = token[q.token].field,
         UNCHANGED <<Field!dbVars, tx, token, expired, late>>
  PROVE  EditorInv'
<1>1. req' \in [Threes -> Field!Request] /\ req'[r] = q /\ \A c \in Threes \ {r} : req'[c] = req[c]
  BY DEF EditorInv, Field!TypeOK
<1>2. req[r].answer = None /\ req[r].kind = None
  BY DEF EditorInv, RequestsFollow, RequestFollows
<1>3. ~Field!Delivered(r) /\ req[r].kind # "save"
  BY <1>2, EditorAssumption DEF Field!Delivered, Field!Answers
<1>4. /\ profile' = profile /\ ledger' = ledger /\ durable' = durable /\ live' = live
      /\ tx' = tx /\ token' = token /\ late' = late
  BY DEF Field!dbVars
<1>5. Field!TypeOK'
  BY <1>1 DEF EditorInv, Field!TypeOK, Field!dbVars
<1>6. RequestsFollow'
  BY <1>1 DEF EditorInv, RequestsFollow
<1>7. \A t \in Threes : Field!Delivered(t) => req'[t].answer \in Field!Forms
  BY <1>1, <1>3 DEF Field!Delivered
<1>8. SavesFollow'
  <2>. SUFFICES ASSUME NEW c \in Threes, req'[c].kind = "save"
                PROVE  /\ req'[c].field \in Ordinary /\ req'[req'[c].token].answer \in Field!Forms
                       /\ req'[c].field = token'[req'[c].token].field
    BY DEF SavesFollow, Field!Delivered
  <2>1. CASE c = r
    <3>1. q.token \in Threes
      BY <1>1, <2>1 DEF RequestFollows
    <3>. QED  BY <1>1, <1>4, <1>7, <2>1, <3>1
  <2>2. CASE c # r
    <3>1. req[c].token \in Threes /\ req[c].field \in Ordinary /\ Field!Delivered(req[c].token)
          /\ req[c].field = token[req[c].token].field
      BY <1>1, <2>2 DEF EditorInv, RequestsFollow, RequestFollows, SavesFollow
    <3>. QED  BY <1>1, <1>4, <1>7, <2>2, <3>1
  <2>. QED  BY <2>1, <2>2
<1>9. LedgerFollows'
  <2>1. \A j \in DOMAIN ledger : ledger[j].token # None => ledger[j].token \in Threes
    BY ReceiptsHaveTypes DEF Field!Receipt
  <2>2. \A j \in DOMAIN ledger' : ledger'[j].token # None => req'[ledger'[j].token].answer \in Field!Forms
    BY <1>4, <1>7, <2>1 DEF EditorInv, LedgerFollows
  <2>3. Field!FormSavesOnce'
    BY <1>4 DEF EditorInv, LedgerFollows, Field!FormSavesOnce
  <2>. QED  BY <2>2, <2>3 DEF LedgerFollows, Field!Delivered
<1>10. AnswersFollow'
  <2>1. ASSUME NEW c \in Threes, req'[c].answer = "saved"
        PROVE  \E k \in DOMAIN ledger : ledger[k].token = req[c].token /\ (req[c].kind = "status" \/ ledger[k].after = req[c].value)
               /\ c # r
    BY <1>1, <2>1 DEF EditorInv, AnswersFollow, Field!ReceiptsOf
  <2>. QED  BY <1>1, <1>4, <2>1 DEF AnswersFollow, Field!ReceiptsOf
<1>11. \A c \in Threes : Sent(c)' = Sent(c) /\ (Sent(c) => c # r) /\ Committing(c)' = Committing(c)
  BY <1>3, <1>4 DEF EditorInv, SentFollows, Sent, Committing
<1>12. durable \in SUBSET Threes /\ late \in SUBSET Threes /\ tx \in Field!Tx \cup {Field!NoTx}
  BY DEF EditorInv, Field!TypeOK
<1>13. LockFollows'
  <2>1. tx # Field!NoTx => tx.req \in Threes /\ tx.req # r
    BY <1>3, <1>12 DEF EditorInv, LockFollows, Field!Tx
  <2>2. tx' # Field!NoTx => req'[tx'.req].kind = "save"
    BY <1>1, <1>4, <2>1 DEF EditorInv, LockFollows
  <2>3. \A c \in Threes : req'[c].stage \in {"reauthorize", "verify"} => tx' = [req |-> c, phase |-> "locked"]
    BY <1>1, <1>4 DEF EditorInv, LockFollows
  <2>4. \A c \in Threes : req'[c].stage = "committing" => Sent(c)'
    BY <1>1, <1>11 DEF EditorInv, LockFollows
  <2>. QED  BY <2>2, <2>3, <2>4 DEF LockFollows, Field!NoTx
<1>14. CommitFollows'
  <2>1. ASSUME NEW c \in Threes, tx' = Committing(c)
        PROVE  /\ {k \in DOMAIN ledger' : ledger'[k].token = req'[c].token} = {}
               /\ profile'[req'[c].field].value = token'[req'[c].token].baseline.value
    <3>1. req'[c] = req[c] /\ tx = Committing(c)
      BY <1>1, <1>4, <1>11, <2>1 DEF Sent
    <3>. QED  BY <1>4, <3>1 DEF EditorInv, CommitFollows, Field!ReceiptsOf
  <2>. QED  BY <2>1 DEF CommitFollows, Committing, Field!ReceiptsOf
<1>15. SentFollows'
  <2>1. \A c \in Threes : Sent(c)' => /\ req'[c].kind = "save" /\ req'[c].stage \in {"committing", "recover", "done"}
                                      /\ req'[c].answer \notin Denied /\ req'[c].page \notin Denied
    BY <1>1, <1>11 DEF EditorInv, SentFollows
  <2>2. \A c \in durable' : c # r /\ c \in durable
    BY <1>4, <1>11, <1>12 DEF Sent
  <2>3. \A c \in durable' : \E k \in DOMAIN ledger' : ledger'[k].token = req'[c].token /\ ledger'[k].after = req'[c].value
    BY <1>1, <1>4, <1>12, <2>2 DEF EditorInv, SentFollows, Field!ReceiptsOf
  <2>. QED  BY <2>1, <2>3 DEF SentFollows, Field!ReceiptsOf
<1>16. LateFollows'
  <2>1. \A c \in late : c # r
    BY DEF EditorInv, LateFollows
  <2>. QED  BY <1>1, <1>4, <1>11, <1>12, <2>1 DEF EditorInv, LateFollows, Field!Live
<1>. QED  BY <1>5, <1>6, <1>8, <1>9, <1>10, <1>13, <1>14, <1>15, <1>16 DEF EditorInv

LEMMA ChoicesAreValues == ASSUME NEW f \in Ordinary PROVE Field!Choices(f) \subseteq Field!Values
<1>1. CASE f = "nationality"
  <2>1. Field!Choices(f) = Offered
    BY <1>1 DEF Field!Choices
  <2>. QED  BY <2>1 DEF Field!Values
<1>2. CASE f = "kuwaitiMother"
  <2>1. Field!Choices(f) = {"true", Null}
    BY <1>2 DEF Field!Choices
  <2>. QED  BY <2>1 DEF Field!Values
<1>3. CASE f \notin {"nationality", "kuwaitiMother"}
  <2>1. Field!Choices(f) = Texts \cup {Null}
    BY <1>3 DEF Field!Choices
  <2>. QED  BY <2>1 DEF Field!Values
<1>. QED  BY <1>1, <1>2, <1>3

LEMMA EditKeeps ==
  ASSUME EditorInv, NEW r \in Threes, NEW s \in Sessions, NEW f \in Ordinary, Field!Edit(r, s, f) PROVE EditorInv'
<1>1. PICK stage \in {"done", "prepare"}, answer \in {"unauthorized", "ineligible", None} :
        /\ answer # None => stage = "done"
        /\ req' = [req EXCEPT ![r] =
             [kind |-> "edit", session |-> s, token |-> None, field |-> f, value |-> Null,
              page |-> "form", stage |-> stage, answer |-> answer]]
  BY DEF Field!Edit
<1>2. PICK q : q = [kind |-> "edit", session |-> s, token |-> None, field |-> f, value |-> Null,
                    page |-> "form", stage |-> stage, answer |-> answer]
  OBVIOUS
<1>4. q \in Field!Request
  BY <1>2 DEF Field!Request, Field!Stages, Field!Values, Field!Answers, Field!Forms
<1>5. RequestFollows(q)
  BY <1>1, <1>2, EditorAssumption DEF RequestFollows, Saving, Field!Recoveries, Field!Answers
<1>6. /\ q.stage \notin {"reauthorize", "verify", "committing"} /\ q.answer # "saved" /\ q.kind # "save"
  BY <1>2, EditorAssumption DEF Field!Answers
<1>7. req[r].stage = "idle" /\ UNCHANGED <<Field!dbVars, tx, token, expired, late>>
  BY DEF Field!Edit
<1>8. req' = [req EXCEPT ![r] = q]
  BY <1>1, <1>2
<1>. QED  BY <1>4, <1>5, <1>6, <1>7, <1>8, ArrivalKeeps

LEMMA SubmitKeeps ==
  ASSUME EditorInv, NEW r \in Threes, NEW s \in Sessions, NEW t \in Threes, NEW v, NEW proof,
         v \in UNION {Field!Choices(f) : f \in Ordinary \cap {token[t].field}}, Field!Submit(r, s, t, v, proof)
  PROVE  EditorInv'
<1>1. PICK stage \in {"done", "validate"}, answer \in {"unauthorized", "different", None} :
        /\ answer # None => stage = "done"
        /\ req' = [req EXCEPT ![r] =
             [kind |-> "save", session |-> s, token |-> t, field |-> token[t].field,
              value |-> v, page |-> None, answer |-> answer, stage |-> stage]]
  BY DEF Field!Submit
<1>2. PICK f \in Ordinary : f = token[t].field /\ v \in Field!Choices(f)
  OBVIOUS
<1>3. v \in Field!Values
  BY <1>2, ChoicesAreValues
<1>4. PICK q : q = [kind |-> "save", session |-> s, token |-> t, field |-> f,
                    value |-> v, page |-> None, answer |-> answer, stage |-> stage]
  OBVIOUS
<1>6. q \in Field!Request
  BY <1>3, <1>4 DEF Field!Request, Field!Stages, Field!Answers, Field!Forms
<1>7. RequestFollows(q)
  BY <1>1, <1>4, EditorAssumption DEF RequestFollows, Saving, Field!Recoveries, Field!Answers
<1>8. /\ q.stage \notin {"reauthorize", "verify", "committing"} /\ q.answer # "saved"
      /\ q.field \in Ordinary /\ q.token = t /\ q.field = token[q.token].field
  BY <1>2, <1>4, EditorAssumption DEF Field!Answers
<1>9. /\ req[r].stage = "idle" /\ Field!Delivered(t)
      /\ UNCHANGED <<Field!dbVars, tx, token, expired, late>>
  BY DEF Field!Submit
<1>10. req' = [req EXCEPT ![r] = q]
  BY <1>1, <1>2, <1>4
<1>11. Field!Delivered(q.token)
  BY <1>8, <1>9
<1>. QED  BY <1>6, <1>7, <1>8, <1>9, <1>10, <1>11, ArrivalKeeps

LEMMA CheckStatusKeeps ==
  ASSUME EditorInv, NEW r \in Threes, NEW proof \in Field!Proofs, Field!CheckStatus(r, proof) PROVE EditorInv'
<1>1. PICK c \in Threes : req[c].answer \in Field!Recoveries /\ proof = <<req[c].session, req[c].token, req[c].value>>
  BY DEF Field!Proofs
<1>2. req[c] \in Field!Request /\ req[c].token \in Threes
  BY <1>1 DEF EditorInv, Field!TypeOK, RequestsFollow, RequestFollows
<1>3. proof[1] \in Sessions \cup {None} /\ proof[2] \in Threes /\ proof[3] \in Field!Values
  BY <1>1, <1>2 DEF Field!Request
<1>4. PICK t \in Threes : t = proof[2]
  BY <1>3
<1>5. token[t].field \in Ordinary \cup {None}
  <2>1. token[t] \in Field!Token \cup {Field!NoToken}
    BY DEF EditorInv, Field!TypeOK
  <2>. QED  BY <2>1 DEF Field!Token, Field!NoToken
<1>6. PICK stage \in {"done", "receipt"}, answer \in {"unauthorized", None} :
        /\ answer # None => stage = "done"
        /\ req' = [req EXCEPT ![r] =
             [kind |-> "status", session |-> proof[1], token |-> t, field |-> token[t].field,
              value |-> proof[3], page |-> None, stage |-> stage, answer |-> answer]]
  BY <1>4 DEF Field!CheckStatus
<1>7. PICK q : q = [kind |-> "status", session |-> proof[1], token |-> t, field |-> token[t].field,
                    value |-> proof[3], page |-> None, stage |-> stage, answer |-> answer]
  OBVIOUS
<1>9. q \in Field!Request
  BY <1>3, <1>5, <1>7 DEF Field!Request, Field!Stages, Field!Answers, Field!Forms
<1>10. RequestFollows(q)
  BY <1>6, <1>7, EditorAssumption DEF RequestFollows, Saving, Field!Recoveries, Field!Answers
<1>11. q.stage \notin {"reauthorize", "verify", "committing"} /\ q.answer # "saved" /\ q.kind # "save"
  BY <1>7, EditorAssumption DEF Field!Answers
<1>12. req[r].stage = "idle" /\ UNCHANGED <<Field!dbVars, tx, token, expired, late>>
  BY DEF Field!CheckStatus
<1>13. req' = [req EXCEPT ![r] = q]
  BY <1>6, <1>7
<1>. QED  BY <1>9, <1>10, <1>11, <1>12, <1>13, ArrivalKeeps

-----------------------------------------------------------------------------
(* The profile editor: requests go on                                      *)

\* What it takes to say that a change, or its form, is saved.
HasReceipt(r) == \E k \in Field!ReceiptsOf(req[r].token) : req[r].kind = "status" \/ ledger[k].after = req[r].value

LEMMA AnswerKeeps ==
  ASSUME EditorInv, NEW r \in Threes, Field!Active(r), NEW a \in Field!Answers \cup {None}, Field!Answer(r, a),
         UNCHANGED <<Field!dbVars, token, expired, late>>,
         tx' = tx \/ (tx' = Field!NoTx /\ req[r].stage \in {"reauthorize", "verify"}),
         a \in Field!Recoveries => req[r].page = a,
         Sent(r) => a \notin Denied,
         a = "saved" => HasReceipt(r)
  PROVE  EditorInv'
<1>1. "idle" \in Field!Stages
  BY DEF Field!Stages
<1>2. Turns(r, "done", req[r].page, a)
  BY <1>1, RequestTurns
<1>3. RequestFollows(req'[r])
  <2>1. RequestFollows(req[r])
    BY DEF EditorInv, RequestsFollow
  <2>2. req'[r] = [kind |-> req[r].kind, stage |-> "done", session |-> req[r].session, token |-> req[r].token,
                   field |-> req[r].field, value |-> req[r].value, page |-> req[r].page, answer |-> a]
    BY <1>2 DEF Turns
  <2>. QED  BY <2>1, <2>2 DEF RequestFollows, Saving
<1>4. Serves(r, "done", req[r].page, a)
  BY <1>2, <1>3 DEF Serves, Field!dbVars, HasReceipt
<1>5. Sent(r) => req[r].page \notin Denied
  BY DEF EditorInv, SentFollows
<1>. QED  BY <1>4, <1>5, ServedStep

LEMMA ThenKeeps ==
  ASSUME EditorInv, NEW r \in Threes, Field!Active(r),
         NEW s \in {"prepare", "render", "recover"}, NEW p \in Field!Answers, Field!Then(r, s, p),
         UNCHANGED <<Field!dbVars, token, expired, late>>,
         \/ tx' = tx /\ (r \in late => s = "recover")
         \/ tx' = Field!NoTx /\ req[r].stage \in {"reauthorize", "verify"} /\ r \notin late,
         p # "saved", p \in Field!Recoveries \/ s = "prepare" => req[r].kind \in {"save", "status"},
         s = "prepare" => req[r].kind = "save",
         Sent(r) => s = "recover" /\ p \notin Denied
  PROVE  EditorInv'
<1>1. s \in Field!Stages
  BY DEF Field!Stages
<1>2. Turns(r, s, p, req[r].answer) /\ req[r].answer = None
  BY <1>1, RequestTurns DEF Field!Active, EditorInv, RequestsFollow, RequestFollows
<1>3. RequestFollows(req'[r])
  <2>1. RequestFollows(req[r])
    BY DEF EditorInv, RequestsFollow
  <2>2. req'[r] = [kind |-> req[r].kind, stage |-> s, session |-> req[r].session, token |-> req[r].token,
                   field |-> req[r].field, value |-> req[r].value, page |-> p, answer |-> None]
    BY <1>2 DEF Turns
  <2>. QED  BY <2>1, <2>2, EditorAssumption DEF RequestFollows, Saving, Field!Answers
<1>4. Serves(r, s, p, req[r].answer)
  BY <1>2, <1>3, EditorAssumption DEF Serves, Field!dbVars, Field!Answers
<1>5. req[r].answer \notin Denied
  BY <1>2, EditorAssumption DEF Denied, Field!Answers, Field!Forms, Field!Recoveries
<1>. QED  BY <1>4, <1>5, ServedStep

LEMMA GotoKeeps ==
  ASSUME EditorInv, NEW r \in Threes, Field!Active(r), req[r].stage \in Saving, r \notin late, ~Sent(r),
         NEW s \in {"begin", "receipt", "lock", "verify"}, Field!Goto(r, s),
         s = "verify" => req[r].stage = "reauthorize",
         UNCHANGED <<Field!dbVars, tx, token, expired, late>>
  PROVE  EditorInv'
<1>1. s \in Field!Stages
  BY DEF Field!Stages, Field!SaveStages
<1>2. Turns(r, s, req[r].page, req[r].answer) /\ req[r].answer = None
  BY <1>1, RequestTurns DEF Field!Active, EditorInv, RequestsFollow, RequestFollows
<1>3. RequestFollows(req'[r])
  <2>1. RequestFollows(req[r])
    BY DEF EditorInv, RequestsFollow
  <2>2. req'[r] = [kind |-> req[r].kind, stage |-> s, session |-> req[r].session, token |-> req[r].token,
                   field |-> req[r].field, value |-> req[r].value, page |-> req[r].page, answer |-> None]
    BY <1>2 DEF Turns
  <2>. QED  BY <2>1, <2>2 DEF RequestFollows, Saving
<1>4. Serves(r, s, req[r].page, req[r].answer)
  BY <1>2, <1>3, EditorAssumption DEF Serves, Field!dbVars, Field!Answers
<1>. QED  BY <1>4, ServedStep

\* A save that has not sent COMMIT, and one that is not late.
LEMMA NotSentYet ==
  ASSUME EditorInv, NEW r \in Threes
  PROVE  /\ req[r].stage \notin {"committing", "recover", "done"} => ~Sent(r)
         /\ req[r].stage \notin {"reauthorize", "recover", "done"} => r \notin late
         /\ Field!Live(r) => r \notin late
BY DEF EditorInv, SentFollows, LateFollows

LEMMA ShowPageKeeps == ASSUME EditorInv, NEW r \in Threes, Field!ShowPage(r) PROVE EditorInv'
<1>1. req[r].page \in Field!Answers \cup {None} /\ req[r].page # "saved"
  BY DEF EditorInv, Field!TypeOK, Field!Request, RequestsFollow, RequestFollows
<1>2. PICK a \in Field!Answers \cup {None} : Field!Answer(r, a) /\ a \in {req[r].page, "unauthorized"}
  BY <1>1 DEF Field!ShowPage, Field!Answers
<1>3. Field!Active(r) /\ UNCHANGED <<Field!dbVars, token, expired, late>> /\ tx' = tx
  BY DEF Field!ShowPage, Field!Active
<1>4. a # "saved" /\ (a \in Field!Recoveries => req[r].page = a)
  BY <1>1, <1>2 DEF Field!Recoveries
<1>5. Sent(r) => a \notin Denied
  BY <1>2 DEF EditorInv, SentFollows, Denied
<1>. QED  BY <1>2, <1>3, <1>4, <1>5, AnswerKeeps

LEMMA ValidateKeeps == ASSUME EditorInv, NEW r \in Threes, Field!Validate(r) PROVE EditorInv'
<1>1. PICK s \in {"begin", "receipt"} : Field!Goto(r, s)
  BY DEF Field!Validate
<1>2. /\ req[r].stage \in Saving /\ Field!Active(r) /\ r \notin late /\ ~Sent(r)
      /\ UNCHANGED <<Field!dbVars, tx, token, expired, late>>
  BY NotSentYet DEF Field!Validate, Field!Active, Saving
<1>. QED  BY <1>1, <1>2, GotoKeeps

LEMMA LookUpReceiptKeeps == ASSUME EditorInv, NEW r \in Threes, Field!LookUpReceipt(r) PROVE EditorInv'
<1>1. /\ Field!Active(r) /\ r \notin late /\ ~Sent(r) /\ req[r].kind \in {"save", "status"}
      /\ UNCHANGED <<Field!dbVars, tx, token, expired, late>>
  BY NotSentYet DEF Field!LookUpReceipt, Field!Active, EditorInv, RequestsFollow, RequestFollows
<1>2. /\ {"unauthorized", "saved", "no_receipt", "invalid"} \subseteq Field!Answers
      /\ {"unauthorized", "saved", "invalid"} \cap Field!Recoveries = {}
  BY DEF Field!Answers, Field!Recoveries
<1>3. CASE Field!Answer(r, "unauthorized")
  BY <1>1, <1>2, <1>3, AnswerKeeps
<1>4. CASE HasReceipt(r) /\ Field!Answer(r, "saved")
  BY <1>1, <1>2, <1>4, AnswerKeeps
<1>5. CASE Field!Then(r, "recover", "no_receipt")
  BY <1>1, <1>2, <1>5, ThenKeeps
<1>6. CASE Field!Then(r, "render", "invalid")
  BY <1>1, <1>2, <1>6, ThenKeeps
<1>. QED  BY <1>3, <1>4, <1>5, <1>6 DEF Field!LookUpReceipt, HasReceipt

LEMMA BeginKeeps == ASSUME EditorInv, NEW r \in Threes, Field!Begin(r) PROVE EditorInv'
<1>1. /\ req[r].stage \in Saving /\ Field!Active(r) /\ r \notin late /\ ~Sent(r)
      /\ UNCHANGED <<Field!dbVars, tx, token, expired, late>>
  BY NotSentYet DEF Field!Begin, Field!Active, Saving
<1>2. "unauthorized" \in Field!Answers /\ "unauthorized" \notin Field!Recoveries
  BY DEF Field!Answers, Field!Recoveries
<1>3. CASE Field!Goto(r, "lock")
  BY <1>1, <1>3, GotoKeeps
<1>4. CASE Field!Answer(r, "unauthorized")
  BY <1>1, <1>2, <1>4, AnswerKeeps
<1>. QED  BY <1>3, <1>4 DEF Field!Begin

LEMMA ReauthorizeKeeps == ASSUME EditorInv, NEW r \in Threes, Field!Reauthorize(r) PROVE EditorInv'
<1>1. /\ req[r].stage = "reauthorize" /\ req[r].stage \in Saving /\ Field!Active(r) /\ ~Sent(r)
      /\ UNCHANGED <<Field!dbVars, token, expired, late>>
  BY NotSentYet DEF Field!Reauthorize, Field!Active, Saving
<1>2. "unauthorized" \in Field!Answers /\ "unauthorized" \notin Field!Recoveries
  BY DEF Field!Answers, Field!Recoveries
<1>3. CASE Field!Live(r) /\ Field!Goto(r, "verify") /\ tx' = tx
  BY <1>1, <1>3, NotSentYet, GotoKeeps
<1>4. CASE Field!Answer(r, "unauthorized") /\ tx' = Field!NoTx
  BY <1>1, <1>2, <1>4, AnswerKeeps
<1>. QED  BY <1>3, <1>4 DEF Field!Reauthorize

LEMMA AcknowledgedKeeps == ASSUME EditorInv, NEW r \in Threes, Field!Acknowledged(r) PROVE EditorInv'
<1>1. /\ Field!Active(r) /\ Field!Answer(r, "saved") /\ r \in durable
      /\ UNCHANGED <<Field!dbVars, tx, token, expired, late>>
  BY DEF Field!Acknowledged, Field!Active
<1>2. "saved" \in Field!Answers /\ "saved" \notin Field!Recoveries /\ "saved" \notin Denied
  BY DEF Field!Answers, Field!Recoveries, Denied
<1>3. HasReceipt(r)
  BY <1>1 DEF EditorInv, SentFollows, HasReceipt
<1>. QED  BY <1>1, <1>2, <1>3, AnswerKeeps

LEMMA SaveFailsKeeps == ASSUME EditorInv, NEW r \in Threes, Field!SaveFails(r) PROVE EditorInv'
<1>1. /\ Field!Active(r) /\ ~Sent(r) /\ req[r].stage \in Saving /\ Field!Then(r, "recover", "nothing_saved")
      /\ UNCHANGED <<Field!dbVars, tx, token, expired, late>>
  BY NotSentYet DEF Field!SaveFails, Field!Active, Field!SaveStages, Saving
<1>2. req[r].kind = "save"
  BY <1>1 DEF EditorInv, RequestsFollow, RequestFollows
<1>3. "nothing_saved" \in Field!Answers
  BY DEF Field!Answers, Field!Recoveries
<1>. QED  BY <1>1, <1>2, <1>3, ThenKeeps

LEMMA OutcomeUnknownKeeps == ASSUME EditorInv, NEW r \in Threes, Field!OutcomeUnknown(r) PROVE EditorInv'
<1>1. /\ Field!Active(r) /\ req[r].stage \in {"committing", "receipt"} /\ Field!Then(r, "recover", "unknown")
      /\ UNCHANGED <<Field!dbVars, tx, token, expired, late>>
  BY DEF Field!OutcomeUnknown, Field!Active
<1>2. req[r].kind \in {"save", "status"}
  BY <1>1 DEF EditorInv, RequestsFollow, RequestFollows
<1>3. "unknown" \in Field!Answers /\ "unknown" \notin Denied
  BY DEF Field!Answers, Field!Recoveries, Denied
<1>. QED  BY <1>1, <1>2, <1>3, ThenKeeps

LEMMA GivenUpKeeps == ASSUME EditorInv, NEW r \in Threes, Field!ReadFails(r) \/ Field!Dropped(r) PROVE EditorInv'
<1>1. PICK a \in {"unavailable", "dropped"} : Field!Answer(r, a)
  BY DEF Field!ReadFails, Field!Dropped
<1>2. Field!Active(r) /\ UNCHANGED <<Field!dbVars, tx, token, expired, late>>
  BY DEF Field!ReadFails, Field!Dropped, Field!Active
<1>3. a \in Field!Answers /\ a \notin Field!Recoveries \cup Denied \cup {"saved"}
  BY DEF Field!Answers, Field!Recoveries, Denied
<1>. QED  BY <1>1, <1>2, <1>3, AnswerKeeps

\* A form shows what is stored under the lock; nobody has its token yet.
LEMMA PrepareKeeps == ASSUME EditorInv, NEW r \in Threes, Field!Prepare(r) PROVE EditorInv'
<1>1. /\ Field!Active(r) /\ r \notin late /\ ~Sent(r) /\ req[r].stage = "prepare"
      /\ UNCHANGED <<Field!dbVars, tx, expired, late>>
  BY NotSentYet DEF Field!Prepare, Field!Active
<1>2. CASE Field!Answer(r, "unauthorized") /\ token' = token
  <2>1. "unauthorized" \in Field!Answers /\ "unauthorized" \notin Field!Recoveries
    BY DEF Field!Answers, Field!Recoveries
  <2>. QED  BY <1>1, <1>2, <2>1, AnswerKeeps
<1>3. CASE /\ token' = [token EXCEPT ![r] = [field |-> req[r].field, baseline |-> Field!CurrentBaseline(req[r].field)]]
           /\ Field!Goto(r, "render")
  <2>1. "render" \in Field!Stages
    BY DEF Field!Stages
  <2>2. Turns(r, "render", req[r].page, req[r].answer) /\ req[r].answer = None
    BY <1>1, <1>3, <2>1, RequestTurns DEF Field!Active, EditorInv, RequestsFollow, RequestFollows
  <2>3. RequestFollows(req[r])
    BY DEF EditorInv, RequestsFollow
  <2>4. RequestFollows(req'[r])
    <3>1. req'[r] = [kind |-> req[r].kind, stage |-> "render", session |-> req[r].session, token |-> req[r].token,
                     field |-> req[r].field, value |-> req[r].value, page |-> req[r].page, answer |-> None]
      BY <2>2 DEF Turns
    <3>. QED  BY <2>3, <3>1, EditorAssumption DEF RequestFollows, Saving, Field!Answers
  <2>5. ~Field!Delivered(r)
    BY <2>2, EditorAssumption DEF Field!Delivered, Field!Answers
  <2>6. token \in [Threes -> Field!Token \cup {Field!NoToken}]
    BY DEF EditorInv, Field!TypeOK
  <2>7. \A t \in Threes : Field!Delivered(t) => token'[t] = token[t]
    BY <1>3, <2>5, <2>6
  <2>8. Serves(r, "render", req[r].page, req[r].answer)
    BY <1>1, <2>2, <2>4, <2>7, EditorAssumption DEF Serves, Field!dbVars, Field!Answers
  <2>9. LockFollows' /\ CommitFollows' /\ SentFollows' /\ LateFollows'
    BY <1>1, <2>8, KeepingLock
  <2>10. RequestsFollow' /\ SavesFollow' /\ LedgerFollows' /\ AnswersFollow'
    BY <2>8, ServedKeeps
  <2>11. req[r].field \in Ordinary
    BY <1>1, <2>3 DEF RequestFollows, EditorInv, SavesFollow
  <2>12. Field!CurrentBaseline(req[r].field) \in Field!Baseline
    <3>1. profile[req[r].field].value \in Field!Values /\ imported[req[r].field] \in Imports \cup {None}
      BY <2>11 DEF EditorInv, Field!TypeOK
    <3>. QED  BY <3>1 DEF Field!CurrentBaseline, Field!Baseline
  <2>13. token' \in [Threes -> Field!Token \cup {Field!NoToken}]
    BY <1>3, <2>6, <2>11, <2>12 DEF Field!Token
  <2>14. Field!TypeOK'
    BY <1>1, <2>2, <2>13 DEF Turns, EditorInv, Field!TypeOK, Field!dbVars
  <2>. QED  BY <2>9, <2>10, <2>14 DEF EditorInv
<1>. QED  BY <1>2, <1>3 DEF Field!Prepare

LEMMA TakeLockKeepsEditor == ASSUME EditorInv, NEW r \in Threes, Field!TakeLock(r) PROVE EditorInv'
<1>1. /\ req[r].stage = "lock" /\ tx = Field!NoTx /\ tx' = [req |-> r, phase |-> "locked"]
      /\ late' = (IF Field!Live(r) THEN late ELSE late \cup {r}) /\ Field!Goto(r, "reauthorize")
      /\ UNCHANGED <<Field!dbVars, token, expired>>
  BY DEF Field!TakeLock
<1>2. "reauthorize" \in Field!Stages /\ Field!Active(r)
  BY <1>1 DEF Field!Stages, Field!SaveStages, Field!Active
<1>3. Turns(r, "reauthorize", req[r].page, req[r].answer) /\ req[r].answer = None /\ req[r].kind = "save"
  BY <1>1, <1>2, RequestTurns DEF Field!Active, EditorInv, RequestsFollow, RequestFollows, Saving
<1>4. RequestFollows(req'[r])
  <2>1. RequestFollows(req[r])
    BY DEF EditorInv, RequestsFollow
  <2>2. req'[r] = [kind |-> req[r].kind, stage |-> "reauthorize", session |-> req[r].session, token |-> req[r].token,
                   field |-> req[r].field, value |-> req[r].value, page |-> req[r].page, answer |-> None]
    BY <1>3 DEF Turns
  <2>. QED  BY <1>1, <2>1, <2>2 DEF RequestFollows, Saving
<1>5. Serves(r, "reauthorize", req[r].page, req[r].answer)
  BY <1>1, <1>2, <1>3, <1>4, EditorAssumption DEF Serves, Field!dbVars, Field!Answers
<1>6. RequestsFollow' /\ SavesFollow' /\ LedgerFollows' /\ AnswersFollow'
  BY <1>5, ServedKeeps
<1>7. /\ \A q \in Threes : req'[q].kind = req[q].kind /\ req'[q].token = req[q].token
                           /\ req'[q].field = req[q].field /\ req'[q].value = req[q].value
                           /\ req'[q].session = req[q].session
      /\ req'[r].stage = "reauthorize" /\ \A q \in Threes \ {r} : req'[q] = req[q]
  BY <1>5, ServedTurns
<1>8. ledger' = ledger /\ durable' = durable /\ live' = live
  BY <1>1 DEF Field!dbVars
<1>9. durable \in SUBSET Threes /\ late \in SUBSET Threes
  BY DEF EditorInv, Field!TypeOK
<1>10. \A q \in Threes : tx # Committing(q) /\ tx' # Committing(q) /\ tx # [req |-> q, phase |-> "locked"]
  BY <1>1, PeopleAssumption DEF Committing, Field!NoTx
<1>11. r \notin durable
  BY <1>1 DEF EditorInv, SentFollows, Sent
<1>12. \A q \in Threes : (Sent(q) <=> q \in durable) /\ (Sent(q)' <=> q \in durable)
  BY <1>8, <1>10 DEF Sent, Committing
<1>13. Field!TypeOK'
  <2>1. tx' \in Field!Tx /\ late' \in SUBSET Threes
    BY <1>1, <1>9 DEF Field!Tx
  <2>. QED  BY <1>1, <1>3, <2>1 DEF Turns, EditorInv, Field!TypeOK, Field!dbVars
<1>14. LockFollows'
  <2>1. \A q \in Threes : req'[q].stage \in {"reauthorize", "verify"} => tx' = [req |-> q, phase |-> "locked"]
    BY <1>1, <1>7, <1>10 DEF EditorInv, LockFollows
  <2>2. \A q \in Threes : req'[q].stage = "committing" => Sent(q)'
    BY <1>7, <1>12 DEF EditorInv, LockFollows
  <2>3. req'[tx'.req].kind = "save"
    BY <1>1, <1>3, <1>7
  <2>. QED  BY <2>1, <2>2, <2>3 DEF LockFollows, Field!NoTx
<1>15. CommitFollows'
  BY <1>10 DEF CommitFollows, Committing
<1>16. SentFollows'
  <2>1. \A q \in Threes : Sent(q)' => /\ req'[q].kind = "save" /\ req'[q].stage \in {"committing", "recover", "done"}
                                      /\ req'[q].answer \notin Denied /\ req'[q].page \notin Denied
    BY <1>7, <1>11, <1>12 DEF EditorInv, SentFollows
  <2>2. \A q \in durable' : \E k \in DOMAIN ledger' : ledger'[k].token = req'[q].token /\ ledger'[k].after = req'[q].value
    BY <1>7, <1>8, <1>9 DEF EditorInv, SentFollows, Field!ReceiptsOf
  <2>. QED  BY <2>1, <2>2 DEF SentFollows, Field!ReceiptsOf
<1>17. LateFollows'
  <2>1. \A q \in late' : q \in late \/ (q = r /\ ~Field!Live(r))
    BY <1>1
  <2>. QED  BY <1>7, <1>8, <1>9, <1>11, <1>12, <2>1 DEF EditorInv, LateFollows, Field!Live
<1>. QED  BY <1>6, <1>13, <1>14, <1>15, <1>16, <1>17 DEF EditorInv

LEMMA CommittingIsOne ==
  \A q \in Threes : Committing(q) \in Field!Tx /\ \A c \in Threes : Committing(q) = Committing(c) => q = c
BY DEF Committing, Field!Tx

\* COMMIT is sent for a change that has no receipt, over what its form showed.
LEMMA SendCommitKeeps ==
  ASSUME EditorInv, NEW r \in Threes, req[r].stage = "verify", Field!Finding(r) = "write",
         Field!Goto(r, "committing"), tx' = [tx EXCEPT !.phase = "committing"],
         UNCHANGED <<Field!dbVars, token, expired, late>>
  PROVE  EditorInv'
<1>1. tx = [req |-> r, phase |-> "locked"]
  BY DEF EditorInv, LockFollows
<1>2. tx' = Committing(r)
  BY <1>1 DEF Committing
<1>3. "committing" \in Field!Stages /\ Field!Active(r)
  BY DEF Field!Stages, Field!Active
<1>4. RequestFollows(req[r])
  BY DEF EditorInv, RequestsFollow
<1>5. Turns(r, "committing", req[r].page, req[r].answer)
  BY <1>3, RequestTurns
<1>6. req[r].answer = None /\ req[r].kind = "save" /\ req[r].page = None
  BY <1>4 DEF RequestFollows, Saving
<1>7. RequestFollows(req'[r])
  <2>1. req'[r] = [kind |-> req[r].kind, stage |-> "committing", session |-> req[r].session, token |-> req[r].token,
                   field |-> req[r].field, value |-> req[r].value, page |-> req[r].page, answer |-> None]
    BY <1>5, <1>6 DEF Turns
  <2>. QED  BY <1>4, <1>6, <2>1 DEF RequestFollows, Saving
<1>8. Serves(r, "committing", req[r].page, req[r].answer)
  BY <1>3, <1>5, <1>6, <1>7, EditorAssumption DEF Serves, Field!dbVars, Field!Answers
<1>9. RequestsFollow' /\ SavesFollow' /\ LedgerFollows' /\ AnswersFollow'
  BY <1>8, ServedKeeps
<1>10. /\ \A q \in Threes : req'[q].kind = req[q].kind /\ req'[q].token = req[q].token
                            /\ req'[q].field = req[q].field /\ req'[q].value = req[q].value
                            /\ req'[q].session = req[q].session
       /\ req'[r].stage = "committing" /\ req'[r].page = None /\ req'[r].answer = None
       /\ \A q \in Threes \ {r} : req'[q] = req[q]
  BY <1>6, <1>8, ServedTurns
<1>11. ledger' = ledger /\ durable' = durable /\ live' = live /\ profile' = profile /\ token' = token /\ late' = late
  BY DEF Field!dbVars
<1>12. durable \in SUBSET Threes /\ late \in SUBSET Threes
  BY DEF EditorInv, Field!TypeOK
<1>13. \A q \in Threes : tx # Committing(q)
  BY <1>1 DEF Committing
<1>14. \A q \in Threes : (Sent(q) <=> q \in durable) /\ (Sent(q)' <=> q \in durable \/ q = r)
  <2>1. \A q \in Threes : tx' = Committing(q)' <=> q = r
    BY <1>2, CommittingIsOne DEF Committing
  <2>. QED  BY <1>11, <1>13, <2>1 DEF Sent
<1>15. /\ Field!ReceiptsOf(req[r].token) = {}
       /\ profile[req[r].field].value = token[req[r].token].baseline.value
  <2>1. Field!ReceiptsOf(req[r].token) = {} /\ Field!CurrentBaseline(req[r].field) = token[req[r].token].baseline
    BY DEF Field!Finding
  <2>2. Field!CurrentBaseline(req[r].field).value = profile[req[r].field].value
    BY DEF Field!CurrentBaseline
  <2>. QED  BY <2>1, <2>2
<1>16. Field!TypeOK'
  <2>1. tx' \in Field!Tx
    BY <1>2, CommittingIsOne
  <2>. QED  BY <1>5, <2>1 DEF Turns, EditorInv, Field!TypeOK, Field!dbVars
<1>17. LockFollows'
  <2>1. \A q \in Threes : req'[q].stage \notin {"reauthorize", "verify"}
    BY <1>1, <1>10 DEF EditorInv, LockFollows
  <2>2. \A q \in Threes : req'[q].stage = "committing" => Sent(q)'
    BY <1>10, <1>14 DEF EditorInv, LockFollows
  <2>3. req'[tx'.req].kind = "save"
    BY <1>2, <1>6, <1>10 DEF Committing
  <2>. QED  BY <2>1, <2>2, <2>3 DEF LockFollows, Field!NoTx
<1>18. CommitFollows'
  <2>1. ASSUME NEW c \in Threes, tx' = Committing(c)
        PROVE  /\ {k \in DOMAIN ledger' : ledger'[k].token = req'[c].token} = {}
               /\ profile'[req'[c].field].value = token'[req'[c].token].baseline.value
    <3>1. c = r
      BY <1>2, <2>1 DEF Committing
    <3>. QED  BY <1>10, <1>11, <1>15, <3>1 DEF Field!ReceiptsOf
  <2>. QED  BY <2>1 DEF CommitFollows, Committing, Field!ReceiptsOf
<1>19. SentFollows'
  <2>1. None \notin Denied
    BY EditorAssumption DEF Denied, Field!Answers, Field!Forms, Field!Recoveries
  <2>2. \A q \in Threes : Sent(q)' => /\ req'[q].kind = "save" /\ req'[q].stage \in {"committing", "recover", "done"}
                                      /\ req'[q].answer \notin Denied /\ req'[q].page \notin Denied
    BY <1>6, <1>10, <1>14, <2>1 DEF EditorInv, SentFollows
  <2>3. \A q \in durable' : \E k \in DOMAIN ledger' : ledger'[k].token = req'[q].token /\ ledger'[k].after = req'[q].value
    BY <1>10, <1>11, <1>12 DEF EditorInv, SentFollows, Field!ReceiptsOf
  <2>. QED  BY <2>2, <2>3 DEF SentFollows, Field!ReceiptsOf
<1>20. LateFollows'
  <2>1. r \notin late
    BY DEF EditorInv, LateFollows
  <2>. QED  BY <1>10, <1>11, <1>12, <1>14, <2>1 DEF EditorInv, LateFollows, Field!Live
<1>. QED  BY <1>9, <1>16, <1>17, <1>18, <1>19, <1>20 DEF EditorInv

LEMMA VerifyKeepsEditor == ASSUME EditorInv, NEW r \in Threes, Field!Verify(r) PROVE EditorInv'
<1>1. /\ Field!Active(r) /\ r \notin late /\ ~Sent(r) /\ req[r].stage = "verify"
      /\ UNCHANGED <<Field!dbVars, token, expired, late>>
  BY NotSentYet DEF Field!Verify, Field!Active
<1>2. req[r].kind = "save"
  BY <1>1 DEF EditorInv, RequestsFollow, RequestFollows, Saving
<1>3. CASE Field!Finding(r) = "write"
  <2>1. Field!Goto(r, "committing") /\ tx' = [tx EXCEPT !.phase = "committing"]
    BY <1>3 DEF Field!Verify
  <2>. QED  BY <1>1, <1>3, <2>1, SendCommitKeeps
<1>4. CASE Field!Finding(r) = "already_committed"
  <2>1. Field!Answer(r, "saved") /\ tx' = Field!NoTx
    BY <1>4 DEF Field!Verify
  <2>2. HasReceipt(r)
    BY <1>4 DEF Field!Finding, HasReceipt
  <2>3. "saved" \in Field!Answers /\ "saved" \notin Field!Recoveries
    BY DEF Field!Answers, Field!Recoveries
  <2>. QED  BY <1>1, <2>1, <2>2, <2>3, AnswerKeeps
<1>5. CASE Field!Finding(r) = "not_authorized"
  <2>1. Field!Answer(r, "unauthorized") /\ tx' = Field!NoTx
    BY <1>5 DEF Field!Verify
  <2>2. "unauthorized" \in Field!Answers /\ "unauthorized" \notin Field!Recoveries
    BY DEF Field!Answers, Field!Recoveries
  <2>. QED  BY <1>1, <2>1, <2>2, AnswerKeeps
<1>6. CASE Field!Finding(r) \notin {"write", "already_committed", "not_authorized"}
  <2>1. Field!Then(r, "prepare", "conflict") /\ tx' = Field!NoTx
    BY <1>6 DEF Field!Verify
  <2>2. "conflict" \in Field!Answers /\ "conflict" \notin Field!Recoveries
    BY DEF Field!Answers, Field!Recoveries, Field!Forms
  <2>. QED  BY <1>1, <1>2, <2>1, <2>2, ThenKeeps
<1>. QED  BY <1>3, <1>4, <1>5, <1>6

-----------------------------------------------------------------------------
(* The profile editor: the server and everybody else                       *)

\* A receipt is appended.
LEMMA Appended ==
  ASSUME EditorInv, NEW e \in Field!Receipt, ledger' = Append(ledger, e)
  PROVE  /\ ledger' \in Seq(Field!Receipt)
         /\ \E n : /\ DOMAIN ledger' = DOMAIN ledger \cup {n} /\ n \notin DOMAIN ledger /\ ledger'[n] = e
                   /\ \A k \in DOMAIN ledger : ledger'[k] = ledger[k]
<1>1. ledger \in Seq(Field!Receipt)
  BY DEF EditorInv, Field!TypeOK
<1>2. ledger' \in Seq(Field!Receipt)
  BY <1>1
<1>3. DOMAIN ledger' = DOMAIN ledger \cup {Len(ledger) + 1} /\ Len(ledger) + 1 \notin DOMAIN ledger
  BY <1>1
<1>4. ledger'[Len(ledger) + 1] = e /\ \A k \in DOMAIN ledger : ledger'[k] = ledger[k]
  BY <1>1
<1>. QED  BY <1>2, <1>3, <1>4

LEMMA WrittenHasType ==
  ASSUME EditorInv, NEW f \in Ordinary, NEW v \in Field!Values
  PROVE  Field!Written(f, v) \in [Ordinary -> [value : Field!Values, written : BOOLEAN]]
<1>1. \A g \in Ordinary : profile[g] \in [value : Field!Values, written : BOOLEAN]
  BY DEF EditorInv, Field!TypeOK
<1>2. Null \in Field!Values
  BY DEF Field!Values
<1>. QED  BY <1>1, <1>2 DEF Field!Written

LEMMA ServerCommitKeeps == ASSUME EditorInv, NEW r \in Threes, Field!ServerCommit(r) PROVE EditorInv'
<1>1. /\ tx = Committing(r) /\ tx' = Field!NoTx /\ durable' = durable \cup {r}
      /\ profile' = Field!Written(req[r].field, req[r].value)
      /\ UNCHANGED <<exists, live, imported, active, token, expired, req, late>>
  BY DEF Field!ServerCommit, Committing
<1>2. req[r].kind = "save" /\ Sent(r)
  BY <1>1 DEF EditorInv, SentFollows, Sent
<1>3. /\ req[r].token \in Threes /\ req[r].field \in Ordinary /\ Field!Delivered(req[r].token)
      /\ req[r].field = token[req[r].token].field
  BY <1>2 DEF EditorInv, RequestsFollow, RequestFollows, SavesFollow
<1>4. Field!ReceiptsOf(req[r].token) = {} /\ profile[req[r].field].value = token[req[r].token].baseline.value
  BY <1>1 DEF EditorInv, CommitFollows
<1>5. req[r].value \in Field!Values /\ profile[req[r].field].value \in Field!Values
  BY <1>3 DEF EditorInv, Field!TypeOK, Field!Request
<1>6. PICK e \in Field!Receipt : e = [token |-> req[r].token, field |-> req[r].field,
                                      before |-> profile[req[r].field].value, after |-> req[r].value]
  BY <1>3, <1>5 DEF Field!Receipt
<1>7. ledger' = Append(ledger, e)
  BY <1>6 DEF Field!ServerCommit
<1>8. /\ e.token = req[r].token /\ e.field = token[req[r].token].field
      /\ e.before = token[req[r].token].baseline.value /\ e.after = req[r].value
  BY <1>3, <1>4, <1>6
<1>9. ledger' \in Seq(Field!Receipt)
  BY <1>7, Appended
<1>10. PICK n : /\ DOMAIN ledger' = DOMAIN ledger \cup {n} /\ n \notin DOMAIN ledger /\ ledger'[n] = e
                /\ \A k \in DOMAIN ledger : ledger'[k] = ledger[k]
  BY <1>7, Appended
<1>11. \A k \in DOMAIN ledger : ledger[k].token # req[r].token
  BY <1>4 DEF Field!ReceiptsOf
<1>12. durable \in SUBSET Threes /\ late \in SUBSET Threes
  BY DEF EditorInv, Field!TypeOK
<1>13. \A q \in Threes : tx' # Committing(q) /\ tx # [req |-> q, phase |-> "locked"] /\ (tx = Committing(q) <=> q = r)
  <2>1. \A q \in Threes : Committing(r) # [req |-> q, phase |-> "locked"] /\ Field!NoTx # Committing(q)
    BY PeopleAssumption DEF Committing, Field!NoTx
  <2>. QED  BY <1>1, <2>1, CommittingIsOne
<1>14. \A q \in Threes : Sent(q)' <=> Sent(q)
  <2>1. \A q \in Threes : Committing(q)' = Committing(q)
    BY DEF Committing
  <2>. QED  BY <1>1, <1>13, <2>1 DEF Sent
<1>15. Field!TypeOK'
  BY <1>1, <1>3, <1>5, <1>9, <1>12, WrittenHasType DEF EditorInv, Field!TypeOK
<1>16. RequestsFollow' /\ SavesFollow'
  BY <1>1 DEF EditorInv, RequestsFollow, SavesFollow, Field!Delivered
<1>17. LedgerFollows'
  <2>1. \A j \in DOMAIN ledger' : ledger'[j].token # None => Field!Delivered(ledger'[j].token)
    BY <1>3, <1>8, <1>10 DEF EditorInv, LedgerFollows
  <2>2. ASSUME NEW j \in DOMAIN ledger', ledger'[j].token # None
        PROVE  /\ ledger'[j].field = token[ledger'[j].token].field
               /\ ledger'[j].before = token[ledger'[j].token].baseline.value
               /\ \A k \in DOMAIN ledger' : ledger'[k].token = ledger'[j].token => k = j
    <3>1. CASE j = n
      BY <1>8, <1>10, <1>11, <3>1
    <3>2. CASE j # n
      <4>1. j \in DOMAIN ledger /\ ledger'[j] = ledger[j]
        BY <1>10, <3>2
      <4>. QED  BY <1>8, <1>10, <1>11, <2>2, <4>1 DEF EditorInv, LedgerFollows, Field!FormSavesOnce
    <3>. QED  BY <3>1, <3>2
  <2>3. Field!FormSavesOnce'
    BY <1>1, <2>2 DEF Field!FormSavesOnce
  <2>. QED  BY <1>1, <2>1, <2>3 DEF LedgerFollows, Field!Delivered
<1>18. AnswersFollow'
  <2>1. \A q \in Threes : req[q].answer = "saved" =>
          \E k \in DOMAIN ledger' : ledger'[k].token = req[q].token /\ (req[q].kind = "status" \/ ledger'[k].after = req[q].value)
    BY <1>10 DEF EditorInv, AnswersFollow, Field!ReceiptsOf
  <2>. QED  BY <1>1, <2>1 DEF AnswersFollow, Field!ReceiptsOf
<1>19. LockFollows'
  <2>1. \A q \in Threes : req[q].stage \notin {"reauthorize", "verify"}
    BY <1>13 DEF EditorInv, LockFollows
  <2>2. \A q \in Threes : req'[q].stage = "committing" => Sent(q)'
    BY <1>1, <1>14 DEF EditorInv, LockFollows
  <2>. QED  BY <1>1, <2>1, <2>2 DEF LockFollows, Field!NoTx
<1>20. CommitFollows'
  BY <1>13 DEF CommitFollows, Committing
<1>21. SentFollows'
  <2>1. \A q \in Threes : Sent(q)' => /\ req'[q].kind = "save" /\ req'[q].stage \in {"committing", "recover", "done"}
                                      /\ req'[q].answer \notin Denied /\ req'[q].page \notin Denied
    BY <1>1, <1>14 DEF EditorInv, SentFollows
  <2>2. ASSUME NEW q \in durable'
        PROVE  \E k \in DOMAIN ledger' : ledger'[k].token = req[q].token /\ ledger'[k].after = req[q].value
    <3>1. CASE q = r
      BY <1>8, <1>10, <3>1
    <3>2. CASE q # r
      BY <1>1, <1>10, <3>2 DEF EditorInv, SentFollows, Field!ReceiptsOf
    <3>. QED  BY <3>1, <3>2
  <2>. QED  BY <1>1, <2>1, <2>2 DEF SentFollows, Field!ReceiptsOf
<1>22. LateFollows'
  BY <1>1, <1>12, <1>14 DEF EditorInv, LateFollows, Field!Live
<1>. QED  BY <1>15, <1>16, <1>17, <1>18, <1>19, <1>20, <1>21, <1>22 DEF EditorInv

LEMMA ServerRollbackKeeps == ASSUME EditorInv, NEW r \in Threes, Field!ServerRollback(r) PROVE EditorInv'
<1>1. /\ tx # Field!NoTx /\ tx.req = r /\ req[r].stage \notin {"reauthorize", "verify", "committing"} /\ tx' = Field!NoTx
      /\ UNCHANGED <<Field!dbVars, token, expired, req, late>>
  BY DEF Field!ServerRollback, Field!SaveStages
<1>2. /\ profile' = profile /\ ledger' = ledger /\ durable' = durable /\ live' = live
      /\ token' = token /\ req' = req /\ late' = late
  BY <1>1 DEF Field!dbVars
<1>3. durable \in SUBSET Threes /\ late \in SUBSET Threes
  BY DEF EditorInv, Field!TypeOK
<1>4. \A q \in Threes : tx' # Committing(q)
  BY <1>1, PeopleAssumption DEF Committing, Field!NoTx
<1>5. \A q \in Threes : (tx = Committing(q) => q = r) /\ (tx = [req |-> q, phase |-> "locked"] => q = r)
  <2>1. \A q \in Threes : Committing(q).req = q /\ [req |-> q, phase |-> "locked"].req = q
    BY DEF Committing
  <2>. QED  BY <1>1, <2>1
<1>6. \A q \in Threes : (Sent(q)' <=> q \in durable) /\ (q \in durable => Sent(q)) /\ (Sent(q) => q \in durable \/ q = r)
  <2>1. \A q \in Threes : Committing(q)' = Committing(q)
    BY DEF Committing
  <2>. QED  BY <1>2, <1>4, <1>5, <2>1 DEF Sent
<1>7. Field!TypeOK'
  BY <1>1 DEF EditorInv, Field!TypeOK, Field!dbVars
<1>8. RequestsFollow' /\ SavesFollow' /\ LedgerFollows' /\ AnswersFollow'
  BY <1>2 DEF EditorInv, RequestsFollow, SavesFollow, LedgerFollows, AnswersFollow, Field!Delivered,
       Field!ReceiptsOf, Field!FormSavesOnce
<1>9. LockFollows'
  <2>1. \A q \in Threes : req[q].stage \notin {"reauthorize", "verify"}
    BY <1>1, <1>5 DEF EditorInv, LockFollows
  <2>2. \A q \in Threes : req'[q].stage = "committing" => Sent(q)'
    BY <1>1, <1>2, <1>6 DEF EditorInv, LockFollows
  <2>. QED  BY <1>1, <1>2, <2>1, <2>2 DEF LockFollows, Field!NoTx
<1>10. CommitFollows'
  BY <1>4 DEF CommitFollows, Committing
<1>11. SentFollows'
  BY <1>2, <1>6 DEF EditorInv, SentFollows, Field!ReceiptsOf
<1>12. LateFollows'
  BY <1>2, <1>3, <1>6 DEF EditorInv, LateFollows, Field!Live
<1>. QED  BY <1>7, <1>8, <1>9, <1>10, <1>11, <1>12 DEF EditorInv

\* What others do touches neither requests nor the lock, and while COMMIT is
\* under way no values and no receipts.
LEMMA OthersKeep ==
  ASSUME EditorInv, Field!TypeOK', UNCHANGED <<tx, token, req, durable, late>>, live' \subseteq live,
         (profile' = profile /\ ledger' = ledger) \/ \A c \in Threes : tx # Committing(c),
         DOMAIN ledger \subseteq DOMAIN ledger', \A k \in DOMAIN ledger : ledger'[k] = ledger[k],
         \A k \in DOMAIN ledger' : k \notin DOMAIN ledger => ledger'[k].token = None
  PROVE  EditorInv'
<1>1. \A q \in Threes : Sent(q)' = Sent(q) /\ Committing(q)' = Committing(q)
  BY DEF Sent, Committing
<1>2. durable \in SUBSET Threes /\ late \in SUBSET Threes
  BY DEF EditorInv, Field!TypeOK
<1>3. RequestsFollow' /\ SavesFollow'
  BY DEF EditorInv, RequestsFollow, SavesFollow, Field!Delivered
<1>4. LedgerFollows'
  <2>1. \A j \in DOMAIN ledger' : ledger'[j].token # None => j \in DOMAIN ledger /\ ledger'[j] = ledger[j]
    OBVIOUS
  <2>2. \A j \in DOMAIN ledger' : ledger'[j].token # None => Field!Delivered(ledger'[j].token)
    BY <2>1 DEF EditorInv, LedgerFollows
  <2>3. ASSUME NEW j \in DOMAIN ledger', ledger'[j].token # None
        PROVE  /\ ledger'[j].field = token[ledger'[j].token].field
               /\ ledger'[j].before = token[ledger'[j].token].baseline.value
               /\ \A k \in DOMAIN ledger' : ledger'[k].token = ledger'[j].token => k = j
    BY <2>1, <2>3 DEF EditorInv, LedgerFollows, Field!FormSavesOnce
  <2>4. Field!FormSavesOnce'
    BY <2>3 DEF Field!FormSavesOnce
  <2>. QED  BY <2>2, <2>4 DEF LedgerFollows, Field!Delivered
<1>5. AnswersFollow'
  <2>1. \A q \in Threes : req[q].answer = "saved" =>
          \E k \in DOMAIN ledger' : ledger'[k].token = req[q].token /\ (req[q].kind = "status" \/ ledger'[k].after = req[q].value)
    BY DEF EditorInv, AnswersFollow, Field!ReceiptsOf
  <2>. QED  BY <2>1 DEF AnswersFollow, Field!ReceiptsOf
<1>6. LockFollows'
  BY <1>1 DEF EditorInv, LockFollows, Field!NoTx
<1>7. CommitFollows'
  <2>1. CASE profile' = profile /\ ledger' = ledger
    BY <1>1, <2>1 DEF EditorInv, CommitFollows, Field!ReceiptsOf
  <2>2. CASE \A c \in Threes : tx # Committing(c)
    BY <1>1, <2>2 DEF CommitFollows
  <2>. QED  BY <2>1, <2>2
<1>8. SentFollows'
  <2>1. \A q \in durable : \E k \in DOMAIN ledger' : ledger'[k].token = req[q].token /\ ledger'[k].after = req[q].value
    BY DEF EditorInv, SentFollows, Field!ReceiptsOf
  <2>. QED  BY <1>1, <2>1 DEF EditorInv, SentFollows, Field!ReceiptsOf
<1>9. LateFollows'
  BY <1>1, <1>2 DEF EditorInv, LateFollows, Field!Live
<1>. QED  BY <1>3, <1>4, <1>5, <1>6, <1>7, <1>8, <1>9 DEF EditorInv

LEMMA OtherWriterKeeps ==
  ASSUME EditorInv, NEW f \in Ordinary, NEW v \in Field!Choices(f), Field!OtherWriter(f, v) PROVE EditorInv'
<1>1. /\ tx = Field!NoTx /\ profile' = Field!Written(f, v)
      /\ UNCHANGED <<exists, live, imported, active, tx, token, expired, req, durable, late>>
  BY DEF Field!OtherWriter
<1>2. v \in Field!Values /\ profile[f].value \in Field!Values
  BY ChoicesAreValues DEF EditorInv, Field!TypeOK
<1>3. PICK e \in Field!Receipt : e = [token |-> None, field |-> f, before |-> profile[f].value, after |-> v]
  BY <1>2 DEF Field!Receipt
<1>4. ledger' = Append(ledger, e) /\ e.token = None
  BY <1>3 DEF Field!OtherWriter
<1>5. ledger' \in Seq(Field!Receipt)
  BY <1>4, Appended
<1>6. PICK n : /\ DOMAIN ledger' = DOMAIN ledger \cup {n} /\ n \notin DOMAIN ledger /\ ledger'[n] = e
               /\ \A k \in DOMAIN ledger : ledger'[k] = ledger[k]
  BY <1>4, Appended
<1>7. \A c \in Threes : tx # Committing(c)
  BY <1>1, PeopleAssumption DEF Committing, Field!NoTx
<1>8. Field!TypeOK'
  BY <1>1, <1>2, <1>5, WrittenHasType DEF EditorInv, Field!TypeOK
<1>9. \A k \in DOMAIN ledger' : k \notin DOMAIN ledger => ledger'[k].token = None
  BY <1>4, <1>6
<1>. QED  BY <1>1, <1>6, <1>7, <1>8, <1>9, OthersKeep

\* The deletion of a person waits for a transaction that has written.
LEMMA PersonRemovedKeeps == ASSUME EditorInv, Field!PersonRemoved PROVE EditorInv'
<1>1. /\ live' = {} /\ ledger' = ledger /\ exists' = FALSE
      /\ profile' = [f \in Ordinary |-> [value |-> Null, written |-> FALSE]]
      /\ UNCHANGED <<imported, active, ledger, tx, token, expired, req, durable, late>>
  BY DEF Field!PersonRemoved
<1>2. \A c \in Threes : tx # Committing(c)
  <2>1. tx = Field!NoTx \/ tx.phase = "locked"
    BY DEF Field!PersonRemoved
  <2>2. \A c \in Threes : Committing(c) # Field!NoTx /\ Committing(c).phase = "committing"
    BY PeopleAssumption DEF Committing, Field!NoTx
  <2>. QED  BY <2>1, <2>2
<1>3. Field!TypeOK'
  <2>1. Null \in Field!Values
    BY DEF Field!Values
  <2>. QED  BY <1>1, <2>1 DEF EditorInv, Field!TypeOK
<1>. QED  BY <1>1, <1>2, <1>3, OthersKeep

LEMMA EnvironmentKeeps ==
  ASSUME EditorInv,
         \/ \E s \in Sessions : Field!EndSession(s)
         \/ \E t \in Threes : Field!TokenExpires(t)
         \/ \E f \in Ordinary, e \in Imports \cup {None} : Field!ImportChanges(f, e)
         \/ \E k \in Offered : Field!CountryWithdrawn(k)
         \/ UNCHANGED editor
  PROVE  EditorInv'
<1>1. /\ UNCHANGED <<exists, tx, token, req, durable, late>> /\ live' \subseteq live
      /\ profile' = profile /\ ledger' = ledger
  BY DEF Field!EndSession, Field!TokenExpires, Field!ImportChanges, Field!CountryWithdrawn, Field!dbVars, editor
<1>2. imported' \in [Ordinary -> Imports \cup {None}] /\ expired' \in SUBSET Threes /\ active' \in SUBSET Offered
  BY DEF Field!EndSession, Field!TokenExpires, Field!ImportChanges, Field!CountryWithdrawn, Field!dbVars, editor,
     EditorInv, Field!TypeOK
<1>3. Field!TypeOK'
  BY <1>1, <1>2 DEF EditorInv, Field!TypeOK
<1>. QED  BY <1>1, <1>3, OthersKeep

LEMMA EditorGoesOn == EditorInv /\ [Field!Next]_editor => EditorInv'
<1>. SUFFICES ASSUME EditorInv, [Field!Next]_editor PROVE EditorInv'
  OBVIOUS
<1>1. ASSUME NEW r \in Threes, Field!Arrive(r) PROVE EditorInv'
  BY <1>1, EditKeeps, SubmitKeeps, CheckStatusKeeps DEF Field!Arrive
<1>2. ASSUME NEW r \in Threes, Field!Progress(r) PROVE EditorInv'
  BY <1>2, PrepareKeeps, ShowPageKeeps, ValidateKeeps, LookUpReceiptKeeps, BeginKeeps, TakeLockKeepsEditor,
     ReauthorizeKeeps, VerifyKeepsEditor, AcknowledgedKeeps DEF Field!Progress
<1>3. ASSUME NEW r \in Threes, Field!Failure(r) \/ Field!ServerStep(r) PROVE EditorInv'
  BY <1>3, SaveFailsKeeps, OutcomeUnknownKeeps, GivenUpKeeps, ServerCommitKeeps, ServerRollbackKeeps
     DEF Field!Failure, Field!ServerStep
<1>4. CASE Field!Environment
  BY <1>4, OtherWriterKeeps, PersonRemovedKeeps, EnvironmentKeeps DEF Field!Environment
<1>5. CASE UNCHANGED editor
  BY <1>5, EnvironmentKeeps
<1>. QED  BY <1>1, <1>2, <1>3, <1>4, <1>5 DEF Field!Next

THEOREM EditorInvariance == AllSpec => [](part = "field" => EditorInv)
<1>1. AllInit => (part = "field" => EditorInv)
  BY EditorStart DEF AllInit
<1>2. ASSUME part = "field" => EditorInv, [AllNext]_<<part, signin, search, editor, vars>>
      PROVE  (part = "field" => EditorInv)'
  <2>1. part' = part
    BY <1>2 DEF AllNext
  <2>2. part = "field" => [Field!Next]_editor
    BY <1>2 DEF AllNext
  <2>. QED  BY <1>2, <2>1, <2>2, EditorGoesOn
<1>. QED  BY <1>1, <1>2, PTL DEF AllSpec

\* #saveBrowser: however often and from wherever a form is submitted, its token
\* leaves at most one receipt, of a save over what the form showed.
THEOREM FormSavesOnceHolds == AllSpec => []FormSavesOnce
<1>1. (part = "field" => EditorInv) => FormSavesOnce
  BY DEF EditorInv, LedgerFollows, FormSavesOnce
<1>. QED  BY <1>1, EditorInvariance, PTL

\* The outcomes of save and the pages of submit: "saved" is said of changes that
\* have a receipt; who is told that nothing was saved has saved nothing and will not.
THEOREM AnswerIsTrueHolds == AllSpec => []AnswerIsTrue
<1>1. ASSUME EditorInv PROVE Field!AnswerIsTrue
  <2>1. ASSUME NEW r \in Threes, {req[r].answer, req[r].page} \cap {"conflict", "different", "invalid", "nothing_saved"} # {}
        PROVE  r \notin durable /\ tx # [req |-> r, phase |-> "committing"]
    BY <1>1, <2>1 DEF EditorInv, SentFollows, Sent, Denied, Committing
  <2>2. \A r \in Threes : req[r].answer = "saved" =>
          \E k \in Field!ReceiptsOf(req[r].token) : req[r].kind = "status" \/ ledger[k].after = req[r].value
    BY <1>1 DEF EditorInv, AnswersFollow
  <2>. QED  BY <2>1, <2>2 DEF Field!AnswerIsTrue
<1>2. (part = "field" => EditorInv) => AnswerIsTrue
  BY <1>1 DEF AnswerIsTrue
<1>. QED  BY <1>2, EditorInvariance, PTL

\* #lockBrowser: a session that ended while its save waited saves nothing.
THEOREM LateNeverSavesHolds == AllSpec => []LateNeverSaves
<1>1. EditorInv => Field!LateNeverSaves
  BY DEF EditorInv, LateFollows, Sent, Field!LateNeverSaves
<1>2. (part = "field" => EditorInv) => LateNeverSaves
  BY <1>1 DEF LateNeverSaves
<1>. QED  BY <1>2, EditorInvariance, PTL

-----------------------------------------------------------------------------
(* Nationality and the question about the mother                           *)

\* The lock is for one request; what a transaction that has sent COMMIT found
\* of the nationality under it still holds.
IsRequest(q) ==
  q = [kind |-> q.kind, session |-> q.session, token |-> q.token, field |-> q.field, value |-> q.value,
       page |-> q.page, answer |-> q.answer, stage |-> q.stage]
MotherInv ==
  /\ req = [r \in Pairs |-> req[r]] /\ \A r \in Pairs : IsRequest(req[r])
  /\ \A r \in Pairs : req[r].stage \in {"reauthorize", "verify"} => tx = [req |-> r, phase |-> "locked"]
  /\ \A c \in Pairs : tx = Committing(c) =>
       req[c].stage # "idle" /\ (req[c].field = "kuwaitiMother" => Origin!Nationality # Kuwait)
  /\ Origin!MotherRule

\* The request r goes on to stage s, or arrives; the others stay.
GoesTo(r, s) ==
  /\ req' = [c \in Pairs |-> req'[c]] /\ IsRequest(req'[r]) /\ req'[r].stage = s
  /\ \A c \in Pairs \ {r} : req'[c] = req[c]
  /\ req[r].stage # "idle" => s # "idle" /\ req'[r].field = req[r].field

LEMMA RequestGoes ==
  ASSUME MotherInv, NEW r \in Pairs, NEW s, NEW p, NEW a, s # "idle"
  PROVE  /\ Origin!Goto(r, s) => GoesTo(r, s)
         /\ Origin!Answer(r, a) => GoesTo(r, "done")
         /\ Origin!Then(r, s, p) => GoesTo(r, s)
<1>1. /\ req = [c \in Pairs |-> req[c]]
      /\ req[r] = [kind |-> req[r].kind, session |-> req[r].session, token |-> req[r].token,
                   field |-> req[r].field, value |-> req[r].value,
                   page |-> req[r].page, answer |-> req[r].answer, stage |-> req[r].stage]
  BY DEF MotherInv, IsRequest
<1>2. ASSUME Origin!Goto(r, s) PROVE GoesTo(r, s)
  <2>1. req' = [req EXCEPT ![r].stage = s]
    BY <1>2 DEF Origin!Goto
  <2>. QED  BY <1>1, <2>1 DEF GoesTo, IsRequest
<1>3. ASSUME Origin!Answer(r, a) PROVE GoesTo(r, "done")
  <2>1. req' = [req EXCEPT ![r].stage = "done", ![r].answer = a]
    BY <1>3 DEF Origin!Answer
  <2>. QED  BY <1>1, <2>1 DEF GoesTo, IsRequest
<1>4. ASSUME Origin!Then(r, s, p) PROVE GoesTo(r, s)
  <2>1. req' = [req EXCEPT ![r].stage = s, ![r].page = p]
    BY <1>4 DEF Origin!Then
  <2>. QED  BY <1>1, <2>1 DEF GoesTo, IsRequest
<1>. QED  BY <1>2, <1>3, <1>4

\* A step of one request; the lock stays, is given back or is taken.
LEMMA MotherKept ==
  ASSUME MotherInv, NEW r \in Pairs, NEW s, GoesTo(r, s), profile' = profile,
         \/ tx' = tx /\ (s \in {"reauthorize", "verify"} => req[r].stage \in {"reauthorize", "verify"})
         \/ tx' = Origin!NoTx /\ req[r].stage \in {"reauthorize", "verify"} /\ s \notin {"reauthorize", "verify"}
         \/ tx = Origin!NoTx /\ tx' = [req |-> r, phase |-> "locked"]
  PROVE  MotherInv'
<1>1. /\ req' = [c \in Pairs |-> req'[c]] /\ IsRequest(req'[r]) /\ req'[r].stage = s
      /\ \A c \in Pairs \ {r} : req'[c] = req[c]
      /\ req[r].stage # "idle" => s # "idle" /\ req'[r].field = req[r].field
  BY DEF GoesTo
<1>2. Origin!MotherRule' /\ Origin!Nationality' = Origin!Nationality
  BY DEF MotherInv, Origin!MotherRule, Origin!Nationality
<1>3. \A c \in Pairs : IsRequest(req'[c])
  BY <1>1 DEF MotherInv
<1>4. \A c \in Pairs : Committing(c) # [req |-> r, phase |-> "locked"] /\ Committing(c) # Origin!NoTx
                       /\ [req |-> c, phase |-> "locked"] # Origin!NoTx
  BY PeopleAssumption DEF Committing, Origin!NoTx
<1>5. ASSUME NEW c \in Pairs, req'[c].stage \in {"reauthorize", "verify"}
      PROVE  tx' = [req |-> c, phase |-> "locked"]
  <2>1. CASE tx' = tx /\ (s \in {"reauthorize", "verify"} => req[r].stage \in {"reauthorize", "verify"})
    BY <1>1, <1>5, <2>1 DEF MotherInv
  <2>2. CASE tx' = Origin!NoTx /\ req[r].stage \in {"reauthorize", "verify"} /\ s \notin {"reauthorize", "verify"}
    <3>1. c # r /\ req[c].stage \in {"reauthorize", "verify"}
      BY <1>1, <1>5, <2>2
    <3>2. [req |-> c, phase |-> "locked"] = [req |-> r, phase |-> "locked"]
      BY <2>2, <3>1 DEF MotherInv
    <3>. QED  BY <3>1, <3>2
  <2>3. CASE tx = Origin!NoTx /\ tx' = [req |-> r, phase |-> "locked"]
    BY <1>1, <1>4, <1>5, <2>3 DEF MotherInv
  <2>. QED  BY <2>1, <2>2, <2>3
<1>6. ASSUME NEW c \in Pairs, tx' = Committing(c)
      PROVE  req'[c].stage # "idle" /\ (req'[c].field = "kuwaitiMother" => Origin!Nationality # Kuwait)
  <2>1. tx = Committing(c)
    BY <1>4, <1>6
  <2>. QED  BY <1>1, <2>1 DEF MotherInv
<1>. QED  BY <1>1, <1>2, <1>3, <1>5, <1>6 DEF MotherInv, Committing

\* COMMIT is sent for an answer only if the nationality was not Kuwait's.
LEMMA MotherCommits ==
  ASSUME MotherInv, NEW r \in Pairs, GoesTo(r, "committing"), profile' = profile,
         req[r].stage = "verify", Origin!Finding(r) = "write", tx' = [tx EXCEPT !.phase = "committing"]
  PROVE  MotherInv'
<1>1. /\ req' = [c \in Pairs |-> req'[c]] /\ IsRequest(req'[r]) /\ req'[r].stage = "committing"
      /\ \A c \in Pairs \ {r} : req'[c] = req[c]
      /\ req'[r].field = req[r].field
  BY DEF GoesTo
<1>2. Origin!MotherRule' /\ Origin!Nationality' = Origin!Nationality
  BY DEF MotherInv, Origin!MotherRule, Origin!Nationality
<1>3. \A c \in Pairs : IsRequest(req'[c])
  BY <1>1 DEF MotherInv
<1>4. tx = [req |-> r, phase |-> "locked"]
  BY DEF MotherInv
<1>5. tx' = Committing(r)
  BY <1>4 DEF Committing
<1>6. \A c \in Pairs : Committing(c) = Committing(r) => c = r
  BY DEF Committing
<1>7. \A c \in Pairs : req'[c].stage \notin {"reauthorize", "verify"}
  <2>1. ASSUME NEW c \in Pairs, c # r, req[c].stage \in {"reauthorize", "verify"} PROVE FALSE
    <3>1. [req |-> c, phase |-> "locked"] = [req |-> r, phase |-> "locked"]
      BY <1>4, <2>1 DEF MotherInv
    <3>. QED  BY <2>1, <3>1
  <2>. QED  BY <1>1, <2>1
<1>8. req[r].field = "kuwaitiMother" => Origin!Nationality # Kuwait
  <2>1. Origin!Writable(req[r].field, req[r].value)
    BY DEF Origin!Finding
  <2>. QED  BY <2>1 DEF Origin!Writable
<1>9. \A c \in Pairs : tx' = Committing(c) =>
        req'[c].stage # "idle" /\ (req'[c].field = "kuwaitiMother" => Origin!Nationality # Kuwait)
  BY <1>1, <1>5, <1>6, <1>8
<1>. QED  BY <1>1, <1>2, <1>3, <1>7, <1>9 DEF MotherInv, Committing

\* A write of either field, one of the answer only while the nationality is not
\* Kuwait's.
LEMMA WritesKeepMother ==
  ASSUME Origin!MotherRule, NEW f, NEW v, f = "kuwaitiMother" => Origin!Nationality # Kuwait,
         profile' = Origin!Written(f, v)
  PROVE  Origin!MotherRule'
<1>1. profile' = [g \in {"nationality", "kuwaitiMother"} |->
        IF g = f THEN [value |-> v, written |-> TRUE]
        ELSE IF g = "kuwaitiMother" /\ f = "nationality" /\ v = Kuwait
          THEN [value |-> Null, written |-> FALSE]
        ELSE profile[g]]
  BY DEF Origin!Written
<1>2. CASE f = "nationality"
  <2>1. profile'["nationality"].value = v
    BY <1>1, <1>2
  <2>2. v = Kuwait => profile'["kuwaitiMother"].value = Null
    BY <1>1, <1>2
  <2>. QED  BY <2>1, <2>2 DEF Origin!MotherRule, Origin!Nationality
<1>3. CASE f = "kuwaitiMother"
  <2>1. profile'["nationality"] = profile["nationality"]
    BY <1>1, <1>3
  <2>. QED  BY <1>3, <2>1 DEF Origin!MotherRule, Origin!Nationality
<1>4. CASE f \notin {"nationality", "kuwaitiMother"}
  <2>1. profile'["nationality"] = profile["nationality"] /\ profile'["kuwaitiMother"] = profile["kuwaitiMother"]
    BY <1>1, <1>4
  <2>. QED  BY <2>1 DEF Origin!MotherRule, Origin!Nationality
<1>. QED  BY <1>2, <1>3, <1>4

LEMMA MotherStart == Origin!Init => MotherInv
<1>. SUFFICES ASSUME Origin!Init PROVE MotherInv
  OBVIOUS
<1>1. req = [r \in Pairs |-> Origin!NewRequest] /\ tx = Origin!NoTx
      /\ profile = [f \in {"nationality", "kuwaitiMother"} |-> [value |-> Null, written |-> FALSE]]
  BY DEF Origin!Init
<1>2. IsRequest(Origin!NewRequest) /\ Origin!NewRequest.stage = "idle"
  BY DEF IsRequest, Origin!NewRequest
<1>3. \A c \in Pairs : tx # Committing(c)
  BY <1>1, PeopleAssumption DEF Committing, Origin!NoTx
<1>4. Origin!MotherRule
  BY <1>1 DEF Origin!MotherRule
<1>. QED  BY <1>1, <1>2, <1>3, <1>4 DEF MotherInv

LEMMA ArrivalKeepsMother ==
  ASSUME MotherInv, NEW r \in Pairs, NEW q, IsRequest(q), q.stage \notin {"reauthorize", "verify"},
         req[r].stage = "idle", req' = [req EXCEPT ![r] = q], profile' = profile, tx' = tx
  PROVE  MotherInv'
<1>1. req = [c \in Pairs |-> req[c]]
  BY DEF MotherInv
<1>2. GoesTo(r, q.stage)
  BY <1>1 DEF GoesTo
<1>. QED  BY <1>2, MotherKept

LEMMA MotherRequests ==
  ASSUME MotherInv, NEW r \in Pairs, Origin!Arrive(r) \/ Origin!Progress(r) \/ Origin!Failure(r) PROVE MotherInv'
<1>1. ASSUME NEW s \in Sessions, NEW f \in {"nationality", "kuwaitiMother"}, Origin!Edit(r, s, f) PROVE MotherInv'
  <2>1. PICK stage \in {"done", "prepare"}, answer \in {"unauthorized", "ineligible", None} :
          req' = [req EXCEPT ![r] =
            [kind |-> "edit", session |-> s, token |-> None, field |-> f, value |-> Null,
             page |-> "form", stage |-> stage, answer |-> answer]]
    BY <1>1 DEF Origin!Edit
  <2>2. PICK q : q = [kind |-> "edit", session |-> s, token |-> None, field |-> f, value |-> Null,
                      page |-> "form", stage |-> stage, answer |-> answer]
    OBVIOUS
  <2>3. IsRequest(q) /\ q.stage \notin {"reauthorize", "verify"}
    BY <2>2 DEF IsRequest
  <2>4. req' = [req EXCEPT ![r] = q] /\ req[r].stage = "idle" /\ profile' = profile /\ tx' = tx
    BY <1>1, <2>1, <2>2 DEF Origin!Edit, Origin!dbVars
  <2>. QED  BY <2>3, <2>4, ArrivalKeepsMother
<1>2. ASSUME NEW s \in Sessions, NEW t \in Pairs, NEW v, NEW proof, Origin!Submit(r, s, t, v, proof) PROVE MotherInv'
  <2>1. PICK stage \in {"done", "validate"}, answer \in {"unauthorized", "different", None} :
          req' = [req EXCEPT ![r] =
            [kind |-> "save", session |-> s, token |-> t, field |-> token[t].field,
             value |-> v, page |-> None, answer |-> answer, stage |-> stage]]
    BY <1>2 DEF Origin!Submit
  <2>2. PICK q : q = [kind |-> "save", session |-> s, token |-> t, field |-> token[t].field,
                      value |-> v, page |-> None, answer |-> answer, stage |-> stage]
    OBVIOUS
  <2>3. IsRequest(q) /\ q.stage \notin {"reauthorize", "verify"}
    BY <2>2 DEF IsRequest
  <2>4. req' = [req EXCEPT ![r] = q] /\ req[r].stage = "idle" /\ profile' = profile /\ tx' = tx
    BY <1>2, <2>1, <2>2 DEF Origin!Submit, Origin!dbVars
  <2>. QED  BY <2>3, <2>4, ArrivalKeepsMother
<1>3. ASSUME NEW proof \in Origin!Proofs, Origin!CheckStatus(r, proof) PROVE MotherInv'
  <2>1. PICK stage \in {"done", "receipt"}, answer \in {"unauthorized", None} :
          req' = [req EXCEPT ![r] =
            [kind |-> "status", session |-> proof[1], token |-> proof[2], field |-> token[proof[2]].field,
             value |-> proof[3], page |-> None, stage |-> stage, answer |-> answer]]
    BY <1>3 DEF Origin!CheckStatus
  <2>2. PICK q : q = [kind |-> "status", session |-> proof[1], token |-> proof[2], field |-> token[proof[2]].field,
                      value |-> proof[3], page |-> None, stage |-> stage, answer |-> answer]
    OBVIOUS
  <2>3. IsRequest(q) /\ q.stage \notin {"reauthorize", "verify"}
    BY <2>2 DEF IsRequest
  <2>4. req' = [req EXCEPT ![r] = q] /\ req[r].stage = "idle" /\ profile' = profile /\ tx' = tx
    BY <1>3, <2>1, <2>2 DEF Origin!CheckStatus, Origin!dbVars
  <2>. QED  BY <2>3, <2>4, ArrivalKeepsMother
<1>4. ASSUME NEW s \in {"render", "begin", "receipt", "lock", "recover", "prepare"}, NEW p, NEW a,
             Origin!Goto(r, s) \/ Origin!Answer(r, a) \/ Origin!Then(r, s, p), profile' = profile, tx' = tx
      PROVE  MotherInv'
  <2>1. GoesTo(r, s) \/ GoesTo(r, "done")
    BY <1>4, RequestGoes
  <2>. QED  BY <1>4, <2>1, MotherKept
<1>5. ASSUME NEW a, NEW p, Origin!Answer(r, a) \/ Origin!Then(r, "prepare", p), profile' = profile,
             tx' = Origin!NoTx, req[r].stage \in {"reauthorize", "verify"}
      PROVE  MotherInv'
  <2>1. GoesTo(r, "done") \/ GoesTo(r, "prepare")
    BY <1>5, RequestGoes
  <2>. QED  BY <1>5, <2>1, MotherKept
<1>6. CASE Origin!Prepare(r) \/ Origin!ShowPage(r) \/ Origin!Validate(r) \/ Origin!LookUpReceipt(r) \/ Origin!Begin(r)
           \/ Origin!Acknowledged(r) \/ Origin!Failure(r)
  <2>1. profile' = profile /\ tx' = tx
    BY <1>6 DEF Origin!Prepare, Origin!ShowPage, Origin!Validate, Origin!LookUpReceipt, Origin!Begin,
       Origin!Acknowledged, Origin!Failure, Origin!SaveFails, Origin!OutcomeUnknown, Origin!ReadFails,
       Origin!Dropped, Origin!dbVars
  <2>2. PICK s \in {"render", "begin", "receipt", "lock", "recover", "prepare"} :
          \/ Origin!Goto(r, s)
          \/ \E a : Origin!Answer(r, a)
          \/ \E p : Origin!Then(r, s, p)
    BY <1>6 DEF Origin!Prepare, Origin!ShowPage, Origin!Validate, Origin!LookUpReceipt, Origin!Begin,
       Origin!Acknowledged, Origin!Failure, Origin!SaveFails, Origin!OutcomeUnknown, Origin!ReadFails,
       Origin!Dropped
  <2>. QED  BY <1>4, <2>1, <2>2
<1>7. CASE Origin!TakeLock(r)
  <2>1. /\ Origin!Goto(r, "reauthorize") /\ tx = Origin!NoTx /\ tx' = [req |-> r, phase |-> "locked"] /\ profile' = profile
    BY <1>7 DEF Origin!TakeLock, Origin!dbVars
  <2>2. GoesTo(r, "reauthorize")
    BY <2>1, RequestGoes
  <2>. QED  BY <2>1, <2>2, MotherKept
<1>8. CASE Origin!Reauthorize(r)
  <2>1. req[r].stage = "reauthorize" /\ profile' = profile
    BY <1>8 DEF Origin!Reauthorize, Origin!dbVars
  <2>2. CASE Origin!Goto(r, "verify") /\ tx' = tx
    <3>1. GoesTo(r, "verify")
      BY <2>2, RequestGoes
    <3>. QED  BY <2>1, <2>2, <3>1, MotherKept
  <2>3. CASE Origin!Answer(r, "unauthorized") /\ tx' = Origin!NoTx
    BY <1>5, <2>1, <2>3
  <2>. QED  BY <1>8, <2>2, <2>3 DEF Origin!Reauthorize
<1>9. CASE Origin!Verify(r)
  <2>1. req[r].stage = "verify" /\ profile' = profile
    BY <1>9 DEF Origin!Verify, Origin!dbVars
  <2>2. CASE Origin!Finding(r) = "write"
    <3>1. Origin!Goto(r, "committing") /\ tx' = [tx EXCEPT !.phase = "committing"]
      BY <1>9, <2>2 DEF Origin!Verify
    <3>2. GoesTo(r, "committing")
      BY <3>1, RequestGoes
    <3>. QED  BY <2>1, <2>2, <3>1, <3>2, MotherCommits
  <2>3. CASE Origin!Finding(r) # "write"
    <3>1. tx' = Origin!NoTx /\ (\/ Origin!Answer(r, "saved") \/ Origin!Answer(r, "unauthorized")
                                \/ Origin!Then(r, "prepare", "conflict"))
      BY <1>9, <2>3 DEF Origin!Verify
    <3>. QED  BY <1>5, <2>1, <3>1
  <2>. QED  BY <2>2, <2>3
<1>. QED  BY <1>1, <1>2, <1>3, <1>6, <1>7, <1>8, <1>9 DEF Origin!Arrive, Origin!Progress

LEMMA MotherServer == ASSUME MotherInv, NEW r \in Pairs, Origin!ServerStep(r) PROVE MotherInv'
<1>1. tx' = Origin!NoTx /\ req' = req
  BY DEF Origin!ServerStep, Origin!ServerCommit, Origin!ServerRollback
<1>2. \A c \in Pairs : tx' # Committing(c)
  BY <1>1, PeopleAssumption DEF Committing, Origin!NoTx
<1>3. \A c \in Pairs : req[c].stage \in {"reauthorize", "verify"} => c = r /\ tx # Committing(r)
  <2>1. tx.req = r
    BY DEF Origin!ServerStep, Origin!ServerCommit, Origin!ServerRollback
  <2>2. \A c \in Pairs : [req |-> c, phase |-> "locked"].req = c /\ [req |-> c, phase |-> "locked"] # Committing(r)
    BY DEF Committing
  <2>. QED  BY <2>1, <2>2 DEF MotherInv
<1>4. req[r].stage \notin {"reauthorize", "verify"}
  BY <1>3 DEF Origin!ServerStep, Origin!ServerCommit, Origin!ServerRollback, Origin!SaveStages, Committing
<1>5. Origin!MotherRule'
  <2>1. CASE Origin!ServerCommit(r)
    <3>1. tx = Committing(r) /\ profile' = Origin!Written(req[r].field, req[r].value)
      BY <2>1 DEF Origin!ServerCommit, Committing
    <3>2. Origin!MotherRule /\ (req[r].field = "kuwaitiMother" => Origin!Nationality # Kuwait)
      BY <3>1 DEF MotherInv
    <3>. QED  BY <3>1, <3>2, WritesKeepMother
  <2>2. CASE Origin!ServerRollback(r)
    <3>1. profile' = profile
      BY <2>2 DEF Origin!ServerRollback, Origin!dbVars
    <3>. QED  BY <3>1 DEF MotherInv, Origin!MotherRule, Origin!Nationality
  <2>. QED  BY <2>1, <2>2 DEF Origin!ServerStep
<1>. QED  BY <1>1, <1>2, <1>3, <1>4, <1>5 DEF MotherInv, Committing

LEMMA MotherOthers == ASSUME MotherInv, Origin!Environment \/ UNCHANGED editor PROVE MotherInv'
<1>1. tx' = tx /\ req' = req
  BY DEF Origin!Environment, Origin!OtherWriter, Origin!EndSession, Origin!TokenExpires, Origin!ImportChanges,
     Origin!CountryWithdrawn, Origin!PersonRemoved, Origin!dbVars, editor
<1>2. CASE profile' = profile
  BY <1>1, <1>2 DEF MotherInv, Committing, Origin!MotherRule, Origin!Nationality
<1>3. ASSUME NEW f \in {"nationality", "kuwaitiMother"}, NEW v, Origin!OtherWriter(f, v) PROVE MotherInv'
  <2>1. tx = Origin!NoTx /\ profile' = Origin!Written(f, v) /\ Origin!Writable(f, v)
    BY <1>3 DEF Origin!OtherWriter
  <2>2. f = "kuwaitiMother" => Origin!Nationality # Kuwait
    BY <2>1 DEF Origin!Writable
  <2>3. Origin!MotherRule'
    BY <2>1, <2>2, WritesKeepMother DEF MotherInv
  <2>4. \A c \in Pairs : tx' # Committing(c)
    BY <1>1, <2>1, PeopleAssumption DEF Committing, Origin!NoTx
  <2>. QED  BY <1>1, <2>3, <2>4 DEF MotherInv, Committing
<1>4. CASE Origin!PersonRemoved
  <2>1. profile' = [f \in {"nationality", "kuwaitiMother"} |-> [value |-> Null, written |-> FALSE]]
        /\ (tx = Origin!NoTx \/ tx.phase = "locked")
    BY <1>4 DEF Origin!PersonRemoved
  <2>2. \A c \in Pairs : tx' # Committing(c)
    <3>1. \A c \in Pairs : Committing(c) # Origin!NoTx /\ Committing(c).phase = "committing"
      BY PeopleAssumption DEF Committing, Origin!NoTx
    <3>. QED  BY <1>1, <2>1, <3>1
  <2>3. Origin!MotherRule'
    BY <2>1 DEF Origin!MotherRule
  <2>. QED  BY <1>1, <2>2, <2>3 DEF MotherInv, Committing
<1>5. CASE Origin!Environment /\ ~Origin!PersonRemoved /\ profile' # profile
  BY <1>3, <1>5 DEF Origin!Environment, Origin!EndSession, Origin!TokenExpires, Origin!ImportChanges,
     Origin!CountryWithdrawn, Origin!dbVars
<1>. QED  BY <1>2, <1>4, <1>5 DEF editor

THEOREM MotherInvariance == AllSpec => [](part = "origin" => MotherInv)
<1>1. AllInit => (part = "origin" => MotherInv)
  BY MotherStart DEF AllInit
<1>2. ASSUME part = "origin" => MotherInv, [AllNext]_<<part, signin, search, editor, vars>>
      PROVE  (part = "origin" => MotherInv)'
  <2>1. part' = part
    BY <1>2 DEF AllNext
  <2>2. part = "origin" => Origin!Next \/ UNCHANGED editor
    BY <1>2 DEF AllNext
  <2>3. part = "origin" => MotherInv'
    BY <1>2, <2>2, MotherRequests, MotherServer, MotherOthers DEF Origin!Next
  <2>. QED  BY <2>1, <2>3
<1>. QED  BY <1>1, <1>2, PTL DEF AllSpec

\* writeValue and the lock: whoever is recorded as Kuwaiti has not answered the
\* question about a Kuwaiti mother, in whatever order the two are saved.
THEOREM MotherRuleHolds == AllSpec => []MotherRule
<1>1. (part = "origin" => MotherInv) => MotherRule
  BY DEF MotherInv, MotherRule
<1>. QED  BY <1>1, MotherInvariance, PTL

-----------------------------------------------------------------------------
(* Worker jobs: the inductive invariant                                    *)

\* Nothing is recorded before the outcome is decided.
Undecided == {"idle", "acquired", "refused", "work", "settle", "record"}
NotYetRecorded == \A r \in Runs : run[r].stage \in Undecided => log[r] = None

\* A run whose lease was plainly taken over has no way back to it: nothing can
\* grant it a renewal, and once its work has ended it has been told so, or
\* waits for a renewal that will tell it.
NoWayBack(r) ==
  /\ ~StillHeld(r) /\ run[r].renewal # "granted"
  /\ run[r].stage \notin {"idle", "refused"}
  /\ run[r].stage = "settle" => run[r].lost \/ run[r].renewal \in {"sent", "denied"}
  /\ run[r].stage \in {"record", "release"} => run[r].outcome # "succeeded"
  /\ log[r] # "succeeded"

JobInv ==
  /\ TypeOK
  /\ NotYetRecorded
  /\ \A r \in Runs : taken[r] = "plainly" => NoWayBack(r)

-----------------------------------------------------------------------------
(* Worker jobs: every step preserves it                                    *)

\* A takeover condemns a working run that no granted renewal is on its way to,
\* and it condemns nobody else.
LEMMA TakeoverCondemns ==
  ASSUME JobInv, NEW r \in Runs, run[r].stage = "idle", ~lease.live,
         NEW s \in Runs, Takeover(r)[s] = "plainly"
  PROVE  s # r /\ run[s].renewal # "granted" /\ (taken[s] = "plainly" \/ Working(s))
  BY DEF JobInv, NoWayBack, Takeover

LEMMA AcquirePreserves ==
  ASSUME JobInv, None \notin Outcomes, NEW r \in Runs, Acquire(r)
  PROVE  JobInv'
<1>1. CASE ~lease.live /\ lease' = [holder |-> r, live |-> TRUE]
           /\ taken' = Takeover(r) /\ run' = [run EXCEPT ![r].stage = "acquired"]
  <2>1. TypeOK'
    <3>1. lease' \in [holder : Runs \cup {None}, live : BOOLEAN]
      BY <1>1
    <3>2. [run[r] EXCEPT !.stage = "acquired"] \in RunType
      BY DEF JobInv, TypeOK, RunType, Stages
    <3>3. run' \in [Runs -> RunType]
      BY <1>1, <3>2 DEF JobInv, TypeOK
    <3>4. taken' \in [Runs -> {"no", "plainly", "behind a renewal"}]
      BY <1>1 DEF JobInv, TypeOK, Takeover
    <3>5. UNCHANGED <<log, alerted>>
      BY DEF Acquire
    <3>. QED  BY <3>1, <3>3, <3>4, <3>5 DEF JobInv, TypeOK
  <2>2. NotYetRecorded'
    BY <1>1 DEF JobInv, Acquire, TypeOK, RunType, NotYetRecorded, Undecided
  <2>3. ASSUME NEW s \in Runs, taken'[s] = "plainly" PROVE NoWayBack(s)'
    <3>1. s # r /\ run[s].renewal # "granted" /\ (taken[s] = "plainly" \/ Working(s))
      BY <1>1, <2>3, TakeoverCondemns DEF Acquire
    <3>2. run'[s] = run[s] /\ log' = log /\ ~StillHeld(s)'
      BY <1>1, <3>1 DEF JobInv, TypeOK, Acquire, StillHeld
    <3>3. CASE taken[s] = "plainly"
      BY <3>2, <3>3 DEF JobInv, NoWayBack
    <3>4. CASE Working(s)
      BY <3>1, <3>2, <3>4 DEF JobInv, NoWayBack, NotYetRecorded, Undecided, Working, Outcomes
    <3>. QED  BY <3>1, <3>3, <3>4
  <2>. QED  BY <2>1, <2>2, <2>3 DEF JobInv
<1>2. CASE UNCHANGED <<lease, taken>>
           /\ run' = [run EXCEPT ![r].stage = "refused", ![r].outcome = "refused_overlap"]
  <2>1. run[r].stage = "idle" /\ UNCHANGED <<log, alerted>>
    BY DEF Acquire
  <2>2. TypeOK' /\ NotYetRecorded'
    <3> DEFINE x == [run[r] EXCEPT !.stage = "refused", !.outcome = "refused_overlap"]
    <3>1. x \in RunType /\ x.stage = "refused"
      BY DEF JobInv, TypeOK, RunType, Stages, Outcomes
    <3>2. run' = [run EXCEPT ![r] = x]
      BY <1>2
    <3>. HIDE DEF x
    <3>3. TypeOK'
      <4>1. run' \in [Runs -> RunType]
        BY <3>1, <3>2 DEF JobInv, TypeOK
      <4>. QED  BY <1>2, <2>1, <4>1 DEF JobInv, TypeOK
    <3>4. \A s \in Runs : run'[s].stage \in Undecided => run[s].stage \in Undecided
      BY <2>1, <3>1, <3>2 DEF JobInv, TypeOK, Undecided
    <3>. QED  BY <2>1, <3>3, <3>4 DEF JobInv, NotYetRecorded
  <2>3. ASSUME NEW s \in Runs, taken'[s] = "plainly" PROVE NoWayBack(s)'
    <3>1. NoWayBack(s) /\ s # r
      BY <1>2, <2>1, <2>3 DEF JobInv, NoWayBack
    <3>. QED  BY <1>2, <2>1, <3>1 DEF JobInv, TypeOK, NoWayBack, StillHeld
  <2>. QED  BY <2>2, <2>3 DEF JobInv
<1>. QED  BY <1>1, <1>2 DEF Acquire

\* A step of run r that leaves the lease and the takeovers alone, and leaves r
\* no way back if it had none.
LEMMA OwnStepPreserves ==
  ASSUME JobInv, NEW r \in Runs, UNCHANGED <<lease, taken>>, alerted' \subseteq Runs,
         NEW x \in RunType, run' = [run EXCEPT ![r] = x],
         NEW o \in Outcomes \cup {None}, log' = [log EXCEPT ![r] = o],
         x.stage \in Undecided => o = None,
         taken[r] = "plainly" => NoWayBack(r)'
  PROVE  JobInv'
<1>1. TypeOK' /\ NotYetRecorded'
  BY DEF JobInv, TypeOK, NotYetRecorded
<1>2. ASSUME NEW s \in Runs, taken'[s] = "plainly" PROVE NoWayBack(s)'
  <2>1. CASE s = r
    BY <1>2, <2>1
  <2>2. CASE s # r
    BY <1>2, <2>2 DEF JobInv, TypeOK, NoWayBack, StillHeld
  <2>. QED  BY <2>1, <2>2
<1>. QED  BY <1>1, <1>2 DEF JobInv

LEMMA QuietStepPreserves ==
  ASSUME JobInv, NEW r \in Runs, UNCHANGED <<lease, log, alerted, taken>>,
         NEW x \in RunType, run' = [run EXCEPT ![r] = x],
         x.stage \in Undecided => run[r].stage \in Undecided,
         taken[r] = "plainly" => NoWayBack(r)'
  PROVE  JobInv'
<1>1. log[r] \in Outcomes \cup {None} /\ log' = [log EXCEPT ![r] = log[r]] /\ alerted' \subseteq Runs
  BY DEF JobInv, TypeOK
<1>2. x.stage \in Undecided => log[r] = None
  BY DEF JobInv, NotYetRecorded
<1>. QED  BY <1>1, <1>2, OwnStepPreserves

\* The steps of a run that has, or had, the lease until its outcome is decided.
LEMMA WorkPreserves ==
  ASSUME JobInv, NEW r \in Runs,
         \/ Begin(r) \/ SendRenewal(r) \/ ServerRenews(r) \/ RenewalAnswered(r)
         \/ RenewalThrows(r) \/ (\E o \in {"succeeded", "failed"} : WorkEnds(r, o)) \/ Settle(r)
  PROVE  JobInv'
<1>1. run \in [Runs -> RunType] /\ run[r] \in RunType
  BY DEF JobInv, TypeOK
<1>2. CASE Begin(r)
  <2> DEFINE x == [run[r] EXCEPT !.stage = "work"]
  <2>1. UNCHANGED <<lease, log, alerted, taken>> /\ run' = [run EXCEPT ![r] = x]
    BY <1>2 DEF Begin
  <2>2. x \in RunType /\ (x.stage \in Undecided => run[r].stage \in Undecided)
    BY <1>2, <1>1 DEF Begin, RunType, Stages, Undecided
  <2>3. ASSUME taken[r] = "plainly" PROVE NoWayBack(r)'
    BY <1>2, <1>1, <2>1, <2>2, <2>3 DEF JobInv, NoWayBack, StillHeld, Begin
  <2>. QED  BY <2>1, <2>2, <2>3, QuietStepPreserves
<1>3. CASE SendRenewal(r)
  <2> DEFINE x == [run[r] EXCEPT !.renewal = "sent"]
  <2>1. UNCHANGED <<lease, log, alerted, taken>> /\ run' = [run EXCEPT ![r] = x]
    BY <1>3 DEF SendRenewal
  <2>2. x \in RunType /\ (x.stage \in Undecided => run[r].stage \in Undecided)
    BY <1>3, <1>1 DEF SendRenewal, RunType, Stages, Undecided
  <2>3. ASSUME taken[r] = "plainly" PROVE NoWayBack(r)'
    BY <1>3, <1>1, <2>1, <2>2, <2>3 DEF JobInv, NoWayBack, StillHeld, SendRenewal
  <2>. QED  BY <2>1, <2>2, <2>3, QuietStepPreserves
<1>4. CASE ServerRenews(r)
  <2> DEFINE x == [run[r] EXCEPT !.renewal = IF StillHeld(r) THEN "granted" ELSE "denied"]
  <2>1. UNCHANGED <<lease, log, alerted, taken>> /\ run' = [run EXCEPT ![r] = x]
    BY <1>4 DEF ServerRenews
  <2>2. x \in RunType /\ (x.stage \in Undecided => run[r].stage \in Undecided)
    BY <1>4, <1>1 DEF ServerRenews, RunType, Stages, Undecided
  <2>3. ASSUME taken[r] = "plainly" PROVE NoWayBack(r)'
    BY <1>4, <1>1, <2>1, <2>2, <2>3 DEF JobInv, NoWayBack, StillHeld, ServerRenews
  <2>. QED  BY <2>1, <2>2, <2>3, QuietStepPreserves
<1>5. CASE RenewalAnswered(r)
  <2> DEFINE x == [run[r] EXCEPT !.renewal = "none", !.lost = @ \/ run[r].renewal = "denied"]
  <2>1. UNCHANGED <<lease, log, alerted, taken>> /\ run' = [run EXCEPT ![r] = x]
    BY <1>5 DEF RenewalAnswered
  <2>2. x \in RunType /\ (x.stage \in Undecided => run[r].stage \in Undecided)
    BY <1>5, <1>1 DEF RenewalAnswered, RunType, Stages, Undecided
  <2>3. ASSUME taken[r] = "plainly" PROVE NoWayBack(r)'
    <3>1. NoWayBack(r) /\ run[r].renewal = "denied"
      BY <1>5, <2>3 DEF JobInv, NoWayBack, RenewalAnswered
    <3>2. x.lost /\ x.renewal = "none" /\ x.stage = run[r].stage /\ x.outcome = run[r].outcome
      BY <3>1, <1>1 DEF RunType
    <3>. QED  BY <1>1, <2>1, <3>1, <3>2 DEF NoWayBack, StillHeld
  <2>. QED  BY <2>1, <2>2, <2>3, QuietStepPreserves
<1>6. CASE RenewalThrows(r)
  <2> DEFINE x == [run[r] EXCEPT !.renewal = "none", !.lost = TRUE]
  <2>1. UNCHANGED <<lease, log, alerted, taken>> /\ run' = [run EXCEPT ![r] = x]
    BY <1>6 DEF RenewalThrows
  <2>2. x \in RunType /\ (x.stage \in Undecided => run[r].stage \in Undecided)
    BY <1>6, <1>1 DEF RenewalThrows, RunType, Stages, Undecided
  <2>3. ASSUME taken[r] = "plainly" PROVE NoWayBack(r)'
    BY <1>6, <1>1, <2>1, <2>2, <2>3 DEF JobInv, NoWayBack, StillHeld, RenewalThrows
  <2>. QED  BY <2>1, <2>2, <2>3, QuietStepPreserves
<1>7. CASE \E o \in {"succeeded", "failed"} : WorkEnds(r, o)
  <2>1. PICK o \in {"succeeded", "failed"} : WorkEnds(r, o)
    BY <1>7
  <2> DEFINE x == [run[r] EXCEPT !.stage = "settle", !.outcome = o, !.renewal = FinalRenewal(r)]
  <2>2. UNCHANGED <<lease, log, alerted, taken>> /\ run' = [run EXCEPT ![r] = x]
    BY <2>1 DEF WorkEnds
  <2>3. x \in RunType /\ (x.stage \in Undecided => run[r].stage \in Undecided)
    BY <2>1, <1>1 DEF WorkEnds, FinalRenewal, RunType, Stages, Outcomes, Undecided
  <2>4. ASSUME taken[r] = "plainly" PROVE NoWayBack(r)'
    BY <1>1, <2>1, <2>2, <2>3, <2>4 DEF JobInv, NoWayBack, StillHeld, FinalRenewal, RunType
  <2>. QED  BY <2>2, <2>3, <2>4, QuietStepPreserves
<1>8. CASE Settle(r)
  <2> DEFINE x == [run[r] EXCEPT !.stage = "record", !.outcome = IF run[r].lost THEN "failed" ELSE @]
  <2>1. UNCHANGED <<lease, log, alerted, taken>> /\ run' = [run EXCEPT ![r] = x]
    BY <1>8 DEF Settle
  <2>2. x \in RunType /\ (x.stage \in Undecided => run[r].stage \in Undecided)
    BY <1>8, <1>1 DEF Settle, RunType, Stages, Outcomes, Undecided
  <2>3. ASSUME taken[r] = "plainly" PROVE NoWayBack(r)'
    BY <1>8, <1>1, <2>1, <2>2, <2>3 DEF JobInv, NoWayBack, StillHeld, Settle
  <2>. QED  BY <2>1, <2>2, <2>3, QuietStepPreserves
<1>. QED  BY <1>2, <1>3, <1>4, <1>5, <1>6, <1>7, <1>8

\* The steps of a run without a lease, and those after its outcome is decided.
LEMMA EndPreserves ==
  ASSUME JobInv, None \notin Outcomes, NEW r \in Runs,
         \/ AcquireThrows(r) \/ Dies(r)
         \/ (\E ok \in BOOLEAN : RecordRefusal(r, ok) \/ Record(r, ok) \/ Release(r, ok))
  PROVE  JobInv'
<1>1. run \in [Runs -> RunType] /\ run[r] \in RunType /\ log \in [Runs -> Outcomes \cup {None}]
  BY DEF JobInv, TypeOK
<1>2. CASE AcquireThrows(r)
  <2> DEFINE x == [run[r] EXCEPT !.stage = "done", !.outcome = None]
  <2>1. UNCHANGED <<lease, log, alerted, taken>> /\ run' = [run EXCEPT ![r] = x]
    BY <1>2 DEF AcquireThrows
  <2>2. x \in RunType /\ x.stage \notin Undecided
    BY <1>2, <1>1 DEF RunType, Stages, Undecided
  <2>3. ASSUME taken[r] = "plainly" PROVE NoWayBack(r)'
    BY <1>1, <2>1, <2>2, <2>3 DEF JobInv, NoWayBack, StillHeld
  <2>. QED  BY <2>1, <2>2, <2>3, QuietStepPreserves
<1>3. CASE Dies(r)
  <2> DEFINE x == [run[r] EXCEPT !.stage = "dead", !.renewal = "none"]
  <2>1. UNCHANGED <<lease, log, alerted, taken>> /\ run' = [run EXCEPT ![r] = x]
    BY <1>3 DEF Dies
  <2>2. x \in RunType /\ x.stage \notin Undecided
    BY <1>3, <1>1 DEF RunType, Stages, Undecided
  <2>3. ASSUME taken[r] = "plainly" PROVE NoWayBack(r)'
    BY <1>1, <2>1, <2>2, <2>3 DEF JobInv, NoWayBack, StillHeld
  <2>. QED  BY <2>1, <2>2, <2>3, QuietStepPreserves
<1>4. ASSUME NEW ok \in BOOLEAN, RecordRefusal(r, ok) \/ Record(r, ok) PROVE JobInv'
  <2> DEFINE x == [run[r] EXCEPT !.stage = IF Record(r, ok) THEN "release" ELSE "done"]
             o == log'[r]
  <2>1. UNCHANGED <<lease, alerted, taken>> /\ run' = [run EXCEPT ![r] = x]
    BY <1>4 DEF RecordRefusal, Record
  <2>2. log' = [log EXCEPT ![r] = o] /\ o \in Outcomes \cup {None} /\ alerted' \subseteq Runs
    BY <1>4, <1>1 DEF JobInv, TypeOK, RecordRefusal, Record, RunType, Outcomes
  <2>3. x \in RunType /\ x.stage \notin Undecided
    BY <1>1 DEF RunType, Stages, Undecided
  <2>4. ASSUME taken[r] = "plainly" PROVE NoWayBack(r)'
    <3>1. NoWayBack(r)
      BY <2>4 DEF JobInv
    <3>2. Record(r, ok) /\ run[r].outcome # "succeeded"
      BY <1>4, <3>1 DEF NoWayBack, RecordRefusal, Record
    <3>. QED  BY <1>1, <2>1, <3>1, <3>2 DEF NoWayBack, StillHeld, Record
  <2>. QED  BY <2>1, <2>2, <2>3, <2>4, OwnStepPreserves
<1>5. ASSUME NEW ok \in BOOLEAN, Release(r, ok) PROVE JobInv'
  <2>1. run' = [run EXCEPT ![r].stage = "done"] /\ lease' \in {lease, Free} /\ UNCHANGED <<log, taken>>
    BY <1>5 DEF Release, Released
  <2>2. TypeOK' /\ NotYetRecorded'
    <3>1. run' \in [Runs -> RunType]
      BY <1>1, <2>1 DEF RunType, Stages
    <3>2. lease' \in [holder : Runs \cup {None}, live : BOOLEAN] /\ alerted' \subseteq Runs
      BY <1>5 DEF JobInv, TypeOK, Release, Released, Free
    <3>3. \A s \in Runs : run'[s].stage \in Undecided => run[s].stage \in Undecided
      BY <1>1, <2>1 DEF Undecided
    <3>. QED  BY <2>1, <3>1, <3>2, <3>3 DEF JobInv, TypeOK, NotYetRecorded
  <2>3. ASSUME NEW s \in Runs, taken'[s] = "plainly" PROVE NoWayBack(s)'
    <3>1. NoWayBack(s)
      BY <2>1, <2>3 DEF JobInv
    <3>. QED  BY <1>1, <2>1, <3>1 DEF NoWayBack, StillHeld, Free
  <2>. QED  BY <2>2, <2>3 DEF JobInv
<1>. QED  BY <1>2, <1>3, <1>4, <1>5

-----------------------------------------------------------------------------
(* Worker jobs: the theorems                                               *)

\* The invariant holds of every reachable state (None stands for "no
\* outcome", so it must not be one).
THEOREM JobInvariance ==
  ASSUME None \notin Outcomes
  PROVE  Spec => []JobInv
<1>1. Init => JobInv
  BY DEF Init, JobInv, TypeOK, NotYetRecorded, Undecided, RunType, NewRun, Stages, Free
<1>2. ASSUME JobInv, [Next]_vars PROVE JobInv'
  <2>1. ASSUME NEW r \in Runs, Acquire(r) PROVE JobInv'
    BY <1>2, <2>1, AcquirePreserves
  <2>2. ASSUME NEW r \in Runs,
               \/ Begin(r) \/ SendRenewal(r) \/ ServerRenews(r) \/ RenewalAnswered(r)
               \/ RenewalThrows(r) \/ (\E o \in {"succeeded", "failed"} : WorkEnds(r, o)) \/ Settle(r)
        PROVE JobInv'
    BY <1>2, <2>2, WorkPreserves
  <2>3. ASSUME NEW r \in Runs,
               \/ AcquireThrows(r) \/ Dies(r)
               \/ (\E ok \in BOOLEAN : RecordRefusal(r, ok) \/ Record(r, ok) \/ Release(r, ok))
        PROVE JobInv'
    BY <1>2, <2>3, EndPreserves
  <2>4. CASE Expires
    <3>1. TypeOK' /\ NotYetRecorded'
      BY <1>2, <2>4 DEF JobInv, TypeOK, NotYetRecorded, Undecided, Expires
    <3>2. ASSUME NEW s \in Runs, taken'[s] = "plainly" PROVE NoWayBack(s)'
      BY <1>2, <2>4, <3>2 DEF JobInv, TypeOK, NoWayBack, StillHeld, Expires
    <3>. QED  BY <3>1, <3>2 DEF JobInv
  <2>5. CASE UNCHANGED vars
    BY <1>2, <2>5 DEF JobInv, TypeOK, NotYetRecorded, Undecided, NoWayBack, StillHeld, vars
  <2>. QED  BY <1>2, <2>1, <2>2, <2>3, <2>4, <2>5 DEF Next
<1>. QED  BY <1>1, <1>2, PTL DEF Spec

\* Type correctness of the runs.
THEOREM JobTypeCorrect ==
  ASSUME None \notin Outcomes
  PROVE  Spec => []TypeOK
<1>1. JobInv => TypeOK
  BY DEF JobInv
<1>. QED  BY <1>1, JobInvariance, PTL

\* A run whose lease was taken over while it worked, with no granted renewal on
\* its way back to it, is never recorded as succeeded (runJob's final renew()).
THEOREM SupersededFailsHolds ==
  ASSUME None \notin Outcomes
  PROVE  Spec => []SupersededFails
<1>1. JobInv => SupersededFails
  BY DEF JobInv, NoWayBack, SupersededFails
<1>. QED  BY <1>1, JobInvariance, PTL
=============================================================================
