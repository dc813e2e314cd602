---------------------------- MODULE ProfileSave ----------------------------
(***************************************************************************)
(* Single-Save editing of one's own profile in the browser: the edit form, *)
(* its save, the recovery of a save whose outcome is unknown               *)
(* (apps/gateway/src/profile-browser-edit-http.ts) and the transaction     *)
(* that applies it (packages/db/src/person-profile-store.ts).              *)
(*                                                                         *)
(* Everything here is keyed by one principal: the advisory lock, the       *)
(* profile row, the sessions, the tokens and the receipts.  So the module  *)
(* follows one person, whose browsers send requests to any number of       *)
(* gateway processes; the processes keep nothing in memory between two     *)
(* requests.  An action is what the code does between two awaits; reads    *)
(* that nothing can separate (they run under the lock, or commute with     *)
(* what could come between them) are one action.                           *)
(*                                                                         *)
(* Abstractions.  A token is named by the request that issued it.  Digests *)
(* are injective, so comparing them is comparing what they cover.  A       *)
(* submitted "" is Null, which is what the code stores for it.             *)
(* Syntactic refusals of a field's value touch no state and are left out,  *)
(* and so are recovery_unavailable (the wiring keeps one signing key for   *)
(* ever) and the retry after a duplicate token reference, which the lock   *)
(* makes unreachable.                                                      *)
(***************************************************************************)
EXTENDS Naturals, Sequences

CONSTANTS
  Requests,     \* the requests of one behaviour (bound)
  Sessions,     \* the person's login sessions
  Fields,       \* the fields edited; the origin fields have rules of their own
  Countries,    \* catalogue countries, the nationalities to choose from
  Kuwait,       \* the one whose code is KW
  Texts,        \* the values of any other field
  Imports,      \* evidences of imported values
  Null,         \* SQL NULL
  None,         \* nothing
  MaxReceipts   \* bound on the ledger: how often another writer may write

VARIABLES
  exists,       \* the principal is registered
  live,         \* the sessions that are neither ended nor expired
  profile,      \* table person_profiles: field -> value and "written_at is set"
  imported,     \* field -> the imported evidence shown while it is unwritten
  active,       \* the countries the catalogue offers
  ledger,       \* the receipts, in commit order
  tx,           \* the transaction that holds the principal's lock
  token,        \* request -> the token it issued
  expired,      \* tokens past their expiresAt
  req,          \* the requests being served
  durable,      \* history: the requests whose save the server committed
  late          \* history: those whose session had ended when they got the lock

vars == <<exists, live, profile, imported, active, ledger, tx, token, expired, req, durable, late>>
dbVars == <<exists, live, profile, imported, active, ledger, durable>>

----------------------------------------------------------------------------

Values == Countries \cup Texts \cup {Null, "true"}

\* The values a form of the field can submit; a nationality cannot be cleared.
Choices(f) ==
  CASE f = "nationality"   -> Countries
    [] f = "kuwaitiMother" -> {"true", Null}
    [] OTHER               -> Texts \cup {Null}

NoToken == [field |-> None, baseline |-> None]
Baseline == [value : Values, shown : Imports \cup {None}]
Token == [field : Fields, baseline : Baseline]

NoTx == [req |-> None, phase |-> None]
Tx == [req : Requests, phase : {"locked", "committing"}]

Receipt ==
  [token : Requests \cup {None}, field : Fields, before : Values, after : Values]

\* Pages that offer the same change again, with a proof that binds it to the
\* session; pages that refuse; and the others.  "dropped" died with its process.
Recoveries == {"unknown", "nothing_saved", "no_receipt"}
Forms == {"form", "conflict"}
Answers == Recoveries \cup Forms \cup
  {"saved", "unauthorized", "ineligible", "invalid", "different", "unavailable", "dropped"}

\* What a request awaits: the prepare transaction, the last authorization
\* before a form or a recovery page, the availability of the value, the receipt
\* lookup, and the save: its BEGIN, the lock, the session again, the checks and
\* writes, the acknowledgement of COMMIT.
SaveStages == {"lock", "reauthorize", "verify"}
Stages == {"idle", "prepare", "render", "recover", "validate", "receipt", "begin",
           "committing", "done"} \cup SaveStages

Request ==
  [kind : {"edit", "save", "status", None}, stage : Stages,
   session : Sessions \cup {None}, token : Requests \cup {None},
   field : Fields \cup {None}, value : Values,
   page : Answers \cup {None}, answer : Answers \cup {None}]

NewRequest ==
  [kind |-> None, stage |-> "idle", session |-> None, token |-> None,
   field |-> None, value |-> Null, page |-> None, answer |-> None]

Goto(r, s) == req' = [req EXCEPT ![r].stage = s]
Answer(r, a) == req' = [req EXCEPT ![r].stage = "done", ![r].answer = a]
\* The page to show once the session is authorized again.
Then(r, s, page) == req' = [req EXCEPT ![r].stage = s, ![r].page = page]

Active(r) == req[r].stage \notin {"idle", "done"}
Live(r) == req[r].session \in live

Init ==
  /\ exists = TRUE
  /\ live = Sessions
  /\ profile = [f \in Fields |-> [value |-> Null, written |-> FALSE]]
  /\ imported \in [Fields -> Imports \cup {None}]
  /\ active = Countries
  /\ ledger = <<>>
  /\ tx = NoTx
  /\ token = [r \in Requests |-> NoToken]
  /\ expired = {}
  /\ req = [r \in Requests |-> NewRequest]
  /\ durable = {}
  /\ late = {}

----------------------------------------------------------------------------
(* Reads                                                                   *)

Nationality == IF "nationality" \in Fields THEN profile["nationality"].value ELSE Null

\* canEdit: the question applies to a recorded, offered nationality not Kuwait's.
MotherEligible == Nationality \in active \ {Kuwait}

\* store.validate, before the save.
Available(f, v) ==
  CASE f = "nationality"   -> v \in active
    [] f = "kuwaitiMother" -> MotherEligible
    [] OTHER               -> TRUE

\* What the form shows: the stored value, and the imported one only while the
\* field was never written; a cleared field hides the import.
CurrentBaseline(f) ==
  [value |-> profile[f].value,
   shown |-> IF profile[f].written THEN None ELSE imported[f]]

\* The receipts of a token.
ReceiptsOf(t) == {k \in DOMAIN ledger : ledger[k].token = t}

\* A token is in the browser once its form was sent; a recovery page's proof
\* binds session, token and value.
Delivered(t) == req[t].answer \in Forms
Proofs ==
  {<<req[r].session, req[r].token, req[r].value>> :
     r \in {q \in Requests : req[q].answer \in Recoveries}}

----------------------------------------------------------------------------
(* Requests                                                                *)

\* GET /profile/edit/<field>.
Edit(r, s, f) ==
  /\ req[r].stage = "idle"
  /\ req' = [req EXCEPT ![r] =
       [kind |-> "edit", session |-> s, token |-> None, field |-> f, value |-> Null,
        page |-> "form",
        stage |-> IF s \notin live \/ (f = "kuwaitiMother" /\ ~MotherEligible)
                    THEN "done" ELSE "prepare",
        answer |-> IF s \notin live THEN "unauthorized"
                   ELSE IF f = "kuwaitiMother" /\ ~MotherEligible THEN "ineligible"
                   ELSE None]]
  /\ UNCHANGED <<dbVars, tx, token, expired, late>>

\* POST .../save, from a form or, with a proof, from a recovery page.  The
\* proof lets only the change it was made for through.
Submit(r, s, t, v, proof) ==
  LET refusal == IF s \notin live THEN "unauthorized"
                 ELSE IF proof # None /\ proof # <<s, t, v>> THEN "different"
                 ELSE None
  IN /\ req[r].stage = "idle" /\ Delivered(t)
     /\ req' = [req EXCEPT ![r] =
          [kind |-> "save", session |-> s, token |-> t, field |-> token[t].field,
           value |-> v, page |-> None, answer |-> refusal,
           stage |-> IF refusal = None THEN "validate" ELSE "done"]]
     /\ UNCHANGED <<dbVars, tx, token, expired, late>>

\* POST .../status, only with a proof.
CheckStatus(r, proof) ==
  /\ req[r].stage = "idle"
  /\ req' = [req EXCEPT ![r] =
       [kind |-> "status", session |-> proof[1], token |-> proof[2],
        field |-> token[proof[2]].field, value |-> proof[3], page |-> None,
        stage |-> IF proof[1] \in live THEN "receipt" ELSE "done",
        answer |-> IF proof[1] \in live THEN None ELSE "unauthorized"]]
  /\ UNCHANGED <<dbVars, tx, token, expired, late>>

\* A form is issued: one read-only transaction under the lock.
Prepare(r) ==
  /\ req[r].stage = "prepare" /\ tx = NoTx
  /\ IF Live(r) /\ exists
       THEN /\ token' = [token EXCEPT ![r] =
                 [field |-> req[r].field, baseline |-> CurrentBaseline(req[r].field)]]
            /\ Goto(r, "render")
       ELSE Answer(r, "unauthorized") /\ UNCHANGED token
  /\ UNCHANGED <<dbVars, tx, expired, late>>

\* The session is authorized once more before a page that shows the value.
ShowPage(r) ==
  /\ req[r].stage \in {"render", "recover"}
  /\ Answer(r, IF Live(r) THEN req[r].page ELSE "unauthorized")
  /\ UNCHANGED <<dbVars, tx, token, expired, late>>

\* A value that is not available is saved already, or refused.
Validate(r) ==
  /\ req[r].stage = "validate"
  /\ Goto(r, IF Available(req[r].field, req[r].value) THEN "begin" ELSE "receipt")
  /\ UNCHANGED <<dbVars, tx, token, expired, late>>

\* receiptStatus: one read-only transaction under the lock.
LookUpReceipt(r) ==
  /\ req[r].stage = "receipt" /\ tx = NoTx
  /\ \/ ~Live(r) /\ Answer(r, "unauthorized")
     \/ /\ Live(r)
        /\ \E k \in ReceiptsOf(req[r].token) :
             req[r].kind = "status" \/ ledger[k].after = req[r].value
        /\ Answer(r, "saved")
     \/ /\ Live(r) /\ req[r].kind = "status" /\ ReceiptsOf(req[r].token) = {}
        /\ Then(r, "recover", "no_receipt")
     \/ /\ Live(r) /\ req[r].kind = "save"
        /\ \A k \in ReceiptsOf(req[r].token) : ledger[k].after # req[r].value
        /\ Then(r, "render", "invalid")
  /\ UNCHANGED <<dbVars, tx, token, expired, late>>

----------------------------------------------------------------------------
(* The save transaction                                                    *)

\* The session is authorized before anything is awaited for.
Begin(r) ==
  /\ req[r].stage = "begin"
  /\ IF Live(r) THEN Goto(r, "lock") ELSE Answer(r, "unauthorized")
  /\ UNCHANGED <<dbVars, tx, token, expired, late>>

TakeLock(r) ==
  /\ req[r].stage = "lock" /\ tx = NoTx
  /\ tx' = [req |-> r, phase |-> "locked"]
  /\ late' = IF Live(r) THEN late ELSE late \cup {r}
  /\ Goto(r, "reauthorize")
  /\ UNCHANGED <<dbVars, token, expired>>

\* Mutant: the session is not authorized again under the lock.
ReauthorizeSkipped(r) ==
  /\ req[r].stage = "reauthorize"
  /\ Goto(r, "verify")
  /\ UNCHANGED <<dbVars, tx, token, expired, late>>

\* A revocation committed while the request waited for the lock is seen here.
Reauthorize(r) ==
  /\ req[r].stage = "reauthorize"
  /\ IF Live(r)
       THEN Goto(r, "verify") /\ UNCHANGED tx
       ELSE Answer(r, "unauthorized") /\ tx' = NoTx
  /\ UNCHANGED <<dbVars, token, expired, late>>

\* writeValue refuses a country that is no longer offered, and the question
\* about the mother of a Kuwaiti.
Writable(f, v) ==
  CASE f = "nationality"   -> v \in active
    [] f = "kuwaitiMother" -> Nationality # Kuwait
    [] OTHER               -> TRUE

\* Mutant: the mother answer survives a change to Kuwaiti nationality.
WrittenAlone(f, v) == [profile EXCEPT ![f] = [value |-> v, written |-> TRUE]]

\* The profile after the write: Kuwaiti nationality withdraws the mother answer.
Written(f, v) ==
  [g \in Fields |->
     IF g = f THEN [value |-> v, written |-> TRUE]
     ELSE IF g = "kuwaitiMother" /\ f = "nationality" /\ v = Kuwait
       THEN [value |-> Null, written |-> FALSE]
     ELSE profile[g]]

\* Mutant: no receipt is looked for; the baseline alone guards the write.
FindingNoReceipt(r) ==
  IF req[r].token \in expired THEN "expired"
  ELSE IF ~exists THEN "not_authorized"
  ELSE IF CurrentBaseline(req[r].field) # token[req[r].token].baseline \/ ~Writable(req[r].field, req[r].value)
    THEN "state_changed"
  ELSE "write"

\* Mutant: the receipt alone guards the write.
FindingNoBaseline(r) ==
  IF ReceiptsOf(req[r].token) # {}
    THEN IF \E k \in ReceiptsOf(req[r].token) : ledger[k].after = req[r].value
           THEN "already_committed" ELSE "token_payload_mismatch"
  ELSE IF req[r].token \in expired THEN "expired"
  ELSE IF ~exists THEN "not_authorized"
  ELSE IF ~Writable(req[r].field, req[r].value) THEN "state_changed"
  ELSE "write"

\* What the transaction finds under the lock, in the order of the code.
Finding(r) ==
  LET t == req[r].token
  IN IF ReceiptsOf(t) # {}
       THEN IF \E k \in ReceiptsOf(t) : ledger[k].after = req[r].value
              THEN "already_committed" ELSE "token_payload_mismatch"
     ELSE IF t \in expired THEN "expired"
     ELSE IF ~exists THEN "not_authorized"
     ELSE IF CurrentBaseline(req[r].field) # token[t].baseline THEN "state_changed"
     ELSE IF ~Writable(req[r].field, req[r].value) THEN "state_changed"
     ELSE "write"

\* The checks, the write, the receipt, and COMMIT is sent; or ROLLBACK.
Verify(r) ==
  /\ req[r].stage = "verify"
  /\ CASE Finding(r) = "write" ->
            Goto(r, "committing") /\ tx' = [tx EXCEPT !.phase = "committing"]
       [] Finding(r) = "already_committed" -> Answer(r, "saved") /\ tx' = NoTx
       [] Finding(r) = "not_authorized"    -> Answer(r, "unauthorized") /\ tx' = NoTx
       [] OTHER -> Then(r, "prepare", "conflict") /\ tx' = NoTx
  /\ UNCHANGED <<dbVars, token, expired, late>>

\* The acknowledgement of COMMIT reaches the process.
Acknowledged(r) ==
  /\ req[r].stage = "committing" /\ r \in durable
  /\ Answer(r, "saved")
  /\ UNCHANGED <<dbVars, tx, token, expired, late>>

----------------------------------------------------------------------------
(* The database server                                                     *)

ServerCommit(r) ==
  /\ tx = [req |-> r, phase |-> "committing"]
  /\ profile' = Written(req[r].field, req[r].value)
  /\ ledger' = Append(ledger,
       [token |-> req[r].token, field |-> req[r].field,
        before |-> profile[req[r].field].value, after |-> req[r].value])
  /\ tx' = NoTx
  /\ durable' = durable \cup {r}
  /\ UNCHANGED <<exists, live, imported, active, token, expired, req, late>>

\* Mutant: a transaction whose request is gone keeps the lock.
ServerRollbackLeaks(r) ==
  /\ tx # NoTx /\ tx.req = r
  /\ req[r].stage \notin SaveStages \cup {"committing"}
  /\ req[r].answer # "dropped"
  /\ tx' = NoTx
  /\ UNCHANGED <<dbVars, token, expired, req, late>>

\* The transaction of a request that failed or is gone is rolled back.  One
\* that had sent COMMIT may have lost it on the way.
ServerRollback(r) ==
  /\ tx # NoTx /\ tx.req = r
  /\ req[r].stage \notin SaveStages \cup {"committing"}
  /\ tx' = NoTx
  /\ UNCHANGED <<dbVars, token, expired, req, late>>

----------------------------------------------------------------------------
(* Failures                                                                *)

\* Before COMMIT is sent, an error rolls back and can be retried as it is.
SaveFails(r) ==
  /\ req[r].stage \in SaveStages \cup {"begin"}
  /\ Then(r, "recover", "nothing_saved")
  /\ UNCHANGED <<dbVars, tx, token, expired, late>>

\* Mutant: a failure of COMMIT is reported like any other.
OutcomeGuessed(r) ==
  /\ req[r].stage \in {"committing", "receipt"}
  /\ Then(r, "recover", IF req[r].stage = "committing" THEN "nothing_saved" ELSE "unknown")
  /\ UNCHANGED <<dbVars, tx, token, expired, late>>

\* After COMMIT was sent, an error says nothing; neither does a failed lookup.
OutcomeUnknown(r) ==
  /\ req[r].stage \in {"committing", "receipt"}
  /\ Then(r, "recover", "unknown")
  /\ UNCHANGED <<dbVars, tx, token, expired, late>>

\* Any other read that fails ends the request with the service unavailable.
ReadFails(r) ==
  /\ req[r].stage \in {"prepare", "render", "recover", "validate"}
  /\ Answer(r, "unavailable")
  /\ UNCHANGED <<dbVars, tx, token, expired, late>>

\* The process serving the request dies.
Dropped(r) ==
  /\ Active(r)
  /\ Answer(r, "dropped")
  /\ UNCHANGED <<dbVars, tx, token, expired, late>>

----------------------------------------------------------------------------
(* The rest of the system                                                  *)

\* A confirm of the preview/confirm protocol writes a field, under the same lock.
OtherWriter(f, v) ==
  /\ tx = NoTx /\ exists /\ Writable(f, v) /\ Len(ledger) < MaxReceipts
  /\ profile' = Written(f, v)
  /\ ledger' = Append(ledger,
       [token |-> None, field |-> f, before |-> profile[f].value, after |-> v])
  /\ UNCHANGED <<exists, live, imported, active, tx, token, expired, req, durable, late>>

EndSession(s) ==
  /\ s \in live
  /\ live' = live \ {s}
  /\ UNCHANGED <<exists, profile, imported, active, ledger, tx, token, expired, req, durable, late>>

TokenExpires(t) ==
  /\ token[t] # NoToken /\ t \notin expired
  /\ expired' = expired \cup {t}
  /\ UNCHANGED <<dbVars, tx, token, req, late>>

ImportChanges(f, e) ==
  /\ imported[f] # e
  /\ imported' = [imported EXCEPT ![f] = e]
  /\ UNCHANGED <<exists, live, profile, active, ledger, tx, token, expired, req, durable, late>>

CountryWithdrawn(k) ==
  /\ k \in active
  /\ active' = active \ {k}
  /\ UNCHANGED <<exists, live, profile, imported, ledger, tx, token, expired, req, durable, late>>

\* The principal is deleted, its profile and sessions with it.  The deletion
\* waits for a transaction that has written.
PersonRemoved ==
  /\ exists
  /\ tx = NoTx \/ tx.phase = "locked"
  /\ exists' = FALSE
  /\ live' = {}
  /\ profile' = [f \in Fields |-> [value |-> Null, written |-> FALSE]]
  /\ UNCHANGED <<imported, active, ledger, tx, token, expired, req, durable, late>>

----------------------------------------------------------------------------

Arrive(r) ==
  \/ \E s \in Sessions, f \in Fields : Edit(r, s, f)
  \/ \E s \in Sessions, t \in Requests :
       \E v \in UNION {Choices(f) : f \in Fields \cap {token[t].field}},
          proof \in {None} \cup {q \in Proofs : q[1] = s /\ q[2] = t} :
         Submit(r, s, t, v, proof)
  \/ \E proof \in Proofs : CheckStatus(r, proof)

Progress(r) ==
  \/ Prepare(r) \/ ShowPage(r) \/ Validate(r) \/ LookUpReceipt(r)
  \/ Begin(r) \/ TakeLock(r) \/ Reauthorize(r) \/ Verify(r) \/ Acknowledged(r)

Failure(r) == SaveFails(r) \/ OutcomeUnknown(r) \/ ReadFails(r) \/ Dropped(r)

ServerStep(r) == ServerCommit(r) \/ ServerRollback(r)

Environment ==
  \/ \E f \in Fields : \E v \in Choices(f) : OtherWriter(f, v)
  \/ \E s \in Sessions : EndSession(s)
  \/ \E t \in Requests : TokenExpires(t)
  \/ \E f \in Fields, e \in Imports \cup {None} : ImportChanges(f, e)
  \/ \E k \in Countries : CountryWithdrawn(k)
  \/ PersonRemoved

Next ==
  \/ \E r \in Requests : Arrive(r) \/ Progress(r) \/ Failure(r) \/ ServerStep(r)
  \/ Environment

Spec == Init /\ [][Next]_vars

\* A process runs what it has accepted, the server finishes its transactions.
Fairness == \A r \in Requests : WF_vars(Progress(r)) /\ WF_vars(ServerStep(r))

FairSpec == Spec /\ Fairness

----------------------------------------------------------------------------
(* Properties                                                              *)

\* The shapes of the variables (the type invariant).
TypeOK ==
  /\ exists \in BOOLEAN
  /\ live \in SUBSET Sessions
  /\ profile \in [Fields -> [value : Values, written : BOOLEAN]]
  /\ imported \in [Fields -> Imports \cup {None}]
  /\ active \in SUBSET Countries
  /\ ledger \in Seq(Receipt)
  /\ tx \in Tx \cup {NoTx}
  /\ token \in [Requests -> Token \cup {NoToken}]
  /\ expired \in SUBSET Requests
  /\ req \in [Requests -> Request]
  /\ durable \in SUBSET Requests
  /\ late \in SUBSET Requests

\* However often and from wherever a form is submitted, repeated or retried,
\* its token leaves at most one receipt, and that save replaced exactly the
\* stored value the form showed, whatever other forms, confirms and withdrawals
\* wrote since (#saveBrowser: the receipt lookup and the baseline under the
\* lock).
FormSavesOnce ==
  \A j \in DOMAIN ledger : ledger[j].token # None =>
    LET form == token[ledger[j].token] IN
      /\ ledger[j].field = form.field /\ ledger[j].before = form.baseline.value
      /\ \A k \in DOMAIN ledger : ledger[k].token = ledger[j].token => k = j

\* What the page says of this request is true: a save is saved only if its
\* own change has a receipt, a status check only if its form has one; and a
\* request that was told it conflicts, differs, is invalid or saved nothing
\* has not committed and never will (save's outcomes, submit's pages).
AnswerIsTrue ==
  \A r \in Requests :
    /\ req[r].answer = "saved" =>
         \E k \in ReceiptsOf(req[r].token) :
           req[r].kind = "status" \/ ledger[k].after = req[r].value
    /\ {req[r].answer, req[r].page} \cap {"conflict", "different", "invalid", "nothing_saved"} # {} =>
         r \notin durable /\ tx # [req |-> r, phase |-> "committing"]

\* Nobody is recorded as Kuwaiti and as having answered the question about a
\* Kuwaiti mother, in whatever order the two fields are saved (writeValue).
MotherRule ==
  "kuwaitiMother" \in Fields /\ profile["kuwaitiMother"].value # Null
    => Nationality # Kuwait

\* A session that ended while its save waited for the lock saves nothing
\* (#lockBrowser authorizes again once it has the lock).
LateNeverSaves == late \cap durable = {}

\* Every request is answered, or dies with its process, even when the request
\* that holds the lock never gives it back.
EveryRequestEnds == \A r \in Requests : Active(r) ~> ~Active(r)

=============================================================================
