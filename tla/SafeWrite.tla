----------------------------- MODULE SafeWrite -----------------------------
(***************************************************************************)
(* The platform's first safe write: preview, confirm, action token and     *)
(* receipt (packages/safe-write-contract/src/safe-write.ts) bound to       *)
(* PostgreSQL (packages/db/src/safe-write-store.ts, migration 0147).       *)
(*                                                                         *)
(* Several gateway processes serve calls concurrently.  An action below is *)
(* one run of the code between two awaits, or one statement the database   *)
(* server executes, so everything that can happen between two awaits of a  *)
(* confirm can happen here: another confirm of the same token in another   *)
(* process, a change of the record, the removal of the principal, the      *)
(* expiry of the token, a restart of the process, the loss of the          *)
(* connection before or after the server performs COMMIT.                  *)
(*                                                                         *)
(* Abstractions.  A token is named by the preview call that issued it (its *)
(* id is 16 random bytes).  The two digests it carries are injective, so   *)
(* comparing digests is comparing what they were computed from.  Time      *)
(* only matters through expiresAt, so its passing is TokenExpires.  The    *)
(* values are the column's closed vocabulary; the purely syntactic         *)
(* refusals (malformed_reference, unknown_field, invalid_value) touch no   *)
(* state and are left out.                                                 *)
(***************************************************************************)
EXTENDS Naturals, Sequences

CONSTANTS
  Principals,   \* ids of people who can sign in
  Instances,    \* gateway processes
  Calls,        \* the calls to preview and confirm of one behaviour (bound)
  Languages,    \* the values the field may hold
  Absent,       \* "no row": the contract's before: null
  None          \* a field of a call that has no value yet

ASSUME AbsentAssumption == Absent \notin Languages

VARIABLES
  principals,   \* table principals
  language,     \* table person_preferences: principal -> value, or Absent
  ledger,       \* the safe-write rows of authorization_mutation_audit, in commit order
  tx,           \* principal -> the open transaction that holds its advisory lock
  token,        \* call -> the token its preview issued
  expired,      \* tokens past their expiresAt
  spent,        \* instance -> its in-memory set of spent tokens
  call,         \* the calls being served
  durable,      \* history: the calls whose transaction the server committed
  erased        \* history: principal -> the lengths the ledger had when its
                \* record was removed with it

vars == <<principals, language, ledger, tx, token, expired, spent, call, durable, erased>>
dbVars == <<principals, language, ledger, tx, durable, erased>>

----------------------------------------------------------------------------

Tokens == Calls
Values == Languages \cup {Absent}

\* One token is issued by one preview and binds owner, value and shown value.
NoToken == [owner |-> None]
Token == [owner : Principals, from : Values, to : Languages]

\* The phase of an open transaction: the lock is held; the field is written
\* (its row, or the foreign key to the principal, is locked); COMMIT was sent.
NoTx == [call |-> None]
Tx == [call : Calls, phase : {"locked", "wrote", "committing"}]

Receipt == [token : Tokens, owner : Principals, from : Values, to : Languages]

\* What the store refuses inside the transaction, and what confirm refuses.  A
\* change that validateChange refuses (a malformed reference, an unknown field,
\* an invalid value) is refused from the request alone, before anything is read:
\* calls are those it lets pass.
CommitRefusals == {"state_changed", "token_already_used", "not_own_record"}
Refusals == CommitRefusals \cup
  {"token_not_issued", "token_principal_mismatch", "token_expired",
   "token_change_set_mismatch"}
\* "error" is a rejected promise of a read; "dropped" died with its process.
Answers == Refusals \cup {"previewed", "ok", "receipt_failed", "error", "dropped"}

ASSUME NoneAssumption == None \notin Principals \cup Instances \cup Calls \cup Answers

\* Where a call is: awaiting ownedRecord or readField of a preview or of a
\* confirm; awaiting the advisory lock, or one of the statements after it.
PreviewStages == {"previewOwned", "previewRead"}
ReadStages == {"owned", "read"}
CommitStages == {"lock", "verify", "write", "record", "committing"}
Stages == {"idle", "done"} \cup PreviewStages \cup ReadStages \cup CommitStages

Call ==
  [stage : Stages, at : Instances \cup {None}, by : Principals \cup {None},
   token : Tokens \cup {None}, person : Principals \cup {None},
   value : Values, current : Values, answer : Answers \cup {None}]

NewCall ==
  [stage |-> "idle", at |-> None, by |-> None, token |-> None,
   person |-> None, value |-> Absent, current |-> Absent, answer |-> None]

\* The steps a call takes through its stages.
Goto(c, s) == call' = [call EXCEPT ![c].stage = s]
Answer(c, a) == call' = [call EXCEPT ![c].stage = "done", ![c].answer = a]

Active(c) == call[c].stage \notin {"idle", "done"}

Init ==
  /\ principals = Principals
  /\ language = [p \in Principals |-> Absent]
  /\ ledger = <<>>
  /\ tx = [p \in Principals |-> NoTx]
  /\ token = [t \in Tokens |-> NoToken]
  /\ expired = {}
  /\ spent = [i \in Instances |-> {}]
  /\ call = [c \in Calls |-> NewCall]
  /\ durable = {}
  /\ erased = [p \in Principals |-> {}]

----------------------------------------------------------------------------
(* Reads of the store, each its own statement and its own snapshot.        *)

\* ownedRecord = person: the caller's own record, of an extant principal.
Owns(p, person) == p \in principals /\ person = p

\* readField answers null for any record but the caller's own.
ReadField(p, person) == IF person = p THEN language[p] ELSE Absent

\* Mutant: the store asks the processes which tokens they have spent.
TokenUsedInMemory(t) == \E i \in Instances : t \in spent[i]

\* A receipt row carrying the token's reference exists.
TokenUsed(t) == \E k \in DOMAIN ledger : ledger[k].token = t

----------------------------------------------------------------------------
(* preview                                                                 *)

Preview(c, i, p, person, v) ==
  /\ call[c].stage = "idle"
  /\ call' = [call EXCEPT ![c] =
       [NewCall EXCEPT !.stage = "previewOwned", !.at = i, !.by = p,
                       !.person = person, !.value = v]]
  /\ UNCHANGED <<dbVars, token, expired, spent>>

PreviewOwned(c) ==
  /\ call[c].stage = "previewOwned"
  /\ IF Owns(call[c].by, call[c].person)
       THEN Goto(c, "previewRead")
       ELSE Answer(c, "not_own_record")
  /\ UNCHANGED <<dbVars, token, expired, spent>>

\* The value read is shown, and the token commits to it.
PreviewRead(c) ==
  /\ call[c].stage = "previewRead"
  /\ token' = [token EXCEPT ![c] =
       [owner |-> call[c].by,
        from |-> ReadField(call[c].by, call[c].person),
        to |-> call[c].value]]
  /\ Answer(c, "previewed")
  /\ UNCHANGED <<dbVars, expired, spent>>

----------------------------------------------------------------------------
(* confirm, up to the call of store.commit                                 *)

\* The checks that await nothing, in the order of the code.
FirstRefusal(i, p, t, person, v) ==
  IF token[t] = NoToken THEN "token_not_issued"
  ELSE IF token[t].owner # p THEN "token_principal_mismatch"
  ELSE IF t \in spent[i] THEN "token_already_used"
  ELSE IF t \in expired THEN "token_expired"
  ELSE IF <<token[t].owner, token[t].to>> # <<person, v>>
       THEN "token_change_set_mismatch"
  ELSE None

Confirm(c, i, p, t, person, v) ==
  LET refusal == FirstRefusal(i, p, t, person, v)
  IN /\ call[c].stage = "idle"
     /\ call' = [call EXCEPT ![c] =
          [NewCall EXCEPT
             !.stage = IF refusal = None THEN "owned" ELSE "done",
             !.at = i, !.by = p, !.token = t, !.person = person, !.value = v,
             !.answer = refusal]]
     /\ UNCHANGED <<dbVars, token, expired, spent>>

\* Ownership is re-derived before the current value is read.
ConfirmOwned(c) ==
  /\ call[c].stage = "owned"
  /\ IF Owns(call[c].by, call[c].person)
       THEN Goto(c, "read")
       ELSE Answer(c, "not_own_record")
  /\ UNCHANGED <<dbVars, token, expired, spent>>

\* Mutant: what was read is never compared with what was shown.
ConfirmReadUnchecked(c) ==
  /\ call[c].stage = "read"
  /\ call' = [call EXCEPT ![c].stage = "lock",
                          ![c].current = ReadField(call[c].by, call[c].person)]
  /\ UNCHANGED <<dbVars, token, expired, spent>>

\* The early, cheap report of state_changed.
ConfirmRead(c) ==
  LET current == ReadField(call[c].by, call[c].person)
  IN /\ call[c].stage = "read"
     /\ IF token[call[c].token].from = current
          THEN call' = [call EXCEPT ![c].stage = "lock", ![c].current = current]
          ELSE Answer(c, "state_changed")
     /\ UNCHANGED <<dbVars, token, expired, spent>>

----------------------------------------------------------------------------
(* store.commit, one statement of the transaction at a time                *)

\* A Refusal inside the transaction rolls it back and is answered as itself.
RefuseInside(c, reason) ==
  /\ tx' = [tx EXCEPT ![call[c].by] = NoTx]
  /\ Answer(c, reason)
  /\ UNCHANGED <<principals, language, ledger, durable, erased, token, expired, spent>>

\* BEGIN, then pg_advisory_xact_lock: waits while another holds the lock.
TakeLock(c) ==
  /\ call[c].stage = "lock"
  /\ tx[call[c].by] = NoTx
  /\ tx' = [tx EXCEPT ![call[c].by] = [call |-> c, phase |-> "locked"]]
  /\ Goto(c, "verify")
  /\ UNCHANGED <<principals, language, ledger, durable, erased, token, expired, spent>>

\* The token and the owner, checked again under the lock.  No receipt of this
\* owner can appear between the two statements, so they are one step.
VerifyInside(c) ==
  /\ call[c].stage = "verify"
  /\ \/ /\ TokenUsed(call[c].token)
        /\ RefuseInside(c, "token_already_used")
     \/ /\ ~TokenUsed(call[c].token)
        /\ call[c].by \notin principals
        /\ RefuseInside(c, "not_own_record")
     \/ /\ ~TokenUsed(call[c].token)
        /\ call[c].by \in principals
        /\ Goto(c, "write")
        /\ UNCHANGED <<dbVars, token, expired, spent>>

\* The foreign key of person_preferences refuses a row without a principal.
ForeignKeyHolds(p) == p \in principals

\* Mutant: INSERT .. ON CONFLICT DO UPDATE, which overwrites a newer row.
CompareUpsert(c) ==
  call[c].current \in {Absent, language[call[c].by]}

\* The row the compare-and-write looks for: none for an INSERT, the expected
\* value for an UPDATE.
CompareHolds(c) == language[call[c].by] = call[c].current

\* INSERT .. ON CONFLICT DO NOTHING, or UPDATE .. WHERE language = expected.
\* Only the INSERT consults the foreign key; its violation is thrown.
CompareAndWrite(c) ==
  /\ call[c].stage = "write"
  /\ \/ /\ ~CompareHolds(c)
        /\ RefuseInside(c, "state_changed")
     \/ /\ CompareHolds(c)
        /\ call[c].current = Absent /\ ~ForeignKeyHolds(call[c].by)
        /\ RefuseInside(c, "receipt_failed")
     \/ /\ CompareHolds(c)
        /\ call[c].current # Absent \/ ForeignKeyHolds(call[c].by)
        /\ tx' = [tx EXCEPT ![call[c].by].phase = "wrote"]
        /\ Goto(c, "record")
        /\ UNCHANGED <<principals, language, ledger, durable, erased, token, expired, spent>>

\* The receipt row, and then COMMIT is sent.
InsertReceipt(c) ==
  /\ call[c].stage = "record"
  /\ tx' = [tx EXCEPT ![call[c].by].phase = "committing"]
  /\ Goto(c, "committing")
  /\ UNCHANGED <<principals, language, ledger, durable, erased, token, expired, spent>>

\* Mutant: COMMIT is sent and not awaited.
ConfirmUnawaited(c) ==
  /\ call[c].stage = "committing"
  /\ spent' = [spent EXCEPT ![call[c].at] = @ \cup {call[c].token}]
  /\ Answer(c, "ok")
  /\ UNCHANGED <<dbVars, token, expired>>

\* The acknowledgement of COMMIT reaches the process.
ConfirmAcknowledged(c) ==
  /\ call[c].stage = "committing"
  /\ c \in durable
  /\ spent' = [spent EXCEPT ![call[c].at] = @ \cup {call[c].token}]
  /\ Answer(c, "ok")
  /\ UNCHANGED <<dbVars, token, expired>>

----------------------------------------------------------------------------
(* The database server                                                     *)

\* Mutant: the field is committed before its receipt is written.
ServerCommitFieldOnly(c) ==
  LET p == call[c].by
  IN /\ p \in Principals
     /\ tx[p] = [call |-> c, phase |-> "committing"]
     /\ language' = [language EXCEPT ![p] = call[c].value]
     /\ tx' = [tx EXCEPT ![p] = NoTx]
     /\ durable' = durable \cup {c}
     /\ UNCHANGED <<principals, ledger, erased, token, expired, spent, call>>

\* COMMIT makes the field and the receipt durable and releases the lock,
\* whether or not the process that sent it is still listening.
ServerCommit(c) ==
  LET p == call[c].by
  IN /\ p \in Principals
     /\ tx[p] = [call |-> c, phase |-> "committing"]
     /\ language' = [language EXCEPT ![p] = call[c].value]
     /\ ledger' = Append(ledger,
          [token |-> call[c].token, owner |-> p,
           from |-> call[c].current, to |-> call[c].value])
     /\ tx' = [tx EXCEPT ![p] = NoTx]
     /\ durable' = durable \cup {c}
     /\ UNCHANGED <<principals, erased, token, expired, spent, call>>

\* Mutant: the advisory lock belongs to the session, so a rollback keeps it.
ServerRollbackKeepsLock(c) ==
  LET p == call[c].by
  IN /\ p \in Principals
     /\ tx[p] # NoTx /\ tx[p].call = c
     /\ call[c].stage = "done"
     /\ tx' = [tx EXCEPT ![p].phase = "locked"]
     /\ UNCHANGED <<principals, language, ledger, durable, erased,
                    token, expired, spent, call>>

\* The transaction of a caller that failed or is gone is rolled back.
ServerRollback(c) ==
  LET p == call[c].by
  IN /\ p \in Principals
     /\ tx[p] # NoTx /\ tx[p].call = c
     /\ call[c].stage = "done"
     /\ tx' = [tx EXCEPT ![p] = NoTx]
     /\ UNCHANGED <<principals, language, ledger, durable, erased,
                    token, expired, spent, call>>

\* An open transaction that has written holds the row, or a key share on the
\* principal, so the deletion and its cascade wait for it.
WriteInFlight(p) == tx[p] # NoTx /\ tx[p].phase # "locked"

\* The row of principals is deleted and person_preferences cascades.
RemovePrincipal(p) ==
  /\ p \in principals
  /\ ~WriteInFlight(p)
  /\ principals' = principals \ {p}
  /\ language' = [language EXCEPT ![p] = Absent]
  /\ erased' = IF language[p] = Absent THEN erased
                 ELSE [erased EXCEPT ![p] = @ \cup {Len(ledger)}]
  /\ UNCHANGED <<ledger, tx, durable, token, expired, spent, call>>

\* The authorization store registers the id again, under the same lock.
RegisterPrincipal(p) ==
  /\ p \notin principals
  /\ tx[p] = NoTx
  /\ principals' = principals \cup {p}
  /\ UNCHANGED <<language, ledger, tx, durable, erased, token, expired, spent, call>>

----------------------------------------------------------------------------
(* Time and failure                                                        *)

TokenExpires(t) ==
  /\ token[t] # NoToken /\ t \notin expired
  /\ expired' = expired \cup {t}
  /\ UNCHANGED <<dbVars, token, spent, call>>

\* A read of preview or confirm rejects: the promise rejects with it.
ReadFails(c) ==
  /\ call[c].stage \in PreviewStages \cup ReadStages
  /\ Answer(c, "error")
  /\ UNCHANGED <<dbVars, token, expired, spent>>

\* store.commit throws: no connection, a failed statement, or no answer to
\* COMMIT.  The token is not spent, and what the server does with the
\* transaction it may still hold is the server's affair.
CommitThrows(c) ==
  /\ call[c].stage \in CommitStages
  /\ Answer(c, "receipt_failed")
  /\ UNCHANGED <<dbVars, token, expired, spent>>

\* A restart loses the process's calls and its set of spent tokens.
Restart(i) ==
  /\ \E c \in Calls : Active(c) /\ call[c].at = i
  /\ call' = [c \in Calls |->
       IF Active(c) /\ call[c].at = i
         THEN [call[c] EXCEPT !.stage = "done", !.answer = "dropped"]
         ELSE call[c]]
  /\ spent' = [spent EXCEPT ![i] = {}]
  /\ UNCHANGED <<dbVars, token, expired>>

----------------------------------------------------------------------------

\* What the process and the server do for a call once it has arrived.
Progress(c) ==
  \/ PreviewOwned(c) \/ PreviewRead(c)
  \/ ConfirmOwned(c) \/ ConfirmRead(c)
  \/ TakeLock(c) \/ VerifyInside(c) \/ CompareAndWrite(c) \/ InsertReceipt(c)
  \/ ConfirmAcknowledged(c)

ServerStep(c) == ServerCommit(c) \/ ServerRollback(c)

Arrive(c) ==
  \E i \in Instances, p \in Principals, person \in Principals, v \in Languages :
    \/ Preview(c, i, p, person, v)
    \/ \E t \in Tokens : Confirm(c, i, p, t, person, v)

Next ==
  \/ \E c \in Calls : Arrive(c) \/ Progress(c) \/ ServerStep(c)
  \/ \E c \in Calls : ReadFails(c) \/ CommitThrows(c)
  \/ \E t \in Tokens : TokenExpires(t)
  \/ \E p \in Principals : RemovePrincipal(p) \/ RegisterPrincipal(p)
  \/ \E i \in Instances : Restart(i)

Spec == Init /\ [][Next]_vars

\* A process runs the calls it has accepted and the server finishes the
\* transactions it holds; nothing obliges people to call, tokens to expire or
\* anything to fail.
Fairness == \A c \in Calls : WF_vars(Progress(c)) /\ WF_vars(ServerStep(c))

FairSpec == Spec /\ Fairness

----------------------------------------------------------------------------
(* Properties                                                              *)

\* The shapes of the variables (the type invariant).
TypeOK ==
  /\ principals \in SUBSET Principals
  /\ language \in [Principals -> Values]
  /\ ledger \in Seq(Receipt)
  /\ tx \in [Principals -> Tx \cup {NoTx}]
  /\ token \in [Tokens -> Token \cup {NoToken}]
  /\ expired \in SUBSET Tokens
  /\ spent \in [Instances -> SUBSET Tokens]
  /\ call \in [Calls -> Call]
  /\ durable \in SUBSET Calls
  /\ erased \in [Principals -> SUBSET Nat]

\* Single use: a token leaves at most one receipt, whichever processes its
\* confirms run in, however they interleave and whatever restarts between
\* them (safe-write-store.ts, the lookup and the unique index under the lock).
SingleUse ==
  \A j, k \in DOMAIN ledger : ledger[j].token = ledger[k].token => j = k

\* What lands is what the preview showed: every receipt is the transition its
\* token was issued for, from the value shown to the value proposed, on the
\* owner's own record (safe-write.ts, the digests; the compare in #commit).
AppliedAsShown ==
  \A k \in DOMAIN ledger :
    token[ledger[k].token] =
      [owner |-> ledger[k].owner, from |-> ledger[k].from, to |-> ledger[k].to]

\* k is p's last receipt among the first n, and its record was not removed
\* between receipt k and receipt n + 1.
Stands(p, k, n) ==
  /\ k \in 1..n /\ ledger[k].owner = p
  /\ \A j \in 1..n : ledger[j].owner = p => j <= k
  /\ \A m \in erased[p] : m < k \/ n < m

\* The first n receipts leave p's record at v.
Leaves(p, n, v) ==
  \/ \E k \in 1..n : Stands(p, k, n) /\ ledger[k].to = v
  \/ v = Absent /\ \A k \in 1..n : ~Stands(p, k, n)

\* No unaudited write and no lost update: the stored value is the one the
\* ledger and the removals of the record leave, and so was the value every
\* receipt started from (#commit writes field and receipt in one transaction,
\* comparing under the lock before it writes).
RecordIsAudited ==
  /\ \A p \in Principals : Leaves(p, Len(ledger), language[p])
  /\ \A k \in DOMAIN ledger : Leaves(ledger[k].owner, k - 1, ledger[k].from)

\* The answer tells the truth about the transaction: ok only if this call's
\* own transaction is durable, a refusal only if it is not and never will be,
\* token_already_used only if the token has its receipt; and no two calls are
\* told ok for one token (confirm's answers, and #commit's reasons).
AnswerIsTrue ==
  \A c \in Calls :
    /\ call[c].answer = "ok" => c \in durable
    /\ call[c].answer \in Refusals =>
         /\ c \notin durable
         /\ \A p \in Principals : tx[p] # NoTx => tx[p].call # c
    /\ call[c].answer = "token_already_used" => TokenUsed(call[c].token)
    /\ \A d \in Calls :
         /\ call[c].answer = "ok" /\ call[d].answer = "ok"
         /\ call[c].token = call[d].token
         => c = d

\* A principal that was removed is never written again until it is registered
\* again, even by a confirm that had passed every check before the removal
\* (mayWrite, the foreign key and the cascade that waits for the row).
WritesNeedAPrincipal ==
  [][\A p \in Principals :
       language'[p] \notin {language[p], Absent} => p \in principals']_vars

\* Every call that arrives is answered or dies with its process: no confirm
\* waits for ever on the advisory lock of a caller that failed or vanished.
\* Calls are finitely many and none is used twice, so this says that from some
\* point on none is open.
EveryCallEnds == <>[](\A c \in Calls : ~Active(c))

\* What the contract says of receipt_failed, and README rule "A failed write
\* stays retryable: A receipt failure means nothing happened".
ReceiptFailedMeansNothingHappened ==
  \A c \in Calls : call[c].answer = "receipt_failed" => c \notin durable

----------------------------------------------------------------------------
(* The abstract specification this module implements                       *)

Offers ==
  {[token |-> t, owner |-> token[t].owner, from |-> token[t].from, to |-> token[t].to] :
     t \in {u \in Tokens : token[u] # NoToken}}

Abstract == INSTANCE AuditedRecord WITH offers <- Offers

\* Every behaviour of the gateways and the database is one of the abstract
\* record: a confirm that commits is one indivisible application of an offer.
ImplementsAuditedRecord == Abstract!Spec

=============================================================================
