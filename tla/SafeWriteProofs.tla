-------------------------- MODULE SafeWriteProofs --------------------------
(***************************************************************************)
(* Proofs about SafeWrite, for any number of people, processes, calls and  *)
(* values.                                                                 *)
(***************************************************************************)
EXTENDS SafeWrite, TLAPS

----------------------------------------------------------------------------
(* The inductive invariant                                                 *)

\* The change that call c carries is the one its token was issued for.
Bound(c) ==
  /\ call[c].by \in Principals /\ call[c].token \in Tokens
  /\ call[c].value \in Languages /\ call[c].person = call[c].by
  /\ token[call[c].token] # NoToken
  /\ token[call[c].token].owner = call[c].by
  /\ token[call[c].token].to = call[c].value

\* .. and the value it will compare with is the one its preview showed.
BoundFrom(c) == Bound(c) /\ token[call[c].token].from = call[c].current

\* Calls: what has been checked stays true of the calls still at work.
CallInv ==
  \A c \in Calls :
    /\ call[c].stage \in PreviewStages =>
         /\ call[c].by \in Principals /\ call[c].person \in Principals
         /\ call[c].value \in Languages
    /\ call[c].stage \in PreviewStages \cup ReadStages \cup CommitStages =>
         call[c].at \in Instances
    /\ call[c].stage = "previewRead" => call[c].person = call[c].by
    /\ call[c].stage \in ReadStages => Bound(c)
    /\ call[c].stage \in CommitStages => BoundFrom(c)
    /\ token[c] # NoToken => call[c].stage = "done"

\* Transactions: a call past the lock holds it until the server has decided,
\* and only one transaction of an owner is open at a time.
TxInv ==
  /\ \A c \in Calls :
       /\ call[c].stage \in {"verify", "write"} =>
            tx[call[c].by] = [call |-> c, phase |-> "locked"]
       /\ call[c].stage = "record" =>
            tx[call[c].by] = [call |-> c, phase |-> "wrote"]
       /\ call[c].stage = "committing" /\ c \notin durable =>
            tx[call[c].by] = [call |-> c, phase |-> "committing"]
  /\ \A p \in Principals : tx[p] # NoTx =>
       /\ BoundFrom(tx[p].call) /\ call[tx[p].call].by = p
       /\ tx[p].call \notin durable
       /\ call[tx[p].call].stage \in
            {"verify", "write", "record", "committing", "done"}

\* What a transaction verified still holds when the server commits it.
VerifiedInv ==
  /\ \A c \in Calls : call[c].stage = "write" => ~TokenUsed(call[c].token)
  /\ \A p \in Principals : WriteInFlight(p) =>
       /\ ~TokenUsed(call[tx[p].call].token)
       /\ language[p] = call[tx[p].call].current
       /\ p \in principals

\* What a durable transaction, a spent token and an answer imply.
AnswerInv ==
  /\ \A c \in durable :
       /\ call[c].stage \in {"committing", "done"}
       /\ call[c].token \in Tokens /\ TokenUsed(call[c].token)
  /\ \A c, d \in durable : call[c].token = call[d].token => c = d
  /\ \A i \in Instances : \A t \in spent[i] : TokenUsed(t)
  /\ \A c \in Calls : call[c].stage # "done" => call[c].answer = None
  /\ AnswerIsTrue

\* The foreign key.
ForeignKeyInv == \A p \in Principals : language[p] # Absent => p \in principals

\* A removal is remembered at a length the ledger has had.
ErasedInv == \A p \in Principals : \A m \in erased[p] : m <= Len(ledger)

IInv ==
  /\ TypeOK /\ CallInv /\ TxInv /\ VerifiedInv /\ AnswerInv /\ ForeignKeyInv
  /\ ErasedInv /\ SingleUse /\ AppliedAsShown /\ RecordIsAudited

----------------------------------------------------------------------------

\* The initial state satisfies every part of the inductive invariant.
LEMMA InitIInv == Init => IInv
  <1> SUFFICES ASSUME Init PROVE IInv
    OBVIOUS
  <1> USE NoneAssumption DEF Init
  <1>1. TypeOK
    BY DEF TypeOK, NewCall, Call, Stages, Answers, Refusals, CommitRefusals, Values, Tokens
  <1>2. CallInv
    BY DEF CallInv, NewCall, PreviewStages, ReadStages, CommitStages, Tokens
  <1>3. TxInv
    BY DEF TxInv, NewCall, NoTx
  <1>4. VerifiedInv
    BY DEF VerifiedInv, NewCall, WriteInFlight
  <1>5. AnswerInv
    BY DEF AnswerInv, AnswerIsTrue, NewCall, Answers, Refusals, CommitRefusals
  <1>6. ForeignKeyInv /\ ErasedInv /\ SingleUse /\ AppliedAsShown
    BY DEF ForeignKeyInv, ErasedInv, SingleUse, AppliedAsShown
  <1>7. RecordIsAudited
    BY DEF RecordIsAudited, Leaves, Stands
  <1> QED
    BY <1>1, <1>2, <1>3, <1>4, <1>5, <1>6, <1>7 DEF IInv

----------------------------------------------------------------------------
(* What the two ways of moving a call change                               *)

\* The other fields of d, whatever its stage and answer.
SameFields(d) ==
  /\ call'[d].at = call[d].at /\ call'[d].by = call[d].by
  /\ call'[d].token = call[d].token /\ call'[d].person = call[d].person
  /\ call'[d].value = call[d].value /\ call'[d].current = call[d].current

\* Moving or answering a call, or noting the value it read, keeps its shape.
LEMMA UpdatedCall ==
  ASSUME NEW k \in Call, NEW s \in Stages, NEW a \in Answers, NEW v \in Values
  PROVE  /\ [k EXCEPT !.stage = s, !.answer = a] \in Call
         /\ [k EXCEPT !.stage = s, !.current = v] \in Call
  BY DEF Call

\* Goto moves one call and changes nothing else of any call.
LEMMA GotoEffect ==
  ASSUME TypeOK, NEW c \in Calls, NEW s \in Stages, Goto(c, s)
  PROVE  /\ call' \in [Calls -> Call]
         /\ call'[c].stage = s /\ call'[c].answer = call[c].answer
         /\ \A d \in Calls \ {c} : call'[d] = call[d]
         /\ \A d \in Calls : SameFields(d)
  <1>1. call \in [Calls -> Call] /\ call' = [call EXCEPT ![c].stage = s]
    BY DEF TypeOK, Goto
  <1>2. call' = [call EXCEPT ![c] = [call[c] EXCEPT !.stage = s]]
    BY <1>1
  <1>3. call[c] \in Call
    BY <1>1
  <1>4. [call[c] EXCEPT !.stage = s] \in Call
    BY <1>3 DEF Call
  <1>5. call'[c] = [call[c] EXCEPT !.stage = s] /\ \A d \in Calls \ {c} : call'[d] = call[d]
    BY <1>1, <1>2
  <1>6. call' \in [Calls -> Call]
    BY <1>1, <1>2, <1>4
  <1>7. call'[c].stage = s /\ call'[c].answer = call[c].answer /\ SameFields(c)
    BY <1>3, <1>5 DEF Call, SameFields
  <1>8. \A d \in Calls \ {c} : SameFields(d)
    BY <1>5 DEF SameFields
  <1> QED
    BY <1>5, <1>6, <1>7, <1>8

\* A restart ends the running calls of one instance with the answer "dropped" and
\* changes nothing else of any call.
LEMMA RestartEffect ==
  ASSUME TypeOK, NEW i \in Instances, Restart(i)
  PROVE  \A d \in Calls :
           /\ SameFields(d)
           /\ \/ call'[d] = call[d]
              \/ Active(d) /\ call'[d].stage = "done" /\ call'[d].answer = "dropped"
  <1> SUFFICES ASSUME NEW d \in Calls
               PROVE  /\ SameFields(d)
                      /\ \/ call'[d] = call[d]
                         \/ /\ Active(d)
                            /\ call'[d].stage = "done" /\ call'[d].answer = "dropped"
    OBVIOUS
  <1>1. call[d] \in Call
    BY DEF TypeOK
  <1>2. \/ call'[d] = call[d]
        \/ Active(d) /\ call'[d] = [call[d] EXCEPT !.stage = "done", !.answer = "dropped"]
    BY DEF Restart
  <1>3. CASE call'[d] = call[d]
    BY <1>3 DEF SameFields
  <1>4. CASE Active(d) /\ call'[d] = [call[d] EXCEPT !.stage = "done", !.answer = "dropped"]
    BY <1>1, <1>4 DEF Call, SameFields
  <1> QED
    BY <1>2, <1>3, <1>4

\* The server, the clock and the owners of the records move no call.
LEMMA CallKept ==
  ASSUME \/ \E c \in Calls : ServerStep(c)
         \/ \E t \in Tokens : TokenExpires(t)
         \/ \E p \in Principals : RemovePrincipal(p) \/ RegisterPrincipal(p)
         \/ UNCHANGED vars
  PROVE  call' = call
  BY DEF ServerStep, ServerCommit, ServerRollback, TokenExpires, RemovePrincipal,
     RegisterPrincipal, vars

\* Answer ends one call and changes nothing else of any call.
LEMMA AnswerEffect ==
  ASSUME TypeOK, NEW c \in Calls, NEW a \in Answers, Answer(c, a)
  PROVE  /\ call' \in [Calls -> Call]
         /\ call'[c].stage = "done" /\ call'[c].answer = a
         /\ \A d \in Calls \ {c} : call'[d] = call[d]
         /\ \A d \in Calls : SameFields(d)
  <1>1. call \in [Calls -> Call]
    BY DEF TypeOK
  <1>2. call' = [call EXCEPT ![c] = [call[c] EXCEPT !.stage = "done", !.answer = a]]
    BY <1>1 DEF Answer
  <1>3. call[c] \in Call
    BY <1>1
  <1>4. [call[c] EXCEPT !.stage = "done", !.answer = a] \in Call
    BY <1>3 DEF Call, Stages
  <1>5. /\ call'[c] = [call[c] EXCEPT !.stage = "done", !.answer = a]
        /\ \A d \in Calls \ {c} : call'[d] = call[d]
    BY <1>1, <1>2
  <1>6. call' \in [Calls -> Call]
    BY <1>1, <1>2, <1>4
  <1>7. call'[c].stage = "done" /\ call'[c].answer = a /\ SameFields(c)
    BY <1>3, <1>5 DEF Call, SameFields
  <1>8. \A d \in Calls \ {c} : SameFields(d)
    BY <1>5 DEF SameFields
  <1> QED
    BY <1>5, <1>6, <1>7, <1>8

\* A call moved by an action is still a call.
LEMMA StagesAndAnswers ==
  /\ PreviewStages \cup ReadStages \cup CommitStages \cup {"idle", "done"} = Stages
  /\ CommitRefusals \subseteq Refusals /\ Refusals \subseteq Answers
  /\ {"previewed", "ok", "receipt_failed", "error", "dropped"} \subseteq Answers
  BY DEF PreviewStages, ReadStages, CommitStages, Stages, CommitRefusals, Refusals, Answers

----------------------------------------------------------------------------
(* Every step keeps the shapes of the variables                            *)

\* Every step keeps the shapes of the variables.
LEMMA TypeStep == ASSUME IInv, [Next]_vars PROVE TypeOK'
  <1> USE StagesAndAnswers DEF TypeOK, dbVars, Tokens
  <1>0. TypeOK /\ CallInv /\ TxInv
    BY DEF IInv
  <1>1. ASSUME NEW c \in Calls, NEW i \in Instances, NEW p \in Principals,
               NEW q \in Principals, NEW v \in Languages, Preview(c, i, p, q, v)
        PROVE TypeOK'
    <2>1. [NewCall EXCEPT !.stage = "previewOwned", !.at = i, !.by = p,
                          !.person = q, !.value = v] \in Call
      BY DEF NewCall, Call, Stages, PreviewStages, Values
    <2> QED
      BY <1>0, <1>1, <2>1 DEF Preview
  <1>2. ASSUME NEW c \in Calls, NEW i \in Instances, NEW p \in Principals,
               NEW t \in Tokens, NEW q \in Principals, NEW v \in Languages,
               Confirm(c, i, p, t, q, v)
        PROVE TypeOK'
    <2> DEFINE r == FirstRefusal(i, p, t, q, v)
    <2>1. r \in Answers \cup {None}
      BY DEF FirstRefusal, Answers, Refusals, CommitRefusals
    <2>2. [NewCall EXCEPT !.stage = IF r = None THEN "owned" ELSE "done",
                          !.at = i, !.by = p, !.token = t, !.person = q,
                          !.value = v, !.answer = r] \in Call
      <3> HIDE DEF r
      <3> QED
        BY <2>1 DEF NewCall, Call, Stages, ReadStages, Values
    <2> QED
      BY <1>0, <1>2, <2>2 DEF Confirm
  <1>3. ASSUME NEW c \in Calls, PreviewOwned(c) PROVE TypeOK'
    <2>1. call' \in [Calls -> Call]
      BY <1>0, <1>3, GotoEffect, AnswerEffect DEF PreviewOwned, PreviewStages, CommitRefusals
    <2> QED
      BY <1>0, <1>3, <2>1 DEF PreviewOwned
  <1>4. ASSUME NEW c \in Calls, PreviewRead(c) PROVE TypeOK'
    <2>1. call' \in [Calls -> Call]
      BY <1>0, <1>4, AnswerEffect DEF PreviewRead
    <2>2. token' \in [Tokens -> Token \cup {NoToken}]
      BY <1>0, <1>4 DEF PreviewRead, CallInv, PreviewStages, Token, ReadField, Values
    <2> QED
      BY <1>0, <1>4, <2>1, <2>2 DEF PreviewRead
  <1>5. ASSUME NEW c \in Calls, ConfirmOwned(c) PROVE TypeOK'
    <2>1. call' \in [Calls -> Call]
      BY <1>0, <1>5, GotoEffect, AnswerEffect DEF ConfirmOwned, ReadStages, CommitRefusals
    <2> QED
      BY <1>0, <1>5, <2>1 DEF ConfirmOwned
  <1>6. ASSUME NEW c \in Calls, ConfirmRead(c) PROVE TypeOK'
    <2> DEFINE v == ReadField(call[c].by, call[c].person)
    <2>1. v \in Values
      BY <1>0, <1>6 DEF ConfirmRead, CallInv, Bound, ReadStages, ReadField, Values
    <2>2. [call[c] EXCEPT !.stage = "lock", !.current = v] \in Call
      <3>1. call[c] \in Call /\ "lock" \in Stages
        BY <1>0 DEF Stages, CommitStages
      <3> QED
        BY <2>1, <3>1, UpdatedCall
    <2>3. CASE Answer(c, "state_changed")
      BY <1>0, <1>6, <2>3, AnswerEffect DEF ConfirmRead, CommitRefusals
    <2>4. CASE call' = [call EXCEPT ![c].stage = "lock", ![c].current = v]
      <3>1. call' = [call EXCEPT ![c] = [call[c] EXCEPT !.stage = "lock", !.current = v]]
        BY <1>0, <2>4
      <3>2. call' \in [Calls -> Call]
        BY <1>0, <2>2, <3>1
      <3> QED
        BY <1>0, <1>6, <3>2 DEF ConfirmRead
    <2> QED
      BY <1>6, <2>3, <2>4 DEF ConfirmRead
  <1>7. ASSUME NEW c \in Calls, TakeLock(c) PROVE TypeOK'
    <2>1. call' \in [Calls -> Call]
      BY <1>0, <1>7, GotoEffect DEF TakeLock, CommitStages
    <2> QED
      BY <1>0, <1>7, <2>1 DEF TakeLock, Tx
  <1>8. ASSUME NEW c \in Calls, VerifyInside(c) PROVE TypeOK'
    <2>1. call' \in [Calls -> Call]
      BY <1>0, <1>8, GotoEffect, AnswerEffect
         DEF VerifyInside, RefuseInside, CommitStages, CommitRefusals
    <2> QED
      BY <1>0, <1>8, <2>1 DEF VerifyInside, RefuseInside
  <1>9. ASSUME NEW c \in Calls, CompareAndWrite(c) PROVE TypeOK'
    <2>1. call' \in [Calls -> Call]
      BY <1>0, <1>9, GotoEffect, AnswerEffect
         DEF CompareAndWrite, RefuseInside, CommitStages, CommitRefusals
    <2>2. [call |-> c, phase |-> "wrote"] \in Tx
      BY DEF Tx
    <2>3. CASE call[c].stage = "write" /\ tx' = [tx EXCEPT ![call[c].by].phase = "wrote"]
      <3>1. tx[call[c].by] = [call |-> c, phase |-> "locked"]
        BY <1>0, <2>3 DEF TxInv
      <3>2. [tx[call[c].by] EXCEPT !.phase = "wrote"] \in Tx
        BY <2>2, <3>1
      <3>3. tx' \in [Principals -> Tx \cup {NoTx}]
        BY <1>0, <2>3, <3>2
      <3> QED
        BY <1>0, <1>9, <2>1, <3>3 DEF CompareAndWrite, RefuseInside
    <2>4. CASE tx' = [tx EXCEPT ![call[c].by] = NoTx]
      BY <1>0, <1>9, <2>1, <2>4 DEF CompareAndWrite, RefuseInside
    <2> QED
      BY <1>9, <2>3, <2>4 DEF CompareAndWrite, RefuseInside
  <1>10. ASSUME NEW c \in Calls, InsertReceipt(c) PROVE TypeOK'
    <2>1. call' \in [Calls -> Call]
      BY <1>0, <1>10, GotoEffect DEF InsertReceipt, CommitStages
    <2>2. [call |-> c, phase |-> "committing"] \in Tx
      BY DEF Tx
    <2>3. tx[call[c].by] = [call |-> c, phase |-> "wrote"]
      BY <1>0, <1>10 DEF InsertReceipt, TxInv
    <2>4. [tx[call[c].by] EXCEPT !.phase = "committing"] \in Tx
      BY <2>2, <2>3
    <2>5. tx' \in [Principals -> Tx \cup {NoTx}]
      BY <1>0, <1>10, <2>4 DEF InsertReceipt
    <2> QED
      BY <1>0, <1>10, <2>1, <2>5 DEF InsertReceipt
  <1>11. ASSUME NEW c \in Calls, ConfirmAcknowledged(c) PROVE TypeOK'
    <2>1. call' \in [Calls -> Call]
      BY <1>0, <1>11, AnswerEffect DEF ConfirmAcknowledged
    <2>2. call[c].token \in Tokens
      BY <1>0, <1>11 DEF ConfirmAcknowledged, CallInv, BoundFrom, Bound, CommitStages
    <2> QED
      BY <1>0, <1>11, <2>1, <2>2 DEF ConfirmAcknowledged
  <1>12. ASSUME NEW c \in Calls, ServerCommit(c) PROVE TypeOK'
    <2>1. BoundFrom(c)
      BY <1>0, <1>12, NoneAssumption DEF ServerCommit, TxInv, NoTx
    <2>2. [token |-> call[c].token, owner |-> call[c].by, from |-> call[c].current,
           to |-> call[c].value] \in Receipt
      BY <1>0, <2>1 DEF BoundFrom, Bound, Receipt, Call
    <2> QED
      BY <1>0, <1>12, <2>1, <2>2 DEF ServerCommit, BoundFrom, Bound, Values
  <1>13. ASSUME NEW c \in Calls, ServerRollback(c) PROVE TypeOK'
    BY <1>0, <1>13 DEF ServerRollback
  <1>14. ASSUME NEW c \in Calls, ReadFails(c) PROVE TypeOK'
    <2>1. call' \in [Calls -> Call]
      BY <1>0, <1>14, AnswerEffect DEF ReadFails
    <2> QED
      BY <1>0, <1>14, <2>1 DEF ReadFails
  <1>15. ASSUME NEW c \in Calls, CommitThrows(c) PROVE TypeOK'
    <2>1. call' \in [Calls -> Call]
      BY <1>0, <1>15, AnswerEffect DEF CommitThrows
    <2> QED
      BY <1>0, <1>15, <2>1 DEF CommitThrows
  <1>16. ASSUME NEW t \in Tokens, TokenExpires(t) PROVE TypeOK'
    BY <1>0, <1>16 DEF TokenExpires
  <1>17. ASSUME NEW p \in Principals, RemovePrincipal(p) PROVE TypeOK'
    BY <1>0, <1>17 DEF RemovePrincipal, Values
  <1>18. ASSUME NEW p \in Principals, RegisterPrincipal(p) PROVE TypeOK'
    BY <1>0, <1>18 DEF RegisterPrincipal
  <1>19. ASSUME NEW i \in Instances, Restart(i) PROVE TypeOK'
    <2>1. \A c \in Calls : [call[c] EXCEPT !.stage = "done", !.answer = "dropped"] \in Call
      <3>1. \A c \in Calls : call[c] \in Call
        BY <1>0
      <3>2. "done" \in Stages /\ "dropped" \in Answers
        BY DEF Stages
      <3>3. ASSUME NEW k \in Call
            PROVE  [k EXCEPT !.stage = "done", !.answer = "dropped"] \in Call
        <4>1. Absent \in Values
          BY DEF Values
        <4> QED
          BY <3>2, <4>1, UpdatedCall
      <3> QED
        BY <3>1, <3>3
    <2>2. call' \in [Calls -> Call]
      BY <1>0, <1>19, <2>1 DEF Restart
    <2>3. spent' \in [Instances -> SUBSET Tokens]
      BY <1>0, <1>19 DEF Restart
    <2> QED
      BY <1>0, <1>19, <2>2, <2>3 DEF Restart
  <1>20. CASE UNCHANGED vars
    BY <1>0, <1>20 DEF vars
  <1> QED
    BY <1>1, <1>2, <1>3, <1>4, <1>5, <1>6, <1>7, <1>8, <1>9, <1>10, <1>11, <1>12,
       <1>13, <1>14, <1>15, <1>16, <1>17, <1>18, <1>19, <1>20
       DEF Next, Arrive, Progress, ServerStep

----------------------------------------------------------------------------
(* What a call carries stays bound to its token                            *)

\* A token is issued once: issuing another leaves the bound calls bound.
LEMMA BoundStable ==
  ASSUME TypeOK, NEW d \in Calls, SameFields(d),
         \A t \in Tokens : token[t] # NoToken => token'[t] = token[t]
  PROVE  (Bound(d) => Bound(d)') /\ (BoundFrom(d) => BoundFrom(d)')
  BY DEF Bound, BoundFrom, SameFields

\* Calls other than c, and c itself once it is done, keep what they had.
LEMMA CallInvAfter ==
  ASSUME TypeOK, CallInv, NEW c \in Calls,
         \A d \in Calls \ {c} : call'[d] = call[d],
         \A d \in Calls : SameFields(d),
         token' = token,
         call'[c].stage = "done"
  PROVE  CallInv'
  <1> SUFFICES ASSUME NEW d \in Calls
      PROVE /\ call'[d].stage \in PreviewStages =>
                 /\ call'[d].by \in Principals /\ call'[d].person \in Principals
                 /\ call'[d].value \in Languages
            /\ call'[d].stage \in PreviewStages \cup ReadStages \cup CommitStages =>
                 call'[d].at \in Instances
            /\ call'[d].stage = "previewRead" => call'[d].person = call'[d].by
            /\ call'[d].stage \in ReadStages => Bound(d)'
            /\ call'[d].stage \in CommitStages => BoundFrom(d)'
            /\ token'[d] # NoToken => call'[d].stage = "done"
    BY DEF CallInv
  <1>1. (Bound(d) => Bound(d)') /\ (BoundFrom(d) => BoundFrom(d)')
    BY BoundStable
  <1> QED
    BY <1>1 DEF CallInv, PreviewStages, ReadStages, CommitStages

\* Every step keeps what the calls at work have checked: a token is never
\* reissued and a request never edited.
LEMMA CallStep == ASSUME IInv, [Next]_vars PROVE CallInv'
  <1> USE StagesAndAnswers DEF dbVars
  <1>0. TypeOK /\ CallInv /\ TxInv
    BY DEF IInv
  <1>a. \A d \in Calls : call[d] \in Call
    BY <1>0 DEF TypeOK
  <1>1. ASSUME NEW c \in Calls, NEW i \in Instances, NEW p \in Principals,
               NEW q \in Principals, NEW v \in Languages, Preview(c, i, p, q, v)
        PROVE CallInv'
    <2>1. /\ call'[c].stage = "previewOwned" /\ call'[c].by = p /\ call'[c].at = i
          /\ call'[c].person = q /\ call'[c].value = v
          /\ \A d \in Calls \ {c} : call'[d] = call[d]
          /\ token' = token /\ call[c].stage = "idle"
      BY <1>0, <1>1 DEF Preview, NewCall, TypeOK
    <2> QED
      BY <1>0, <2>1 DEF CallInv, Bound, BoundFrom, PreviewStages, ReadStages, CommitStages
  <1>2. ASSUME NEW c \in Calls, NEW i \in Instances, NEW p \in Principals,
               NEW t \in Tokens, NEW q \in Principals, NEW v \in Languages,
               Confirm(c, i, p, t, q, v)
        PROVE CallInv'
    <2> DEFINE r == FirstRefusal(i, p, t, q, v)
    <2>1. /\ call'[c].stage = IF r = None THEN "owned" ELSE "done"
          /\ call'[c].by = p /\ call'[c].at = i /\ call'[c].token = t
          /\ call'[c].person = q /\ call'[c].value = v
          /\ \A d \in Calls \ {c} : call'[d] = call[d]
          /\ token' = token /\ call[c].stage = "idle"
      <3> HIDE DEF r
      <3> QED
        BY <1>0, <1>2 DEF Confirm, NewCall, TypeOK, r
    <2>2. r = None => token[t] # NoToken /\ token[t].owner = p
                      /\ token[t].owner = q /\ token[t].to = v
      BY NoneAssumption DEF FirstRefusal, Answers, Refusals, CommitRefusals
    <2>3. r = None => Bound(c)'
      BY <2>1, <2>2 DEF Bound
    <2> HIDE DEF r
    <2> QED
      BY <1>0, <2>1, <2>3 DEF CallInv, Bound, BoundFrom, PreviewStages, ReadStages, CommitStages
  <1>3. ASSUME NEW c \in Calls, PreviewOwned(c) PROVE CallInv'
    <2>1. CASE Answer(c, "not_own_record")
      BY <1>0, <1>3, <2>1, AnswerEffect, CallInvAfter DEF PreviewOwned, CommitRefusals
    <2>2. CASE Goto(c, "previewRead") /\ Owns(call[c].by, call[c].person)
      <3>1. /\ call'[c].stage = "previewRead" /\ SameFields(c)
            /\ \A d \in Calls \ {c} : call'[d] = call[d]
        BY <1>0, <2>2, GotoEffect DEF PreviewStages
      <3> QED
        BY <1>0, <1>3, <2>2, <3>1 DEF PreviewOwned, Owns, CallInv, Bound, BoundFrom,
           SameFields, PreviewStages, ReadStages, CommitStages
    <2> QED
      BY <1>3, <2>1, <2>2 DEF PreviewOwned
  <1>4. ASSUME NEW c \in Calls, PreviewRead(c) PROVE CallInv'
    <2>1. /\ call'[c].stage = "done" /\ \A d \in Calls \ {c} : call'[d] = call[d]
          /\ \A d \in Calls : SameFields(d)
      BY <1>0, <1>4, AnswerEffect DEF PreviewRead
    <2>2. token[c] = NoToken
      BY <1>0, <1>4 DEF PreviewRead, CallInv
    <2>3. \A t \in Tokens \ {c} : token'[t] = token[t]
      BY <1>0, <1>4 DEF PreviewRead, TypeOK
    <2>4. \A d \in Calls : (Bound(d) => Bound(d)') /\ (BoundFrom(d) => BoundFrom(d)')
      BY <1>0, <2>1, <2>2, <2>3, BoundStable DEF Tokens
    <2> QED
      BY <1>0, <2>1, <2>3, <2>4 DEF CallInv, Tokens, PreviewStages, ReadStages, CommitStages
  <1>5. ASSUME NEW c \in Calls, ConfirmOwned(c) PROVE CallInv'
    <2>1. CASE Answer(c, "not_own_record")
      BY <1>0, <1>5, <2>1, AnswerEffect, CallInvAfter DEF ConfirmOwned, CommitRefusals
    <2>2. CASE Goto(c, "read")
      <3>1. /\ call'[c].stage = "read" /\ SameFields(c)
            /\ \A d \in Calls \ {c} : call'[d] = call[d]
        BY <1>0, <2>2, GotoEffect DEF ReadStages
      <3> QED
        BY <1>0, <1>5, <3>1 DEF ConfirmOwned, CallInv, Bound, BoundFrom,
           SameFields, PreviewStages, ReadStages, CommitStages
    <2> QED
      BY <1>5, <2>1, <2>2 DEF ConfirmOwned
  <1>6. ASSUME NEW c \in Calls, ConfirmRead(c) PROVE CallInv'
    <2> DEFINE v == ReadField(call[c].by, call[c].person)
    <2>1. CASE Answer(c, "state_changed")
      BY <1>0, <1>6, <2>1, AnswerEffect, CallInvAfter DEF ConfirmRead, CommitRefusals
    <2>2. CASE /\ call' = [call EXCEPT ![c].stage = "lock", ![c].current = v]
               /\ token[call[c].token].from = v
      <3>1. /\ call'[c].stage = "lock" /\ call'[c].current = v
            /\ call'[c].at = call[c].at /\ call'[c].by = call[c].by
            /\ call'[c].token = call[c].token /\ call'[c].person = call[c].person
            /\ call'[c].value = call[c].value
            /\ \A d \in Calls \ {c} : call'[d] = call[d]
        <4> HIDE DEF v
        <4> QED
          BY <1>0, <1>a, <2>2 DEF TypeOK, Call
      <3>2. token' = token /\ call[c].stage = "read"
        BY <1>6 DEF ConfirmRead
      <3> HIDE DEF v
      <3>3. BoundFrom(c)'
        BY <1>0, <2>2, <3>1, <3>2 DEF CallInv, Bound, BoundFrom, ReadStages
      <3> QED
        BY <1>0, <3>1, <3>2, <3>3 DEF CallInv, Bound, BoundFrom,
           PreviewStages, ReadStages, CommitStages
    <2> QED
      BY <1>6, <2>1, <2>2 DEF ConfirmRead
  <1>7. ASSUME NEW c \in Calls, NEW s \in CommitStages, Goto(c, s),
               call[c].stage \in CommitStages, token' = token
        PROVE CallInv'
    <2>1. /\ call'[c].stage = s /\ SameFields(c)
          /\ \A d \in Calls \ {c} : call'[d] = call[d]
      BY <1>0, <1>7, GotoEffect
    <2> QED
      BY <1>0, <1>7, <2>1 DEF CallInv, Bound, BoundFrom, SameFields,
         PreviewStages, ReadStages, CommitStages
  <1>8. ASSUME NEW c \in Calls, NEW a \in Answers, Answer(c, a), token' = token
        PROVE CallInv'
    BY <1>0, <1>8, AnswerEffect, CallInvAfter
  <1>9. ASSUME NEW c \in Calls, Progress(c) PROVE CallInv'
    <2>1. ASSUME TakeLock(c) \/ VerifyInside(c) \/ CompareAndWrite(c) \/ InsertReceipt(c)
          PROVE CallInv'
      BY <1>7, <1>8, <2>1 DEF TakeLock, VerifyInside, CompareAndWrite, InsertReceipt,
         RefuseInside, CommitStages, CommitRefusals
    <2>2. ASSUME ConfirmAcknowledged(c) PROVE CallInv'
      BY <1>8, <2>2 DEF ConfirmAcknowledged
    <2> QED
      BY <1>3, <1>4, <1>5, <1>6, <1>9, <2>1, <2>2 DEF Progress
  <1>10. ASSUME NEW c \in Calls, ReadFails(c) \/ CommitThrows(c) PROVE CallInv'
    BY <1>8, <1>10 DEF ReadFails, CommitThrows
  <1>11. ASSUME call' = call, token' = token PROVE CallInv'
    BY <1>0, <1>11 DEF CallInv, Bound, BoundFrom
  <1>12. ASSUME NEW i \in Instances, Restart(i) PROVE CallInv'
    <2>1. \A d \in Calls : SameFields(d)
      BY <1>0, <1>12, RestartEffect
    <2>2. \A d \in Calls : call'[d].stage \in {call[d].stage, "done"}
      BY <1>0, <1>12, RestartEffect
    <2>3. \A d \in Calls : (Bound(d) => Bound(d)') /\ (BoundFrom(d) => BoundFrom(d)')
      BY <1>0, <1>12, <2>1, BoundStable DEF Restart
    <2>4. /\ token' = token
          /\ \A d \in Calls : /\ call'[d].at = call[d].at /\ call'[d].by = call[d].by
                             /\ call'[d].person = call[d].person
                             /\ call'[d].value = call[d].value
      BY <1>12, <2>1 DEF Restart, SameFields
    <2>5. \A S \in {PreviewStages, ReadStages, CommitStages, {"previewRead"}} :
            \A d \in Calls : call'[d].stage \in S => call[d].stage \in S
      BY <2>2 DEF PreviewStages, ReadStages, CommitStages
    <2>6. \A d \in Calls : call[d].stage = "done" => call'[d].stage = "done"
      BY <2>2
    <2> QED
      BY <1>0, <2>3, <2>4, <2>5, <2>6 DEF CallInv
  <1> QED
    BY <1>1, <1>2, <1>9, <1>10, <1>11, <1>12
       DEF Next, Arrive, ServerStep, ServerCommit, ServerRollback, TokenExpires,
           RemovePrincipal, RegisterPrincipal, vars

----------------------------------------------------------------------------
(* The lock, and what was verified under it                                *)

\* A call whose transaction is under way.
InTransaction(c) ==
  /\ call[c].stage \in {"verify", "write", "record", "committing"}
  /\ call[c].stage = "committing" => c \notin durable

\* A call whose transaction is under way holds its owner's advisory lock.
LEMMA HoldsLock ==
  ASSUME CallInv, TxInv, NEW c \in Calls, InTransaction(c)
  PROVE  /\ call[c].by \in Principals
         /\ tx[call[c].by] # NoTx /\ tx[call[c].by].call = c
  <1>1. call[c].by \in Principals
    BY DEF InTransaction, CallInv, BoundFrom, Bound, CommitStages
  <1>2. PICK ph : tx[call[c].by] = [call |-> c, phase |-> ph]
    BY DEF InTransaction, TxInv
  <1> QED
    BY <1>1, <1>2, NoneAssumption DEF NoTx

\* The two fields of a transaction.
LEMMA PhaseOf ==
  ASSUME NEW c, NEW ph, NEW x, x = [call |-> c, phase |-> ph]
  PROVE  x.call = c /\ x.phase = ph
  OBVIOUS

\* The phase of the lock tells how far the call that took it has come.
LEMMA StageOfPhase ==
  ASSUME CallInv, TxInv, NEW c \in Calls, call[c].by \in Principals,
         tx[call[c].by] # NoTx, tx[call[c].by].call = c
  PROVE  /\ tx[call[c].by].phase = "committing" => call[c].stage \in {"committing", "done"}
         /\ tx[call[c].by].phase = "locked" => call[c].stage \in {"verify", "write", "done"}
         /\ tx[call[c].by].phase = "wrote" => call[c].stage \in {"record", "done"}
  <1>1. ASSUME call[c].stage \in {"verify", "write"} PROVE tx[call[c].by].phase = "locked"
    <2>1. tx[call[c].by] = [call |-> c, phase |-> "locked"]
      BY <1>1 DEF TxInv
    <2> QED
      BY <2>1, PhaseOf
  <1>2. ASSUME call[c].stage = "record" PROVE tx[call[c].by].phase = "wrote"
    <2>1. tx[call[c].by] = [call |-> c, phase |-> "wrote"]
      BY <1>2 DEF TxInv
    <2> QED
      BY <2>1, PhaseOf
  <1>3. /\ c \notin durable
        /\ call[c].stage \in {"verify", "write", "record", "committing", "done"}
    BY DEF TxInv
  <1>4. ASSUME call[c].stage = "committing" PROVE tx[call[c].by].phase = "committing"
    <2>1. tx[call[c].by] = [call |-> c, phase |-> "committing"]
      BY <1>3, <1>4 DEF TxInv
    <2> QED
      BY <2>1, PhaseOf
  <1> QED
    BY <1>1, <1>2, <1>3, <1>4

\* Every step keeps the lock with the call that took it until the server has
\* committed or rolled back.
LEMMA TxStep == ASSUME IInv, [Next]_vars PROVE TxInv'
  <1> USE StagesAndAnswers, NoneAssumption DEF dbVars
  <1>0. TypeOK /\ CallInv /\ TxInv /\ AnswerInv
    BY DEF IInv
  <1>a. \A d \in Calls : call[d] \in Call
    BY <1>0 DEF TypeOK
  <1>b. CallInv'
    BY CallStep
  <1>c. \A p \in Principals : tx[p] # NoTx => tx[p].call \in Calls
    BY <1>0 DEF TypeOK, Tx
  <1>1. ASSUME NEW c \in Calls,
               call[c].stage \in {"idle"} \cup PreviewStages \cup ReadStages,
               call'[c].stage \in {"lock", "done"} \cup PreviewStages \cup ReadStages,
               \A d \in Calls \ {c} : call'[d] = call[d],
               \A t \in Tokens : token[t] # NoToken => token'[t] = token[t],
               tx' = tx, durable' = durable
        PROVE TxInv'
    <2>1. \A p \in Principals : tx[p] # NoTx => tx[p].call \in Calls \ {c}
      BY <1>0, <1>1, <1>c DEF TxInv, PreviewStages, ReadStages
    <2>2. \A d \in Calls \ {c} : BoundFrom(d) => BoundFrom(d)'
      BY <1>0, <1>1 DEF Bound, BoundFrom
    <2> QED
      BY <1>0, <1>1, <2>1, <2>2 DEF TxInv, PreviewStages, ReadStages
  <1>2. ASSUME NEW c \in Calls, call'[c].stage = "done",
               \A d \in Calls \ {c} : call'[d] = call[d],
               \A d \in Calls : SameFields(d),
               token' = token, tx' = tx, durable' = durable
        PROVE TxInv'
    <2>1. \A d \in Calls : BoundFrom(d) => BoundFrom(d)'
      BY <1>0, <1>2, BoundStable
    <2> QED
      BY <1>0, <1>2, <1>c, <2>1 DEF TxInv, SameFields
  <1>3. ASSUME NEW c \in Calls, NEW a \in Answers, Answer(c, a),
               token' = token, tx' = tx, durable' = durable
        PROVE TxInv'
    BY <1>0, <1>2, <1>3, AnswerEffect
  <1>4. ASSUME NEW c \in Calls, NEW i \in Instances, NEW p \in Principals,
               NEW q \in Principals, NEW v \in Languages, Preview(c, i, p, q, v)
        PROVE TxInv'
    <2>1. /\ call'[c].stage = "previewOwned" /\ call[c].stage = "idle"
          /\ \A d \in Calls \ {c} : call'[d] = call[d]
      BY <1>0, <1>4 DEF Preview, NewCall, TypeOK
    <2> QED
      BY <1>1, <1>4, <2>1 DEF Preview, PreviewStages
  <1>5. ASSUME NEW c \in Calls, NEW i \in Instances, NEW p \in Principals,
               NEW t \in Tokens, NEW q \in Principals, NEW v \in Languages,
               Confirm(c, i, p, t, q, v)
        PROVE TxInv'
    <2> DEFINE r == FirstRefusal(i, p, t, q, v)
    <2>1. /\ call'[c].stage = IF r = None THEN "owned" ELSE "done"
          /\ call[c].stage = "idle" /\ \A d \in Calls \ {c} : call'[d] = call[d]
      <3> HIDE DEF r
      <3> QED
        BY <1>0, <1>5 DEF Confirm, NewCall, TypeOK, r
    <2>2. token' = token /\ tx' = tx /\ durable' = durable
      BY <1>5 DEF Confirm
    <2> HIDE DEF r
    <2> QED
      BY <1>1, <2>1, <2>2 DEF ReadStages
  <1>6. ASSUME NEW c \in Calls, PreviewOwned(c) PROVE TxInv'
    BY <1>0, <1>1, <1>3, <1>6, GotoEffect DEF PreviewOwned, PreviewStages, CommitRefusals
  <1>7. ASSUME NEW c \in Calls, PreviewRead(c) PROVE TxInv'
    <2>1. call'[c].stage = "done" /\ \A d \in Calls \ {c} : call'[d] = call[d]
      BY <1>0, <1>7, AnswerEffect DEF PreviewRead
    <2>2. \A t \in Tokens : token[t] # NoToken => token'[t] = token[t]
      BY <1>0, <1>7 DEF PreviewRead, CallInv, TypeOK, Tokens
    <2> QED
      BY <1>1, <1>7, <2>1, <2>2 DEF PreviewRead, PreviewStages
  <1>8. ASSUME NEW c \in Calls, ConfirmOwned(c) PROVE TxInv'
    BY <1>0, <1>1, <1>3, <1>8, GotoEffect DEF ConfirmOwned, ReadStages, CommitRefusals
  <1>9. ASSUME NEW c \in Calls, ConfirmRead(c) PROVE TxInv'
    <2> DEFINE v == ReadField(call[c].by, call[c].person)
    <2>1. CASE Answer(c, "state_changed")
      BY <1>3, <1>9, <2>1 DEF ConfirmRead, CommitRefusals
    <2>2. CASE call' = [call EXCEPT ![c].stage = "lock", ![c].current = v]
      <3>1. call[c].stage = "read" /\ token' = token /\ tx' = tx /\ durable' = durable
        BY <1>9 DEF ConfirmRead
      <3> HIDE DEF v
      <3>2. call'[c].stage = "lock" /\ \A d \in Calls \ {c} : call'[d] = call[d]
        BY <1>0, <1>a, <2>2 DEF TypeOK, Call
      <3> QED
        BY <1>1, <3>1, <3>2 DEF ReadStages
    <2> QED
      BY <1>9, <2>1, <2>2 DEF ConfirmRead
  <1>10. ASSUME NEW c \in Calls, TakeLock(c) PROVE TxInv'
    <2>1. /\ call'[c].stage = "verify" /\ \A d \in Calls \ {c} : call'[d] = call[d]
          /\ \A d \in Calls : SameFields(d)
      BY <1>0, <1>10, GotoEffect DEF TakeLock, CommitStages
    <2>2. \A d \in Calls : BoundFrom(d) => BoundFrom(d)'
      BY <1>0, <1>10, <2>1, BoundStable DEF TakeLock
    <2>3. BoundFrom(c) /\ call[c].by \in Principals /\ c \notin durable
      BY <1>0, <1>10 DEF TakeLock, CallInv, CommitStages, BoundFrom, Bound, AnswerInv
    <2>4. /\ tx'[call[c].by] = [call |-> c, phase |-> "locked"]
          /\ \A p \in Principals \ {call[c].by} : tx'[p] = tx[p]
      BY <1>0, <1>10, <2>3 DEF TakeLock, TypeOK
    <2>6. \A p \in Principals \ {call[c].by} : tx[p] # NoTx => tx[p].call # c
      BY <1>0 DEF TxInv
    <2>7. tx[call[c].by] = NoTx /\ durable' = durable
      BY <1>10 DEF TakeLock
    <2>8. \A d \in Calls : InTransaction(d) => call[d].by \in Principals \ {call[c].by}
      BY <1>0, <2>7, HoldsLock
    <2> QED
      BY <1>0, <1>c, <2>1, <2>2, <2>3, <2>4, <2>6, <2>7, <2>8
         DEF TxInv, SameFields, InTransaction
  <1>11. ASSUME NEW c \in Calls, NEW reason \in Answers, RefuseInside(c, reason),
                call[c].stage \in {"verify", "write"}
         PROVE TxInv'
    <2>1. /\ call'[c].stage = "done" /\ \A d \in Calls \ {c} : call'[d] = call[d]
          /\ \A d \in Calls : SameFields(d)
      BY <1>0, <1>11, AnswerEffect DEF RefuseInside
    <2>2. \A d \in Calls : BoundFrom(d) => BoundFrom(d)'
      BY <1>0, <1>11, <2>1, BoundStable DEF RefuseInside
    <2>3. call[c].by \in Principals /\ tx[call[c].by].call = c
      BY <1>0, <1>11, HoldsLock DEF InTransaction
    <2>4. /\ tx'[call[c].by] = NoTx
          /\ \A p \in Principals \ {call[c].by} : tx'[p] = tx[p]
      BY <1>0, <1>11, <2>3 DEF RefuseInside, TypeOK
    <2>5. \A p \in Principals \ {call[c].by} : tx[p] # NoTx => tx[p].call # c
      BY <1>0 DEF TxInv
    <2>6. \A d \in Calls \ {c} : InTransaction(d) => call[d].by \in Principals \ {call[c].by}
      BY <1>0, <2>3, HoldsLock
    <2>7. durable' = durable
      BY <1>11 DEF RefuseInside
    <2> QED
      BY <1>0, <1>c, <2>1, <2>2, <2>4, <2>5, <2>6, <2>7 DEF TxInv, SameFields, InTransaction
  <1>12. ASSUME NEW c \in Calls, NEW s \in CommitStages, NEW ph, Goto(c, s),
                InTransaction(c), s = "write" => tx' = tx /\ call[c].stage = "verify",
                s # "write" => /\ tx' = [tx EXCEPT ![call[c].by].phase = ph]
                               /\ <<s, ph>> \in {<<"record", "wrote">>, <<"committing", "committing">>},
                durable' = durable, token' = token
         PROVE TxInv'
    <2>1. /\ call'[c].stage = s /\ \A d \in Calls \ {c} : call'[d] = call[d]
          /\ \A d \in Calls : SameFields(d)
      BY <1>0, <1>12, GotoEffect
    <2>2. \A d \in Calls : BoundFrom(d) => BoundFrom(d)'
      BY <1>0, <1>12, <2>1, BoundStable
    <2>3. call[c].by \in Principals /\ tx[call[c].by] # NoTx /\ tx[call[c].by].call = c
      BY <1>0, <1>12, HoldsLock
    <2>4. \A d \in Calls \ {c} : InTransaction(d) => call[d].by \in Principals \ {call[c].by}
      BY <1>0, <2>3, HoldsLock
    <2>5. tx[call[c].by] \in Tx
      BY <1>0, <2>3 DEF TypeOK
    <2>6. CASE s = "write"
      BY <1>0, <1>c, <1>12, <2>1, <2>2, <2>3, <2>6 DEF TxInv, SameFields, InTransaction
    <2>7. CASE s # "write"
      <3>1. /\ tx'[call[c].by] = [call |-> c, phase |-> ph]
            /\ \A p \in Principals \ {call[c].by} : tx'[p] = tx[p]
        BY <1>0, <1>12, <2>3, <2>5, <2>7 DEF TypeOK, Tx
      <3> QED
        BY <1>0, <1>c, <1>12, <2>1, <2>2, <2>3, <2>4, <2>7, <3>1 DEF TxInv, SameFields, InTransaction
    <2> QED
      BY <2>6, <2>7
  <1>13. ASSUME NEW c \in Calls, VerifyInside(c) PROVE TxInv'
    BY <1>11, <1>12, <1>13
       DEF VerifyInside, RefuseInside, InTransaction, CommitStages, CommitRefusals
  <1>14. ASSUME NEW c \in Calls, CompareAndWrite(c) PROVE TxInv'
    BY <1>11, <1>12, <1>14
       DEF CompareAndWrite, RefuseInside, InTransaction, CommitStages, CommitRefusals
  <1>15. ASSUME NEW c \in Calls, InsertReceipt(c) PROVE TxInv'
    BY <1>12, <1>15 DEF InsertReceipt, InTransaction, CommitStages
  <1>16. ASSUME NEW c \in Calls, ConfirmAcknowledged(c) PROVE TxInv'
    BY <1>3, <1>16 DEF ConfirmAcknowledged
  <1>17. ASSUME NEW c \in Calls, ServerCommit(c) PROVE TxInv'
    <2> DEFINE p == call[c].by
    <2>1. p \in Principals /\ tx[p] # NoTx /\ tx[p].call = c
      BY <1>17, NoneAssumption DEF ServerCommit, NoTx
    <2>2. /\ tx'[p] = NoTx /\ \A q \in Principals \ {p} : tx'[q] = tx[q]
      BY <1>0, <1>17, <2>1 DEF ServerCommit, TypeOK
    <2>3. call' = call /\ token' = token /\ durable' = durable \cup {c}
      BY <1>17 DEF ServerCommit
    <2>4. \A q \in Principals \ {p} : tx[q] # NoTx => tx[q].call # c
      BY <1>0 DEF TxInv
    <2>5. \A d \in Calls \ {c} : InTransaction(d) => call[d].by \in Principals \ {p}
      BY <1>0, <2>1, HoldsLock
    <2>6. call[c].stage \in {"committing", "done"}
      <3>1. tx[p].phase = "committing"
        BY <1>17, PhaseOf DEF ServerCommit
      <3> QED
        BY <1>0, <2>1, <3>1, StageOfPhase
    <2> HIDE DEF p
    <2>8. ASSUME NEW d \in Calls
          PROVE /\ call'[d].stage \in {"verify", "write"} =>
                     tx'[call'[d].by] = [call |-> d, phase |-> "locked"]
                /\ call'[d].stage = "record" =>
                     tx'[call'[d].by] = [call |-> d, phase |-> "wrote"]
                /\ call'[d].stage = "committing" /\ d \notin durable' =>
                     tx'[call'[d].by] = [call |-> d, phase |-> "committing"]
      <3>1. CASE d = c
        BY <2>3, <2>6, <3>1
      <3>2. CASE d # c /\ InTransaction(d)
        BY <1>0, <2>2, <2>3, <2>5, <3>2 DEF TxInv
      <3>3. CASE d # c /\ ~InTransaction(d)
        BY <2>3, <3>3 DEF InTransaction
      <3> QED
        BY <3>1, <3>2, <3>3
    <2>9. ASSUME NEW q \in Principals, tx'[q] # NoTx, NEW e \in Calls, e = tx'[q].call
          PROVE /\ BoundFrom(e)' /\ call'[e].by = q
                /\ e \notin durable'
                /\ call'[e].stage \in
                     {"verify", "write", "record", "committing", "done"}
      <3>1. q # p /\ tx'[q] = tx[q] /\ tx[q].call = e /\ e # c
        BY <2>2, <2>4, <2>9
      <3>2. /\ BoundFrom(e) /\ call[e].by = q /\ e \notin durable
            /\ call[e].stage \in {"verify", "write", "record", "committing", "done"}
        BY <1>0, <2>9, <3>1 DEF TxInv
      <3>3. BoundFrom(e)'
        BY <2>3, <3>2 DEF BoundFrom, Bound
      <3> QED
        BY <2>3, <3>1, <3>2, <3>3
    <2>10. \A q \in Principals : tx'[q] # NoTx => tx'[q].call \in Calls
      BY <1>c, <2>2
    <2> QED
      BY <2>8, <2>9, <2>10 DEF TxInv
  <1>18. ASSUME NEW c \in Calls, ServerRollback(c) PROVE TxInv'
    <2> DEFINE p == call[c].by
    <2>1. p \in Principals /\ tx[p] # NoTx /\ tx[p].call = c
      BY <1>18 DEF ServerRollback
    <2>2. /\ tx'[p] = NoTx /\ \A q \in Principals \ {p} : tx'[q] = tx[q]
      BY <1>0, <1>18, <2>1 DEF ServerRollback, TypeOK
    <2>3. call' = call /\ token' = token /\ durable' = durable /\ call[c].stage = "done"
      BY <1>18 DEF ServerRollback
    <2>4. \A d \in Calls : InTransaction(d) => call[d].by \in Principals \ {p}
      BY <1>0, <2>1, <2>3, HoldsLock DEF InTransaction
    <2>6. \A d \in Calls : InTransaction(d) => tx'[call[d].by] = tx[call[d].by]
      BY <2>2, <2>4
    <2>7. ASSUME NEW q \in Principals, tx'[q] # NoTx
          PROVE  tx'[q] = tx[q] /\ tx[q] # NoTx
      BY <2>2, <2>7
    <2>8. ASSUME NEW d \in Calls
          PROVE  /\ call[d].stage \in {"verify", "write"} =>
                      tx'[call[d].by] = [call |-> d, phase |-> "locked"]
                 /\ call[d].stage = "record" =>
                      tx'[call[d].by] = [call |-> d, phase |-> "wrote"]
                 /\ call[d].stage = "committing" /\ d \notin durable =>
                      tx'[call[d].by] = [call |-> d, phase |-> "committing"]
      <3>1. CASE InTransaction(d)
        BY <1>0, <2>6, <3>1 DEF TxInv
      <3>2. CASE ~InTransaction(d)
        BY <3>2 DEF InTransaction
      <3> QED
        BY <3>1, <3>2
    <2>9. ASSUME NEW q \in Principals, tx'[q] # NoTx
          PROVE  /\ tx'[q] = tx[q] /\ BoundFrom(tx[q].call) /\ call[tx[q].call].by = q
                 /\ tx[q].call \notin durable
                 /\ call[tx[q].call].stage \in
                      {"verify", "write", "record", "committing", "done"}
      BY <1>0, <2>7, <2>9 DEF TxInv
    <2>10. ASSUME NEW e, BoundFrom(e) PROVE BoundFrom(e)'
      BY <2>3, <2>10 DEF BoundFrom, Bound
    <2> QED
      BY <2>3, <2>8, <2>9, <2>10 DEF TxInv
  <1>19. ASSUME NEW c \in Calls, ReadFails(c) \/ CommitThrows(c) PROVE TxInv'
    BY <1>3, <1>19 DEF ReadFails, CommitThrows
  <1>20. ASSUME NEW i \in Instances, Restart(i) PROVE TxInv'
    <2>1. \A d \in Calls : SameFields(d)
      BY <1>0, <1>20, RestartEffect
    <2>2. \A d \in Calls : call'[d].stage \in {call[d].stage, "done"}
      BY <1>0, <1>20, RestartEffect
    <2>3. \A d \in Calls : BoundFrom(d) => BoundFrom(d)'
      BY <1>0, <1>20, <2>1, BoundStable DEF Restart
    <2>4. tx' = tx /\ durable' = durable
      BY <1>20 DEF Restart
    <2>5. \A d \in Calls : call'[d].by = call[d].by
      BY <2>1 DEF SameFields
    <2> QED
      BY <1>0, <1>c, <2>2, <2>3, <2>4, <2>5 DEF TxInv
  <1>21. ASSUME call' = call, token' = token, tx' = tx, durable' = durable PROVE TxInv'
    BY <1>0, <1>21 DEF TxInv, BoundFrom, Bound
  <1> QED
    BY <1>4, <1>5, <1>6, <1>7, <1>8, <1>9, <1>10, <1>13, <1>14, <1>15, <1>16,
       <1>17, <1>18, <1>19, <1>20, <1>21
       DEF Next, Arrive, Progress, ServerStep, TokenExpires, RemovePrincipal,
           RegisterPrincipal, vars

----------------------------------------------------------------------------
(* How one step moves a call                                               *)

\* What a step may do to call d: its request never changes once it has
\* arrived, the value it compares with only while it reads, an answer never.
Moved(d) ==
  /\ call[d].stage # "idle" =>
       /\ call'[d].by = call[d].by /\ call'[d].token = call[d].token
       /\ call'[d].value = call[d].value /\ call'[d].stage # "idle"
  /\ call[d].stage \notin {"idle", "read"} => call'[d].current = call[d].current
  /\ call[d].stage = "done" => call'[d] = call[d]
  /\ call[d].stage = "committing" => call'[d].stage \in {"committing", "done"}
  /\ call'[d].stage = "write" =>
       \/ call[d].stage = "write"
       \/ call[d].stage = "verify" /\ ~TokenUsed(call[d].token) /\ ledger' = ledger

\* Every step moves every call in one of the ways of Moved.
LEMMA CallMoves == ASSUME IInv, [Next]_vars PROVE \A d \in Calls : Moved(d)
  <1> USE StagesAndAnswers DEF dbVars
  <1>0. TypeOK
    BY DEF IInv
  <1>a. \A d \in Calls : call[d] \in Call
    BY <1>0 DEF TypeOK
  <1>1. ASSUME NEW c \in Calls, NEW a \in Answers, Answer(c, a), call[c].stage # "done"
        PROVE \A d \in Calls : Moved(d)
    BY <1>0, <1>1, AnswerEffect DEF Moved, SameFields
  <1>2. ASSUME NEW c \in Calls, NEW s \in Stages, Goto(c, s),
               call[c].stage \notin {"idle", "done"}, s # "idle",
               s = "write" => /\ call[c].stage = "verify"
                              /\ ~TokenUsed(call[c].token) /\ ledger' = ledger,
               call[c].stage # "committing"
        PROVE \A d \in Calls : Moved(d)
    BY <1>0, <1>2, GotoEffect DEF Moved, SameFields
  <1>3. ASSUME NEW c \in Calls, call[c].stage = "idle", call'[c].stage # "write",
               \A d \in Calls \ {c} : call'[d] = call[d]
        PROVE \A d \in Calls : Moved(d)
    BY <1>3 DEF Moved
  <1>4. ASSUME NEW c \in Calls, NEW i \in Instances, NEW p \in Principals,
               NEW q \in Principals, NEW v \in Languages, Preview(c, i, p, q, v)
        PROVE \A d \in Calls : Moved(d)
    <2>1. /\ call'[c].stage = "previewOwned" /\ call[c].stage = "idle"
          /\ \A d \in Calls \ {c} : call'[d] = call[d]
      BY <1>0, <1>4 DEF Preview, NewCall, TypeOK
    <2> QED
      BY <1>3, <2>1
  <1>5. ASSUME NEW c \in Calls, NEW i \in Instances, NEW p \in Principals,
               NEW t \in Tokens, NEW q \in Principals, NEW v \in Languages,
               Confirm(c, i, p, t, q, v)
        PROVE \A d \in Calls : Moved(d)
    <2> DEFINE r == FirstRefusal(i, p, t, q, v)
    <2>1. /\ call'[c].stage = IF r = None THEN "owned" ELSE "done"
          /\ call[c].stage = "idle" /\ \A d \in Calls \ {c} : call'[d] = call[d]
      <3> HIDE DEF r
      <3> QED
        BY <1>0, <1>5 DEF Confirm, NewCall, TypeOK, r
    <2> HIDE DEF r
    <2> QED
      BY <1>3, <2>1
  <1>6. ASSUME NEW c \in Calls, ConfirmRead(c) PROVE \A d \in Calls : Moved(d)
    <2> DEFINE v == ReadField(call[c].by, call[c].person)
    <2>1. CASE Answer(c, "state_changed")
      BY <1>1, <1>6, <2>1 DEF ConfirmRead, CommitRefusals
    <2>2. CASE call' = [call EXCEPT ![c].stage = "lock", ![c].current = v]
      <3>1. call[c].stage = "read"
        BY <1>6 DEF ConfirmRead
      <3> HIDE DEF v
      <3>2. /\ call'[c].stage = "lock" /\ call'[c].by = call[c].by
            /\ call'[c].token = call[c].token /\ call'[c].value = call[c].value
            /\ \A d \in Calls \ {c} : call'[d] = call[d]
        BY <1>0, <1>a, <2>2 DEF TypeOK, Call
      <3> QED
        BY <3>1, <3>2 DEF Moved
    <2> QED
      BY <1>6, <2>1, <2>2 DEF ConfirmRead
  <1>7. ASSUME NEW c \in Calls, PreviewOwned(c) \/ PreviewRead(c) \/ ConfirmOwned(c)
        PROVE \A d \in Calls : Moved(d)
    BY <1>1, <1>2, <1>7 DEF PreviewOwned, PreviewRead, ConfirmOwned,
       CommitRefusals, PreviewStages, ReadStages
  <1>8. ASSUME NEW c \in Calls, TakeLock(c) \/ InsertReceipt(c) \/ ConfirmAcknowledged(c)
        PROVE \A d \in Calls : Moved(d)
    BY <1>1, <1>2, <1>8 DEF TakeLock, InsertReceipt, ConfirmAcknowledged, CommitStages
  <1>9. ASSUME NEW c \in Calls, VerifyInside(c) \/ CompareAndWrite(c)
        PROVE \A d \in Calls : Moved(d)
    BY <1>1, <1>2, <1>9 DEF VerifyInside, CompareAndWrite, RefuseInside,
       CommitRefusals, CommitStages
  <1>10. ASSUME NEW c \in Calls, ReadFails(c) \/ CommitThrows(c)
         PROVE \A d \in Calls : Moved(d)
    BY <1>1, <1>10 DEF ReadFails, CommitThrows, PreviewStages, ReadStages, CommitStages
  <1>11. ASSUME NEW i \in Instances, Restart(i) PROVE \A d \in Calls : Moved(d)
    <2>1. \A d \in Calls : SameFields(d)
      BY <1>0, <1>11, RestartEffect
    <2>2. \A d \in Calls : \/ call'[d] = call[d]
                           \/ call'[d].stage = "done" /\ Active(d)
      BY <1>0, <1>11, RestartEffect
    <2> QED
      BY <2>1, <2>2 DEF Moved, SameFields, Active
  <1>12. ASSUME call' = call PROVE \A d \in Calls : Moved(d)
    BY <1>12 DEF Moved
  <1> QED
    <2>1. ASSUME NEW c \in Calls, Arrive(c) PROVE \A d \in Calls : Moved(d)
      BY <1>4, <1>5, <2>1 DEF Arrive
    <2>2. ASSUME NEW c \in Calls, Progress(c) PROVE \A d \in Calls : Moved(d)
      BY <1>6, <1>7, <1>8, <1>9, <2>2 DEF Progress
    <2> QED
      BY <1>10, <1>11, <1>12, <2>1, <2>2, CallKept DEF Next

----------------------------------------------------------------------------
(* The ledger                                                              *)

\* What appending to a sequence leaves in place.
LEMMA AppendFacts ==
  ASSUME NEW S, NEW s \in Seq(S), NEW e \in S
  PROVE  /\ DOMAIN Append(s, e) = DOMAIN s \cup {Len(s) + 1}
         /\ Len(s) \in Nat /\ DOMAIN s = 1..Len(s)
         /\ \A k \in DOMAIN s : Append(s, e)[k] = s[k]
         /\ Append(s, e)[Len(s) + 1] = e
  OBVIOUS

\* The receipt that the commit of c appends.
ReceiptOf(c) ==
  [token |-> call[c].token, owner |-> call[c].by,
   from |-> call[c].current, to |-> call[c].value]

\* What the server knows when it commits the transaction of c, and does.
LEMMA CommitFacts ==
  ASSUME IInv, NEW c \in Calls, ServerCommit(c)
  PROVE  /\ call[c].by \in principals /\ call[c].by \in Principals
         /\ tx[call[c].by] # NoTx /\ tx[call[c].by].call = c
         /\ WriteInFlight(call[c].by)
         /\ BoundFrom(c) /\ ~TokenUsed(call[c].token)
         /\ language[call[c].by] = call[c].current
         /\ c \notin durable /\ call[c].stage \in {"committing", "done"}
         /\ ReceiptOf(c) \in Receipt
         /\ ledger' = Append(ledger, ReceiptOf(c))
         /\ call' = call /\ token' = token /\ principals' = principals
         /\ tx' = [tx EXCEPT ![call[c].by] = NoTx]
         /\ language' = [language EXCEPT ![call[c].by] = call[c].value]
         /\ durable' = durable \cup {c} /\ spent' = spent
  <1>0. TypeOK /\ CallInv /\ TxInv /\ VerifiedInv
    BY DEF IInv
  <1>1. /\ call[c].by \in Principals
        /\ tx[call[c].by] = [call |-> c, phase |-> "committing"]
    BY DEF ServerCommit
  <1>2. tx[call[c].by].call = c /\ tx[call[c].by].phase = "committing"
    BY <1>1, PhaseOf
  <1>3. tx[call[c].by] # NoTx
    BY <1>1, NoneAssumption DEF NoTx
  <1>4. WriteInFlight(call[c].by)
    BY <1>2, <1>3 DEF WriteInFlight
  <1>5. BoundFrom(c) /\ c \notin durable
    BY <1>0, <1>1, <1>2, <1>3 DEF TxInv
  <1>6. call[c].stage \in {"committing", "done"}
    BY <1>0, <1>1, <1>2, <1>3, StageOfPhase
  <1>7. /\ ~TokenUsed(call[c].token) /\ language[call[c].by] = call[c].current
        /\ call[c].by \in principals
    BY <1>0, <1>1, <1>2, <1>4 DEF VerifiedInv
  <1>8. ReceiptOf(c) \in Receipt
    <2>1. call[c] \in Call
      BY <1>0 DEF TypeOK
    <2>2. /\ call[c].token \in Tokens /\ call[c].current \in Values
          /\ call[c].value \in Languages
      BY <1>5, <2>1 DEF BoundFrom, Bound, Call
    <2> QED
      BY <1>1, <2>2 DEF ReceiptOf, Receipt
  <1>9. /\ ledger' = Append(ledger, ReceiptOf(c))
        /\ call' = call /\ token' = token /\ principals' = principals
        /\ tx' = [tx EXCEPT ![call[c].by] = NoTx]
        /\ language' = [language EXCEPT ![call[c].by] = call[c].value]
        /\ durable' = durable \cup {c} /\ spent' = spent
    BY DEF ServerCommit, ReceiptOf
  <1> QED
    BY <1>1, <1>2, <1>3, <1>4, <1>5, <1>6, <1>7, <1>8, <1>9

\* The steps that touch the database.
LEMMA DbSteps ==
  ASSUME [Next]_vars
  PROVE  \/ UNCHANGED dbVars
         \/ \E c \in Calls : \/ TakeLock(c) \/ VerifyInside(c) \/ CompareAndWrite(c)
                             \/ InsertReceipt(c) \/ ServerCommit(c) \/ ServerRollback(c)
         \/ \E p \in Principals : RemovePrincipal(p) \/ RegisterPrincipal(p)
  <1>1. ASSUME NEW c \in Calls, Arrive(c) PROVE UNCHANGED dbVars
    <2>1. ASSUME NEW i, NEW p, NEW person, NEW v, Preview(c, i, p, person, v)
          PROVE  UNCHANGED dbVars
      BY <2>1 DEF Preview
    <2>2. ASSUME NEW i, NEW p, NEW t, NEW person, NEW v, Confirm(c, i, p, t, person, v)
          PROVE  UNCHANGED dbVars
      BY <2>2 DEF Confirm
    <2> QED
      BY <1>1, <2>1, <2>2 DEF Arrive
  <1>2. ASSUME NEW c \in Calls,
               \/ PreviewOwned(c) \/ PreviewRead(c) \/ ConfirmOwned(c)
               \/ ConfirmRead(c) \/ ConfirmAcknowledged(c)
        PROVE UNCHANGED dbVars
    BY <1>2 DEF PreviewOwned, PreviewRead, ConfirmOwned, ConfirmRead, ConfirmAcknowledged
  <1>3. ASSUME NEW c \in Calls, ReadFails(c) \/ CommitThrows(c) PROVE UNCHANGED dbVars
    BY <1>3 DEF ReadFails, CommitThrows
  <1>4. ASSUME NEW t \in Tokens, TokenExpires(t) PROVE UNCHANGED dbVars
    BY <1>4 DEF TokenExpires
  <1>5. ASSUME NEW i \in Instances, Restart(i) PROVE UNCHANGED dbVars
    BY <1>5 DEF Restart
  <1>6. CASE UNCHANGED vars
    BY <1>6 DEF vars, dbVars
  <1> QED
    BY <1>1, <1>2, <1>3, <1>4, <1>5, <1>6 DEF Next, Progress, ServerStep

\* The server's commit is the only step that writes a receipt.
LEMMA LedgerStep ==
  ASSUME IInv, [Next]_vars
  PROVE  \/ \E c \in Calls : ServerCommit(c)
         \/ ledger' = ledger /\ durable' = durable
  <1> DEFINE Same == ledger' = ledger /\ durable' = durable
  <1>1. ASSUME UNCHANGED dbVars PROVE Same
    BY <1>1 DEF dbVars
  <1>2. ASSUME NEW c \in Calls, TakeLock(c) \/ InsertReceipt(c) \/ ServerRollback(c) PROVE Same
    BY <1>2 DEF TakeLock, InsertReceipt, ServerRollback
  <1>3. ASSUME NEW c \in Calls, VerifyInside(c) PROVE Same
    BY <1>3 DEF VerifyInside, RefuseInside, dbVars
  <1>4. ASSUME NEW c \in Calls, CompareAndWrite(c) PROVE Same
    BY <1>4 DEF CompareAndWrite, RefuseInside
  <1>5. ASSUME NEW p \in Principals, RemovePrincipal(p) \/ RegisterPrincipal(p) PROVE Same
    BY <1>5 DEF RemovePrincipal, RegisterPrincipal
  <1> HIDE DEF Same
  <1>6. (\E c \in Calls : ServerCommit(c)) \/ Same
    BY <1>1, <1>2, <1>3, <1>4, <1>5, DbSteps
  <1> QED
    BY <1>6 DEF Same

\* After a commit the used tokens are those used before and the one applied.
LEMMA UsedAfterCommit ==
  ASSUME IInv, NEW c \in Calls, ServerCommit(c)
  PROVE  \A t \in Tokens : TokenUsed(t)' <=> TokenUsed(t) \/ t = call[c].token
  <1>1. /\ ledger' = Append(ledger, ReceiptOf(c)) /\ ReceiptOf(c) \in Receipt
        /\ ledger \in Seq(Receipt)
    BY CommitFacts DEF IInv, TypeOK
  <1>2. /\ DOMAIN ledger' = DOMAIN ledger \cup {Len(ledger) + 1}
        /\ \A k \in DOMAIN ledger : ledger'[k] = ledger[k]
        /\ ledger'[Len(ledger) + 1] = ReceiptOf(c)
    BY <1>1, AppendFacts
  <1>3. ReceiptOf(c).token = call[c].token
    BY DEF ReceiptOf
  <1> QED
    BY <1>2, <1>3 DEF TokenUsed

\* A receipt is never taken back.
LEMMA ReceiptsStay ==
  ASSUME IInv, [Next]_vars
  PROVE  /\ DOMAIN ledger \subseteq DOMAIN ledger'
         /\ \A k \in DOMAIN ledger : ledger'[k] = ledger[k]
  <1>1. ASSUME NEW c \in Calls, ServerCommit(c)
        PROVE /\ DOMAIN ledger \subseteq DOMAIN ledger'
              /\ \A k \in DOMAIN ledger : ledger'[k] = ledger[k]
    <2>1. /\ ledger' = Append(ledger, ReceiptOf(c)) /\ ReceiptOf(c) \in Receipt
          /\ ledger \in Seq(Receipt)
      BY <1>1, CommitFacts DEF IInv, TypeOK
    <2> QED
      BY <2>1, AppendFacts
  <1>2. ASSUME ledger' = ledger
        PROVE /\ DOMAIN ledger \subseteq DOMAIN ledger'
              /\ \A k \in DOMAIN ledger : ledger'[k] = ledger[k]
    BY <1>2
  <1> QED
    BY <1>1, <1>2, LedgerStep

\* So a used token stays used.
LEMMA UsedStaysUsed ==
  ASSUME IInv, [Next]_vars
  PROVE  \A t \in Tokens : TokenUsed(t) => TokenUsed(t)'
  BY ReceiptsStay DEF TokenUsed

----------------------------------------------------------------------------
(* What was verified under the lock stays so until the commit              *)

\* Every step keeps what a transaction verified under the lock.
LEMMA VerifiedStep == ASSUME IInv, [Next]_vars PROVE VerifiedInv'
  <1>0. /\ TypeOK /\ CallInv /\ TxInv /\ VerifiedInv /\ ForeignKeyInv
        /\ \A d \in Calls : Moved(d)
        /\ CallInv' /\ TxInv'
    BY CallMoves, CallStep, TxStep DEF IInv
  <1>a. \A p \in Principals : tx[p] # NoTx =>
          /\ tx[p].call \in Calls
          /\ call[tx[p].call].stage \notin {"idle", "read"}
    BY <1>0 DEF TypeOK, Tx, TxInv
  <1>b. \A d \in Calls : call[d].stage \in {"verify", "write"} => call[d].token \in Tokens
    BY <1>0 DEF CallInv, BoundFrom, Bound, CommitStages
  \* The first conjunct, as long as no receipt is written.
  <1>1. ASSUME ledger' = ledger, NEW d \in Calls, call'[d].stage = "write"
        PROVE ~TokenUsed(call[d].token)'
    BY <1>0, <1>1 DEF Moved, VerifiedInv, TokenUsed
  \* The second, for the transactions a step does not touch.
  <1>2. ASSUME ledger' = ledger, NEW p \in Principals, tx'[p] = tx[p],
               language'[p] = language[p], p \in principals => p \in principals',
               WriteInFlight(p)
        PROVE /\ ~TokenUsed(call[tx[p].call].token)'
              /\ language'[p] = call'[tx'[p].call].current
              /\ p \in principals'
    <2>1. /\ call'[tx[p].call].token = call[tx[p].call].token
          /\ call'[tx[p].call].current = call[tx[p].call].current
      BY <1>0, <1>a, <1>2 DEF Moved, WriteInFlight
    <2> QED
      BY <1>0, <1>2, <2>1 DEF VerifiedInv, TokenUsed
  <1>3. ASSUME ledger' = ledger,
               \A p \in Principals : WriteInFlight(p)' =>
                 /\ WriteInFlight(p) /\ tx'[p] = tx[p] /\ language'[p] = language[p]
                 /\ p \in principals => p \in principals'
        PROVE VerifiedInv'
    BY <1>1, <1>2, <1>3 DEF VerifiedInv
  <1>4. CASE UNCHANGED dbVars
    BY <1>3, <1>4 DEF dbVars, WriteInFlight
  <1>5. ASSUME NEW q \in Principals, NEW e, tx' = [tx EXCEPT ![q] = e],
               e = NoTx \/ e.phase = "locked",
               UNCHANGED <<ledger, language, principals>>
        PROVE VerifiedInv'
    <2>1. tx'[q] = e /\ \A p \in Principals \ {q} : tx'[p] = tx[p]
      BY <1>0, <1>5 DEF TypeOK
    <2>2. ~WriteInFlight(q)'
      BY <1>5, <2>1 DEF WriteInFlight
    <2> QED
      BY <1>3, <1>5, <2>1, <2>2 DEF WriteInFlight
  <1>6. ASSUME NEW c \in Calls, NEW reason, RefuseInside(c, reason),
               call[c].stage \in CommitStages
        PROVE VerifiedInv'
    <2>1. call[c].by \in Principals
      BY <1>0, <1>6 DEF CallInv, BoundFrom, Bound
    <2> QED
      BY <1>5, <1>6, <2>1 DEF RefuseInside
  <1>7. ASSUME NEW c \in Calls, TakeLock(c) PROVE VerifiedInv'
    <2>1. call[c].by \in Principals
      BY <1>0, <1>7 DEF TakeLock, CallInv, BoundFrom, Bound, CommitStages
    <2>2. [call |-> c, phase |-> "locked"].phase = "locked"
      BY PhaseOf
    <2> QED
      BY <1>5, <1>7, <2>1, <2>2 DEF TakeLock
  <1>8. ASSUME NEW c \in Calls, VerifyInside(c) PROVE VerifiedInv'
    BY <1>4, <1>6, <1>8 DEF VerifyInside, CommitStages
  <1>9. ASSUME NEW c \in Calls, ServerRollback(c) PROVE VerifiedInv'
    BY <1>5, <1>9 DEF ServerRollback
  \* A transaction of c enters the phases in which it is in flight.
  <1>10. ASSUME NEW c \in Calls, NEW ph, call[c].by \in Principals,
                tx[call[c].by].call = c, call[c].stage \in {"write", "record"},
                tx' = [tx EXCEPT ![call[c].by].phase = ph],
                UNCHANGED <<ledger, language, principals>>,
                tx[call[c].by] \in Tx, ~TokenUsed(call[c].token),
                language[call[c].by] = call[c].current, call[c].by \in principals
         PROVE VerifiedInv'
    <2>0. PICK p : p = call[c].by
      OBVIOUS
    <2>1. /\ tx'[p].call = c
          /\ \A q \in Principals \ {p} : tx'[q] = tx[q]
      BY <1>0, <1>10, <2>0 DEF TypeOK, Tx
    <2>2. /\ call'[c].token = call[c].token /\ call'[c].current = call[c].current
      BY <1>0, <1>10 DEF Moved
    <2>3. /\ ~TokenUsed(call[tx[p].call].token)'
          /\ language'[p] = call'[tx'[p].call].current
          /\ p \in principals'
      BY <1>10, <2>0, <2>1, <2>2 DEF TokenUsed
    <2>4. ASSUME NEW q \in Principals \ {p}, WriteInFlight(q)'
          PROVE /\ ~TokenUsed(call[tx[q].call].token)'
                /\ language'[q] = call'[tx'[q].call].current
                /\ q \in principals'
      <3>1. tx'[q] = tx[q]
        BY <2>1
      <3>2. WriteInFlight(q)
        BY <2>4, <3>1 DEF WriteInFlight
      <3> QED
        BY <1>2, <1>10, <3>1, <3>2
    <2> QED
      BY <1>1, <1>10, <2>3, <2>4 DEF VerifiedInv
  <1>11. ASSUME NEW c \in Calls, CompareAndWrite(c) PROVE VerifiedInv'
    <2>1. call[c].stage = "write" /\ InTransaction(c)
      BY <1>11 DEF CompareAndWrite, InTransaction
    <2>2. CASE \E reason : RefuseInside(c, reason)
      BY <1>6, <2>1, <2>2 DEF CommitStages
    <2>3. CASE /\ CompareHolds(c)
               /\ call[c].current # Absent \/ ForeignKeyHolds(call[c].by)
               /\ tx' = [tx EXCEPT ![call[c].by].phase = "wrote"]
               /\ UNCHANGED <<ledger, language, principals>>
      <3>1. call[c].by \in Principals /\ tx[call[c].by] # NoTx /\ tx[call[c].by].call = c
        BY <1>0, <2>1, HoldsLock
      <3>2. tx[call[c].by] \in Tx
        BY <1>0, <3>1 DEF TypeOK
      <3>3. ~TokenUsed(call[c].token)
        BY <1>0, <2>1 DEF VerifiedInv
      <3>4. language[call[c].by] = call[c].current
        BY <2>3 DEF CompareHolds
      <3>5. call[c].by \in principals
        BY <1>0, <2>3, <3>1, <3>4 DEF ForeignKeyInv, ForeignKeyHolds
      <3> QED
        BY <1>10, <2>1, <2>3, <3>1, <3>2, <3>3, <3>4, <3>5
    <2> QED
      BY <1>11, <2>2, <2>3 DEF CompareAndWrite
  <1>12. ASSUME NEW c \in Calls, InsertReceipt(c) PROVE VerifiedInv'
    <2>1. call[c].stage = "record" /\ InTransaction(c)
      BY <1>12 DEF InsertReceipt, InTransaction
    <2>2. call[c].by \in Principals /\ tx[call[c].by] # NoTx /\ tx[call[c].by].call = c
      BY <1>0, <2>1, HoldsLock
    <2>3. tx[call[c].by] \in Tx
      BY <1>0, <2>2 DEF TypeOK
    <2>4. tx[call[c].by].phase = "wrote"
      <3>1. tx[call[c].by] = [call |-> c, phase |-> "wrote"]
        BY <1>0, <2>1 DEF TxInv
      <3> QED
        BY <3>1, PhaseOf
    <2>5. WriteInFlight(call[c].by)
      BY <2>2, <2>4 DEF WriteInFlight
    <2>6. /\ ~TokenUsed(call[c].token) /\ language[call[c].by] = call[c].current
          /\ call[c].by \in principals
      BY <1>0, <2>2, <2>5 DEF VerifiedInv
    <2>7. /\ tx' = [tx EXCEPT ![call[c].by].phase = "committing"]
          /\ UNCHANGED <<ledger, language, principals>>
      BY <1>12 DEF InsertReceipt
    <2> QED
      BY <1>10, <2>1, <2>2, <2>3, <2>6, <2>7
  <1>13. ASSUME NEW p \in Principals, RemovePrincipal(p) PROVE VerifiedInv'
    <2>1. /\ ~WriteInFlight(p) /\ tx' = tx /\ ledger' = ledger
          /\ \A q \in Principals \ {p} :
               /\ language'[q] = language[q]
               /\ q \in principals => q \in principals'
      BY <1>0, <1>13 DEF RemovePrincipal, TypeOK
    <2> QED
      BY <1>3, <2>1 DEF WriteInFlight
  <1>14. ASSUME NEW p \in Principals, RegisterPrincipal(p) PROVE VerifiedInv'
    <2>1. tx' = tx /\ ledger' = ledger /\ language' = language
          /\ principals \subseteq principals'
      BY <1>14 DEF RegisterPrincipal
    <2> QED
      BY <1>3, <2>1 DEF WriteInFlight
  <1>15. ASSUME NEW c \in Calls, ServerCommit(c) PROVE VerifiedInv'
    <2> DEFINE p == call[c].by
    <2>1. /\ p \in Principals /\ tx[p].call = c /\ tx[p] # NoTx /\ BoundFrom(c)
          /\ call[c].stage \in {"committing", "done"}
          /\ call' = call /\ principals' = principals
          /\ tx' = [tx EXCEPT ![p] = NoTx]
          /\ language' = [language EXCEPT ![p] = call[c].value]
      BY <1>15, CommitFacts
    <2>2. \A t \in Tokens : TokenUsed(t)' <=> TokenUsed(t) \/ t = call[c].token
      BY <1>15, UsedAfterCommit
    <2> HIDE DEF p
    <2>3. /\ tx'[p] = NoTx
          /\ \A q \in Principals \ {p} : tx'[q] = tx[q] /\ language'[q] = language[q]
      BY <1>0, <2>1 DEF TypeOK
    <2>4. token[call[c].token].owner = p
      BY <2>1 DEF BoundFrom, Bound, p
    <2>5. ASSUME NEW d \in Calls, call[d].stage = "write"
          PROVE ~TokenUsed(call[d].token)'
      <3>1. /\ call[d].by \in Principals
            /\ tx[call[d].by] # NoTx /\ tx[call[d].by].call = d
        BY <1>0, <2>5, HoldsLock DEF InTransaction
      <3>2. call[d].by # p
        BY <2>1, <2>5, <3>1
      <3>3. /\ token[call[d].token].owner = call[d].by
            /\ call[d].token \in Tokens
        BY <1>0, <2>5 DEF CallInv, BoundFrom, Bound, CommitStages
      <3>4. call[d].token # call[c].token
        BY <2>4, <3>2, <3>3
      <3>5. ~TokenUsed(call[d].token)
        BY <1>0, <2>5 DEF VerifiedInv
      <3>6. \A t \in Tokens : t = call[d].token => ~TokenUsed(t)'
        BY <2>2, <3>4, <3>5
      <3> QED
        BY <2>1, <3>3, <3>6 DEF TokenUsed
    <2>6. ASSUME NEW q \in Principals, WriteInFlight(q)'
          PROVE /\ ~TokenUsed(call[tx[q].call].token)'
                /\ language'[q] = call'[tx'[q].call].current
                /\ q \in principals'
      <3>1. q # p /\ tx'[q] = tx[q] /\ language'[q] = language[q]
        BY <2>3, <2>6 DEF WriteInFlight
      <3>2. WriteInFlight(q)
        BY <2>6, <3>1 DEF WriteInFlight
      <3>3. PICK e : e = tx[q].call
        OBVIOUS
      <3>4. /\ token[call[e].token].owner = q /\ call[e].token \in Tokens
        <4>1. tx[q] # NoTx
          BY <3>2 DEF WriteInFlight
        <4>2. BoundFrom(e) /\ call[e].by = q
          BY <1>0, <3>3, <4>1 DEF TxInv
        <4> QED
          BY <4>2 DEF BoundFrom, Bound
      <3>5. /\ ~TokenUsed(call[e].token) /\ language[q] = call[e].current
            /\ q \in principals
        BY <1>0, <3>2, <3>3 DEF VerifiedInv
      <3>6. \A t \in Tokens : t = call[e].token => ~TokenUsed(t)'
        BY <2>2, <2>4, <3>1, <3>4, <3>5
      <3>7. ~TokenUsed(call[tx[q].call].token)'
        BY <2>1, <3>1, <3>3, <3>4, <3>6 DEF TokenUsed
      <3> QED
        BY <2>1, <3>1, <3>3, <3>5, <3>7
    <2> QED
      BY <2>1, <2>5, <2>6 DEF VerifiedInv
  <1> QED
    BY <1>4, <1>7, <1>8, <1>9, <1>11, <1>12, <1>13, <1>14, <1>15, DbSteps

----------------------------------------------------------------------------
(* The ledger and the record                                               *)

\* Every step keeps the foreign key of person_preferences.
LEMMA ForeignKeyStep == ASSUME IInv, [Next]_vars PROVE ForeignKeyInv'
  <1>0. TypeOK /\ ForeignKeyInv
    BY DEF IInv
  <1>1. ASSUME NEW c \in Calls, ServerCommit(c) PROVE ForeignKeyInv'
    BY <1>0, <1>1, CommitFacts DEF ForeignKeyInv, TypeOK
  <1>2. ASSUME NEW p \in Principals, RemovePrincipal(p) PROVE ForeignKeyInv'
    BY <1>0, <1>2 DEF ForeignKeyInv, TypeOK, RemovePrincipal
  <1>3. ASSUME NEW p \in Principals, RegisterPrincipal(p) PROVE ForeignKeyInv'
    BY <1>0, <1>3 DEF ForeignKeyInv, RegisterPrincipal
  <1>4. ASSUME language' = language, principals' = principals PROVE ForeignKeyInv'
    BY <1>0, <1>4 DEF ForeignKeyInv
  <1>5. ASSUME NEW c \in Calls, TakeLock(c) \/ InsertReceipt(c) \/ ServerRollback(c)
        PROVE ForeignKeyInv'
    BY <1>4, <1>5 DEF TakeLock, InsertReceipt, ServerRollback
  <1>6. ASSUME NEW c \in Calls, VerifyInside(c) PROVE ForeignKeyInv'
    BY <1>4, <1>6 DEF VerifyInside, RefuseInside, dbVars
  <1>7. ASSUME NEW c \in Calls, CompareAndWrite(c) PROVE ForeignKeyInv'
    BY <1>4, <1>7 DEF CompareAndWrite, RefuseInside
  <1>8. CASE UNCHANGED dbVars
    BY <1>4, <1>8 DEF dbVars
  <1> QED
    BY <1>1, <1>2, <1>3, <1>5, <1>6, <1>7, <1>8, DbSteps

\* Only an unused token is appended to the ledger.
LEMMA SingleUseStep == ASSUME IInv, [Next]_vars PROVE SingleUse'
  <1>0. TypeOK /\ SingleUse
    BY DEF IInv
  <1>1. ASSUME NEW c \in Calls, ServerCommit(c) PROVE SingleUse'
    <2>1. /\ ledger' = Append(ledger, ReceiptOf(c)) /\ ReceiptOf(c) \in Receipt
          /\ ledger \in Seq(Receipt) /\ ~TokenUsed(call[c].token)
      BY <1>0, <1>1, CommitFacts DEF TypeOK
    <2>2. /\ DOMAIN ledger' = DOMAIN ledger \cup {Len(ledger) + 1}
          /\ \A k \in DOMAIN ledger : ledger'[k] = ledger[k]
          /\ ledger'[Len(ledger) + 1] = ReceiptOf(c)
      BY <2>1, AppendFacts
    <2>3. ReceiptOf(c).token = call[c].token
      BY DEF ReceiptOf
    <2> QED
      BY <1>0, <2>1, <2>2, <2>3 DEF SingleUse, TokenUsed
  <1>2. ASSUME ledger' = ledger PROVE SingleUse'
    BY <1>0, <1>2 DEF SingleUse
  <1> QED
    BY <1>1, <1>2, LedgerStep

\* Only PreviewRead changes a token, and only one that did not exist.
LEMMA TokensStay ==
  ASSUME IInv, [Next]_vars
  PROVE  \A t \in Tokens : token[t] # NoToken => token'[t] = token[t]
  <1> DEFINE Stay == \A t \in Tokens : token[t] # NoToken => token'[t] = token[t]
  <1>0. TypeOK /\ CallInv
    BY DEF IInv
  <1>1. ASSUME NEW c \in Calls, PreviewRead(c) PROVE Stay
    BY <1>0, <1>1 DEF PreviewRead, CallInv, TypeOK, Tokens
  <1>2. ASSUME token' = token PROVE Stay
    BY <1>2
  <1>3. ASSUME NEW c \in Calls, Arrive(c) PROVE token' = token
    <2>1. ASSUME NEW i, NEW p, NEW person, NEW v, Preview(c, i, p, person, v) PROVE token' = token
      BY <2>1 DEF Preview
    <2>2. ASSUME NEW i, NEW p, NEW t, NEW person, NEW v, Confirm(c, i, p, t, person, v) PROVE token' = token
      BY <2>2 DEF Confirm
    <2> QED
      BY <1>3, <2>1, <2>2 DEF Arrive
  <1>4. ASSUME NEW c \in Calls, PreviewOwned(c) \/ ConfirmOwned(c) \/ ConfirmRead(c)
                                \/ ConfirmAcknowledged(c)
        PROVE token' = token
    BY <1>4 DEF PreviewOwned, ConfirmOwned, ConfirmRead, ConfirmAcknowledged
  <1>5. ASSUME NEW c \in Calls, TakeLock(c) \/ InsertReceipt(c) \/ ServerStep(c)
        PROVE token' = token
    BY <1>5 DEF TakeLock, InsertReceipt, ServerStep, ServerCommit, ServerRollback
  <1>6. ASSUME NEW c \in Calls, VerifyInside(c) \/ CompareAndWrite(c) PROVE token' = token
    BY <1>6 DEF VerifyInside, CompareAndWrite, RefuseInside
  <1>7. ASSUME NEW c \in Calls, ReadFails(c) \/ CommitThrows(c) PROVE token' = token
    BY <1>7 DEF ReadFails, CommitThrows
  <1>8. ASSUME NEW t \in Tokens, TokenExpires(t) PROVE token' = token
    BY <1>8 DEF TokenExpires
  <1>9. ASSUME NEW p \in Principals, RemovePrincipal(p) \/ RegisterPrincipal(p)
        PROVE token' = token
    BY <1>9 DEF RemovePrincipal, RegisterPrincipal
  <1>10. ASSUME NEW i \in Instances, Restart(i) PROVE token' = token
    BY <1>10 DEF Restart
  <1>11. ASSUME UNCHANGED vars PROVE token' = token
    BY <1>11 DEF vars
  <1>12. (token' = token) \/ \E c \in Calls : PreviewRead(c)
    BY <1>3, <1>4, <1>5, <1>6, <1>7, <1>8, <1>9, <1>10, <1>11 DEF Next, Progress
  <1> QED
    BY <1>1, <1>2, <1>12

\* Only what a token was issued for is appended, and tokens do not change.
LEMMA AppliedStep == ASSUME IInv, [Next]_vars PROVE AppliedAsShown'
  <1>0. TypeOK /\ AppliedAsShown /\ \A t \in Tokens : token[t] # NoToken => token'[t] = token[t]
    BY TokensStay DEF IInv
  <1>1. ASSUME NEW k \in DOMAIN ledger
        PROVE /\ ledger[k].token \in Tokens /\ token[ledger[k].token] # NoToken
              /\ token'[ledger[k].token] =
                   [owner |-> ledger[k].owner, from |-> ledger[k].from, to |-> ledger[k].to]
    <2>1. ledger[k] \in Receipt
      BY <1>0 DEF TypeOK
    <2>2. ledger[k].token \in Tokens /\ ledger[k].owner \in Principals
      BY <2>1 DEF Receipt
    <2>3. token[ledger[k].token].owner = ledger[k].owner
      <3>1. token[ledger[k].token] =
              [owner |-> ledger[k].owner, from |-> ledger[k].from, to |-> ledger[k].to]
        BY <1>0 DEF AppliedAsShown
      <3> QED
        BY <3>1
    <2>4. token[ledger[k].token] # NoToken
      BY <2>2, <2>3, NoneAssumption DEF NoToken
    <2> QED
      BY <1>0, <2>2, <2>4 DEF AppliedAsShown
  <1>2. ASSUME NEW c \in Calls, ServerCommit(c) PROVE AppliedAsShown'
    <2>1. /\ ledger' = Append(ledger, ReceiptOf(c)) /\ ReceiptOf(c) \in Receipt
          /\ ledger \in Seq(Receipt) /\ BoundFrom(c) /\ token' = token
      BY <1>0, <1>2, CommitFacts DEF TypeOK
    <2>2. /\ DOMAIN ledger' = DOMAIN ledger \cup {Len(ledger) + 1}
          /\ \A k \in DOMAIN ledger : ledger'[k] = ledger[k]
          /\ ledger'[Len(ledger) + 1] = ReceiptOf(c)
      BY <2>1, AppendFacts
    <2>3. token[call[c].token] =
            [owner |-> call[c].by, from |-> call[c].current, to |-> call[c].value]
      <3>1. call[c].token \in Tokens /\ token[call[c].token] # NoToken
        BY <2>1 DEF BoundFrom, Bound
      <3>2. token[call[c].token] \in Token
        BY <1>0, <3>1 DEF TypeOK
      <3> QED
        BY <2>1, <3>2 DEF BoundFrom, Bound, Token
    <2>4. token[ReceiptOf(c).token] =
            [owner |-> ReceiptOf(c).owner, from |-> ReceiptOf(c).from, to |-> ReceiptOf(c).to]
      BY <2>3 DEF ReceiptOf
    <2> QED
      BY <1>1, <2>1, <2>2, <2>4 DEF AppliedAsShown
  <1>3. ASSUME ledger' = ledger PROVE AppliedAsShown'
    BY <1>1, <1>3 DEF AppliedAsShown
  <1> QED
    BY <1>2, <1>3, LedgerStep

\* Only the commit and the removal change what the record and the ledger say
\* of each other.
LEMMA RecordStep == ASSUME IInv, [Next]_vars PROVE RecordIsAudited' /\ ErasedInv'
  <1> DEFINE Kept == RecordIsAudited' /\ ErasedInv'
  <1>0. TypeOK /\ RecordIsAudited /\ ErasedInv
    BY DEF IInv
  <1>1. ledger \in Seq(Receipt) /\ Len(ledger) \in Nat /\ DOMAIN ledger = 1..Len(ledger)
    BY <1>0 DEF TypeOK
  <1>2. ASSUME UNCHANGED <<ledger, language, erased>> PROVE Kept
    BY <1>0, <1>2 DEF RecordIsAudited, Leaves, Stands, ErasedInv
  <1>3. ASSUME NEW c \in Calls, ServerCommit(c) PROVE Kept
    <2>1. PICK o : o = call[c].by
      OBVIOUS
    <2>2. PICK n : n = Len(ledger) + 1
      OBVIOUS
    <2>3. PICK r : r = ReceiptOf(c)
      OBVIOUS
    <2>4. /\ ledger' = Append(ledger, r) /\ r \in Receipt
          /\ language[o] = call[c].current /\ o \in Principals
          /\ language' = [language EXCEPT ![o] = call[c].value]
          /\ erased' = erased
      BY <1>0, <1>3, <2>1, <2>3, CommitFacts DEF ServerCommit
    <2>5. /\ n \in Nat /\ n - 1 = Len(ledger) /\ Len(ledger') = n
          /\ DOMAIN ledger' = 1..n
          /\ \A k \in 1..(n - 1) : ledger'[k] = ledger[k]
          /\ ledger'[n] = r
      BY <1>1, <2>2, <2>4, AppendFacts
    <2>6. r.owner = o /\ r.from = language[o] /\ r.to = call[c].value
      BY <2>1, <2>3, <2>4 DEF ReceiptOf
    <2>7. language'[o] = r.to /\ \A p \in Principals \ {o} : language'[p] = language[p]
      BY <1>0, <2>4, <2>6 DEF TypeOK
    <2>8. \A p \in Principals : \A m \in erased[p] : m \in Nat /\ m <= n - 1
      BY <1>0, <2>5 DEF ErasedInv, TypeOK
    <2>9. ErasedInv'
      BY <2>4, <2>5, <2>8 DEF ErasedInv
    \* What the older receipts leave is as before.
    <2>10. ASSUME NEW p \in Principals, NEW l \in 0..(n - 1), NEW v, Leaves(p, l, v)
           PROVE Leaves(p, l, v)'
      <3>1. \A k \in 1..l : Stands(p, k, l)' <=> Stands(p, k, l)
        BY <2>4, <2>5 DEF Stands
      <3>2. \A k \in 1..l : ledger'[k] = ledger[k]
        BY <2>5
      <3> QED
        BY <2>10, <3>1, <3>2 DEF Leaves
    <2>11. Leaves(o, n, r.to)'
      <3>1. Stands(o, n, n)'
        BY <2>4, <2>5, <2>6, <2>8 DEF Stands
      <3> QED
        BY <2>5, <3>1 DEF Leaves
    <2>12. ASSUME NEW p \in Principals \ {o}, NEW v, Leaves(p, n - 1, v)
           PROVE Leaves(p, n, v)'
      <3>1. \A k \in 1..(n - 1) : Stands(p, k, n)' <=> Stands(p, k, n - 1)
        BY <2>4, <2>5, <2>6, <2>8 DEF Stands
      <3>2. ~Stands(p, n, n)'
        BY <2>5, <2>6 DEF Stands
      <3>3. 1..n = 1..(n - 1) \cup {n}
        BY <2>5
      <3> QED
        BY <2>5, <2>12, <3>1, <3>2, <3>3 DEF Leaves
    <2>13. ASSUME NEW p \in Principals, NEW v, v = language'[p]
           PROVE Leaves(p, n, v)'
      <3>1. CASE p = o
        BY <2>7, <2>11, <2>13, <3>1
      <3>2. CASE p # o
        <4>1. Leaves(p, n - 1, v)
          BY <1>0, <2>5, <2>7, <2>13, <3>2 DEF RecordIsAudited
        <4> QED
          BY <2>12, <3>2, <4>1
      <3> QED
        BY <3>1, <3>2
    <2>14. ASSUME NEW k \in 1..n, NEW p, NEW l, NEW v,
                  p = ledger'[k].owner, l = k - 1, v = ledger'[k].from
           PROVE Leaves(p, l, v)'
      <3>1. p \in Principals /\ l \in 0..(n - 1)
        <4>1. ledger'[k] \in Receipt
          BY <1>1, <2>4, <2>5
        <4> QED
          BY <2>5, <2>14, <4>1 DEF Receipt
      <3>2. CASE k = n
        <4>1. Leaves(p, l, v)
          BY <1>0, <2>4, <2>5, <2>6, <2>14, <3>2 DEF RecordIsAudited
        <4> QED
          BY <2>10, <3>1, <4>1
      <3>3. CASE k # n
        <4>1. k \in DOMAIN ledger /\ ledger'[k] = ledger[k]
          BY <1>1, <2>5, <3>3
        <4>2. Leaves(p, l, v)
          BY <1>0, <2>14, <4>1 DEF RecordIsAudited
        <4> QED
          BY <2>10, <3>1, <4>2
      <3> QED
        BY <3>2, <3>3
    <2>15. RecordIsAudited'
      BY <2>5, <2>13, <2>14 DEF RecordIsAudited
    <2> QED
      BY <2>9, <2>15
  <1>4. ASSUME NEW p \in Principals, RemovePrincipal(p) PROVE Kept
    <2>1. /\ ledger' = ledger /\ language'[p] = Absent
          /\ \A q \in Principals \ {p} : language'[q] = language[q]
      BY <1>0, <1>4 DEF RemovePrincipal, TypeOK
    <2>2. CASE language[p] = Absent
      BY <1>0, <1>2, <1>4, <2>1, <2>2 DEF RemovePrincipal, TypeOK
    <2>3. CASE language[p] # Absent
      <3>1. /\ erased'[p] = erased[p] \cup {Len(ledger)}
            /\ \A q \in Principals \ {p} : erased'[q] = erased[q]
        BY <1>0, <1>4, <2>3 DEF RemovePrincipal, TypeOK
      <3>2. ErasedInv'
        BY <1>0, <1>1, <2>1, <3>1 DEF ErasedInv
      <3>3. ASSUME NEW q \in Principals, NEW k \in DOMAIN ledger, NEW v, Leaves(q, k - 1, v)
            PROVE Leaves(q, k - 1, v)'
        <4>1. \A j \in 1..(k - 1) : Stands(q, j, k - 1)' <=> Stands(q, j, k - 1)
          BY <1>1, <2>1, <3>1 DEF Stands
        <4> QED
          BY <2>1, <3>3, <4>1 DEF Leaves
      <3>4. ASSUME NEW q \in Principals, NEW v, v = language'[q]
            PROVE Leaves(q, Len(ledger), v)'
        <4>1. CASE q = p
          <5>1. \A j \in 1..Len(ledger) : ~Stands(p, j, Len(ledger))'
            BY <1>1, <2>1, <3>1 DEF Stands
          <5> QED
            BY <2>1, <3>4, <4>1, <5>1 DEF Leaves
        <4>2. CASE q # p
          <5>1. \A j : Stands(q, j, Len(ledger))' <=> Stands(q, j, Len(ledger))
            BY <2>1, <3>1, <4>2 DEF Stands
          <5>2. Leaves(q, Len(ledger), v)
            BY <1>0, <2>1, <3>4, <4>2 DEF RecordIsAudited
          <5> QED
            BY <2>1, <5>1, <5>2 DEF Leaves
        <4> QED
          BY <4>1, <4>2
      <3>5. \A k \in DOMAIN ledger : ledger[k].owner \in Principals
        <4>1. \A k \in DOMAIN ledger : ledger[k] \in Receipt
          BY <1>1
        <4> QED
          BY <4>1 DEF Receipt
      <3>6. ASSUME NEW k \in DOMAIN ledger, NEW q, NEW v,
                   q = ledger[k].owner, v = ledger[k].from
            PROVE Leaves(q, k - 1, v)'
        BY <1>0, <3>3, <3>5, <3>6 DEF RecordIsAudited
      <3>7. RecordIsAudited'
        BY <2>1, <3>4, <3>6 DEF RecordIsAudited
      <3> QED
        BY <3>2, <3>7
    <2> QED
      BY <2>2, <2>3
  <1>5. ASSUME NEW c \in Calls, TakeLock(c) \/ InsertReceipt(c) \/ ServerRollback(c)
        PROVE Kept
    BY <1>2, <1>5 DEF TakeLock, InsertReceipt, ServerRollback
  <1>6. ASSUME NEW c \in Calls, VerifyInside(c) PROVE Kept
    BY <1>2, <1>6 DEF VerifyInside, RefuseInside, dbVars
  <1>7. ASSUME NEW c \in Calls, CompareAndWrite(c) PROVE Kept
    BY <1>2, <1>7 DEF CompareAndWrite, RefuseInside
  <1>8. ASSUME NEW p \in Principals, RegisterPrincipal(p) PROVE Kept
    BY <1>2, <1>8 DEF RegisterPrincipal
  <1>9. ASSUME UNCHANGED dbVars PROVE Kept
    BY <1>2, <1>9 DEF dbVars
  <1> HIDE DEF Kept
  <1>10. Kept
    BY <1>3, <1>4, <1>5, <1>6, <1>7, <1>8, <1>9, DbSteps
  <1> QED
    BY <1>10 DEF Kept

----------------------------------------------------------------------------
(* Answers                                                                 *)

\* A call that no transaction is open for.
NoTransaction(c) == \A p \in Principals : tx[p] # NoTx => tx[p].call # c

\* What a step may answer to call d: the truth, once.
Answered(d) ==
  /\ call'[d].stage # "done" => call'[d].answer \in {call[d].answer, None}
  /\ call'[d].answer \notin {call[d].answer, None} =>
       /\ call'[d].answer = "ok" => d \in durable
       /\ call'[d].answer \in Refusals =>
            d \notin durable /\ durable' = durable /\ NoTransaction(d)'
       /\ call'[d].answer = "token_already_used" => TokenUsed(call[d].token)'

\* Every step answers truthfully.
LEMMA AnswersAreTrue == ASSUME IInv, [Next]_vars PROVE \A d \in Calls : Answered(d)
  <1> USE StagesAndAnswers DEF dbVars
  <1>0. TypeOK /\ CallInv /\ TxInv /\ VerifiedInv /\ AnswerInv
    BY DEF IInv
  <1>a. \A d \in Calls : call[d] \in Call
    BY <1>0 DEF TypeOK
  <1>b. \A d \in Calls :
          call[d].stage \notin {"verify", "write", "record", "committing", "done"} =>
            NoTransaction(d) /\ d \notin durable
    BY <1>0 DEF NoTransaction, TxInv, AnswerInv
  <1>1. ASSUME NEW c \in Calls, NEW a \in Answers \ Refusals, Answer(c, a),
               a = "ok" => c \in durable
        PROVE \A d \in Calls : Answered(d)
    <2>1. "token_already_used" \in Refusals
      BY DEF Refusals, CommitRefusals
    <2> QED
      BY <1>0, <1>1, <2>1, AnswerEffect DEF Answered
  <1>2. ASSUME NEW c \in Calls, NEW a \in Refusals, Answer(c, a),
               c \notin durable, durable' = durable, NoTransaction(c)',
               ledger' = ledger, a = "token_already_used" => TokenUsed(call[c].token)
        PROVE \A d \in Calls : Answered(d)
    <2>1. "ok" \notin Refusals
      BY DEF Refusals, CommitRefusals
    <2>2. call'[c].answer = a /\ \A d \in Calls \ {c} : call'[d] = call[d]
      BY <1>0, <1>2, AnswerEffect
    <2>3. call'[c].token = call[c].token /\ call'[c].stage = "done"
      BY <1>0, <1>2, AnswerEffect DEF SameFields
    <2>4. a = "token_already_used" => TokenUsed(call[c].token)'
      BY <1>2, <2>3 DEF TokenUsed
    <2>5. Answered(c)
      BY <1>2, <2>1, <2>2, <2>3, <2>4 DEF Answered
    <2> QED
      BY <2>2, <2>5 DEF Answered
  <1>3. ASSUME NEW c \in Calls, NEW s \in Stages, Goto(c, s)
        PROVE \A d \in Calls : Answered(d)
    BY <1>0, <1>3, GotoEffect DEF Answered
  <1>4. ASSUME NEW c \in Calls, NEW i \in Instances, NEW p \in Principals,
               NEW q \in Principals, NEW v \in Languages, Preview(c, i, p, q, v)
        PROVE \A d \in Calls : Answered(d)
    <2>1. call'[c].answer = None /\ \A d \in Calls \ {c} : call'[d] = call[d]
      BY <1>0, <1>4 DEF Preview, NewCall, TypeOK
    <2> QED
      BY <2>1 DEF Answered
  <1>5. ASSUME NEW c \in Calls, NEW i \in Instances, NEW p \in Principals,
               NEW t \in Tokens, NEW q \in Principals, NEW v \in Languages,
               Confirm(c, i, p, t, q, v)
        PROVE \A d \in Calls : Answered(d)
    <2> DEFINE r == FirstRefusal(i, p, t, q, v)
    <2>1. /\ call'[c].answer = r /\ call'[c].token = t
          /\ call'[c].stage = IF r = None THEN "owned" ELSE "done"
          /\ call[c].stage = "idle" /\ \A d \in Calls \ {c} : call'[d] = call[d]
      <3> HIDE DEF r
      <3> QED
        BY <1>0, <1>5 DEF Confirm, NewCall, TypeOK, r
    <2>2. UNCHANGED <<tx, durable, ledger>>
      BY <1>5 DEF Confirm
    <2>3. r # "ok"
      BY NoneAssumption DEF FirstRefusal, Answers
    <2>4. r = "token_already_used" => TokenUsed(t)
      <3>1. r = "token_already_used" => t \in spent[i]
        BY NoneAssumption DEF FirstRefusal, Answers, Refusals, CommitRefusals
      <3> QED
        BY <1>0, <3>1 DEF AnswerInv
    <2> HIDE DEF r
    <2>5. NoTransaction(c)' /\ c \notin durable
      BY <1>b, <2>1, <2>2 DEF NoTransaction
    <2>6. r = "token_already_used" => TokenUsed(call[c].token)'
      BY <2>1, <2>2, <2>4 DEF TokenUsed
    <2> QED
      BY <2>1, <2>2, <2>3, <2>5, <2>6 DEF Answered
  <1>6. ASSUME NEW c \in Calls, NEW a \in {"not_own_record", "state_changed"}, Answer(c, a),
               call[c].stage \in PreviewStages \cup ReadStages, UNCHANGED dbVars
        PROVE \A d \in Calls : Answered(d)
    <2>1. NoTransaction(c) /\ c \notin durable
      BY <1>b, <1>6 DEF PreviewStages, ReadStages
    <2>2. NoTransaction(c)'
      BY <1>6, <2>1 DEF NoTransaction
    <2> QED
      BY <1>2, <1>6, <2>1, <2>2 DEF CommitRefusals
  <1>7. ASSUME NEW c \in Calls, PreviewOwned(c) \/ ConfirmOwned(c)
        PROVE \A d \in Calls : Answered(d)
    BY <1>3, <1>6, <1>7 DEF PreviewOwned, ConfirmOwned, PreviewStages, ReadStages
  <1>8. ASSUME NEW c \in Calls, PreviewRead(c) PROVE \A d \in Calls : Answered(d)
    <2>1. "previewed" \notin Refusals
      BY DEF Refusals, CommitRefusals
    <2> QED
      BY <1>1, <1>8, <2>1 DEF PreviewRead
  <1>9. ASSUME NEW c \in Calls, ConfirmRead(c) PROVE \A d \in Calls : Answered(d)
    <2> DEFINE v == ReadField(call[c].by, call[c].person)
    <2>1. CASE Answer(c, "state_changed")
      BY <1>6, <1>9, <2>1 DEF ConfirmRead, ReadStages
    <2>2. CASE call' = [call EXCEPT ![c].stage = "lock", ![c].current = v]
      <3> HIDE DEF v
      <3>1. call'[c].answer = call[c].answer /\ \A d \in Calls \ {c} : call'[d] = call[d]
        BY <1>0, <1>a, <2>2 DEF TypeOK, Call
      <3> QED
        BY <3>1 DEF Answered
    <2> QED
      BY <1>9, <2>1, <2>2 DEF ConfirmRead
  <1>10. ASSUME NEW c \in Calls, TakeLock(c) \/ InsertReceipt(c)
         PROVE \A d \in Calls : Answered(d)
    BY <1>3, <1>10 DEF TakeLock, InsertReceipt, CommitStages
  <1>11. ASSUME NEW c \in Calls, NEW a \in CommitRefusals \cup {"receipt_failed"},
                RefuseInside(c, a), call[c].stage \in {"verify", "write"},
                a = "token_already_used" => TokenUsed(call[c].token)
         PROVE \A d \in Calls : Answered(d)
    <2>1. /\ Answer(c, a) /\ durable' = durable /\ ledger' = ledger
          /\ tx' = [tx EXCEPT ![call[c].by] = NoTx]
      BY <1>11 DEF RefuseInside
    <2>2. CASE a \in CommitRefusals
      <3>1. call[c].by \in Principals
        BY <1>0, <1>11, HoldsLock DEF InTransaction
      <3>2. tx'[call[c].by] = NoTx /\ \A q \in Principals \ {call[c].by} : tx'[q] = tx[q]
        BY <1>0, <2>1, <3>1 DEF TypeOK
      <3>3. \A q \in Principals \ {call[c].by} : tx[q] # NoTx => tx[q].call # c
        BY <1>0 DEF TxInv
      <3>4. NoTransaction(c)'
        BY <3>2, <3>3 DEF NoTransaction
      <3>5. c \notin durable
        BY <1>0, <1>11 DEF AnswerInv
      <3> QED
        BY <1>2, <1>11, <2>1, <2>2, <3>4, <3>5
    <2>3. CASE a = "receipt_failed"
      <3>1. "receipt_failed" \notin Refusals
        BY DEF Refusals, CommitRefusals
      <3> QED
        BY <1>1, <2>1, <2>3, <3>1
    <2> QED
      BY <2>2, <2>3
  <1>12. ASSUME NEW c \in Calls, VerifyInside(c) PROVE \A d \in Calls : Answered(d)
    <2>1. CASE TokenUsed(call[c].token) /\ RefuseInside(c, "token_already_used")
      BY <1>11, <1>12, <2>1 DEF VerifyInside, CommitRefusals
    <2>2. CASE RefuseInside(c, "not_own_record")
      BY <1>11, <1>12, <2>2 DEF VerifyInside, CommitRefusals
    <2>3. CASE Goto(c, "write")
      BY <1>3, <2>3 DEF CommitStages
    <2> QED
      BY <1>12, <2>1, <2>2, <2>3 DEF VerifyInside
  <1>13. ASSUME NEW c \in Calls, CompareAndWrite(c) PROVE \A d \in Calls : Answered(d)
    <2>1. CASE RefuseInside(c, "state_changed") \/ RefuseInside(c, "receipt_failed")
      BY <1>11, <1>13, <2>1 DEF CompareAndWrite, CommitRefusals
    <2>2. CASE Goto(c, "record")
      BY <1>3, <2>2 DEF CommitStages
    <2> QED
      BY <1>13, <2>1, <2>2 DEF CompareAndWrite
  <1>14. ASSUME NEW c \in Calls, ConfirmAcknowledged(c) PROVE \A d \in Calls : Answered(d)
    <2>1. "ok" \notin Refusals
      BY DEF Refusals, CommitRefusals
    <2> QED
      BY <1>1, <1>14, <2>1 DEF ConfirmAcknowledged
  <1>15. ASSUME NEW c \in Calls, ReadFails(c) \/ CommitThrows(c)
         PROVE \A d \in Calls : Answered(d)
    <2>1. {"error", "receipt_failed"} \cap Refusals = {}
      BY DEF Refusals, CommitRefusals
    <2> QED
      BY <1>1, <1>15, <2>1 DEF ReadFails, CommitThrows
  <1>16. ASSUME NEW i \in Instances, Restart(i) PROVE \A d \in Calls : Answered(d)
    <2>1. "dropped" \notin Refusals
      BY DEF Refusals, CommitRefusals
    <2>2. \A d \in Calls : \/ call'[d] = call[d]
                           \/ call'[d].stage = "done" /\ call'[d].answer = "dropped"
      BY <1>0, <1>16, RestartEffect
    <2> QED
      BY <2>1, <2>2 DEF Answered, Refusals, CommitRefusals
  <1>17. ASSUME call' = call PROVE \A d \in Calls : Answered(d)
    BY <1>17 DEF Answered
  <1> QED
    <2>1. ASSUME NEW c \in Calls, Arrive(c) PROVE \A d \in Calls : Answered(d)
      BY <1>4, <1>5, <2>1 DEF Arrive
    <2>2. ASSUME NEW c \in Calls, Progress(c) PROVE \A d \in Calls : Answered(d)
      BY <1>7, <1>8, <1>9, <1>10, <1>12, <1>13, <1>14, <2>2 DEF Progress
    <2> QED
      BY <1>15, <1>16, <1>17, <2>1, <2>2, CallKept DEF Next

\* Where an open transaction comes from.
LEMMA TxOrigin ==
  ASSUME IInv, [Next]_vars
  PROVE  \A p \in Principals : tx'[p] # NoTx =>
           \/ tx[p] # NoTx /\ tx'[p].call = tx[p].call
           \/ tx'[p].call \in Calls /\ call[tx'[p].call].stage = "lock"
  <1> DEFINE Origin ==
        \A p \in Principals : tx'[p] # NoTx =>
           \/ tx[p] # NoTx /\ tx'[p].call = tx[p].call
           \/ tx'[p].call \in Calls /\ call[tx'[p].call].stage = "lock"
  <1>0. TypeOK /\ CallInv /\ TxInv
    BY DEF IInv
  <1>1. ASSUME tx' = tx PROVE Origin
    BY <1>1
  <1>2. ASSUME NEW q \in Principals, tx' = [tx EXCEPT ![q] = NoTx] PROVE Origin
    BY <1>0, <1>2 DEF TypeOK
  <1>3. ASSUME NEW c \in Calls, RefuseInside(c, "x") \/ \E a : RefuseInside(c, a),
               call[c].stage \in CommitStages
        PROVE Origin
    <2>1. call[c].by \in Principals
      BY <1>0, <1>3 DEF CallInv, BoundFrom, Bound
    <2> QED
      BY <1>2, <1>3, <2>1 DEF RefuseInside
  <1>4. ASSUME NEW c \in Calls, NEW ph, tx' = [tx EXCEPT ![call[c].by].phase = ph],
               InTransaction(c)
        PROVE Origin
    <2>1. call[c].by \in Principals /\ tx[call[c].by] # NoTx
      BY <1>0, <1>4, HoldsLock
    <2>2. tx[call[c].by] \in Tx
      BY <1>0, <2>1 DEF TypeOK
    <2> QED
      BY <1>0, <1>4, <2>1, <2>2 DEF TypeOK, Tx
  <1>5. ASSUME NEW c \in Calls, TakeLock(c) PROVE Origin
    <2>1. call[c].by \in Principals
      BY <1>0, <1>5 DEF TakeLock, CallInv, BoundFrom, Bound, CommitStages
    <2>2. [call |-> c, phase |-> "locked"].call = c
      BY PhaseOf
    <2> QED
      BY <1>0, <1>5, <2>1, <2>2 DEF TakeLock, TypeOK
  <1>6. ASSUME NEW c \in Calls, VerifyInside(c) PROVE Origin
    BY <1>1, <1>3, <1>6 DEF VerifyInside, CommitStages, dbVars
  <1>7. ASSUME NEW c \in Calls, CompareAndWrite(c) PROVE Origin
    BY <1>3, <1>4, <1>7 DEF CompareAndWrite, CommitStages, InTransaction
  <1>8. ASSUME NEW c \in Calls, InsertReceipt(c) PROVE Origin
    BY <1>4, <1>8 DEF InsertReceipt, InTransaction
  <1>9. ASSUME NEW c \in Calls, ServerCommit(c) \/ ServerRollback(c) PROVE Origin
    BY <1>2, <1>9 DEF ServerCommit, ServerRollback
  <1>10. ASSUME NEW p \in Principals, RemovePrincipal(p) \/ RegisterPrincipal(p) PROVE Origin
    BY <1>1, <1>10 DEF RemovePrincipal, RegisterPrincipal
  <1>11. ASSUME UNCHANGED dbVars PROVE Origin
    BY <1>1, <1>11 DEF dbVars
  <1> HIDE DEF Origin
  <1>12. Origin
    BY <1>5, <1>6, <1>7, <1>8, <1>9, <1>10, <1>11, DbSteps
  <1> QED
    BY <1>12 DEF Origin

\* A process remembers as spent only tokens whose commit it saw acknowledged.
LEMMA SpentStep ==
  ASSUME IInv, [Next]_vars
  PROVE  \A i \in Instances : \A t \in spent'[i] : TokenUsed(t)
  <1>0. TypeOK /\ AnswerInv
    BY DEF IInv
  <1>1. ASSUME NEW c \in Calls, ConfirmAcknowledged(c)
        PROVE \A i \in Instances : \A t \in spent'[i] : TokenUsed(t)
    <2>1. TokenUsed(call[c].token)
      BY <1>0, <1>1 DEF ConfirmAcknowledged, AnswerInv
    <2> QED
      BY <1>0, <1>1, <2>1 DEF ConfirmAcknowledged, TypeOK, AnswerInv
  <1>2. ASSUME NEW i \in Instances, Restart(i)
        PROVE \A j \in Instances : \A t \in spent'[j] : TokenUsed(t)
    BY <1>0, <1>2 DEF Restart, TypeOK, AnswerInv
  <1>3. ASSUME NEW c \in Calls, Arrive(c) PROVE spent' = spent
    <2>1. ASSUME NEW i, NEW p, NEW person, NEW v, Preview(c, i, p, person, v)
          PROVE  spent' = spent
      BY <2>1 DEF Preview
    <2>2. ASSUME NEW i, NEW p, NEW t, NEW person, NEW v, Confirm(c, i, p, t, person, v)
          PROVE  spent' = spent
      BY <2>2 DEF Confirm
    <2> QED
      BY <1>3, <2>1, <2>2 DEF Arrive
  <1>4. ASSUME NEW c \in Calls,
               PreviewOwned(c) \/ PreviewRead(c) \/ ConfirmOwned(c) \/ ConfirmRead(c)
        PROVE spent' = spent
    BY <1>4 DEF PreviewOwned, PreviewRead, ConfirmOwned, ConfirmRead
  <1>5. ASSUME NEW c \in Calls, TakeLock(c) \/ InsertReceipt(c) \/ ServerStep(c)
        PROVE spent' = spent
    BY <1>5 DEF TakeLock, InsertReceipt, ServerStep, ServerCommit, ServerRollback
  <1>6. ASSUME NEW c \in Calls, VerifyInside(c) \/ CompareAndWrite(c) PROVE spent' = spent
    BY <1>6 DEF VerifyInside, CompareAndWrite, RefuseInside
  <1>7. ASSUME NEW c \in Calls, ReadFails(c) \/ CommitThrows(c) PROVE spent' = spent
    BY <1>7 DEF ReadFails, CommitThrows
  <1>8. ASSUME NEW t \in Tokens, TokenExpires(t) PROVE spent' = spent
    BY <1>8 DEF TokenExpires
  <1>9. ASSUME NEW p \in Principals, RemovePrincipal(p) \/ RegisterPrincipal(p)
        PROVE spent' = spent
    BY <1>9 DEF RemovePrincipal, RegisterPrincipal
  <1>10. ASSUME UNCHANGED vars PROVE spent' = spent
    BY <1>10 DEF vars
  <1>11. \/ spent' = spent
         \/ \E c \in Calls : ConfirmAcknowledged(c)
         \/ \E i \in Instances : Restart(i)
    BY <1>3, <1>4, <1>5, <1>6, <1>7, <1>8, <1>9, <1>10 DEF Next, Progress
  <1>12. ASSUME spent' = spent
         PROVE \A i \in Instances : \A t \in spent'[i] : TokenUsed(t)
    BY <1>0, <1>12 DEF AnswerInv
  <1> QED
    BY <1>1, <1>2, <1>11, <1>12

\* A durable call stays so, and has the only transaction of its token.
Durables ==
  /\ \A c \in durable :
       /\ call[c].stage \in {"committing", "done"}
       /\ call[c].token \in Tokens /\ TokenUsed(call[c].token)
  /\ \A c, d \in durable : call[c].token = call[d].token => c = d

\* Every step keeps the durable transactions as described.
LEMMA DurableStep == ASSUME IInv, [Next]_vars PROVE Durables'
  <1>0. /\ Durables /\ durable \subseteq Calls
        /\ \A d \in Calls : Moved(d)
        /\ \A t \in Tokens : TokenUsed(t) => TokenUsed(t)'
        /\ TypeOK'
    BY CallMoves, UsedStaysUsed, TypeStep DEF IInv, AnswerInv, Durables, TypeOK
  <1>1. ASSUME NEW c \in Calls, ServerCommit(c) PROVE Durables'
    <2>1. /\ call' = call /\ durable' = durable \cup {c}
          /\ call[c].stage \in {"committing", "done"}
          /\ ~TokenUsed(call[c].token) /\ BoundFrom(c)
      BY <1>1, CommitFacts
    <2>2. \A t \in Tokens : TokenUsed(t)' <=> TokenUsed(t) \/ t = call[c].token
      BY <1>1, UsedAfterCommit
    <2>3. call[c].token \in Tokens
      BY <2>1 DEF BoundFrom, Bound
    <2>4. ASSUME NEW d \in durable'
          PROVE call[d].token \in Tokens /\ TokenUsed(call[d].token)'
      <3>1. call[d].token \in Tokens
        BY <1>0, <2>1, <2>3 DEF Durables
      <3>2. \A t \in Tokens : t = call[d].token => TokenUsed(t)'
        BY <1>0, <2>1, <2>2 DEF Durables
      <3> QED
        BY <2>1, <3>1, <3>2 DEF TokenUsed
    <2> QED
      BY <1>0, <2>1, <2>4 DEF Durables
  <1>2. ASSUME durable' = durable PROVE Durables'
    <2>1. ASSUME NEW d \in durable
          PROVE /\ call'[d].stage \in {"committing", "done"}
                /\ call'[d].token = call[d].token
                /\ call[d].token \in Tokens /\ TokenUsed(call[d].token)'
      <3>1. /\ call[d].stage \in {"committing", "done"} /\ call[d].token \in Tokens
            /\ TokenUsed(call[d].token)
        BY <1>0 DEF Durables
      <3>2. call'[d].token = call[d].token
        BY <1>0, <3>1 DEF Moved
      <3>3. \A t \in Tokens : t = call[d].token => TokenUsed(t)'
        BY <1>0, <3>1
      <3>4. TokenUsed(call[d].token)'
        BY <3>1, <3>2, <3>3 DEF TokenUsed
      <3>5. call'[d].stage \in {"committing", "done"}
        BY <1>0, <3>1 DEF Moved
      <3> QED
        BY <3>1, <3>2, <3>4, <3>5
    <2> QED
      BY <1>0, <1>2, <2>1 DEF Durables
  <1> QED
    BY <1>1, <1>2, LedgerStep

\* Every step keeps what durability, spent tokens and answers imply.
LEMMA AnswerStep == ASSUME IInv, [Next]_vars PROVE AnswerInv'
  <1> USE StagesAndAnswers, NoneAssumption
  <1>0. /\ TypeOK /\ CallInv /\ TxInv /\ AnswerInv
        /\ \A d \in Calls : Moved(d) /\ Answered(d)
        /\ \A t \in Tokens : TokenUsed(t) => TokenUsed(t)'
        /\ TypeOK'
    BY CallMoves, AnswersAreTrue, UsedStaysUsed, TypeStep DEF IInv
  <1>1. Durables'
    BY DurableStep
  <1>2. \A i \in Instances : \A t \in spent'[i] : TokenUsed(t)'
    BY <1>0, SpentStep DEF TypeOK
  <1>3. \A c \in Calls : call'[c].stage # "done" => call'[c].answer = None
    BY <1>0 DEF Moved, Answered, AnswerInv
  <1>4. durable \subseteq durable'
    BY LedgerStep, CommitFacts
  <1>5. \A c \in Calls : call'[c].answer = "ok" => c \in durable'
    BY <1>0, <1>4 DEF Answered, AnswerInv, AnswerIsTrue, Answers
  <1>6. ASSUME NEW c \in Calls, call'[c].answer \in Refusals
        PROVE c \notin durable' /\ NoTransaction(c)'
    <2>1. CASE call[c].answer # call'[c].answer
      BY <1>0, <1>6, <2>1 DEF Answered, Answers
    <2>2. CASE call[c].answer = call'[c].answer
      <3>1. /\ call[c].stage = "done" /\ c \notin durable /\ NoTransaction(c)
        BY <1>0, <1>6, <2>2 DEF AnswerInv, AnswerIsTrue, NoTransaction, Answers
      <3>2. c \notin durable'
        BY <3>1, LedgerStep, CommitFacts DEF NoTransaction
      <3>3. NoTransaction(c)'
        BY <3>1, TxOrigin DEF NoTransaction
      <3> QED
        BY <3>2, <3>3
    <2> QED
      BY <2>1, <2>2
  <1>7. ASSUME NEW c \in Calls, call'[c].answer = "token_already_used"
        PROVE TokenUsed(call[c].token)'
    <2>0. call'[c].answer # None
      BY <1>7 DEF Answers, Refusals, CommitRefusals
    <2>1. CASE call[c].answer # call'[c].answer
      BY <1>0, <1>7, <2>0, <2>1 DEF Answered
    <2>2. CASE call[c].answer = call'[c].answer
      <3>1. call[c].stage = "done" /\ TokenUsed(call[c].token)
        BY <1>0, <1>7, <2>0, <2>2 DEF AnswerInv, AnswerIsTrue
      <3>2. call'[c] = call[c]
        BY <1>0, <3>1 DEF Moved
      <3> QED
        BY <3>1, <3>2, ReceiptsStay DEF TokenUsed
    <2> QED
      BY <2>1, <2>2
  <1>8. AnswerIsTrue'
    BY <1>1, <1>5, <1>6, <1>7 DEF AnswerIsTrue, NoTransaction, Durables
  <1> QED
    BY <1>1, <1>2, <1>3, <1>8 DEF AnswerInv, Durables

----------------------------------------------------------------------------
(* The theorems                                                            *)

\* The invariant is inductive: every action of the gateways, the database
\* server, time and failure preserves it.
LEMMA NextIInv == ASSUME IInv, [Next]_vars PROVE IInv'
  BY TypeStep, CallStep, TxStep, VerifiedStep, AnswerStep, ForeignKeyStep,
     SingleUseStep, AppliedStep, RecordStep DEF IInv

\* Every reachable state satisfies the inductive invariant: what each call has
\* checked, who holds which advisory lock, and what was verified under it.
THEOREM Invariance == Spec => []IInv
  BY InitIInv, NextIInv, PTL DEF Spec

\* The variables keep their shapes, whatever the gateways and the database do.
THEOREM TypeCorrect == Spec => []TypeOK
  <1>1. IInv => TypeOK
    BY DEF IInv
  <1> QED
    BY <1>1, Invariance, PTL

\* A token leaves at most one receipt: the lookup of the receipt under the
\* owner's advisory lock is enough, however many processes confirm the token.
THEOREM SingleUseHolds == Spec => []SingleUse
  <1>1. IInv => SingleUse
    BY DEF IInv
  <1> QED
    BY <1>1, Invariance, PTL

\* Every receipt is the transition its preview showed, on the owner's record.
THEOREM AppliedAsShownHolds == Spec => []AppliedAsShown
  <1>1. IInv => AppliedAsShown
    BY DEF IInv
  <1> QED
    BY <1>1, Invariance, PTL

\* Every stored value has its receipt and no update is lost between receipts.
THEOREM RecordIsAuditedHolds == Spec => []RecordIsAudited
  <1>1. IInv => RecordIsAudited
    BY DEF IInv
  <1> QED
    BY <1>1, Invariance, PTL

\* What confirm answers is true of the transaction it ran.
THEOREM AnswerIsTrueHolds == Spec => []AnswerIsTrue
  <1>1. IInv => AnswerIsTrue
    BY DEF IInv, AnswerInv
  <1> QED
    BY <1>1, Invariance, PTL

\* No step writes the record of a principal that does not exist.
THEOREM WritesNeedAPrincipalHolds == Spec => WritesNeedAPrincipal
  <1>1. ASSUME IInv, [Next]_vars
        PROVE \A p \in Principals :
                language'[p] \notin {language[p], Absent} => p \in principals'
    <2>0. TypeOK
      BY <1>1 DEF IInv
    <2>1. ASSUME NEW c \in Calls, ServerCommit(c)
          PROVE \A p \in Principals :
                  language'[p] \notin {language[p], Absent} => p \in principals'
      BY <1>1, <2>0, <2>1, CommitFacts DEF TypeOK
    <2>2. ASSUME NEW q \in Principals, RemovePrincipal(q)
          PROVE \A p \in Principals : language'[p] \in {language[p], Absent}
      BY <2>0, <2>2 DEF RemovePrincipal, TypeOK
    <2>3. ASSUME NEW c \in Calls, TakeLock(c) \/ InsertReceipt(c) \/ ServerRollback(c)
          PROVE language' = language
      BY <2>3 DEF TakeLock, InsertReceipt, ServerRollback
    <2>4. ASSUME NEW c \in Calls, VerifyInside(c) PROVE language' = language
      BY <2>4 DEF VerifyInside, RefuseInside, dbVars
    <2>5. ASSUME NEW c \in Calls, CompareAndWrite(c) PROVE language' = language
      BY <2>5 DEF CompareAndWrite, RefuseInside
    <2>6. ASSUME NEW q \in Principals, RegisterPrincipal(q) PROVE language' = language
      BY <2>6 DEF RegisterPrincipal
    <2>7. ASSUME UNCHANGED dbVars PROVE language' = language
      BY <2>7 DEF dbVars
    <2> QED
      BY <1>1, <2>1, <2>2, <2>3, <2>4, <2>5, <2>6, <2>7, DbSteps
  <1>2. ASSUME IInv, [Next]_vars
        PROVE [\A p \in Principals :
                 language'[p] \notin {language[p], Absent} => p \in principals']_vars
    BY <1>1, <1>2
  <1> QED
    BY <1>2, Invariance, PTL DEF Spec, WritesNeedAPrincipal

----------------------------------------------------------------------------
(* The detailed specification implements the abstract record               *)

\* Abstractly, every step but four stutters.
AbstractlyStutters == UNCHANGED <<principals, language, token, ledger>>

\* The four steps that show in the abstract record, or a stutter.
LEMMA VisibleSteps ==
  ASSUME [Next]_vars
  PROVE  \/ AbstractlyStutters
         \/ \E c \in Calls : PreviewRead(c) \/ ServerCommit(c)
         \/ \E p \in Principals : RemovePrincipal(p) \/ RegisterPrincipal(p)
  <1> USE DEF AbstractlyStutters, dbVars
  <1>1. ASSUME NEW c \in Calls, Arrive(c) PROVE AbstractlyStutters
    <2>1. ASSUME NEW i, NEW p, NEW person, NEW v, Preview(c, i, p, person, v) PROVE AbstractlyStutters
      BY <2>1 DEF Preview
    <2>2. ASSUME NEW i, NEW p, NEW t, NEW person, NEW v, Confirm(c, i, p, t, person, v) PROVE AbstractlyStutters
      BY <2>2 DEF Confirm
    <2> QED
      BY <1>1, <2>1, <2>2 DEF Arrive
  <1>2. ASSUME NEW c \in Calls,
               PreviewOwned(c) \/ ConfirmOwned(c) \/ ConfirmRead(c) \/ ConfirmAcknowledged(c)
        PROVE AbstractlyStutters
    BY <1>2 DEF PreviewOwned, ConfirmOwned, ConfirmRead, ConfirmAcknowledged
  <1>3. ASSUME NEW c \in Calls, TakeLock(c) \/ InsertReceipt(c) \/ ServerRollback(c)
        PROVE AbstractlyStutters
    BY <1>3 DEF TakeLock, InsertReceipt, ServerRollback
  <1>4. ASSUME NEW c \in Calls, VerifyInside(c) \/ CompareAndWrite(c)
        PROVE AbstractlyStutters
    BY <1>4 DEF VerifyInside, CompareAndWrite, RefuseInside
  <1>5. ASSUME NEW c \in Calls, ReadFails(c) \/ CommitThrows(c) PROVE AbstractlyStutters
    BY <1>5 DEF ReadFails, CommitThrows
  <1>6. ASSUME NEW t \in Tokens, TokenExpires(t) PROVE AbstractlyStutters
    BY <1>6 DEF TokenExpires
  <1>7. ASSUME NEW i \in Instances, Restart(i) PROVE AbstractlyStutters
    BY <1>7 DEF Restart
  <1>8. ASSUME UNCHANGED vars PROVE AbstractlyStutters
    BY <1>8 DEF vars
  <1> HIDE DEF AbstractlyStutters
  <1> QED
    BY <1>1, <1>2, <1>3, <1>4, <1>5, <1>6, <1>7, <1>8 DEF Next, Progress, ServerStep

\* The initial states are the abstract ones: no offer has been made.
LEMMA InitRefines == Init => Abstract!Init
  <1> SUFFICES ASSUME Init PROVE Abstract!Init
    OBVIOUS
  <1>1. Offers = {}
    BY DEF Init, Offers, Tokens
  <1> QED
    BY <1>1 DEF Init, Abstract!Init

\* Every step is an abstract step or a stutter.
LEMMA StepRefines ==
  ASSUME IInv, [Next]_vars
  PROVE  [Abstract!Next]_(Abstract!avars)
  <1>0. TypeOK /\ CallInv
    BY DEF IInv
  <1>1. ASSUME AbstractlyStutters PROVE UNCHANGED Abstract!avars
    BY <1>1 DEF AbstractlyStutters, Abstract!avars, Offers
  \* A preview that reads the field makes an offer.
  <1>2. ASSUME NEW c \in Calls, PreviewRead(c) PROVE Abstract!Next
    <2>1. PICK o : o = call[c].by
      OBVIOUS
    <2>2. PICK v : v = call[c].value
      OBVIOUS
    <2>3. o \in Principals /\ v \in Languages /\ call[c].person = o /\ token[c] = NoToken
      BY <1>0, <1>2, <2>1, <2>2 DEF PreviewRead, CallInv, PreviewStages
    <2>4. /\ token' = [token EXCEPT ![c] = [owner |-> o, from |-> language[o], to |-> v]]
          /\ UNCHANGED <<principals, language, ledger>>
      BY <1>2, <2>1, <2>2, <2>3 DEF PreviewRead, ReadField, dbVars
    <2>5. /\ token'[c] = [owner |-> o, from |-> language[o], to |-> v]
          /\ \A t \in Tokens \ {c} : token'[t] = token[t]
      BY <1>0, <2>4 DEF TypeOK, Tokens
    <2>6. token'[c] # NoToken
      BY <2>3, <2>5, NoneAssumption DEF NoToken
    <2>7. Offers' = Offers \cup
            {[token |-> c, owner |-> o, from |-> language[o], to |-> v]}
      BY <2>3, <2>5, <2>6 DEF Offers, Tokens
    <2>8. \A x \in Offers : x.token # c
      BY <2>3 DEF Offers
    <2>9. Abstract!MakeOffer(c, o, v)
      BY <2>4, <2>7, <2>8 DEF Abstract!MakeOffer
    <2> QED
      BY <2>3, <2>9 DEF Abstract!Next, Tokens
  \* The server's commit applies it.
  <1>3. ASSUME NEW c \in Calls, ServerCommit(c) PROVE Abstract!Next
    <2>1. PICK o : o = ReceiptOf(c)
      OBVIOUS
    <2>2. /\ call[c].by \in principals /\ BoundFrom(c) /\ ~TokenUsed(call[c].token)
          /\ language[call[c].by] = call[c].current
          /\ ledger' = Append(ledger, o) /\ token' = token /\ principals' = principals
          /\ language' = [language EXCEPT ![call[c].by] = call[c].value]
      BY <1>3, <2>1, CommitFacts
    <2>3. /\ o.token = call[c].token /\ o.owner = call[c].by
          /\ o.from = call[c].current /\ o.to = call[c].value
      BY <2>1 DEF ReceiptOf
    <2>4. o \in Offers
      BY <2>1, <2>2 DEF ReceiptOf, Offers, BoundFrom, Bound
    <2>5. Offers' = Offers
      BY <2>2 DEF Offers
    <2>6. \A k \in DOMAIN ledger : ledger[k].token # o.token
      BY <2>2, <2>3 DEF TokenUsed
    <2>7. Abstract!Apply(o)
      BY <2>2, <2>3, <2>5, <2>6 DEF Abstract!Apply
    <2> QED
      BY <2>4, <2>7 DEF Abstract!Next
  <1>4. ASSUME NEW p \in Principals, RemovePrincipal(p) PROVE Abstract!Next
    <2>1. Abstract!Remove(p)
      BY <1>4 DEF RemovePrincipal, Abstract!Remove, Offers
    <2> QED
      BY <2>1 DEF Abstract!Next
  <1>5. ASSUME NEW p \in Principals, RegisterPrincipal(p) PROVE Abstract!Next
    <2>1. Abstract!Register(p)
      BY <1>5 DEF RegisterPrincipal, Abstract!Register, Offers
    <2> QED
      BY <2>1 DEF Abstract!Next
  <1> QED
    BY <1>1, <1>2, <1>3, <1>4, <1>5, VisibleSteps

\* Every behaviour of the processes and the database is a behaviour of the
\* abstract record: the commit of a confirm is its one indivisible step.
THEOREM Refinement == Spec => ImplementsAuditedRecord
  <1>1. Init => Abstract!Init
    BY InitRefines
  <1>2. IInv /\ [Next]_vars => [Abstract!Next]_(Abstract!avars)
    BY StepRefines
  <1> QED
    BY <1>1, <1>2, Invariance, PTL DEF Spec, ImplementsAuditedRecord, Abstract!Spec

=============================================================================
