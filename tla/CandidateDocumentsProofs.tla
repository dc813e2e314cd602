----------------------- MODULE CandidateDocumentsProofs -----------------------
(***************************************************************************)
(* Whatever the metadata row refers to is stored and reserved, an          *)
(* idempotency key acts once, ok is durable, no accepted body is lost and  *)
(* a slot changes only for a request that knew what it replaced, for any   *)
(* number of requests, slots and bodies and for any capacity.              *)
(***************************************************************************)
EXTENDS CandidateDocuments, TLAPS

----------------------------------------------------------------------------
(* Referenced is stored: the invariant                                     *)

ReqFields == {"pc", "op", "key", "next", "todo", "ran", "status", "value"}
RowFields == {"doc", "retired", "held", "body", "ticket", "receipt", "audit"}

\* The records have their fields, and a key is one that some request brought;
\* what the other fields hold is not needed.
Shape ==
  /\ DOMAIN req = Requests
  /\ \A r \in Requests : DOMAIN req[r] = ReqFields /\ req[r].key \in Maybe(Requests)
  /\ DOMAIN tx = Requests /\ DOMAIN uploads = Requests

\* The uploads that a row's receipts promise have a reserved key.
Promised(s) ==
  /\ DOMAIN s = RowFields /\ DOMAIN s.receipt = Requests
  /\ \A k \in Requests : s.receipt[k] # None /\ s.receipt[k].print.kind = "authorize"
                         => s.receipt[k].value \in reserved

\* The row that a request would commit is covered by what it has stored and
\* what it still has to store, and once its COMMIT is sent by what it stored.
Covered(r) ==
  /\ req[r].pc = "writing" => Promised(req[r].next) /\ Bodies(req[r].next) \subseteq bucket \cup req[r].todo
  /\ tx[r] = "commit" =>
       req[r].pc \in {"committing", "answered"} /\ Promised(req[r].next) /\ Bodies(req[r].next) \subseteq bucket

\* What an authorization answers, or is about to answer, is reserved.
Answerable(r) ==
  /\ req[r].status = "ok" => req[r].pc = "answered"
  /\ (req[r].pc \in {"writing", "committing"} \/ req[r].status = "ok") /\ req[r].op.kind = "authorize"
       => req[r].value \in reserved

IInv ==
  /\ Shape /\ Promised(snap)
  /\ ReferencedIsStored
  /\ landing \subseteq reserved
  /\ \A r \in Requests : Covered(r) /\ Answerable(r)

----------------------------------------------------------------------------
(* Referenced is stored: the steps                                         *)

\* A step of request r that touches nothing but r, its transaction and the
\* bucket, which only grows.
LEMMA OwnStep ==
  ASSUME IInv, NEW r \in Requests, NEW x, DOMAIN x = ReqFields, x.key \in Maybe(Requests),
         req' = [req EXCEPT ![r] = x],
         DOMAIN tx' = Requests, \A q \in Requests \ {r} : tx'[q] = tx[q],
         UNCHANGED <<snap, uploads>>, bucket \subseteq bucket', reserved \subseteq reserved',
         bucket' \subseteq reserved', landing' \subseteq reserved',
         Covered(r)', Answerable(r)'
  PROVE  IInv'
<1>1. Shape'
  BY DEF IInv, Shape
<1>2. Promised(snap)'
  BY DEF IInv, Promised
<1>3. ReferencedIsStored'
  BY DEF IInv, ReferencedIsStored, Bodies, Current
<1>4. ASSUME NEW q \in Requests PROVE Covered(q)' /\ Answerable(q)'
  <2>1. CASE q = r
    BY <2>1
  <2>2. CASE q # r
    <3>1. req'[q] = req[q] /\ tx'[q] = tx[q]
      BY <2>2 DEF IInv, Shape
    <3>2. Answerable(q)'
      BY <3>1 DEF IInv, Answerable
    <3>3. Promised(req[q].next) => Promised(req[q].next)'
      BY <3>1 DEF Promised
    <3>4. Bodies(req[q].next)' = Bodies(req[q].next)
      BY <3>1 DEF Bodies, Current
    <3>5. Covered(q)'
      BY <3>1, <3>3, <3>4 DEF IInv, Covered
    <3>. QED  BY <3>2, <3>5
  <2>. QED  BY <2>1, <2>2
<1>. QED  BY <1>1, <1>2, <1>3, <1>4 DEF IInv

\* A step that leaves every request, its transaction and the row alone.
LEMMA OutsideStep ==
  ASSUME IInv, UNCHANGED <<snap, req, tx>>,
         bucket \subseteq bucket', reserved \subseteq reserved',
         bucket' \subseteq reserved', landing' \subseteq reserved', DOMAIN uploads' = Requests,
         \A i \in Requests : uploads'[i] # None => i \in reserved'
  PROVE  IInv'
<1>1. Shape'
  BY DEF IInv, Shape
<1>2. Promised(snap)'
  BY DEF IInv, Promised
<1>3. ReferencedIsStored'
  BY DEF IInv, ReferencedIsStored, Bodies, Current
<1>4. ASSUME NEW q \in Requests PROVE Covered(q)' /\ Answerable(q)'
  <2>1. Answerable(q)'
    BY DEF IInv, Answerable
  <2>2. Promised(req[q].next) => Promised(req[q].next)'
    BY DEF Promised
  <2>3. Bodies(req[q].next)' = Bodies(req[q].next)
    BY DEF Bodies, Current
  <2>4. Covered(q)'
    BY <2>2, <2>3 DEF IInv, Covered
  <2>. QED  BY <2>1, <2>4
<1>. QED  BY <1>1, <1>2, <1>3, <1>4 DEF IInv

\* Rewriting some of a row's fields keeps its receipts and its audit.
LEMMA ReplacedKeeps ==
  ASSUME NEW s, NEW type, NEW new, DOMAIN s = RowFields
  PROVE  LET n == Replaced(s, type, new) IN DOMAIN n = RowFields /\ n.receipt = s.receipt /\ n.audit = s.audit
  BY DEF Replaced, RowFields
LEMMA TicketKeeps ==
  ASSUME NEW s, NEW ticket, DOMAIN s = RowFields
  PROVE  LET n == [s EXCEPT !.ticket = ticket]
         IN DOMAIN n = RowFields /\ n.receipt = s.receipt /\ n.audit = s.audit
  BY DEF RowFields
LEMMA BodyKeeps ==
  ASSUME NEW s, NEW body, DOMAIN s = RowFields
  PROVE  LET n == [s EXCEPT !.body = body]
         IN DOMAIN n = RowFields /\ n.receipt = s.receipt /\ n.audit = s.audit
  BY DEF RowFields
LEMMA AuditedKeeps ==
  ASSUME NEW s, NEW audit, DOMAIN s = RowFields
  PROVE  LET n == [s EXCEPT !.audit = audit]
         IN DOMAIN n = RowFields /\ n.receipt = s.receipt /\ n.audit = audit
  BY DEF RowFields

\* The row that an operation leaves keeps the receipts and the audit of the
\* row it read; a read leaves its own audit row.
LEMMA ExecutedKeeps ==
  ASSUME NEW r, NEW o, DOMAIN snap = RowFields
  PROVE  /\ DOMAIN Executed(r, o) = RowFields /\ Executed(r, o).receipt = snap.receipt
         /\ snap.audit \subseteq Executed(r, o).audit
         /\ o.kind \in Reads => r \in Executed(r, o).audit
<1>1. CASE o.kind = "authorize"
  BY <1>1, TicketKeeps DEF Executed, Reads
<1>2. CASE o.kind = "put"
  BY <1>2, TicketKeeps DEF Executed, Reads
<1>3. CASE o.kind = "finalize"
  <2> DEFINE old == Replaced(snap, snap.ticket[o.id].type, r)
             row == [old EXCEPT !.body[r] = Staged(o.id), !.ticket[o.id].committed = TRUE, !.ticket[o.id].data = None]
  <2>1. DOMAIN old = RowFields /\ old.receipt = snap.receipt /\ old.audit = snap.audit
    BY ReplacedKeeps
  <2>2. DOMAIN row = RowFields /\ row.receipt = old.receipt /\ row.audit = old.audit
    <3>. HIDE DEF old
    <3>. QED  BY <2>1, BodyKeeps, TicketKeeps
  <2>3. Executed(r, o) = [row EXCEPT !.audit = @ \cup {r}]
    BY <1>3 DEF Executed
  <2>. HIDE DEF row
  <2>. QED  BY <1>3, <2>1, <2>2, <2>3, AuditedKeeps
<1>4. CASE o.kind = "remove"
  <2>1. Executed(r, o) = [Replaced(snap, o.type, None) EXCEPT !.audit = @ \cup {r}]
    BY <1>4 DEF Executed
  <2>. QED  BY <1>4, <2>1, ReplacedKeeps, AuditedKeeps DEF Reads
<1>5. CASE o.kind \notin {"authorize", "put", "finalize", "remove"}
  <2>1. Executed(r, o) = [snap EXCEPT !.audit = snap.audit \cup {r}]
    BY <1>5 DEF Executed
  <2>. QED  BY <2>1, AuditedKeeps
<1>. QED  BY <1>1, <1>2, <1>3, <1>4, <1>5

\* A request that gives up, or is answered before its COMMIT.
LEMMA GivesUp ==
  ASSUME IInv, NEW r \in Requests, NEW status \in {"refused", "unavailable"},
         tx[r] # "commit", Tx(r, "undone"), Answer(r, status),
         UNCHANGED <<snap, bucket, uploads, reserved>>, landing' \subseteq reserved
  PROVE  IInv'
<1>1. PICK x : /\ DOMAIN x = ReqFields /\ req' = [req EXCEPT ![r] = x]
               /\ x.pc = "answered" /\ x.status = status /\ x.key \in Maybe(Requests)
  <2> DEFINE x == [req[r] EXCEPT !.pc = "answered", !.status = status, !.next = None, !.todo = {}]
  <2>1. DOMAIN x = ReqFields /\ x.pc = "answered" /\ x.status = status /\ x.key \in Maybe(Requests)
    BY DEF IInv, Shape, ReqFields
  <2>2. req' = [req EXCEPT ![r] = x]
    BY DEF Answer, IInv, Shape, ReqFields
  <2>. QED  BY <2>1, <2>2
<1>2. DOMAIN tx' = Requests /\ tx'[r] = "undone" /\ \A q \in Requests \ {r} : tx'[q] = tx[q]
  BY DEF Tx, IInv, Shape
<1>3. req'[r].pc = "answered" /\ req'[r].status = status
  BY <1>1 DEF IInv, Shape
<1>4. Covered(r)' /\ Answerable(r)'
  BY <1>2, <1>3 DEF Covered, Answerable
<1>. QED  BY <1>1, <1>2, <1>4, OwnStep DEF IInv, ReferencedIsStored

\* A request arrives.
LEMMA SendPreserves ==
  ASSUME IInv, NEW r \in Requests, Send(r)
  PROVE  IInv'
<1>1. PICK o \in Asks, k \in {None, r} \cup {req[q].key : q \in Requests} :
        req' = [req EXCEPT ![r].pc = "waiting", ![r].op = o, ![r].key = k]
  BY DEF Send
<1>2. req[r].pc = "idle" /\ UNCHANGED <<snap, tx, bucket, uploads, landing, reserved, live>>
  BY DEF Send
<1> DEFINE x == [req[r] EXCEPT !.pc = "waiting", !.op = o, !.key = k]
<1>3. /\ DOMAIN x = ReqFields /\ req' = [req EXCEPT ![r] = x]
      /\ x.pc = "waiting" /\ x.status = req[r].status /\ x.next = req[r].next
      /\ x.key \in Maybe(Requests)
  BY <1>1 DEF IInv, Shape, ReqFields, Maybe
<1>. HIDE DEF x
<1>4. req'[r] = x
  BY <1>3 DEF IInv, Shape
<1>5. Covered(r)' /\ Answerable(r)'
  BY <1>2, <1>3, <1>4 DEF IInv, Covered, Answerable
<1>. QED  BY <1>2, <1>3, <1>5, OwnStep DEF IInv, Shape, ReferencedIsStored

\* The lock is granted, or the bodies cannot be read.
LEMMA LockPreserves ==
  ASSUME IInv, NEW r \in Requests, Lock(r)
  PROVE  IInv'
<1>1. req[r].pc = "waiting" /\ tx[r] # "commit" /\ UNCHANGED <<snap, bucket, uploads, landing, reserved, live>>
  BY DEF Lock
<1>2. CASE Tx(r, "open") /\ req' = [req EXCEPT ![r].pc = "locked"]
  <2> DEFINE x == [req[r] EXCEPT !.pc = "locked"]
  <2>1. DOMAIN x = ReqFields /\ req' = [req EXCEPT ![r] = x] /\ x.pc = "locked" /\ x.status = req[r].status
         /\ x.key \in Maybe(Requests)
    BY <1>2 DEF IInv, Shape, ReqFields
  <2>. HIDE DEF x
  <2>2. req'[r] = x /\ DOMAIN tx' = Requests /\ tx'[r] = "open" /\ \A q \in Requests \ {r} : tx'[q] = tx[q]
    BY <1>2, <2>1 DEF IInv, Shape, Tx
  <2>3. Covered(r)' /\ Answerable(r)'
    BY <1>1, <2>1, <2>2 DEF IInv, Covered, Answerable
  <2>. QED  BY <1>1, <2>1, <2>2, <2>3, OwnStep DEF IInv, ReferencedIsStored
<1>3. CASE Tx(r, "undone") /\ Answer(r, "unavailable")
  BY <1>1, <1>3, GivesUp DEF IInv
<1>. QED  BY <1>2, <1>3 DEF Lock

\* A receipt is answered with its value, and the row is left as it is.
LEMMA ReplayPreserves ==
  ASSUME IInv, NEW r \in Requests, Replay(r)
  PROVE  IInv'
<1>1. /\ req[r].pc = "locked" /\ tx' = tx /\ tx[r] # "commit" /\ req[r].status # "ok"
      /\ UNCHANGED <<snap, bucket, uploads, landing, reserved, live>>
  BY DEF Replay, IInv, Covered, Answerable
<1>2. req[r].op.kind = "authorize" => Past(r).value \in reserved
  <2>1. Past(r) # None /\ Past(r).print = req[r].op
    BY DEF Replay, Refused
  <2>2. req[r].key \in Requests
    BY <2>1 DEF IInv, Shape, Past, Maybe
  <2>. QED  BY <2>1, <2>2 DEF Past, IInv, Promised
<1> DEFINE x == [req[r] EXCEPT !.pc = "writing", !.next = snap, !.value = Past(r).value]
<1>3. /\ DOMAIN x = ReqFields /\ req' = [req EXCEPT ![r] = x] /\ x.pc = "writing" /\ x.next = snap
      /\ x.value = Past(r).value /\ x.status = req[r].status /\ x.op = req[r].op /\ x.todo = req[r].todo
      /\ x.key \in Maybe(Requests)
  BY DEF Replay, IInv, Shape, ReqFields
<1>. HIDE DEF x
<1>4. req'[r] = x
  BY <1>3 DEF IInv, Shape
<1>5. Promised(snap)'
  BY <1>1 DEF IInv, Promised
<1>6. Bodies(snap)' \subseteq bucket
  BY <1>1 DEF IInv, ReferencedIsStored, Bodies, Current
<1>7. Covered(r)'
  BY <1>1, <1>3, <1>4, <1>5, <1>6 DEF IInv, Covered
<1>8. Answerable(r)'
  BY <1>1, <1>2, <1>3, <1>4 DEF Answerable
<1>. QED  BY <1>1, <1>3, <1>7, <1>8, OwnStep DEF IInv, Shape, ReferencedIsStored

\* The receipts of the next row: those of the row that was read and, for an
\* authorization, its own, whose key is reserved in the same step.
LEMMA ExecutePreserves ==
  ASSUME IInv, NEW r \in Requests, Execute(r)
  PROVE  IInv'
<1> DEFINE o == req[r].op
           row == Executed(r, o)
           receipt == [print |-> o, value |-> Value(r, o)]
           next == IF req[r].key = None THEN row ELSE [row EXCEPT !.receipt[req[r].key] = receipt]
           x == [req[r] EXCEPT !.pc = "writing", !.next = next, !.ran = TRUE,
                               !.value = Value(r, o), !.todo = Bodies(next) \ Bodies(snap)]
<1>1. /\ req[r].pc = "locked" /\ tx' = tx /\ tx[r] # "commit" /\ req[r].status # "ok"
      /\ reserved' = reserved \cup (IF o.kind = "authorize" THEN {r} ELSE {})
      /\ UNCHANGED <<snap, bucket, uploads, landing, live>>
  BY DEF Execute, IInv, Covered, Answerable
<1>2. /\ DOMAIN x = ReqFields /\ req' = [req EXCEPT ![r] = x] /\ x.pc = "writing" /\ x.next = next
      /\ x.value = Value(r, o) /\ x.status = req[r].status /\ x.op = o
      /\ x.todo = Bodies(next) \ Bodies(snap) /\ x.key \in Maybe(Requests)
  <2>1. req' = [req EXCEPT ![r].pc = "writing", ![r].next = next, ![r].ran = TRUE,
                           ![r].value = Value(r, o), ![r].todo = Bodies(next) \ Bodies(snap)]
    BY DEF Execute
  <2>. HIDE DEF next
  <2>. QED  BY <2>1 DEF IInv, Shape, ReqFields
<1>3. DOMAIN row = RowFields /\ row.receipt = snap.receipt
  BY ExecutedKeeps DEF IInv, Promised
<1>4. o.kind = "authorize" => Value(r, o) = r
  BY DEF Value
<1>5. /\ DOMAIN next = RowFields /\ DOMAIN next.receipt = Requests
      /\ \A k \in Requests : next.receipt[k] = snap.receipt[k] \/ next.receipt[k] = receipt
  <2>. HIDE DEF row, receipt
  <2>1. CASE req[r].key = None
    BY <1>3, <2>1 DEF IInv, Promised
  <2>2. CASE req[r].key # None
    BY <1>3, <2>2 DEF IInv, Promised, RowFields
  <2>. QED  BY <2>1, <2>2
<1>. HIDE DEF next, x
<1>6. req'[r] = x /\ req'[r].next = next
  BY <1>2 DEF IInv, Shape
<1>7. Promised(req[r].next)'
  <2>1. ASSUME NEW k \in Requests, next.receipt[k] # None, next.receipt[k].print.kind = "authorize"
        PROVE  next.receipt[k].value \in reserved'
    <3>1. CASE next.receipt[k] = snap.receipt[k]
      BY <1>1, <2>1, <3>1 DEF IInv, Promised
    <3>2. CASE next.receipt[k] = receipt
      BY <1>1, <1>4, <2>1, <3>2
    <3>. QED  BY <1>5, <3>1, <3>2
  <2>. QED  BY <1>5, <1>6, <2>1 DEF Promised
<1>8. Bodies(req[r].next)' = Bodies(next)
  BY <1>6 DEF Bodies, Current
<1>9. Covered(r)'
  BY <1>1, <1>2, <1>6, <1>7, <1>8 DEF IInv, Covered, ReferencedIsStored
<1>10. Answerable(r)'
  BY <1>1, <1>2, <1>4, <1>6 DEF Answerable
<1>. QED  BY <1>1, <1>2, <1>9, <1>10, OwnStep DEF IInv, Shape, ReferencedIsStored

\* A step that stores or reserves one body of a row that is being written.
LEMMA ReservePreserves ==
  ASSUME IInv, NEW r \in Requests, Reserve(r)
  PROVE  IInv'
<1>1. UNCHANGED <<snap, req, tx, bucket, uploads, landing>> /\ reserved \subseteq reserved'
  BY DEF Reserve
<1>. QED  BY <1>1, OutsideStep DEF IInv, Shape, ReferencedIsStored

\* A stored body is no longer to do.
LEMMA WritePreserves ==
  ASSUME IInv, NEW r \in Requests, Write(r)
  PROVE  IInv'
<1>1. PICK b \in req[r].todo \cap reserved :
        /\ bucket' = bucket \cup {b} /\ req' = [req EXCEPT ![r].todo = @ \ {b}]
        /\ req[r].pc = "writing" /\ UNCHANGED <<snap, tx, uploads, landing, reserved, live>>
  BY DEF Write
<1> DEFINE x == [req[r] EXCEPT !.todo = @ \ {b}]
<1>2. /\ DOMAIN x = ReqFields /\ req' = [req EXCEPT ![r] = x] /\ x.pc = "writing" /\ x.next = req[r].next
      /\ x.value = req[r].value /\ x.status = req[r].status /\ x.op = req[r].op
      /\ x.todo = req[r].todo \ {b} /\ x.key \in Maybe(Requests)
  BY <1>1 DEF IInv, Shape, ReqFields
<1>. HIDE DEF x
<1>3. req'[r] = x
  BY <1>2 DEF IInv, Shape
<1>4. Promised(req[r].next) => Promised(req[r].next)'
  BY <1>1, <1>2, <1>3 DEF Promised
<1>5. Bodies(req[r].next)' = Bodies(req[r].next)
  BY <1>2, <1>3 DEF Bodies, Current
<1>6. Covered(r)' /\ Answerable(r)'
  BY <1>1, <1>2, <1>3, <1>4, <1>5 DEF IInv, Covered, Answerable
<1>. QED  BY <1>1, <1>2, <1>6, OwnStep DEF IInv, Shape, ReferencedIsStored

\* COMMIT is sent when nothing is left to do.
LEMMA SendCommitPreserves ==
  ASSUME IInv, NEW r \in Requests, SendCommit(r)
  PROVE  IInv'
<1>1. /\ req[r].pc = "writing" /\ req[r].todo = {} /\ Tx(r, "commit")
      /\ req' = [req EXCEPT ![r].pc = "committing"]
      /\ UNCHANGED <<snap, bucket, uploads, landing, reserved, live>>
  BY DEF SendCommit
<1> DEFINE x == [req[r] EXCEPT !.pc = "committing"]
<1>2. /\ DOMAIN x = ReqFields /\ req' = [req EXCEPT ![r] = x] /\ x.pc = "committing" /\ x.next = req[r].next
      /\ x.value = req[r].value /\ x.status = req[r].status /\ x.op = req[r].op /\ x.key \in Maybe(Requests)
  BY <1>1 DEF IInv, Shape, ReqFields
<1>. HIDE DEF x
<1>3. req'[r] = x /\ DOMAIN tx' = Requests /\ \A q \in Requests \ {r} : tx'[q] = tx[q]
  BY <1>1, <1>2 DEF IInv, Shape, Tx
<1>4. Promised(req[r].next) => Promised(req[r].next)'
  BY <1>1, <1>2, <1>3 DEF Promised
<1>5. Bodies(req[r].next)' = Bodies(req[r].next)
  BY <1>2, <1>3 DEF Bodies, Current
<1>6. Covered(r)' /\ Answerable(r)'
  BY <1>1, <1>2, <1>3, <1>4, <1>5 DEF IInv, Covered, Answerable
<1>. QED  BY <1>1, <1>2, <1>3, <1>6, OwnStep DEF IInv, ReferencedIsStored

\* The server's transaction ends, and with it the row that it carried.
LEMMA ServerAbortsPreserves ==
  ASSUME IInv, NEW r \in Requests, ServerAborts(r)
  PROVE  IInv'
<1>1. /\ tx[r] = "commit" /\ Tx(r, "undone") /\ req' = [req EXCEPT ![r].next = None]
      /\ req[r].pc \in {"committing", "answered"}
      /\ UNCHANGED <<snap, bucket, uploads, landing, reserved, live>>
  BY DEF ServerAborts, IInv, Covered
<1> DEFINE x == [req[r] EXCEPT !.next = None]
<1>2. /\ DOMAIN x = ReqFields /\ req' = [req EXCEPT ![r] = x] /\ x.pc = req[r].pc
      /\ x.value = req[r].value /\ x.status = req[r].status /\ x.op = req[r].op /\ x.key \in Maybe(Requests)
  BY <1>1 DEF IInv, Shape, ReqFields
<1>. HIDE DEF x
<1>3. req'[r] = x /\ DOMAIN tx' = Requests /\ tx'[r] = "undone" /\ \A q \in Requests \ {r} : tx'[q] = tx[q]
  BY <1>1, <1>2 DEF IInv, Shape, Tx
<1>4. Covered(r)' /\ Answerable(r)'
  BY <1>1, <1>2, <1>3 DEF IInv, Covered, Answerable
<1>. QED  BY <1>1, <1>2, <1>3, <1>4, OwnStep DEF IInv, ReferencedIsStored

\* A committed row is covered by what is stored.
LEMMA ServerCommitsPreserves ==
  ASSUME IInv, NEW r \in Requests, ServerCommits(r)
  PROVE  IInv'
<1>1. /\ tx[r] = "commit" /\ Tx(r, "done") /\ req' = [req EXCEPT ![r].next = None] /\ snap' = req[r].next
      /\ UNCHANGED <<bucket, uploads, landing, reserved, live>>
  BY DEF ServerCommits
<1>2. Promised(req[r].next) /\ Bodies(req[r].next) \subseteq bucket /\ req[r].pc \in {"committing", "answered"}
  BY <1>1 DEF IInv, Covered
<1>3. Promised(snap)'
  BY <1>1, <1>2 DEF Promised
<1>4. Bodies(snap)' = Bodies(req[r].next)
  BY <1>1 DEF Bodies, Current
<1>5. ReferencedIsStored'
  BY <1>1, <1>2, <1>4 DEF IInv, ReferencedIsStored
<1>6. Shape'
  BY <1>1 DEF IInv, Shape, ReqFields, Tx
<1>7. ASSUME NEW q \in Requests PROVE Covered(q)' /\ Answerable(q)'
  <2>1. CASE q = r
    <3>1. tx'[r] = "done" /\ req'[r].pc = req[r].pc /\ req'[r].status = req[r].status
          /\ req'[r].op = req[r].op /\ req'[r].value = req[r].value
      BY <1>1 DEF IInv, Shape, ReqFields, Tx
    <3>. QED  BY <1>1, <1>2, <2>1, <3>1 DEF IInv, Covered, Answerable
  <2>2. CASE q # r
    <3>1. req'[q] = req[q] /\ tx'[q] = tx[q]
      BY <1>1, <2>2 DEF IInv, Shape, Tx
    <3>2. req'[q].next = req[q].next /\ reserved' = reserved
      BY <1>1, <3>1
    <3>3. Promised(req[q].next) => Promised(req[q].next)'
      BY <3>2 DEF Promised
    <3>4. Bodies(req[q].next)' = Bodies(req[q].next)
      BY <3>2 DEF Bodies, Current
    <3>. QED  BY <1>1, <3>1, <3>3, <3>4 DEF IInv, Covered, Answerable
  <2>. QED  BY <2>1, <2>2
<1>. QED  BY <1>1, <1>3, <1>5, <1>6, <1>7 DEF IInv

\* The answer after COMMIT was sent: the transaction goes its own way.
LEMMA AnswerPreserves ==
  ASSUME IInv, NEW r \in Requests, NEW status \in {"ok", "unavailable"},
         req[r].pc = "committing", Answer(r, status),
         UNCHANGED <<snap, tx, bucket, uploads, landing, reserved, live>>
  PROVE  IInv'
<1> DEFINE x == [req[r] EXCEPT !.pc = "answered", !.status = status,
                               !.next = IF tx[r] = "commit" THEN @ ELSE None, !.todo = {}]
<1>1. /\ DOMAIN x = ReqFields /\ req' = [req EXCEPT ![r] = x] /\ x.pc = "answered" /\ x.status = status
      /\ x.value = req[r].value /\ x.op = req[r].op /\ x.key \in Maybe(Requests)
      /\ tx[r] = "commit" => x.next = req[r].next
  BY DEF Answer, IInv, Shape, ReqFields
<1>. HIDE DEF x
<1>2. req'[r] = x
  BY <1>1 DEF IInv, Shape
<1>3. tx[r] = "commit" /\ Promised(req[r].next) => Promised(req[r].next)'
  BY <1>1, <1>2 DEF Promised
<1>4. tx[r] = "commit" => Bodies(req[r].next)' = Bodies(req[r].next)
  BY <1>1, <1>2 DEF Bodies, Current
<1>5. Covered(r)' /\ Answerable(r)'
  BY <1>1, <1>2, <1>3, <1>4 DEF IInv, Covered, Answerable
<1>. QED  BY <1>1, <1>5, OwnStep DEF IInv, Shape, ReferencedIsStored

\* Only an upload that the person was told of is filled directly.
LEMMA PutDirectPreserves ==
  ASSUME IInv, NEW i \in Requests, PutDirect(i)
  PROVE  IInv'
<1>1. i \in reserved
  BY DEF PutDirect, Told, IInv, Answerable
<1>. QED  BY <1>1, OutsideStep DEF PutDirect, IInv, Shape, ReferencedIsStored

\* Every step preserves it.
LEMMA StepPreserves ==
  ASSUME IInv, [Next]_vars
  PROVE  IInv'
<1>1. ASSUME NEW r \in Requests, Fail(r) PROVE IInv'
  BY <1>1, GivesUp DEF Fail, IInv, Covered
<1>2. ASSUME NEW r \in Requests, Refuse(r) PROVE IInv'
  BY <1>2, GivesUp DEF Refuse, IInv, Covered
<1>3. ASSUME NEW r \in Requests, WriteUnknown(r) PROVE IInv'
  BY <1>3, GivesUp DEF WriteUnknown, IInv, Covered
<1>4. ASSUME NEW r \in Requests, Acknowledged(r) \/ Unacknowledged(r) PROVE IInv'
  BY <1>4, AnswerPreserves DEF Acknowledged, Unacknowledged
<1>5. CASE Land
  BY <1>5, OutsideStep DEF Land, IInv, Shape, ReferencedIsStored
<1>6. CASE SignOut
  BY <1>6, OutsideStep DEF SignOut, IInv, Shape, ReferencedIsStored
<1>7. CASE UNCHANGED vars
  BY <1>7, OutsideStep DEF vars, IInv, Shape, ReferencedIsStored
<1>. QED
  BY <1>1, <1>2, <1>3, <1>4, <1>5, <1>6, <1>7, SendPreserves, PutDirectPreserves, LockPreserves,
     ReplayPreserves, ExecutePreserves, ReservePreserves, WritePreserves, SendCommitPreserves,
     ServerCommitsPreserves, ServerAbortsPreserves DEF Next

\* The empty row refers to nothing.
LEMMA InitIInv == Init => IInv
<1>1. SUFFICES ASSUME Init PROVE IInv
  OBVIOUS
<1>2. Shape
  BY <1>1 DEF Init, Idle, Shape, ReqFields, Maybe
<1>3. Promised(snap)
  BY <1>1 DEF Init, EmptyRow, Promised, RowFields
<1>4. Bodies(snap) = {}
  BY <1>1 DEF Init, EmptyRow, Bodies, Current
<1>5. ReferencedIsStored /\ landing \subseteq reserved
  BY <1>1, <1>4 DEF Init, ReferencedIsStored
<1>6. \A r \in Requests : Covered(r) /\ Answerable(r)
  BY <1>1 DEF Init, Idle, Covered, Answerable
<1>. QED  BY <1>2, <1>3, <1>5, <1>6 DEF IInv

----------------------------------------------------------------------------
(* Referenced is stored: the theorems                                      *)

\* The inductive invariant holds in every reachable state.
THEOREM Invariance == Spec => []IInv
<1>2. IInv /\ [Next]_vars => IInv'
  BY StepPreserves
<1>. QED  BY <1>2, InitIInv, PTL DEF Spec

\* The committed row never refers to a body that the bucket does not hold, and
\* the bucket never holds an object whose key was not reserved first: whichever
\* transactions are rolled back, whichever answers are lost and however late a
\* PUT that was given up is applied (packages/private-documents, r2-storage.ts).
THEOREM ReferencedIsStoredHolds == Spec => []ReferencedIsStored
<1>1. IInv => ReferencedIsStored
  BY DEF IInv
<1>. QED  BY <1>1, Invariance, PTL

----------------------------------------------------------------------------
(* A key acts once: the invariant                                          *)

\* How far the request and its transaction are.
Phase(r) ==
  /\ req[r].pc \in {"idle", "waiting"} => tx[r] = "none"
  /\ (req[r].pc \in {"locked", "writing"}) = (tx[r] = "open")
  /\ tx[r] \in {"commit", "done"} => req[r].pc \in {"committing", "answered"}
  /\ req[r].status # "none" => req[r].pc = "answered"
  /\ req[r].status = "ok" => tx[r] = "done"
  /\ req[r].status = "refused" => tx[r] = "undone"
  /\ req[r].pc \in {"idle", "waiting", "locked"} => ~req[r].ran
  /\ req[r].pc # "idle" => ((req[r].key = None) = (req[r].op.kind \in Reads))

\* The lock admits one transaction at a time.
Inside(r) == tx[r] \in {"open", "commit"}
Alone == \A r, q \in Requests : Inside(r) /\ Inside(q) => r = q

\* Row s tells of request r: it holds its receipt or, for a read, its audit row.
Tells(s, r) ==
  IF req[r].key = None THEN r \in s.audit
  ELSE LET past == s.receipt[req[r].key] IN
       past # None /\ past.print = req[r].op /\ past.value = req[r].value

\* Row n tells all that row s tells.
Extends(n, s) ==
  /\ s.audit \subseteq n.audit
  /\ \A k \in Requests : s.receipt[k] # None => n.receipt[k] = s.receipt[k]

\* A row that is being written tells of its request, and of all that the
\* committed row tells, which knows nothing yet of a key that acts.
Pending(r) == req[r].pc = "writing" \/ tx[r] = "commit" =>
  /\ Tells(req[r].next, r) /\ Extends(req[r].next, snap)
  /\ req[r].ran /\ req[r].key # None => snap.receipt[req[r].key] = None

Durable(r) == tx[r] = "done" => Tells(snap, r)

ActsOnce == \A r, q \in Acted : r # q /\ req[r].key # None => req[r].key # req[q].key

KInv ==
  /\ IInv /\ Alone /\ ActsOnce
  /\ \A r \in Requests : Phase(r) /\ Pending(r) /\ Durable(r)

\* A step of request r that leaves the row and everybody else alone, and ends
\* no transaction well.
LEMMA OwnStepKeeps ==
  ASSUME KInv, IInv', NEW r \in Requests, NEW x, req' = [req EXCEPT ![r] = x], snap' = snap,
         \A q \in Requests \ {r} : tx'[q] = tx[q],
         Inside(r)' => Inside(r) \/ \A q \in Requests : ~Inside(q),
         tx'[r] = "done" => /\ tx[r] = "done" /\ x.key = req[r].key /\ x.ran = req[r].ran
                            /\ x.op = req[r].op /\ x.value = req[r].value,
         Phase(r)', Pending(r)'
  PROVE  KInv'
<1>1. req'[r] = x /\ \A q \in Requests \ {r} : req'[q] = req[q] /\ tx'[q] = tx[q]
  BY DEF KInv, IInv, Shape
<1>2. Alone'
  BY <1>1 DEF KInv, Alone, Inside
<1>3. ActsOnce'
  BY <1>1 DEF KInv, ActsOnce, Acted
<1>4. Durable(r)'
  BY <1>1 DEF KInv, Durable, Tells
<1>5. ASSUME NEW q \in Requests \ {r} PROVE Phase(q)' /\ Pending(q)' /\ Durable(q)'
  <2>1. req'[q] = req[q] /\ tx'[q] = tx[q]
    BY <1>1
  <2>2. Phase(q)'
    BY <2>1 DEF KInv, Phase
  <2>3. Pending(q)'
    BY <2>1 DEF KInv, Pending, Tells, Extends
  <2>4. Durable(q)'
    BY <2>1 DEF KInv, Durable, Tells
  <2>. QED  BY <2>2, <2>3, <2>4
<1>. QED  BY <1>2, <1>3, <1>4, <1>5 DEF KInv

\* A step that leaves the row, the requests and their transactions alone.
LEMMA OutsideStepKeeps ==
  ASSUME KInv, IInv', UNCHANGED <<snap, req, tx>>
  PROVE  KInv'
<1>1. Alone' /\ ActsOnce'
  BY DEF KInv, Alone, Inside, ActsOnce, Acted
<1>2. ASSUME NEW q \in Requests PROVE Phase(q)' /\ Pending(q)' /\ Durable(q)'
  BY DEF KInv, Phase, Pending, Durable, Tells, Extends
<1>. QED  BY <1>1, <1>2 DEF KInv

----------------------------------------------------------------------------
(* A key acts once: the steps                                              *)

\* The shape of the requests, by itself.
LEMMA KInvShape == KInv => Shape
  BY DEF KInv, IInv

\* A mutation brings a key, a read none.
LEMMA SendKeeps ==
  ASSUME KInv, IInv', NEW r \in Requests, Send(r)
  PROVE  KInv'
<1>1. PICK o \in Asks, k \in {None, r} \cup {req[q].key : q \in Requests} :
        /\ req' = [req EXCEPT ![r].pc = "waiting", ![r].op = o, ![r].key = k]
        /\ (k = None) = (o.kind \in Reads)
  BY DEF Send
<1>2. req[r].pc = "idle" /\ UNCHANGED <<snap, tx>> /\ tx[r] = "none" /\ req[r].status = "none" /\ ~req[r].ran
  BY DEF Send, KInv, Phase
<1> DEFINE x == [req[r] EXCEPT !.pc = "waiting", !.op = o, !.key = k]
<1>3. /\ req' = [req EXCEPT ![r] = x] /\ x.pc = "waiting" /\ x.status = req[r].status /\ x.ran = req[r].ran
      /\ x.op = o /\ x.key = k
  BY <1>1, KInvShape DEF Shape, ReqFields
<1>. HIDE DEF x
<1>4. req'[r] = x
  BY <1>3, KInvShape DEF Shape
<1>5. Phase(r)'
  BY <1>1, <1>2, <1>3, <1>4 DEF Phase
<1>6. Pending(r)'
  BY <1>2, <1>3, <1>4 DEF Pending
<1>. QED  BY <1>2, <1>3, <1>5, <1>6, OwnStepKeeps DEF Inside

\* A request that gives up before its COMMIT.
LEMMA GivesUpKeeps ==
  ASSUME KInv, IInv', NEW r \in Requests, NEW status \in {"refused", "unavailable"},
         req[r].pc \in {"waiting", "locked", "writing"}, Tx(r, "undone"), Answer(r, status), snap' = snap
  PROVE  KInv'
<1> DEFINE x == [req[r] EXCEPT !.pc = "answered", !.status = status,
                               !.next = IF tx[r] = "commit" THEN @ ELSE None, !.todo = {}]
<1>1. /\ req' = [req EXCEPT ![r] = x] /\ x.pc = "answered" /\ x.status = status
      /\ x.key = req[r].key /\ x.op = req[r].op
  BY KInvShape DEF Answer, Shape, ReqFields
<1>. HIDE DEF x
<1>2. req'[r] = x /\ tx'[r] = "undone" /\ \A q \in Requests \ {r} : tx'[q] = tx[q]
  BY <1>1, KInvShape DEF Shape, Tx
<1>3. Phase(r)'
  BY <1>1, <1>2 DEF KInv, Phase
<1>4. Pending(r)'
  BY <1>1, <1>2 DEF Pending
<1>. QED  BY <1>1, <1>2, <1>3, <1>4, OwnStepKeeps DEF Inside

\* The lock is granted to one that finds nobody inside.
LEMMA LockKeeps ==
  ASSUME KInv, IInv', NEW r \in Requests, Lock(r)
  PROVE  KInv'
<1>1. req[r].pc = "waiting" /\ snap' = snap /\ \A q \in Requests : ~Inside(q)
  BY DEF Lock, Inside
<1>2. CASE Tx(r, "open") /\ req' = [req EXCEPT ![r].pc = "locked"]
  <2> DEFINE x == [req[r] EXCEPT !.pc = "locked"]
  <2>1. /\ req' = [req EXCEPT ![r] = x] /\ x.pc = "locked" /\ x.status = req[r].status
        /\ x.key = req[r].key /\ x.op = req[r].op /\ x.ran = req[r].ran
    BY <1>2, KInvShape DEF Shape, ReqFields
  <2>. HIDE DEF x
  <2>2. req'[r] = x /\ tx'[r] = "open" /\ \A q \in Requests \ {r} : tx'[q] = tx[q]
    BY <1>2, <2>1, KInvShape DEF Shape, Tx
  <2>3. Phase(r)'
    BY <1>1, <2>1, <2>2 DEF KInv, Phase
  <2>4. Pending(r)'
    BY <2>1, <2>2 DEF Pending
  <2>. QED  BY <1>1, <2>1, <2>2, <2>3, <2>4, OwnStepKeeps
<1>3. CASE Tx(r, "undone") /\ Answer(r, "unavailable")
  BY <1>1, <1>3, GivesUpKeeps
<1>. QED  BY <1>2, <1>3 DEF Lock

\* A replay tells again what its receipt told.
LEMMA ReplayKeeps ==
  ASSUME KInv, IInv', NEW r \in Requests, Replay(r)
  PROVE  KInv'
<1>1. req[r].pc = "locked" /\ UNCHANGED <<snap, tx>> /\ tx[r] = "open" /\ req[r].status = "none" /\ ~req[r].ran
  BY DEF Replay, KInv, Phase
<1>2. /\ Past(r) # None /\ Past(r).print = req[r].op
      /\ req[r].key # None /\ Past(r) = snap.receipt[req[r].key]
  BY DEF Replay, Refused, Past
<1> DEFINE x == [req[r] EXCEPT !.pc = "writing", !.next = snap, !.value = Past(r).value]
<1>3. /\ req' = [req EXCEPT ![r] = x] /\ x.pc = "writing" /\ x.next = snap /\ x.value = Past(r).value
      /\ x.status = req[r].status /\ x.op = req[r].op /\ x.key = req[r].key /\ x.ran = req[r].ran
  BY KInvShape DEF Replay, Shape, ReqFields
<1>. HIDE DEF x
<1>4. req'[r] = x
  BY <1>3, KInvShape DEF Shape
<1>5. Phase(r)'
  BY <1>1, <1>3, <1>4 DEF KInv, Phase
<1>6. Pending(r)'
  BY <1>1, <1>2, <1>3, <1>4 DEF Pending, Tells, Extends
<1>. QED  BY <1>1, <1>3, <1>5, <1>6, OwnStepKeeps DEF Inside

\* What a request that holds the lock would leave as its receipt is one.
LeavesReceipts == \A r \in Requests :
  req[r].pc = "locked" => [print |-> req[r].op, value |-> Value(r, req[r].op)] # None

\* An operation runs only for a key that nothing is told of yet.
LEMMA ExecuteKeeps ==
  ASSUME LeavesReceipts, KInv, IInv', NEW r \in Requests, Execute(r)
  PROVE  KInv'
<1> DEFINE o == req[r].op
           row == Executed(r, o)
           receipt == [print |-> o, value |-> Value(r, o)]
           next == IF req[r].key = None THEN row ELSE [row EXCEPT !.receipt[req[r].key] = receipt]
           x == [req[r] EXCEPT !.pc = "writing", !.next = next, !.ran = TRUE,
                               !.value = Value(r, o), !.todo = Bodies(next) \ Bodies(snap)]
<1>1. /\ req[r].pc = "locked" /\ UNCHANGED <<snap, tx>> /\ tx[r] = "open" /\ req[r].status = "none"
      /\ Past(r) = None /\ (req[r].key = None) = (o.kind \in Reads)
  BY DEF Execute, KInv, Phase
<1>2. /\ req' = [req EXCEPT ![r] = x] /\ x.pc = "writing" /\ x.next = next /\ x.value = Value(r, o)
      /\ x.status = req[r].status /\ x.op = o /\ x.key = req[r].key
  <2>1. req' = [req EXCEPT ![r].pc = "writing", ![r].next = next, ![r].ran = TRUE,
                           ![r].value = Value(r, o), ![r].todo = Bodies(next) \ Bodies(snap)]
    BY DEF Execute
  <2>. HIDE DEF next
  <2>. QED  BY <2>1, KInvShape DEF Shape, ReqFields
<1>3. /\ DOMAIN row = RowFields /\ row.receipt = snap.receipt /\ snap.audit \subseteq row.audit
      /\ req[r].key = None => r \in row.audit
  BY <1>1, ExecutedKeeps DEF KInv, IInv, Promised
<1>4. req[r].key # None =>
        /\ next.receipt = [snap.receipt EXCEPT ![req[r].key] = receipt] /\ next.audit = row.audit
        /\ snap.receipt[req[r].key] = None /\ req[r].key \in DOMAIN snap.receipt
  <2>. HIDE DEF row, receipt
  <2>1. req[r].key # None => snap.receipt[req[r].key] = None
    BY <1>1 DEF Past
  <2>2. req[r].key # None => req[r].key \in DOMAIN snap.receipt
    BY KInvShape DEF KInv, IInv, Promised, Shape, Maybe
  <2>. QED  BY <1>3, <2>1, <2>2 DEF RowFields
<1>5. receipt # None /\ receipt.print = o /\ receipt.value = Value(r, o)
  BY <1>1 DEF LeavesReceipts
<1>6. req[r].key = None => next = row
  OBVIOUS
<1>. HIDE DEF row, next, x, receipt
<1>7. Extends(next, snap)
  <2>1. CASE req[r].key = None
    BY <1>3, <1>6, <2>1 DEF Extends
  <2>2. CASE req[r].key # None
    BY <1>3, <1>4, <2>2 DEF Extends, KInv, IInv, Promised
  <2>. QED  BY <2>1, <2>2
<1>8. req'[r] = x
  BY <1>2, KInvShape DEF Shape
<1>9. Phase(r)'
  BY <1>1, <1>2, <1>8 DEF Phase
<1>10. Tells(req[r].next, r)'
  <2>1. req'[r].next = next /\ req'[r].key = req[r].key /\ req'[r].op = o /\ req'[r].value = Value(r, o)
    BY <1>2, <1>8
  <2>2. CASE req[r].key = None
    BY <1>3, <1>6, <2>1, <2>2 DEF Tells
  <2>3. CASE req[r].key # None
    <3>1. next.receipt[req[r].key] = receipt
      BY <1>4, <2>3
    <3>. QED  BY <1>5, <2>1, <2>3, <3>1 DEF Tells
  <2>. QED  BY <2>2, <2>3
<1>11. Pending(r)'
  <2>1. Extends(req[r].next, snap)'
    BY <1>1, <1>2, <1>7, <1>8 DEF Extends
  <2>2. req'[r].key # None => snap'.receipt[req'[r].key] = None
    BY <1>1, <1>2, <1>4, <1>8
  <2>. QED  BY <1>10, <2>1, <2>2 DEF Pending
<1>. QED  BY <1>1, <1>2, <1>9, <1>11, OwnStepKeeps DEF Inside

\* Storing a body leaves the row to be written as it is.
LEMMA WriteKeeps ==
  ASSUME KInv, IInv', NEW r \in Requests, Write(r)
  PROVE  KInv'
<1>1. PICK b \in req[r].todo \cap reserved :
        req' = [req EXCEPT ![r].todo = @ \ {b}] /\ req[r].pc = "writing" /\ UNCHANGED <<snap, tx>>
  BY DEF Write
<1> DEFINE x == [req[r] EXCEPT !.todo = @ \ {b}]
<1>2. /\ req' = [req EXCEPT ![r] = x] /\ x.pc = req[r].pc /\ x.next = req[r].next /\ x.ran = req[r].ran
      /\ x.value = req[r].value /\ x.status = req[r].status /\ x.op = req[r].op /\ x.key = req[r].key
  BY <1>1, KInvShape DEF Shape, ReqFields
<1>. HIDE DEF x
<1>3. req'[r] = x
  BY <1>2, KInvShape DEF Shape
<1>4. Phase(r)'
  BY <1>1, <1>2, <1>3 DEF KInv, Phase
<1>5. Pending(r)'
  BY <1>1, <1>2, <1>3 DEF KInv, Pending, Tells, Extends
<1>. QED  BY <1>1, <1>2, <1>4, <1>5, OwnStepKeeps DEF Inside

\* So does sending COMMIT.
LEMMA SendCommitKeeps ==
  ASSUME KInv, IInv', NEW r \in Requests, SendCommit(r)
  PROVE  KInv'
<1>1. /\ req[r].pc = "writing" /\ Tx(r, "commit") /\ req' = [req EXCEPT ![r].pc = "committing"]
      /\ snap' = snap /\ tx[r] = "open"
  BY DEF SendCommit, KInv, Phase
<1> DEFINE x == [req[r] EXCEPT !.pc = "committing"]
<1>2. /\ req' = [req EXCEPT ![r] = x] /\ x.pc = "committing" /\ x.next = req[r].next /\ x.ran = req[r].ran
      /\ x.value = req[r].value /\ x.status = req[r].status /\ x.op = req[r].op /\ x.key = req[r].key
  BY <1>1, KInvShape DEF Shape, ReqFields
<1>. HIDE DEF x
<1>3. req'[r] = x /\ tx'[r] = "commit" /\ \A q \in Requests \ {r} : tx'[q] = tx[q]
  BY <1>1, <1>2, KInvShape DEF Shape, Tx
<1>4. Phase(r)'
  BY <1>1, <1>2, <1>3 DEF KInv, Phase
<1>5. Pending(r)'
  BY <1>1, <1>2, <1>3 DEF KInv, Pending, Tells, Extends
<1>. QED  BY <1>1, <1>2, <1>3, <1>4, <1>5, OwnStepKeeps DEF Inside

\* A rollback takes the row away.
LEMMA ServerAbortsKeeps ==
  ASSUME KInv, IInv', NEW r \in Requests, ServerAborts(r)
  PROVE  KInv'
<1>1. tx[r] = "commit" /\ Tx(r, "undone") /\ req' = [req EXCEPT ![r].next = None] /\ snap' = snap
  BY DEF ServerAborts
<1> DEFINE x == [req[r] EXCEPT !.next = None]
<1>2. /\ req' = [req EXCEPT ![r] = x] /\ x.pc = req[r].pc /\ x.ran = req[r].ran
      /\ x.value = req[r].value /\ x.status = req[r].status /\ x.op = req[r].op /\ x.key = req[r].key
  BY <1>1, KInvShape DEF Shape, ReqFields
<1>. HIDE DEF x
<1>3. req'[r] = x /\ tx'[r] = "undone" /\ \A q \in Requests \ {r} : tx'[q] = tx[q]
  BY <1>1, <1>2, KInvShape DEF Shape, Tx
<1>4. Phase(r)'
  BY <1>1, <1>2, <1>3 DEF KInv, Phase
<1>5. Pending(r)'
  BY <1>1, <1>2, <1>3 DEF KInv, Phase, Pending
<1>. QED  BY <1>1, <1>2, <1>3, <1>4, <1>5, OwnStepKeeps DEF Inside

\* The answer after COMMIT was sent: ok only if the transaction is done.
LEMMA AnswerKeeps ==
  ASSUME KInv, IInv', NEW r \in Requests, NEW status \in {"ok", "unavailable"},
         req[r].pc = "committing", status = "ok" => tx[r] = "done", Answer(r, status), UNCHANGED <<snap, tx>>
  PROVE  KInv'
<1> DEFINE x == [req[r] EXCEPT !.pc = "answered", !.status = status,
                               !.next = IF tx[r] = "commit" THEN @ ELSE None, !.todo = {}]
<1>1. /\ req' = [req EXCEPT ![r] = x] /\ x.pc = "answered" /\ x.status = status /\ x.ran = req[r].ran
      /\ x.value = req[r].value /\ x.op = req[r].op /\ x.key = req[r].key
      /\ tx[r] = "commit" => x.next = req[r].next
  BY KInvShape DEF Answer, Shape, ReqFields
<1>. HIDE DEF x
<1>2. req'[r] = x
  BY <1>1, KInvShape DEF Shape
<1>3. Phase(r)'
  BY <1>1, <1>2 DEF KInv, Phase
<1>4. Pending(r)'
  BY <1>1, <1>2 DEF KInv, Pending, Tells, Extends
<1>. QED  BY <1>1, <1>3, <1>4, OwnStepKeeps DEF Inside

\* The one transaction inside makes its row the committed one: what was told
\* is still told, and the key that acts had not acted before.
LEMMA ServerCommitsKeeps ==
  ASSUME KInv, IInv', NEW r \in Requests, ServerCommits(r)
  PROVE  KInv'
<1>1. tx[r] = "commit" /\ Tx(r, "done") /\ req' = [req EXCEPT ![r].next = None] /\ snap' = req[r].next
  BY DEF ServerCommits
<1>2. /\ req[r].pc \in {"committing", "answered"} /\ req[r].status # "refused"
      /\ Tells(req[r].next, r) /\ Extends(req[r].next, snap)
      /\ req[r].ran /\ req[r].key # None => snap.receipt[req[r].key] = None
  BY <1>1 DEF KInv, Phase, Pending
<1>3. \A q \in Requests \ {r} : ~Inside(q)
  BY <1>1 DEF KInv, Alone, Inside
<1>4. \A q \in Requests : /\ req'[q].pc = req[q].pc /\ req'[q].key = req[q].key /\ req'[q].op = req[q].op
                          /\ req'[q].ran = req[q].ran /\ req'[q].status = req[q].status
                          /\ req'[q].value = req[q].value
  BY <1>1, KInvShape DEF Shape, ReqFields
<1>5. tx'[r] = "done" /\ \A q \in Requests \ {r} : tx'[q] = tx[q]
  BY <1>1, KInvShape DEF Shape, Tx
<1>6. Alone'
  BY <1>3, <1>5 DEF Alone, Inside
<1>7. ASSUME NEW q \in Requests PROVE Phase(q)'
  <2>1. CASE q = r
    BY <1>1, <1>2, <1>4, <1>5, <2>1 DEF KInv, Phase
  <2>2. CASE q # r
    BY <1>4, <1>5, <2>2 DEF KInv, Phase
  <2>. QED  BY <2>1, <2>2
<1>8. ASSUME NEW q \in Requests PROVE Pending(q)'
  <2>1. CASE q = r
    BY <1>2, <1>4, <1>5, <2>1 DEF Pending
  <2>2. CASE q # r
    <3>1. tx[q] \notin {"open", "commit"} /\ req[q].pc # "writing"
      BY <1>3, <2>2 DEF KInv, Phase, Inside
    <3>. QED  BY <1>4, <1>5, <2>2, <3>1 DEF Pending
  <2>. QED  BY <2>1, <2>2
<1>9. ASSUME NEW q \in Requests PROVE Durable(q)'
  <2>1. CASE q = r
    BY <1>1, <1>2, <1>4, <1>5, <2>1 DEF Durable, Tells
  <2>2. CASE q # r /\ tx'[q] = "done"
    <3>1. Tells(snap, q) /\ (req[q].key # None => req[q].key \in Requests)
      BY <1>5, <2>2, KInvShape DEF KInv, Durable, Shape, Maybe
    <3>2. Tells(req[r].next, q)
      BY <1>2, <3>1 DEF Tells, Extends
    <3>. QED  BY <1>1, <1>4, <3>2 DEF Durable, Tells
  <2>. QED  BY <2>1, <2>2 DEF Durable
<1>10. ActsOnce'
  <2>1. SUFFICES ASSUME NEW p \in Acted', NEW q \in Acted', p # q, req'[p].key # None, req'[p].key = req'[q].key
                 PROVE  FALSE
    BY DEF ActsOnce
  <2>2. ASSUME NEW q2 \in Requests \ {r}, q2 \in Acted', req[q2].key # None
        PROVE  q2 \in Acted /\ snap.receipt[req[q2].key] # None
    BY <1>4, <1>5, <2>2 DEF Acted, KInv, Durable, Tells
  <2>3. p \in Requests /\ q \in Requests /\ req[p].key # None /\ req[p].key = req[q].key
    BY <1>4, <2>1 DEF Acted
  <2>4. CASE p # r /\ q # r
    BY <2>1, <2>2, <2>3, <2>4 DEF KInv, ActsOnce
  <2>5. CASE p = r
    BY <1>2, <1>4, <2>1, <2>2, <2>3, <2>5 DEF Acted
  <2>6. CASE q = r
    BY <1>2, <1>4, <2>1, <2>2, <2>3, <2>6 DEF Acted
  <2>. QED  BY <2>4, <2>5, <2>6
<1>. QED  BY <1>6, <1>7, <1>8, <1>9, <1>10 DEF KInv

\* Every step keeps it.
LEMMA StepKeeps ==
  ASSUME LeavesReceipts, KInv, [Next]_vars
  PROVE  KInv'
<1>0. IInv'
  BY StepPreserves DEF KInv
<1>1. ASSUME NEW r \in Requests, Fail(r) \/ Refuse(r) \/ WriteUnknown(r) PROVE KInv'
  BY <1>0, <1>1, GivesUpKeeps DEF Fail, Refuse, WriteUnknown
<1>2. ASSUME NEW r \in Requests, Acknowledged(r) \/ Unacknowledged(r) PROVE KInv'
  BY <1>0, <1>2, AnswerKeeps DEF Acknowledged, Unacknowledged
<1>3. ASSUME NEW r \in Requests, PutDirect(r) \/ Reserve(r) PROVE KInv'
  BY <1>0, <1>3, OutsideStepKeeps DEF PutDirect, Reserve
<1>4. CASE Land \/ SignOut \/ UNCHANGED vars
  BY <1>0, <1>4, OutsideStepKeeps DEF Land, SignOut, vars
<1>. QED
  BY <1>0, <1>1, <1>2, <1>3, <1>4, SendKeeps, LockKeeps, ReplayKeeps, ExecuteKeeps, WriteKeeps,
     SendCommitKeeps, ServerCommitsKeeps, ServerAbortsKeeps DEF Next

----------------------------------------------------------------------------
(* Nothing is lost: the invariant                                         *)

\* What the requests ask for.
Ops == [r \in Requests |-> req[r].op]

\* Of the requests A, whose operations are f, those that made a version.
Versions(A, f) == {v \in A : f[v].kind = "finalize"}

\* Every version of row s is in one slot.
OneSlot(s) == \A t, u \in Types : t # u /\ s.doc[t] = s.doc[u] => s.doc[t] = None

\* Every upload that a receipt of row s answers is there.
Known(s) == \A k \in Requests : s.receipt[k] # None /\ s.receipt[k].print.kind = "authorize" =>
  s.receipt[k].value \in Requests /\ s.ticket[s.receipt[k].value] # None

\* The row s that the requests A left: every version they made is in one slot
\* or retired and held, with its body; each came of an upload of its own, which
\* is closed; an upload is one that a request of A was given, and a receipt of
\* an authorization names one that is there.
Whole(s, A, f) ==
  /\ s \in Row
  /\ Versions(A, f) = Current(s) \cup s.retired /\ s.retired = s.held
  /\ Current(s) \cap s.retired = {}
  /\ OneSlot(s)
  /\ \A v \in Versions(A, f) : /\ s.body[v] \in Contents /\ f[v].id \in Requests
                               /\ s.ticket[f[v].id] # None /\ s.ticket[f[v].id].committed
  /\ \A v, w \in Versions(A, f) : v # w => f[v].id # f[w].id
  /\ \A i \in Requests : s.ticket[i] # None => i \in A
  /\ Known(s)

\* An operation o that the code can carry out: a slot of its own, and an upload
\* that row s knows.
Proper(o, s) ==
  /\ o \in Op
  /\ o.kind \in {"authorize", "remove", "issue"} => o.type \in Types
  /\ o.kind \in {"authorize", "put"} => o.sha \in Contents
  /\ o.kind = "authorize" => o.md5 \in Contents
  /\ o.kind \in {"put", "finalize"} => o.id \in Requests /\ s.ticket[o.id] # None

\* From row s to row n, request r replaces only what its operation o saw.
Replaces(n, s, r, o) == \A t \in Types : n.doc[t] # s.doc[t] =>
  \/ /\ o.kind = "finalize" /\ n.doc[t] = r
     /\ s.ticket[o.id].expected = s.doc[t] /\ n.body[r] = s.ticket[o.id].sha
  \/ o.kind = "remove" /\ n.doc[t] = None /\ o.id = s.doc[t]

\* The tickets of n go on from those of s: none is lost, and none reopened.
GoesOn(n, s) == \A i \in Requests : s.ticket[i] # None =>
  n.ticket[i] # None /\ (s.ticket[i].committed => n.ticket[i].committed)

\* The requests whose own execution is durable when r's transaction is.
ActedWith(r) == IF req[r].ran THEN Acted \cup {r} ELSE Acted
Pends(r) == req[r].pc = "writing" \/ tx[r] = "commit"

\* What request r asks for is proper, and it writes nothing but bodies.
Asked(r) == /\ req[r].todo \subseteq Requests \X Contents
            /\ req[r].pc # "idle" => Proper(req[r].op, snap)
\* The row that r would commit is whole, replaces only what r saw, and loses and
\* reopens no upload.
Carries(r) == Pends(r) => /\ Whole(req[r].next, ActedWith(r), Ops)
                          /\ Replaces(req[r].next, snap, r, req[r].op)
                          /\ GoesOn(req[r].next, snap)

DInv ==
  /\ TypeOK
  /\ Whole(snap, Acted, Ops)
  /\ \A r \in Requests : Asked(r) /\ Carries(r)

----------------------------------------------------------------------------
(* Nothing is lost: rows                                                   *)

\* A row is its seven fields.
LEMMA RowFieldsTyped ==
  ASSUME NEW s \in Row
  PROVE  /\ s.doc \in [Types -> Maybe(Requests)] /\ s.retired \subseteq Requests /\ s.held \subseteq Requests
         /\ s.body \in [Requests -> Maybe(Contents)] /\ s.ticket \in [Requests -> Maybe(Ticket)]
         /\ s.receipt \in [Requests -> Maybe(Receipt)] /\ s.audit \subseteq Requests
         /\ DOMAIN s = RowFields
  BY DEF Row, RowFields

\* Rewriting a field of a row leaves the others alone.
LEMMA SetTicket ==
  ASSUME NEW s \in Row, NEW x \in [Requests -> Maybe(Ticket)]
  PROVE  LET n == [s EXCEPT !.ticket = x]
         IN /\ n \in Row /\ n.ticket = x
            /\ n.doc = s.doc /\ n.retired = s.retired /\ n.held = s.held /\ n.body = s.body
            /\ n.receipt = s.receipt /\ n.audit = s.audit
  BY DEF Row
LEMMA SetBody ==
  ASSUME NEW s \in Row, NEW x \in [Requests -> Maybe(Contents)]
  PROVE  LET n == [s EXCEPT !.body = x]
         IN /\ n \in Row /\ n.body = x
            /\ n.doc = s.doc /\ n.retired = s.retired /\ n.held = s.held /\ n.ticket = s.ticket
            /\ n.receipt = s.receipt /\ n.audit = s.audit
  BY DEF Row
LEMMA SetAudit ==
  ASSUME NEW s \in Row, NEW x \in SUBSET Requests
  PROVE  LET n == [s EXCEPT !.audit = x]
         IN /\ n \in Row /\ n.audit = x
            /\ n.doc = s.doc /\ n.retired = s.retired /\ n.held = s.held /\ n.ticket = s.ticket
            /\ n.receipt = s.receipt /\ n.body = s.body
  BY DEF Row
LEMMA SetReceipt ==
  ASSUME NEW s \in Row, NEW x \in [Requests -> Maybe(Receipt)]
  PROVE  LET n == [s EXCEPT !.receipt = x]
         IN /\ n \in Row /\ n.receipt = x
            /\ n.doc = s.doc /\ n.retired = s.retired /\ n.held = s.held /\ n.ticket = s.ticket
            /\ n.audit = s.audit /\ n.body = s.body
  BY DEF Row
LEMMA SetSlot ==
  ASSUME NEW s \in Row, NEW type \in Types, NEW new \in Maybe(Requests)
  PROVE  LET n == Replaced(s, type, new)
             old == {s.doc[type]} \ {None}
         IN /\ n \in Row /\ n.doc = [s.doc EXCEPT ![type] = new]
            /\ n.retired = s.retired \cup old /\ n.held = s.held \cup old
            /\ n.body = s.body /\ n.ticket = s.ticket /\ n.receipt = s.receipt /\ n.audit = s.audit
  BY DEF Row, Replaced, Maybe

----------------------------------------------------------------------------
(* Nothing is lost: the slots                                              *)

\* What a slot holds gives way to a version that no slot held, or to none.
LEMMA NewSlot ==
  ASSUME NEW s \in Row, NEW n \in Row, NEW type \in Types, NEW new \in Maybe(Requests),
         n.doc = [s.doc EXCEPT ![type] = new], OneSlot(s), new \notin Current(s)
  PROVE  OneSlot(n) /\ Current(n) = (Current(s) \ {s.doc[type]}) \cup ({new} \ {None})
<1>1. s.doc \in [Types -> Maybe(Requests)]
  BY RowFieldsTyped
<1>2. n.doc[type] = new /\ \A t \in Types \ {type} : n.doc[t] = s.doc[t]
  BY <1>1
<1>3. OneSlot(n)
  BY <1>1, <1>2 DEF OneSlot, Current
<1>4. ASSUME NEW v, v # None PROVE v \in Current(n) <=> v \in (Current(s) \ {s.doc[type]}) \cup ({new} \ {None})
  <2>1. v \in Current(n) <=> \E t \in Types : n.doc[t] = v
    BY <1>4 DEF Current
  <2>2. v \in Current(s) <=> \E t \in Types : s.doc[t] = v
    BY <1>4 DEF Current
  <2>3. CASE v = new
    BY <1>2, <1>4, <2>1, <2>3
  <2>4. CASE v # new /\ v = s.doc[type]
    BY <1>2, <1>4, <2>1, <2>4 DEF OneSlot
  <2>5. CASE v # new /\ v # s.doc[type]
    BY <1>2, <1>4, <2>1, <2>2, <2>5
  <2>. QED  BY <2>3, <2>4, <2>5
<1>5. None \notin Current(n) /\ None \notin Current(s)
  BY DEF Current
<1>. QED  BY <1>3, <1>4, <1>5

\* A row with the same versions, left by requests of which the new ones made none.
LEMMA NoNewVersion ==
  ASSUME NEW s, NEW n \in Row, NEW A, NEW B, NEW f, Whole(s, A, f),
         A \subseteq B, \A v \in B \ A : f[v].kind # "finalize",
         Current(n) \cup n.retired = Current(s) \cup s.retired, n.retired = n.held,
         Current(n) \cap n.retired = {}, OneSlot(n), n.body = s.body,
         GoesOn(n, s), \A i \in Requests : n.ticket[i] # None => i \in B, Known(n)
  PROVE  Whole(n, B, f)
<1>1. Versions(B, f) = Versions(A, f)
  BY DEF Versions
<1>. QED  BY <1>1 DEF Whole, GoesOn, Known, OneSlot

\* A row with one version more, that r made of an upload that was still open.
LEMMA OneNewVersion ==
  ASSUME NEW s, NEW n \in Row, NEW A, NEW r \in Requests, NEW f, Whole(s, A, f),
         r \notin A, f[r].kind = "finalize", f[r].id \in Requests,
         s.ticket[f[r].id] # None, ~s.ticket[f[r].id].committed,
         n.ticket[f[r].id] # None, n.ticket[f[r].id].committed,
         Current(n) \cup n.retired = Current(s) \cup s.retired \cup {r}, n.retired = n.held,
         Current(n) \cap n.retired = {}, OneSlot(n),
         n.body[r] \in Contents, \A v \in Requests \ {r} : n.body[v] = s.body[v],
         GoesOn(n, s), \A i \in Requests : n.ticket[i] # None => i \in A, Known(n), A \subseteq Requests
  PROVE  Whole(n, A \cup {r}, f)
<1>1. Versions(A \cup {r}, f) = Versions(A, f) \cup {r}
  BY DEF Versions
<1>2. Versions(A \cup {r}, f) = Current(n) \cup n.retired
  BY <1>1 DEF Whole
<1>3. \A v \in Versions(A, f) : v \in Requests /\ v # r
  BY DEF Versions
<1>4. ASSUME NEW v \in Versions(A \cup {r}, f)
      PROVE  n.body[v] \in Contents /\ f[v].id \in Requests /\ n.ticket[f[v].id] # None /\ n.ticket[f[v].id].committed
  <2>1. CASE v = r
    BY <2>1
  <2>2. CASE v \in Versions(A, f)
    BY <1>3, <2>2 DEF Whole, GoesOn
  <2>. QED  BY <1>1, <2>1, <2>2
<1>5. \A v \in Versions(A, f) : f[v].id # f[r].id
  BY DEF Whole
<1>6. \A v, w \in Versions(A \cup {r}, f) : v # w => f[v].id # f[w].id
  BY <1>1, <1>5 DEF Whole
<1>. QED  BY <1>2, <1>4, <1>6 DEF Whole, OneSlot, Known

----------------------------------------------------------------------------
(* Nothing is lost: what an operation leaves                               *)

\* A request that was asked properly may be executed.
Executable(r) == /\ r \in Requests /\ r \notin Acted /\ Whole(snap, Acted, Ops)
                 /\ Proper(req[r].op, snap) /\ Allowed(req[r].op)
\* What the execution of r leaves is whole, and replaces only what r saw.
Leaves(r) == LET n == Executed(r, req[r].op) IN
  /\ Whole(n, Acted \cup {r}, Ops) /\ Replaces(n, snap, r, req[r].op)
  /\ GoesOn(n, snap) /\ n.receipt = snap.receipt
  /\ req[r].op.kind = "authorize" => n.ticket[r] # None

\* The tickets of a whole row.
LEMMA TicketTyped ==
  ASSUME NEW s \in Row, NEW i \in Requests, s.ticket[i] # None
  PROVE  s.ticket \in [Requests -> Maybe(Ticket)] /\ s.ticket[i] \in Ticket
  BY RowFieldsTyped DEF Maybe

\* An authorization adds an upload.
LEMMA AuthorizeLeaves ==
  ASSUME NEW r, Executable(r), req[r].op.kind = "authorize"
  PROVE  Leaves(r)
<1> DEFINE o == req[r].op
           T == [type |-> o.type, expected |-> o.id, sha |-> o.sha, md5 |-> o.md5, data |-> None, committed |-> FALSE]
           tickets == [snap.ticket EXCEPT ![r] = T]
           n == [snap EXCEPT !.ticket = tickets]
<1>1. T \in Ticket
  BY DEF Executable, Proper, Op, Ticket, Maybe
<1>2. T # None
  BY <1>1, NoneAssumption
<1>3. snap \in Row /\ snap.ticket \in [Requests -> Maybe(Ticket)]
  BY RowFieldsTyped DEF Executable, Whole
<1>4. Executed(r, o) = n
  BY DEF Executable, Executed
<1>. HIDE DEF T
<1>5. tickets \in [Requests -> Maybe(Ticket)] /\ tickets[r] # None /\ \A i \in Requests \ {r} : tickets[i] = snap.ticket[i]
  BY <1>1, <1>2, <1>3 DEF Executable, Maybe
<1>6. snap.ticket[r] = None
  BY DEF Executable, Whole
<1>. HIDE DEF tickets
<1>7. /\ n \in Row /\ n.ticket = tickets /\ n.doc = snap.doc /\ n.retired = snap.retired
      /\ n.held = snap.held /\ n.body = snap.body /\ n.receipt = snap.receipt
  BY <1>3, <1>5, SetTicket
<1>. HIDE DEF n
<1>8. Current(n) = Current(snap)
  BY <1>7 DEF Current
<1>9. GoesOn(n, snap)
  BY <1>5, <1>6, <1>7 DEF GoesOn
<1>10. Known(n)
  BY <1>5, <1>7 DEF Executable, Whole, Known
<1>11. \A i \in Requests : n.ticket[i] # None => i \in Acted \cup {r}
  BY <1>5, <1>7 DEF Executable, Whole
<1>12. OneSlot(n)
  BY <1>7 DEF Executable, Whole, OneSlot
<1>13. Ops[r].kind # "finalize"
  BY DEF Executable, Ops
<1>14. Whole(n, Acted \cup {r}, Ops)
  <2>1. /\ Whole(snap, Acted, Ops) /\ Current(n) \cup n.retired = Current(snap) \cup snap.retired
        /\ n.retired = n.held /\ Current(n) \cap n.retired = {}
    BY <1>7, <1>8 DEF Executable, Whole
  <2>. QED  BY <1>7, <1>9, <1>10, <1>11, <1>12, <1>13, <2>1, NoNewVersion
<1>. QED  BY <1>4, <1>5, <1>7, <1>9, <1>14 DEF Leaves, Replaces

\* A PUT fills an upload.
LEMMA PutLeaves ==
  ASSUME NEW r, Executable(r), req[r].op.kind = "put"
  PROVE  Leaves(r)
<1> DEFINE o == req[r].op
           T == [snap.ticket[o.id] EXCEPT !.data = o.sha]
           tickets == [snap.ticket EXCEPT ![o.id] = T]
           n == [snap EXCEPT !.ticket = tickets]
<1>1. snap \in Row /\ o.id \in Requests /\ snap.ticket[o.id] # None /\ o.sha \in Contents
  BY DEF Executable, Whole, Proper
<1>2. snap.ticket \in [Requests -> Maybe(Ticket)] /\ snap.ticket[o.id] \in Ticket
  BY <1>1, TicketTyped
<1>3. T \in Ticket /\ T.committed = snap.ticket[o.id].committed
  BY <1>1, <1>2 DEF Ticket, Maybe
<1>4. T # None
  BY <1>3, NoneAssumption
<1>5. Executed(r, o) = n
  BY DEF Executed
<1>. HIDE DEF T
<1>6. /\ tickets \in [Requests -> Maybe(Ticket)] /\ tickets[o.id] = T
      /\ \A i \in Requests \ {o.id} : tickets[i] = snap.ticket[i]
  BY <1>1, <1>2, <1>3 DEF Maybe
<1>. HIDE DEF tickets
<1>7. /\ n \in Row /\ n.ticket = tickets /\ n.doc = snap.doc /\ n.retired = snap.retired
      /\ n.held = snap.held /\ n.body = snap.body /\ n.receipt = snap.receipt
  BY <1>1, <1>6, SetTicket
<1>. HIDE DEF n
<1>8. Current(n) = Current(snap)
  BY <1>7 DEF Current
<1>9. GoesOn(n, snap)
  BY <1>3, <1>4, <1>6, <1>7 DEF GoesOn
<1>10. Known(n)
  BY <1>7, <1>9 DEF Executable, Whole, Known, GoesOn
<1>11. \A i \in Requests : n.ticket[i] # None => i \in Acted \cup {r}
  BY <1>1, <1>6, <1>7 DEF Executable, Whole
<1>12. OneSlot(n)
  BY <1>7 DEF Executable, Whole, OneSlot
<1>13. Ops[r].kind # "finalize"
  BY DEF Executable, Ops
<1>14. Whole(n, Acted \cup {r}, Ops)
  <2>1. /\ Whole(snap, Acted, Ops) /\ Current(n) \cup n.retired = Current(snap) \cup snap.retired
        /\ n.retired = n.held /\ Current(n) \cap n.retired = {}
    BY <1>7, <1>8 DEF Executable, Whole
  <2>. QED  BY <1>7, <1>9, <1>10, <1>11, <1>12, <1>13, <2>1, NoNewVersion
<1>. QED  BY <1>5, <1>7, <1>9, <1>14 DEF Leaves, Replaces

\* A read leaves its audit row only.
LEMMA ReadLeaves ==
  ASSUME NEW r, Executable(r), req[r].op.kind \in Reads
  PROVE  Leaves(r)
<1> DEFINE o == req[r].op
           n == [snap EXCEPT !.audit = snap.audit \cup {r}]
<1>1. snap \in Row /\ r \in Requests /\ snap.audit \cup {r} \in SUBSET Requests
  BY RowFieldsTyped DEF Executable, Whole
<1>2. Executed(r, o) = n
  BY DEF Executed, Reads
<1>3. /\ n \in Row /\ n.ticket = snap.ticket /\ n.doc = snap.doc /\ n.retired = snap.retired
      /\ n.held = snap.held /\ n.body = snap.body /\ n.receipt = snap.receipt
  BY <1>1, SetAudit
<1>. HIDE DEF n
<1>4. Current(n) = Current(snap) /\ GoesOn(n, snap) /\ Known(n) /\ OneSlot(n)
  BY <1>3 DEF Current, GoesOn, Known, OneSlot, Executable, Whole
<1>5. Ops[r].kind # "finalize"
  BY DEF Executable, Ops, Reads
<1>6. Whole(n, Acted \cup {r}, Ops)
  <2>1. /\ Whole(snap, Acted, Ops) /\ Current(n) \cup n.retired = Current(snap) \cup snap.retired
        /\ n.retired = n.held /\ Current(n) \cap n.retired = {}
        /\ \A i \in Requests : n.ticket[i] # None => i \in Acted \cup {r}
    BY <1>3, <1>4 DEF Executable, Whole
  <2>. QED  BY <1>3, <1>4, <1>5, <2>1, NoNewVersion
<1>. QED  BY <1>2, <1>3, <1>4, <1>6 DEF Leaves, Replaces, Reads

\* A removal retires what its slot holds.
LEMMA RemoveLeaves ==
  ASSUME NEW r, Executable(r), req[r].op.kind = "remove"
  PROVE  Leaves(r)
<1> DEFINE o == req[r].op
           m == Replaced(snap, o.type, None)
           n == [m EXCEPT !.audit = m.audit \cup {r}]
<1>1. snap \in Row /\ r \in Requests /\ o.type \in Types /\ o.id # None /\ snap.doc[o.type] = o.id
  BY DEF Executable, Whole, Proper, Allowed
<1>2. Executed(r, o) = n
  BY DEF Executed
<1>3. /\ m \in Row /\ m.doc = [snap.doc EXCEPT ![o.type] = None]
      /\ m.retired = snap.retired \cup {o.id} /\ m.held = snap.held \cup {o.id}
      /\ m.body = snap.body /\ m.ticket = snap.ticket /\ m.receipt = snap.receipt
  BY <1>1, SetSlot DEF Maybe
<1>. HIDE DEF m
<1>4. m.audit \cup {r} \in SUBSET Requests
  BY <1>1, <1>3, RowFieldsTyped
<1>5. /\ n \in Row /\ n.doc = m.doc /\ n.retired = m.retired /\ n.held = m.held /\ n.body = snap.body
      /\ n.ticket = snap.ticket /\ n.receipt = snap.receipt
  BY <1>3, <1>4, SetAudit
<1>. HIDE DEF n
<1>6. OneSlot(n) /\ Current(n) = Current(snap) \ {o.id}
  <2>1. OneSlot(snap) /\ None \notin Current(snap)
    BY DEF Executable, Whole, OneSlot, Current
  <2>2. OneSlot(n) /\ Current(n) = (Current(snap) \ {snap.doc[o.type]}) \cup ({None} \ {None})
    BY <1>1, <1>3, <1>5, <2>1, NewSlot DEF Maybe
  <2>. QED  BY <1>1, <2>2
<1>7. o.id \in Current(snap)
  BY <1>1 DEF Current
<1>8. GoesOn(n, snap) /\ Known(n)
  BY <1>5 DEF GoesOn, Known, Executable, Whole
<1>9. Ops[r].kind # "finalize"
  BY DEF Executable, Ops
<1>10. Whole(n, Acted \cup {r}, Ops)
  <2>1. /\ Whole(snap, Acted, Ops) /\ Current(n) \cup n.retired = Current(snap) \cup snap.retired
        /\ n.retired = n.held /\ Current(n) \cap n.retired = {}
        /\ \A i \in Requests : n.ticket[i] # None => i \in Acted \cup {r}
    BY <1>3, <1>5, <1>6, <1>7 DEF Executable, Whole
  <2>. QED  BY <1>5, <1>6, <1>8, <1>9, <2>1, NoNewVersion
<1>11. Replaces(n, snap, r, o)
  <2>1. snap.doc \in [Types -> Maybe(Requests)]
    BY <1>1, RowFieldsTyped
  <2>. QED  BY <1>1, <1>3, <1>5, <2>1 DEF Replaces
<1>. QED  BY <1>2, <1>5, <1>8, <1>10, <1>11 DEF Leaves

\* A finalization puts a version in the slot of its upload, which it closes.
LEMMA FinalizeLeaves ==
  ASSUME NEW r, Executable(r), req[r].op.kind = "finalize"
  PROVE  Leaves(r)
<1> DEFINE o == req[r].op
           t == snap.ticket[o.id]
           old == snap.doc[t.type]
           m == Replaced(snap, t.type, r)
           bodies == [m.body EXCEPT ![r] = Staged(o.id)]
           p == [m EXCEPT !.body = bodies]
           T == [t EXCEPT !.committed = TRUE, !.data = None]
           tickets == [p.ticket EXCEPT ![o.id] = T]
           u == [p EXCEPT !.ticket = tickets]
           n == [u EXCEPT !.audit = u.audit \cup {r}]
<1>1. /\ snap \in Row /\ r \in Requests /\ o.id \in Requests /\ t # None
      /\ ~t.committed /\ Staged(o.id) = t.sha /\ old = t.expected
  BY DEF Executable, Whole, Proper, Allowed, StillOpen, StillExpected
<1>2. snap.ticket \in [Requests -> Maybe(Ticket)] /\ t \in Ticket
  BY <1>1, TicketTyped
<1>3. t.type \in Types /\ t.sha \in Contents
  BY <1>2 DEF Ticket
<1>4. T \in Ticket /\ T.committed
  BY <1>2 DEF Ticket, Maybe
<1>5. T # None
  BY <1>4, NoneAssumption
<1>6. /\ m \in Row /\ m.doc = [snap.doc EXCEPT ![t.type] = r]
      /\ m.retired = snap.retired \cup ({old} \ {None}) /\ m.held = snap.held \cup ({old} \ {None})
      /\ m.body = snap.body /\ m.ticket = snap.ticket /\ m.receipt = snap.receipt
  <2>1. r \in Maybe(Requests)
    BY <1>1 DEF Maybe
  <2>. HIDE DEF t
  <2>. QED  BY <1>1, <1>3, <2>1, SetSlot
<1>7. Executed(r, o) = n
  <2>1. Executed(r, o) = [[m EXCEPT !.body[r] = Staged(o.id), !.ticket[o.id].committed = TRUE,
                                    !.ticket[o.id].data = None] EXCEPT !.audit = @ \cup {r}]
    BY DEF Executed
  <2>2. [m EXCEPT !.body[r] = Staged(o.id), !.ticket[o.id].committed = TRUE, !.ticket[o.id].data = None] = u
    <3>1. m.ticket = snap.ticket
      BY <1>6
    <3>2. m.ticket[o.id] = t
      BY <3>1
    <3>3. p.ticket = m.ticket
      <4>. HIDE DEF m
      <4>1. bodies \in [Requests -> Maybe(Contents)]
        BY <1>1, <1>3, <1>6, RowFieldsTyped DEF Maybe
      <4>. HIDE DEF bodies
      <4>. QED  BY <1>6, <4>1, SetBody
    <3>4. [m EXCEPT !.body[r] = Staged(o.id), !.ticket[o.id].committed = TRUE, !.ticket[o.id].data = None]
          = [p EXCEPT !.ticket = [m.ticket EXCEPT ![o.id] =
                                    [m.ticket[o.id] EXCEPT !.committed = TRUE, !.data = None]]]
      <4>1. m \in Row /\ r \in Requests /\ o.id \in Requests
        BY <1>1, <1>6
      <4>. HIDE DEF m, t, o
      <4>. QED  BY <4>1 DEF Row
    <3>5. tickets = [m.ticket EXCEPT ![o.id] = [m.ticket[o.id] EXCEPT !.committed = TRUE, !.data = None]]
      BY <3>2, <3>3
    <3>. HIDE DEF p, tickets
    <3>. QED  BY <3>4, <3>5
  <2>. QED  BY <2>1, <2>2
<1>. HIDE DEF m, t, T, old
<1>8. bodies \in [Requests -> Maybe(Contents)] /\ bodies[r] = t.sha /\ \A v \in Requests \ {r} : bodies[v] = snap.body[v]
  BY <1>1, <1>3, <1>6, RowFieldsTyped DEF Maybe
<1>. HIDE DEF bodies
<1>9. /\ p \in Row /\ p.body = bodies /\ p.doc = m.doc /\ p.retired = m.retired /\ p.held = m.held
      /\ p.ticket = snap.ticket /\ p.receipt = snap.receipt
  BY <1>6, <1>8, SetBody
<1>. HIDE DEF p
<1>10. /\ tickets \in [Requests -> Maybe(Ticket)] /\ tickets[o.id] = T
       /\ \A i \in Requests \ {o.id} : tickets[i] = snap.ticket[i]
  BY <1>1, <1>2, <1>4, <1>9 DEF Maybe
<1>. HIDE DEF tickets
<1>11. /\ u \in Row /\ u.ticket = tickets /\ u.body = bodies /\ u.doc = m.doc /\ u.retired = m.retired
       /\ u.held = m.held /\ u.receipt = snap.receipt
  BY <1>9, <1>10, SetTicket
<1>. HIDE DEF u
<1>12. /\ n \in Row /\ n.ticket = tickets /\ n.body = bodies /\ n.doc = m.doc /\ n.retired = m.retired
       /\ n.held = m.held /\ n.receipt = snap.receipt
  <2>1. u.audit \cup {r} \in SUBSET Requests
    BY <1>1, <1>11, RowFieldsTyped
  <2>. QED  BY <1>11, <2>1, SetAudit
<1>. HIDE DEF n
<1>13. /\ r \notin Acted /\ Ops[r] = o /\ Whole(snap, Acted, Ops) /\ Acted \subseteq Requests
       /\ OneSlot(snap) /\ None \notin Current(snap) /\ r # None
  BY <1>1, NoneAssumption DEF Executable, Whole, OneSlot, Ops, Acted, Current
<1>14. r \notin Current(snap) \cup snap.retired
  BY <1>13 DEF Whole, Versions
<1>15. OneSlot(n) /\ Current(n) = (Current(snap) \ {old}) \cup {r}
  <2>1. n.doc = [snap.doc EXCEPT ![t.type] = r] /\ old = snap.doc[t.type]
    BY <1>6, <1>12 DEF old
  <2>2. OneSlot(n) /\ Current(n) = (Current(snap) \ {snap.doc[t.type]}) \cup ({r} \ {None})
    BY <1>1, <1>3, <1>12, <1>13, <1>14, <2>1, NewSlot DEF Maybe
  <2>. QED  BY <1>13, <2>1, <2>2
<1>16. old # None => old \in Current(snap)
  BY <1>3 DEF Current, old
<1>17. /\ Current(n) \cup n.retired = Current(snap) \cup snap.retired \cup {r}
       /\ n.retired = n.held /\ Current(n) \cap n.retired = {}
  <2>1. n.retired = snap.retired \cup ({old} \ {None}) /\ n.held = snap.held \cup ({old} \ {None})
    BY <1>6, <1>12
  <2>2. snap.retired = snap.held /\ Current(snap) \cap snap.retired = {}
    BY <1>13 DEF Whole
  <2>. QED  BY <1>13, <1>14, <1>15, <1>16, <2>1, <2>2
<1>18. GoesOn(n, snap) /\ \A i \in Requests : n.ticket[i] # None => i \in Acted
  <2>1. snap.ticket[o.id] # None
    BY <1>1 DEF t
  <2>2. n.ticket[o.id] # None /\ n.ticket[o.id].committed
    BY <1>4, <1>5, <1>10, <1>12
  <2>3. \A i \in Requests \ {o.id} : n.ticket[i] = snap.ticket[i]
    BY <1>10, <1>12
  <2>4. \A i \in Requests : snap.ticket[i] # None => i \in Acted
    BY <1>13 DEF Whole
  <2>. QED  BY <1>1, <2>1, <2>2, <2>3, <2>4 DEF GoesOn
<1>19. Known(n)
  BY <1>12, <1>13, <1>18 DEF Known, Whole, GoesOn
<1>20. Whole(n, Acted \cup {r}, Ops)
  <2>1. /\ Ops[r].kind = "finalize" /\ Ops[r].id \in Requests
        /\ snap.ticket[Ops[r].id] # None /\ ~snap.ticket[Ops[r].id].committed
        /\ n.ticket[Ops[r].id] # None /\ n.ticket[Ops[r].id].committed
    BY <1>1, <1>4, <1>5, <1>10, <1>12, <1>13 DEF t
  <2>2. n.body[r] \in Contents /\ \A v \in Requests \ {r} : n.body[v] = snap.body[v]
    BY <1>3, <1>8, <1>12
  <2>. QED  BY <1>1, <1>12, <1>13, <1>15, <1>17, <1>18, <1>19, <2>1, <2>2, OneNewVersion
<1>21. Replaces(n, snap, r, o)
  <2>1. n.doc = [snap.doc EXCEPT ![t.type] = r] /\ old = snap.doc[t.type] /\ t = snap.ticket[o.id]
    BY <1>6, <1>12 DEF old, t
  <2>2. snap.doc \in [Types -> Maybe(Requests)]
    BY <1>1, RowFieldsTyped
  <2>. QED  BY <1>1, <1>8, <1>12, <2>1, <2>2 DEF Replaces
<1>. QED  BY <1>7, <1>12, <1>18, <1>20, <1>21 DEF Leaves

----------------------------------------------------------------------------
(* Nothing is lost: the steps                                              *)

\* The types of one request, of the transactions and of what is stored.
Req == [pc : {"idle", "waiting", "locked", "writing", "committing", "answered"},
        op : Maybe(Op), key : Maybe(Requests), next : Maybe(Row), todo : SUBSET Objects,
        ran : BOOLEAN, status : {"none", "ok", "refused", "unavailable"}, value : Maybe(Requests)]
Ends == {"none", "open", "commit", "done", "undone"}
Stores ==
  /\ bucket \subseteq Requests \X Contents /\ landing \subseteq Requests \X Contents
  /\ uploads \in [Requests -> Maybe(Contents)] /\ reserved \subseteq Objects /\ live \in BOOLEAN

LEMMA TypesOf == TypeOK <=> snap \in Row /\ req \in [Requests -> Req] /\ tx \in [Requests -> Ends] /\ Stores
  BY DEF TypeOK, Req, Ends, Stores

\* A whole row is told from the operations of the requests that left it only.
LEMMA WholeOf ==
  ASSUME NEW s, NEW A, NEW f, NEW g, Whole(s, A, f), \A v \in A : f[v] = g[v]
  PROVE  Whole(s, A, g)
<1>1. Versions(A, f) = Versions(A, g)
  BY DEF Versions
<1>2. \A v \in Versions(A, f) : f[v] = g[v]
  BY DEF Versions
<1>. QED  BY <1>1, <1>2 DEF Whole

\* Request q carries what it carried, whatever another asks.
LEMMA CarriesOn ==
  ASSUME NEW q \in Requests, Carries(q), snap' = snap, Acted' = Acted,
         \A v \in Acted \cup {q} : v \in Requests /\ req'[v].op = req[v].op,
         Pends(q)' => Pends(q) /\ req'[q].next = req[q].next /\ req'[q].ran = req[q].ran
  PROVE  Carries(q)'
<1>1. SUFFICES ASSUME Pends(q)'
               PROVE  /\ Whole(req'[q].next, ActedWith(q)', Ops')
                      /\ Replaces(req'[q].next, snap', q, req'[q].op)
                      /\ GoesOn(req'[q].next, snap')
  BY DEF Carries
<1>2. /\ req'[q].next = req[q].next /\ ActedWith(q)' = ActedWith(q) /\ req'[q].op = req[q].op
      /\ Whole(req[q].next, ActedWith(q), Ops)
      /\ Replaces(req[q].next, snap, q, req[q].op) /\ GoesOn(req[q].next, snap)
  BY <1>1 DEF ActedWith, Carries
<1>3. \A v \in ActedWith(q) : Ops[v] = Ops'[v]
  BY DEF ActedWith, Ops
<1>4. Whole(req[q].next, ActedWith(q), Ops')
  BY <1>2, <1>3, WholeOf
<1>. QED  BY <1>2, <1>4

\* A step of request r that leaves the row and the other requests alone, and
\* commits nothing.
LEMMA OwnStepWhole ==
  ASSUME DInv, NEW r \in Requests, NEW x \in Req, req' = [req EXCEPT ![r] = x], snap' = snap,
         tx' \in [Requests -> Ends], \A q \in Requests \ {r} : tx'[q] = tx[q], Stores',
         tx[r] = "done" <=> tx'[r] = "done", x.ran = req[r].ran \/ tx[r] # "done",
         x.op = req[r].op \/ tx[r] # "done",
         Asked(r)', Carries(r)'
  PROVE  DInv'
<1>1. req'[r] = x /\ \A q \in Requests \ {r} : req'[q] = req[q]
  BY TypesOf DEF DInv
<1>2. TypeOK'
  BY <1>1, TypesOf DEF DInv, TypeOK, Req, Ends, Stores
<1>3. Acted' = Acted
  BY <1>1 DEF Acted
<1>4. \A v \in Acted : v \in Requests /\ req'[v].op = req[v].op
  BY <1>1 DEF Acted
<1>5. Whole(snap', Acted', Ops')
  <2>1. \A v \in Acted : Ops[v] = Ops'[v]
    BY <1>4 DEF Ops
  <2>. QED  BY <1>3, <2>1, WholeOf DEF DInv
<1>6. ASSUME NEW q \in Requests \ {r} PROVE Asked(q)' /\ Carries(q)'
  <2>1. Asked(q)'
    BY <1>1 DEF DInv, Asked
  <2>2. Pends(q)' => Pends(q)
    BY <1>1 DEF Pends
  <2>3. Carries(q)'
    BY <1>1, <1>3, <1>4, <2>2, CarriesOn DEF DInv
  <2>. QED  BY <2>1, <2>3
<1>. QED  BY <1>2, <1>5, <1>6 DEF DInv

\* A step that leaves the row, the requests and their transactions alone.
LEMMA OutsideStepWhole ==
  ASSUME DInv, UNCHANGED <<snap, req, tx>>, Stores'
  PROVE  DInv'
<1>1. TypeOK'
  BY DEF DInv, TypeOK, Stores
<1>2. Acted' = Acted /\ Ops' = Ops
  BY DEF Acted, Ops
<1>3. Whole(snap', Acted', Ops')
  BY <1>2 DEF DInv
<1>4. ASSUME NEW q \in Requests PROVE Asked(q)' /\ Carries(q)'
  <2>1. Asked(q)'
    BY DEF DInv, Asked
  <2>2. \A v \in Acted : v \in Requests
    BY DEF Acted
  <2>3. Pends(q)' => Pends(q)
    BY DEF Pends
  <2>4. Carries(q)'
    BY <1>2, <2>2, <2>3, CarriesOn DEF DInv
  <2>. QED  BY <2>1, <2>4
<1>. QED  BY <1>1, <1>3, <1>4 DEF DInv

\* A request that gives up before its COMMIT.
LEMMA GivesUpWhole ==
  ASSUME DInv, NEW r \in Requests, NEW status \in {"refused", "unavailable"}, req[r].pc # "idle",
         tx[r] \notin {"commit", "done"}, Tx(r, "undone"), Answer(r, status), snap' = snap, Stores'
  PROVE  DInv'
<1> DEFINE x == [req[r] EXCEPT !.pc = "answered", !.status = status, !.next = None, !.todo = {}]
<1>1. /\ x \in Req /\ req' = [req EXCEPT ![r] = x] /\ x.pc = "answered" /\ x.op = req[r].op
      /\ x.ran = req[r].ran /\ x.todo = {}
  BY TypesOf DEF DInv, Answer, Req, Maybe
<1>. HIDE DEF x
<1>2. /\ req'[r] = x /\ tx' \in [Requests -> Ends] /\ tx'[r] = "undone"
      /\ \A q \in Requests \ {r} : tx'[q] = tx[q]
  BY <1>1, TypesOf DEF DInv, Tx, Ends
<1>3. Asked(r)' /\ Carries(r)'
  BY <1>1, <1>2 DEF DInv, Asked, Carries, Pends
<1>. QED  BY <1>1, <1>2, <1>3, OwnStepWhole

\* An upload that the person was told of is there.
LEMMA ToldIsKnown ==
  ASSUME KInv, DInv, NEW i \in Told
  PROVE  i \in Requests /\ snap.ticket[i] # None
<1>1. PICK q \in Requests : req[q].status = "ok" /\ req[q].op.kind = "authorize" /\ req[q].value = i
  BY DEF Told
<1>2. tx[q] = "done" /\ req[q].key # None /\ req[q].key \in Requests
  BY <1>1, KInvShape DEF KInv, Phase, Shape, Maybe, Reads
<1>3. /\ snap.receipt[req[q].key] # None /\ snap.receipt[req[q].key].print = req[q].op
      /\ snap.receipt[req[q].key].value = i
  BY <1>1, <1>2 DEF KInv, Durable, Tells
<1>. QED  BY <1>1, <1>2, <1>3 DEF DInv, Whole, Known

\* What a client asks for is proper.
LEMMA AsksProper ==
  ASSUME KInv, DInv, NEW o \in Asks
  PROVE  Proper(o, snap)
<1>1. snap \in Row /\ Current(snap) \subseteq Requests /\ snap.retired \subseteq Requests
  BY RowFieldsTyped DEF DInv, Whole, Current, Maybe
<1> DEFINE seen == Maybe(Current(snap) \cup snap.retired)
           links == {req[r].value : r \in {q \in Requests : req[q].status = "ok" /\ req[q].op.kind = "issue"}}
<1>2. seen \subseteq Maybe(Requests)
  BY <1>1 DEF Maybe
<1>3. links \subseteq Maybe(Requests)
  BY TypesOf DEF DInv, Req
<1>. HIDE DEF seen, links
<1>4. CASE o \in {Ask("authorize", t, v, c, m) : t \in Types, v \in seen, c \in Contents, m \in Contents}
  BY <1>2, <1>4 DEF Ask, Proper, Op, Mutations, Reads, Maybe
<1>5. CASE o \in {Ask("put", None, i, c, None) : i \in Told, c \in Contents}
  <2>1. PICK i \in Told, c \in Contents : o = Ask("put", None, i, c, None)
    BY <1>5
  <2>2. i \in Requests /\ snap.ticket[i] # None
    BY ToldIsKnown
  <2>. QED  BY <2>1, <2>2 DEF Ask, Proper, Op, Mutations, Reads, Maybe
<1>6. CASE o \in {Ask("finalize", None, i, None, None) : i \in Told}
  <2>1. PICK i \in Told : o = Ask("finalize", None, i, None, None)
    BY <1>6
  <2>2. i \in Requests /\ snap.ticket[i] # None
    BY ToldIsKnown
  <2>. QED  BY <2>1, <2>2 DEF Ask, Proper, Op, Mutations, Reads, Maybe
<1>7. CASE o \in {Ask("remove", t, v, None, None) : t \in Types, v \in seen}
  BY <1>2, <1>7 DEF Ask, Proper, Op, Mutations, Reads, Maybe
<1>8. CASE o \in {Ask("list", None, None, None, None)} \cup {Ask("issue", t, None, None, None) : t \in Types}
  BY <1>8 DEF Ask, Proper, Op, Mutations, Reads, Maybe
<1>9. CASE o \in {Ask("deliver", None, v, None, None) : v \in links}
  BY <1>3, <1>9 DEF Ask, Proper, Op, Mutations, Reads, Maybe
<1>. QED  BY <1>4, <1>5, <1>6, <1>7, <1>8, <1>9 DEF Asks, seen, links

\* A request arrives.
LEMMA SendWhole ==
  ASSUME KInv, DInv, NEW r \in Requests, Send(r)
  PROVE  DInv'
<1>1. PICK o \in Asks, k \in {None, r} \cup {req[q].key : q \in Requests} :
        req' = [req EXCEPT ![r].pc = "waiting", ![r].op = o, ![r].key = k]
  BY DEF Send
<1>2. /\ req[r].pc = "idle" /\ UNCHANGED <<snap, tx, bucket, uploads, landing, reserved, live>>
      /\ tx[r] = "none"
  BY DEF Send, KInv, Phase
<1>3. Proper(o, snap) /\ o \in Maybe(Op)
  BY AsksProper DEF Proper, Maybe
<1>4. k \in Maybe(Requests)
  BY <1>1, KInvShape DEF Shape, Maybe
<1> DEFINE x == [req[r] EXCEPT !.pc = "waiting", !.op = o, !.key = k]
<1>5. x \in Req /\ req' = [req EXCEPT ![r] = x] /\ x.pc = "waiting" /\ x.op = o /\ x.todo = req[r].todo /\ x.ran = req[r].ran
  BY <1>1, <1>3, <1>4, TypesOf DEF DInv, Req
<1>. HIDE DEF x
<1>6. req'[r] = x /\ tx' \in [Requests -> Ends] /\ Stores'
  BY <1>2, <1>5, TypesOf DEF DInv, Stores
<1>7. Asked(r)' /\ Carries(r)'
  BY <1>2, <1>3, <1>5, <1>6 DEF DInv, Asked, Carries, Pends
<1>. QED  BY <1>2, <1>5, <1>6, <1>7, OwnStepWhole

\* The lock is granted, or the bodies cannot be read.
LEMMA LockWhole ==
  ASSUME KInv, DInv, NEW r \in Requests, Lock(r)
  PROVE  DInv'
<1>1. /\ req[r].pc = "waiting" /\ tx[r] = "none" /\ snap' = snap
      /\ UNCHANGED <<bucket, uploads, landing, reserved, live>>
  BY DEF Lock, KInv, Phase
<1>2. Stores'
  BY <1>1, TypesOf DEF DInv, Stores
<1>3. CASE Tx(r, "open") /\ req' = [req EXCEPT ![r].pc = "locked"]
  <2> DEFINE x == [req[r] EXCEPT !.pc = "locked"]
  <2>1. /\ x \in Req /\ req' = [req EXCEPT ![r] = x] /\ x.pc = "locked" /\ x.op = req[r].op
        /\ x.ran = req[r].ran /\ x.todo = req[r].todo
    BY <1>3, TypesOf DEF DInv, Req
  <2>. HIDE DEF x
  <2>2. /\ req'[r] = x /\ tx' \in [Requests -> Ends] /\ tx'[r] = "open"
        /\ \A q \in Requests \ {r} : tx'[q] = tx[q]
    BY <1>3, <2>1, TypesOf DEF DInv, Tx, Ends
  <2>3. Asked(r)' /\ Carries(r)'
    BY <1>1, <2>1, <2>2 DEF DInv, Asked, Carries, Pends
  <2>. QED  BY <1>1, <1>2, <2>1, <2>2, <2>3, OwnStepWhole
<1>4. CASE Tx(r, "undone") /\ Answer(r, "unavailable")
  BY <1>1, <1>2, <1>4, GivesUpWhole
<1>. QED  BY <1>3, <1>4 DEF Lock

\* A replay leaves the row as it is.
LEMMA ReplayWhole ==
  ASSUME KInv, DInv, NEW r \in Requests, Replay(r)
  PROVE  DInv'
<1>1. /\ req[r].pc = "locked" /\ tx[r] = "open" /\ ~req[r].ran
      /\ UNCHANGED <<snap, tx, bucket, uploads, landing, reserved, live>>
  BY DEF Replay, KInv, Phase
<1>2. Past(r).value \in Maybe(Requests)
  <2>1. Past(r) # None /\ req[r].key \in Requests /\ Past(r) = snap.receipt[req[r].key]
    BY KInvShape DEF Replay, Past, Shape, Maybe
  <2>2. snap.receipt \in [Requests -> Maybe(Receipt)]
    BY RowFieldsTyped DEF DInv, Whole
  <2>. QED  BY <2>1, <2>2 DEF Maybe, Receipt
<1> DEFINE x == [req[r] EXCEPT !.pc = "writing", !.next = snap, !.value = Past(r).value]
<1>3. /\ x \in Req /\ req' = [req EXCEPT ![r] = x] /\ x.pc = "writing" /\ x.next = snap
      /\ x.op = req[r].op /\ x.ran = req[r].ran /\ x.todo = req[r].todo
  <2>1. snap \in Maybe(Row) /\ req[r] \in Req /\ req \in [Requests -> Req]
    BY TypesOf DEF DInv, Maybe
  <2>. QED  BY <1>2, <2>1 DEF Replay, Req
<1>. HIDE DEF x
<1>4. req'[r] = x /\ tx' \in [Requests -> Ends] /\ Stores'
  BY <1>1, <1>3, TypesOf DEF DInv, Stores
<1>5. Asked(r)'
  BY <1>1, <1>3, <1>4 DEF DInv, Asked
<1>6. Carries(r)'
  <2>1. ActedWith(r)' = Acted /\ Ops' = Ops /\ req'[r].next = snap /\ snap' = snap
    <3>1. \A q \in Requests : req'[q].op = req[q].op /\ req'[q].ran = req[q].ran
      BY <1>3, <1>4, TypesOf DEF DInv
    <3>. QED  BY <1>1, <1>3, <1>4, <3>1 DEF ActedWith, Acted, Ops
  <2>2. Whole(snap, Acted, Ops) /\ Replaces(snap, snap, r, req'[r].op) /\ GoesOn(snap, snap)
    BY DEF DInv, Replaces, GoesOn
  <2>. QED  BY <2>1, <2>2 DEF Carries
<1>. QED  BY <1>1, <1>3, <1>4, <1>5, <1>6, OwnStepWhole

\* What an operation answers, and what a row refers to.
LEMMA ValueTyped ==
  ASSUME DInv, NEW r \in Requests, NEW o, Proper(o, snap)
  PROVE  Value(r, o) \in Maybe(Requests) /\ [print |-> o, value |-> Value(r, o)] \in Receipt
<1>1. snap.doc \in [Types -> Maybe(Requests)] /\ o \in Op
  BY RowFieldsTyped DEF DInv, Whole, Proper
<1>2. Value(r, o) \in Maybe(Requests)
  BY <1>1 DEF Value, Proper, Op, Maybe
<1>. QED  BY <1>1, <1>2 DEF Receipt
LEMMA ReceiptsLeft ==
  ASSUME DInv
  PROVE  LeavesReceipts
<1>1. SUFFICES ASSUME NEW r \in Requests, req[r].pc = "locked"
               PROVE  [print |-> req[r].op, value |-> Value(r, req[r].op)] # None
  BY DEF LeavesReceipts
<1>2. Proper(req[r].op, snap)
  BY <1>1 DEF DInv, Asked
<1>. QED  BY <1>2, ValueTyped, NoneAssumption
LEMMA BodiesTyped ==
  ASSUME NEW s, NEW A, NEW f, Whole(s, A, f)
  PROVE  Bodies(s) \subseteq Requests \X Contents
<1>1. s \in Row /\ Current(s) \cup s.retired = Versions(A, f)
  BY DEF Whole
<1>2. Current(s) \cup s.retired \subseteq Requests
  BY <1>1, RowFieldsTyped DEF Current, Maybe
<1>3. \A v \in Current(s) \cup s.retired : s.body[v] \in Contents
  BY <1>1 DEF Whole
<1>4. \A i \in Requests : s.ticket[i] # None /\ s.ticket[i].data # None => s.ticket[i].data \in Contents
  BY <1>1, TicketTyped DEF Ticket, Maybe
<1>. QED  BY <1>2, <1>3, <1>4 DEF Bodies

\* An operation is carried out on the row that its request has locked.
LEMMA ExecuteWhole ==
  ASSUME KInv, DInv, NEW r \in Requests, Execute(r)
  PROVE  DInv'
<1> DEFINE o == req[r].op
           row == Executed(r, o)
           receipt == [print |-> o, value |-> Value(r, o)]
           next == IF req[r].key = None THEN row ELSE [row EXCEPT !.receipt[req[r].key] = receipt]
           todo == Bodies(next) \ Bodies(snap)
           x == [req[r] EXCEPT !.pc = "writing", !.next = next, !.ran = TRUE,
                               !.value = Value(r, o), !.todo = todo]
<1>1. /\ req[r].pc = "locked" /\ tx[r] = "open" /\ UNCHANGED <<snap, tx, bucket, uploads, landing, live>>
      /\ reserved' = reserved \cup (IF o.kind = "authorize" THEN {r} ELSE {})
      /\ Past(r) = None
  BY DEF Execute, KInv, Phase
<1>2. Proper(o, snap) /\ Allowed(o)
  <2>1. Proper(o, snap)
    BY <1>1 DEF DInv, Asked
  <2>. QED  BY <2>1 DEF Execute, Refused
<1>3. Executable(r)
  BY <1>1, <1>2 DEF Executable, DInv, Acted
<1>4. Leaves(r)
  BY <1>2, <1>3, AuthorizeLeaves, PutLeaves, FinalizeLeaves, RemoveLeaves, ReadLeaves
  DEF Proper, Op, Mutations
<1>5. /\ Whole(row, Acted \cup {r}, Ops) /\ Replaces(row, snap, r, o) /\ GoesOn(row, snap)
      /\ row.receipt = snap.receipt
      /\ o.kind = "authorize" => row.ticket[r] # None
  BY <1>4 DEF Leaves
<1>6. receipt \in Receipt /\ Value(r, o) \in Maybe(Requests) /\ receipt.print = o /\ receipt.value = Value(r, o)
  BY <1>2, ValueTyped
<1>7. o.kind = "authorize" => Value(r, o) = r
  BY DEF Value
<1>. HIDE DEF row, receipt
<1>8. /\ next \in Row /\ next.doc = row.doc /\ next.retired = row.retired /\ next.held = row.held
      /\ next.body = row.body /\ next.ticket = row.ticket /\ row \in Row
      /\ \A k \in Requests : next.receipt[k] = row.receipt[k] \/ next.receipt[k] = receipt
  <2>1. row \in Row /\ row.receipt \in [Requests -> Maybe(Receipt)]
    BY <1>5, RowFieldsTyped DEF Whole
  <2>2. CASE req[r].key = None
    BY <2>1, <2>2
  <2>3. CASE req[r].key # None
    <3> DEFINE receipts == [row.receipt EXCEPT ![req[r].key] = receipt]
    <3>1. receipts \in [Requests -> Maybe(Receipt)] /\ \A k \in Requests : receipts[k] = row.receipt[k] \/ receipts[k] = receipt
      BY <1>6, <2>1 DEF Maybe
    <3>2. next = [row EXCEPT !.receipt = receipts]
      BY <2>3
    <3>. HIDE DEF receipts, next
    <3>. QED  BY <2>1, <3>1, <3>2, SetReceipt
  <2>. QED  BY <2>2, <2>3
<1>. HIDE DEF next
<1>9. Whole(next, Acted \cup {r}, Ops)
  <2>1. Current(next) = Current(row)
    BY <1>8 DEF Current
  <2>2. Known(next)
    <3>1. SUFFICES ASSUME NEW k \in Requests, next.receipt[k] # None, next.receipt[k].print.kind = "authorize"
                   PROVE  next.receipt[k].value \in Requests /\ next.ticket[next.receipt[k].value] # None
      BY DEF Known
    <3>2. CASE next.receipt[k] = row.receipt[k]
      BY <1>5, <1>8, <3>1, <3>2 DEF Whole, Known
    <3>3. CASE next.receipt[k] = receipt
      <4>1. o.kind = "authorize"
        BY <1>6, <3>1, <3>3
      <4>2. next.receipt[k].value = r /\ next.ticket[r] # None
        BY <1>5, <1>6, <1>7, <1>8, <3>3, <4>1
      <4>. QED  BY <4>2
    <3>. QED  BY <1>8, <3>2, <3>3
  <2>3. /\ Versions(Acted \cup {r}, Ops) = Current(next) \cup next.retired /\ next.retired = next.held
        /\ Current(next) \cap next.retired = {} /\ OneSlot(next)
    <3>1. /\ Versions(Acted \cup {r}, Ops) = Current(row) \cup row.retired /\ row.retired = row.held
          /\ Current(row) \cap row.retired = {} /\ OneSlot(row)
      BY <1>5 DEF Whole, OneSlot
    <3>2. OneSlot(next)
      BY <1>8, <3>1 DEF OneSlot
    <3>. QED  BY <1>8, <2>1, <3>1, <3>2
  <2>4. /\ \A v \in Versions(Acted \cup {r}, Ops) : /\ next.body[v] \in Contents /\ Ops[v].id \in Requests
                                                   /\ next.ticket[Ops[v].id] # None
                                                   /\ next.ticket[Ops[v].id].committed
        /\ \A v, w \in Versions(Acted \cup {r}, Ops) : v # w => Ops[v].id # Ops[w].id
        /\ \A i \in Requests : next.ticket[i] # None => i \in Acted \cup {r}
    BY <1>5, <1>8 DEF Whole
  <2>5. next \in Row
    BY <1>8
  <2>. QED  BY <2>2, <2>3, <2>4, <2>5 DEF Whole, Known, OneSlot
<1>10. Replaces(next, snap, r, o) /\ GoesOn(next, snap)
  BY <1>5, <1>8 DEF Replaces, GoesOn
<1>11. todo \subseteq Requests \X Contents
  BY <1>9, BodiesTyped
<1>12. /\ x \in Req /\ req' = [req EXCEPT ![r] = x] /\ x.pc = "writing" /\ x.next = next
       /\ x.op = o /\ x.ran /\ x.todo = todo
  <2>1. req' = [req EXCEPT ![r].pc = "writing", ![r].next = next, ![r].ran = TRUE,
                           ![r].value = Value(r, o), ![r].todo = todo]
    BY DEF Execute, next, row, receipt
  <2>2. next \in Maybe(Row) /\ todo \in SUBSET Objects
    BY <1>8, <1>11 DEF Maybe, Objects
  <2>3. req \in [Requests -> Req] /\ req[r] \in Req
    BY TypesOf DEF DInv
  <2>. HIDE DEF todo
  <2>4. x \in Req /\ x.pc = "writing" /\ x.next = next /\ x.op = o /\ x.ran /\ x.todo = todo
    BY <1>6, <2>2, <2>3 DEF Req
  <2>5. req' = [req EXCEPT ![r] = x]
    BY <2>1, <2>3 DEF Req
  <2>. QED  BY <2>4, <2>5
<1>. HIDE DEF x, todo
<1>13. req'[r] = x /\ tx' \in [Requests -> Ends] /\ Stores'
  BY <1>1, <1>12, TypesOf DEF DInv, Stores, Objects
<1>14. Asked(r)'
  BY <1>1, <1>2, <1>11, <1>12, <1>13 DEF Asked
<1>15. Carries(r)'
  <2>1. Acted' = Acted
    <3>1. \A q \in Requests \ {r} : req'[q] = req[q]
      BY <1>12, TypesOf DEF DInv
    <3>. QED  BY <1>1, <3>1 DEF Acted
  <2>2. ActedWith(r)' = Acted \cup {r} /\ req'[r].next = next /\ req'[r].op = o /\ snap' = snap
    BY <1>1, <1>12, <1>13, <2>1 DEF ActedWith
  <2>3. Ops' = Ops
    <3>1. \A q \in Requests : req'[q].op = req[q].op
      BY <1>12, <1>13, TypesOf DEF DInv
    <3>. QED  BY <3>1 DEF Ops
  <2>. QED  BY <1>9, <1>10, <2>2, <2>3 DEF Carries
<1>. QED  BY <1>1, <1>12, <1>13, <1>14, <1>15, OwnStepWhole

\* A stored body is no longer to do.
LEMMA WriteWhole ==
  ASSUME KInv, DInv, NEW r \in Requests, Write(r)
  PROVE  DInv'
<1>1. PICK b \in req[r].todo \cap reserved :
        /\ bucket' = bucket \cup {b} /\ req' = [req EXCEPT ![r].todo = @ \ {b}]
        /\ req[r].pc = "writing" /\ UNCHANGED <<snap, tx, uploads, landing, reserved, live>>
  BY DEF Write
<1> DEFINE x == [req[r] EXCEPT !.todo = @ \ {b}]
<1>2. /\ x \in Req /\ req' = [req EXCEPT ![r] = x] /\ x.pc = req[r].pc /\ x.next = req[r].next
      /\ x.op = req[r].op /\ x.ran = req[r].ran /\ x.todo \subseteq req[r].todo
  BY <1>1, TypesOf DEF DInv, Req
<1>. HIDE DEF x
<1>3. req'[r] = x /\ tx' \in [Requests -> Ends] /\ \A q \in Requests \ {r} : req'[q] = req[q]
  BY <1>1, <1>2, TypesOf DEF DInv
<1>4. Stores'
  BY <1>1, TypesOf DEF DInv, Asked, Stores
<1>5. Asked(r)'
  BY <1>1, <1>2, <1>3 DEF DInv, Asked
<1>6. Carries(r)'
  <2>1. Acted' = Acted /\ \A v \in Acted \cup {r} : v \in Requests /\ req'[v].op = req[v].op
    BY <1>1, <1>2, <1>3 DEF Acted
  <2>. QED  BY <1>1, <1>2, <1>3, <2>1, CarriesOn DEF DInv, Pends
<1>. QED  BY <1>1, <1>2, <1>3, <1>4, <1>5, <1>6, OwnStepWhole

\* COMMIT carries the row that was written.
LEMMA SendCommitWhole ==
  ASSUME KInv, DInv, NEW r \in Requests, SendCommit(r)
  PROVE  DInv'
<1>1. /\ req[r].pc = "writing" /\ tx[r] = "open" /\ Tx(r, "commit") /\ req' = [req EXCEPT ![r].pc = "committing"]
      /\ UNCHANGED <<snap, bucket, uploads, landing, reserved, live>>
  BY DEF SendCommit, KInv, Phase
<1> DEFINE x == [req[r] EXCEPT !.pc = "committing"]
<1>2. /\ x \in Req /\ req' = [req EXCEPT ![r] = x] /\ x.pc = "committing" /\ x.next = req[r].next
      /\ x.op = req[r].op /\ x.ran = req[r].ran /\ x.todo = req[r].todo
  BY <1>1, TypesOf DEF DInv, Req
<1>. HIDE DEF x
<1>3. /\ req'[r] = x /\ tx' \in [Requests -> Ends] /\ tx'[r] = "commit"
      /\ \A q \in Requests \ {r} : tx'[q] = tx[q] /\ req'[q] = req[q]
  BY <1>1, <1>2, TypesOf DEF DInv, Tx, Ends
<1>4. Stores'
  BY <1>1, TypesOf DEF DInv, Stores
<1>5. Asked(r)'
  BY <1>1, <1>2, <1>3 DEF DInv, Asked
<1>6. Carries(r)'
  <2>1. Acted' = Acted /\ \A v \in Acted \cup {r} : v \in Requests /\ req'[v].op = req[v].op
    BY <1>1, <1>2, <1>3 DEF Acted
  <2>. QED  BY <1>1, <1>2, <1>3, <2>1, CarriesOn DEF DInv, Pends
<1>. QED  BY <1>1, <1>2, <1>3, <1>4, <1>5, <1>6, OwnStepWhole

\* A rollback takes the row away.
LEMMA ServerAbortsWhole ==
  ASSUME KInv, DInv, NEW r \in Requests, ServerAborts(r)
  PROVE  DInv'
<1>1. /\ tx[r] = "commit" /\ Tx(r, "undone") /\ req' = [req EXCEPT ![r].next = None]
      /\ req[r].pc \in {"committing", "answered"}
      /\ UNCHANGED <<snap, bucket, uploads, landing, reserved, live>>
  BY DEF ServerAborts, KInv, Phase
<1> DEFINE x == [req[r] EXCEPT !.next = None]
<1>2. /\ x \in Req /\ req' = [req EXCEPT ![r] = x] /\ x.pc = req[r].pc
      /\ x.op = req[r].op /\ x.ran = req[r].ran /\ x.todo = req[r].todo
  BY <1>1, TypesOf DEF DInv, Req, Maybe
<1>. HIDE DEF x
<1>3. /\ req'[r] = x /\ tx' \in [Requests -> Ends] /\ tx'[r] = "undone"
      /\ \A q \in Requests \ {r} : tx'[q] = tx[q]
  BY <1>1, <1>2, TypesOf DEF DInv, Tx, Ends
<1>4. Stores'
  BY <1>1, TypesOf DEF DInv, Stores
<1>5. Asked(r)' /\ Carries(r)'
  BY <1>1, <1>2, <1>3 DEF DInv, Asked, Carries, Pends
<1>. QED  BY <1>1, <1>2, <1>3, <1>4, <1>5, OwnStepWhole

\* The answer after COMMIT was sent leaves the transaction what it carries.
LEMMA AnswerWhole ==
  ASSUME KInv, DInv, NEW r \in Requests, NEW status \in {"ok", "unavailable"},
         req[r].pc = "committing", Answer(r, status),
         UNCHANGED <<snap, tx, bucket, uploads, landing, reserved, live>>
  PROVE  DInv'
<1> DEFINE x == [req[r] EXCEPT !.pc = "answered", !.status = status,
                               !.next = IF tx[r] = "commit" THEN @ ELSE None, !.todo = {}]
<1>1. /\ x \in Req /\ req' = [req EXCEPT ![r] = x] /\ x.pc = "answered" /\ x.op = req[r].op
      /\ x.ran = req[r].ran /\ x.todo = {}
      /\ tx[r] = "commit" => x.next = req[r].next
  BY TypesOf DEF DInv, Answer, Req, Maybe
<1>. HIDE DEF x
<1>2. req'[r] = x /\ tx' \in [Requests -> Ends] /\ \A q \in Requests \ {r} : req'[q] = req[q]
  BY <1>1, TypesOf DEF DInv
<1>3. Stores'
  BY TypesOf DEF DInv, Stores
<1>4. Asked(r)'
  BY <1>1, <1>2 DEF DInv, Asked
<1>5. Carries(r)'
  <2>1. Acted' = Acted /\ \A v \in Acted \cup {r} : v \in Requests /\ req'[v].op = req[v].op
    BY <1>1, <1>2 DEF Acted
  <2>2. Pends(r)' => tx[r] = "commit"
    BY <1>1, <1>2 DEF Pends
  <2>. QED  BY <1>1, <1>2, <2>1, <2>2, CarriesOn DEF DInv, Pends
<1>. QED  BY <1>1, <1>2, <1>3, <1>4, <1>5, OwnStepWhole

\* What a transaction carries becomes the committed row; its request has acted
\* if it ran, and nobody else carries a row.
LEMMA ServerCommitsWhole ==
  ASSUME KInv, DInv, NEW r \in Requests, ServerCommits(r)
  PROVE  DInv'
<1>1. /\ tx[r] = "commit" /\ Tx(r, "done") /\ req' = [req EXCEPT ![r].next = None] /\ snap' = req[r].next
      /\ req[r].pc \in {"committing", "answered"}
      /\ UNCHANGED <<bucket, uploads, landing, reserved, live>>
  BY DEF ServerCommits, KInv, Phase
<1>2. /\ Whole(req[r].next, ActedWith(r), Ops) /\ GoesOn(req[r].next, snap)
  BY <1>1 DEF DInv, Carries, Pends
<1> DEFINE x == [req[r] EXCEPT !.next = None]
<1>3. /\ x \in Req /\ req' = [req EXCEPT ![r] = x] /\ x.pc = req[r].pc
      /\ x.op = req[r].op /\ x.ran = req[r].ran /\ x.todo = req[r].todo
  BY <1>1, TypesOf DEF DInv, Req, Maybe
<1>. HIDE DEF x
<1>4. /\ req'[r] = x /\ req' \in [Requests -> Req] /\ \A q \in Requests \ {r} : req'[q] = req[q]
      /\ tx' \in [Requests -> Ends] /\ tx'[r] = "done" /\ \A q \in Requests \ {r} : tx'[q] = tx[q]
  BY <1>1, <1>3, TypesOf DEF DInv, Tx, Ends
<1>5. TypeOK'
  <2>1. snap' \in Row
    BY <1>1, <1>2 DEF Whole
  <2>2. Stores
    BY TypesOf DEF DInv
  <2>. QED  BY <1>1, <1>4, <2>1, <2>2 DEF TypeOK, Req, Ends, Stores
<1>6. \A q \in Requests : req'[q].op = req[q].op /\ req'[q].ran = req[q].ran /\ req'[q].pc = req[q].pc
                          /\ req'[q].todo = req[q].todo
  BY <1>3, <1>4
<1>7. Acted' = ActedWith(r) /\ Ops' = Ops
  BY <1>1, <1>4, <1>6 DEF Acted, ActedWith, Ops
<1>8. Whole(snap', Acted', Ops')
  BY <1>1, <1>2, <1>7
<1>9. ASSUME NEW q \in Requests PROVE Asked(q)' /\ Carries(q)'
  <2>1. Proper(req[q].op, snap) => Proper(req[q].op, snap')
    BY <1>1, <1>2 DEF Proper, GoesOn
  <2>2. Asked(q)'
    BY <1>6, <2>1 DEF DInv, Asked
  <2>3. ~Pends(q)'
    <3>1. CASE q = r
      BY <1>1, <1>4, <1>6, <3>1 DEF Pends
    <3>2. CASE q # r
      <4>1. tx[q] # "commit" /\ tx[q] # "open"
        BY <1>1, <3>2 DEF KInv, Alone, Inside
      <4>2. req[q].pc # "writing"
        BY <4>1 DEF KInv, Phase
      <4>. QED  BY <1>4, <1>6, <3>2, <4>1, <4>2 DEF Pends
    <3>. QED  BY <3>1, <3>2
  <2>. QED  BY <2>2, <2>3 DEF Carries
<1>. QED  BY <1>5, <1>8, <1>9 DEF DInv

\* Every step keeps it.
LEMMA StepWhole ==
  ASSUME KInv, DInv, [Next]_vars
  PROVE  DInv'
<1>1. Stores /\ uploads \in [Requests -> Maybe(Contents)]
  BY TypesOf DEF DInv, Stores
<1>2. ASSUME NEW r \in Requests, Fail(r) \/ Refuse(r) PROVE DInv'
  <2>1. req[r].pc # "idle" /\ tx[r] \notin {"commit", "done"} /\ Stores'
    BY <1>1, <1>2 DEF Fail, Refuse, KInv, Phase, Stores
  <2>. QED  BY <1>2, <2>1, GivesUpWhole DEF Fail, Refuse
<1>3. ASSUME NEW r \in Requests, WriteUnknown(r) PROVE DInv'
  <2>1. req[r].pc # "idle" /\ tx[r] \notin {"commit", "done"}
    BY <1>3 DEF WriteUnknown, KInv, Phase
  <2>2. Stores'
    BY <1>1, <1>3 DEF WriteUnknown, DInv, Asked, Stores
  <2>. QED  BY <1>3, <2>1, <2>2, GivesUpWhole DEF WriteUnknown
<1>4. ASSUME NEW r \in Requests, Acknowledged(r) \/ Unacknowledged(r) PROVE DInv'
  BY <1>4, AnswerWhole DEF Acknowledged, Unacknowledged
<1>5. ASSUME NEW i \in Requests, PutDirect(i) PROVE DInv'
  <2>1. snap \in Row /\ i \in Told
    BY <1>5 DEF PutDirect, DInv, Whole
  <2>2. snap.ticket[i].md5 \in Contents
    BY <2>1, ToldIsKnown, TicketTyped DEF Ticket
  <2>3. Stores'
    BY <1>1, <1>5, <2>2 DEF PutDirect, Stores, Maybe
  <2>. QED  BY <1>5, <2>3, OutsideStepWhole DEF PutDirect
<1>6. ASSUME NEW r \in Requests, Reserve(r) PROVE DInv'
  <2>1. Stores'
    BY <1>1, <1>6 DEF Reserve, DInv, Asked, Stores, Objects
  <2>. QED  BY <1>6, <2>1, OutsideStepWhole DEF Reserve
<1>7. CASE Land
  <2>1. Stores'
    BY <1>1, <1>7 DEF Land, Stores
  <2>. QED  BY <1>7, <2>1, OutsideStepWhole DEF Land
<1>8. CASE SignOut
  <2>1. Stores'
    BY <1>1, <1>8 DEF SignOut, Stores
  <2>. QED  BY <1>8, <2>1, OutsideStepWhole DEF SignOut
<1>9. CASE UNCHANGED vars
  <2>1. Stores'
    BY <1>1, <1>9 DEF vars, Stores
  <2>. QED  BY <1>9, <2>1, OutsideStepWhole DEF vars
<1>. QED
  BY <1>2, <1>3, <1>4, <1>5, <1>6, <1>7, <1>8, <1>9, SendWhole, LockWhole, ReplayWhole, ExecuteWhole,
     WriteWhole, SendCommitWhole, ServerCommitsWhole, ServerAbortsWhole DEF Next

----------------------------------------------------------------------------
(* The theorems                                                            *)

LEMMA InitWhole == Init => DInv
<1>1. SUFFICES ASSUME Init PROVE DInv
  OBVIOUS
<1>2. snap = EmptyRow /\ snap \in Row
  BY <1>1 DEF Init, EmptyRow, Row, Maybe
<1>3. TypeOK
  <2>1. Idle \in Req
    BY DEF Idle, Req, Maybe
  <2>. QED  BY <1>1, <1>2, <2>1 DEF Init, TypeOK, Req, Maybe
<1>4. Acted = {} /\ Current(snap) = {}
  BY <1>1, <1>2 DEF Init, Idle, Acted, EmptyRow, Current
<1>5. Whole(snap, Acted, Ops)
  BY <1>2, <1>4 DEF Whole, Versions, EmptyRow, OneSlot, Known
<1>6. \A r \in Requests : Asked(r) /\ Carries(r)
  BY <1>1 DEF Init, Idle, Asked, Carries, Pends
<1>. QED  BY <1>3, <1>5, <1>6 DEF DInv

\* KInv and DInv hold in every reachable state.
THEOREM KInvariance == Spec => [](KInv /\ DInv)
<1>1. Init => KInv /\ DInv
  <2>1. SUFFICES ASSUME Init PROVE KInv /\ DInv
    OBVIOUS
  <2>2. IInv
    BY <2>1, InitIInv
  <2>3. Alone /\ ActsOnce
    BY <2>1 DEF Init, Alone, Inside, ActsOnce, Acted
  <2>4. \A r \in Requests : Phase(r) /\ Pending(r) /\ Durable(r)
    BY <2>1 DEF Init, Idle, Phase, Pending, Durable
  <2>. QED  BY <2>1, <2>2, <2>3, <2>4, InitWhole DEF KInv
<1>2. KInv /\ DInv /\ [Next]_vars => KInv' /\ DInv'
  BY StepKeeps, StepWhole, ReceiptsLeft
<1>. QED  BY <1>1, <1>2, PTL DEF Spec

\* Every variable has its type, the rows that transactions carry included.
THEOREM TypeCorrect == Spec => []TypeOK
<1>1. DInv => TypeOK
  BY DEF DInv
<1>. QED  BY <1>1, KInvariance, PTL

\* No accepted body is lost: every version that a durable finalization made is
\* in its slot, or retired and held, and an upload makes one version, whatever
\* keys finalize it (packages/private-documents).
THEOREM NothingIsLostHolds == Spec => []NothingIsLost
<1>1. DInv => NothingIsLost
  <2>1. SUFFICES ASSUME DInv PROVE NothingIsLost
    OBVIOUS
  <2>2. Versions(Acted, Ops) = {r \in Acted : req[r].op.kind = "finalize"}
    BY DEF Versions, Acted, Ops
  <2>3. \A v \in Versions(Acted, Ops) : Ops[v] = req[v].op
    BY DEF Versions, Acted, Ops
  <2>4. /\ Versions(Acted, Ops) = Current(snap) \cup snap.retired /\ snap.retired = snap.held
        /\ Current(snap) \cap snap.retired = {}
        /\ \A v, w \in Versions(Acted, Ops) : v # w => Ops[v].id # Ops[w].id
    BY <2>1 DEF DInv, Whole
  <2>. QED  BY <2>2, <2>3, <2>4 DEF NothingIsLost
<1>. QED  BY <1>1, KInvariance, PTL

\* A slot changes only for a request that knew what it replaced: a finalized
\* upload authorized against that version, with the body it declared, or a
\* removal that names it (private-documents, the expected version).
THEOREM ReplacesWhatItSawHolds == Spec => ReplacesWhatItSaw
<1> DEFINE Saw == \A t \in Types : snap'.doc[t] # snap.doc[t] =>
  \E r \in Requests : LET o == req[r].op IN
    /\ tx[r] = "commit" /\ tx'[r] = "done"
    /\ \/ /\ o.kind = "finalize" /\ snap'.doc[t] = r
          /\ snap.ticket[o.id].expected = snap.doc[t] /\ snap'.body[r] = snap.ticket[o.id].sha
       \/ o.kind = "remove" /\ snap'.doc[t] = None /\ o.id = snap.doc[t]
<1>1. ASSUME KInv, DInv, [Next]_vars PROVE [Saw]_vars
  <2>1. CASE \E r \in Requests : ServerCommits(r)
    <3>1. PICK r \in Requests : ServerCommits(r)
      BY <2>1
    <3>2. tx[r] = "commit" /\ tx'[r] = "done" /\ snap' = req[r].next
      BY <3>1, <1>1, TypesOf DEF ServerCommits, Tx, DInv
    <3>3. Replaces(req[r].next, snap, r, req[r].op)
      BY <1>1, <3>2 DEF DInv, Carries, Pends
    <3>. QED  BY <3>2, <3>3 DEF Replaces
  <2>2. CASE ~\E r \in Requests : ServerCommits(r)
    <3>1. snap' = snap
      <4>1. ASSUME NEW r \in Requests, Send(r) \/ PutDirect(r) \/ Lock(r) \/ Fail(r) \/ Refuse(r) PROVE snap' = snap
        BY <4>1 DEF Send, PutDirect, Lock, Fail, Refuse
      <4>2. ASSUME NEW r \in Requests, Replay(r) \/ Execute(r) PROVE snap' = snap
        BY <4>2 DEF Replay, Execute
      <4>3. ASSUME NEW r \in Requests, Reserve(r) \/ Write(r) \/ WriteUnknown(r) \/ SendCommit(r) PROVE snap' = snap
        BY <4>3 DEF Reserve, Write, WriteUnknown, SendCommit
      <4>4. ASSUME NEW r \in Requests, ServerAborts(r) \/ Acknowledged(r) \/ Unacknowledged(r) PROVE snap' = snap
        BY <4>4 DEF ServerAborts, Acknowledged, Unacknowledged
      <4>5. CASE Land \/ SignOut \/ UNCHANGED vars
        BY <4>5 DEF Land, SignOut, vars
      <4>. QED  BY <1>1, <2>2, <4>1, <4>2, <4>3, <4>4, <4>5 DEF Next
    <3>. QED  BY <3>1
  <2>. QED  BY <2>1, <2>2
<1>2. KInv /\ DInv /\ [Next]_vars => [Saw]_vars
  BY <1>1
<1>. QED  BY <1>2, KInvariance, PTL DEF Spec, ReplacesWhatItSaw

\* An idempotency key takes effect at most once, and everybody who is told ok
\* under it is told the same of the same operation, over retries, lost answers
\* and deaths (idempotency-contract, private-documents).
THEOREM KeyActsOnceHolds == Spec => []KeyActsOnce
<1>1. KInv => KeyActsOnce
  <2>1. SUFFICES ASSUME KInv, NEW r \in Requests, NEW q \in Requests, r # q,
                        req[r].key = req[q].key, req[r].key # None
                 PROVE  /\ ~({r, q} \subseteq Acted)
                        /\ req[r].status = "ok" /\ req[q].status = "ok" =>
                             req[r].value = req[q].value /\ req[r].op = req[q].op
    BY DEF KeyActsOnce
  <2>2. ~({r, q} \subseteq Acted)
    BY <2>1 DEF KInv, ActsOnce
  <2>3. ASSUME req[r].status = "ok", req[q].status = "ok"
        PROVE  req[r].value = req[q].value /\ req[r].op = req[q].op
    <3>1. Tells(snap, r) /\ Tells(snap, q)
      BY <2>1, <2>3 DEF KInv, Phase, Durable
    <3>. QED  BY <2>1, <3>1 DEF Tells
  <2>. QED  BY <2>2, <2>3
<1>. QED  BY <1>1, KInvariance, PTL

\* Whoever is told ok, or handed a link or a body, has a durable receipt or
\* audit row, and whoever is refused has no effect.
THEOREM OkIsDurableHolds == Spec => []OkIsDurable
<1>1. KInv => OkIsDurable
  BY DEF OkIsDurable, KInv, Phase, Durable, Tells
<1>. QED  BY <1>1, KInvariance, PTL
=============================================================================
