------------------------- MODULE CandidateDocuments -------------------------
(***************************************************************************)
(* A person's private documents: one locked metadata row in PostgreSQL,    *)
(* immutable bodies in an R2 bucket, reservations of every key committed   *)
(* beside the row, and idempotency receipts in the row itself              *)
(* (packages/private-documents, packages/idempotency-contract).            *)
(*                                                                         *)
(* The requests are those of one person.  A request names the upload and   *)
(* the version it creates and the key it brings, which are random in the   *)
(* code.  Contents stand for admissible bodies of the declared length;     *)
(* what validation rejects is refused and changes nothing.  Every process  *)
(* has a clock of its own, so whether a key, an upload or a link has       *)
(* expired is decided anew by each request that asks.                      *)
(***************************************************************************)
EXTENDS Naturals, FiniteSets

CONSTANTS
  Requests,   \* HTTP requests, and the ids and idempotency keys they bring
  Types,      \* document slots
  Contents,   \* bodies
  Capacity,   \* bodies that one transaction can hydrate (192 MiB in the code)
  None

VARIABLES
  snap,       \* the committed row
  req,        \* the requests
  tx,         \* the server's transaction of each request
  bucket,     \* immutable objects <<id, content>>
  uploads,    \* objects at uploads/<id>
  landing,    \* PUTs that were given up and may still be applied
  reserved,   \* candidate_document_object_reservations
  live        \* the session and its principal exist

vars == <<snap, req, tx, bucket, uploads, landing, reserved, live>>

Maybe(S) == S \cup {None}
Mutations == {"authorize", "put", "finalize", "remove"}
Reads == {"list", "issue", "deliver"}

Ticket == [type : Types, expected : Maybe(Requests), sha : Contents, md5 : Contents,
           data : Maybe(Contents), committed : BOOLEAN]
\* What a request asks for: "id" is an upload, an expected version or a link's.
Op == [kind : Mutations \cup Reads, type : Maybe(Types), id : Maybe(Requests),
       sha : Maybe(Contents), md5 : Maybe(Contents)]
Receipt == [print : Op, value : Maybe(Requests)]
Row == [doc : [Types -> Maybe(Requests)], retired : SUBSET Requests, held : SUBSET Requests,
        body : [Requests -> Maybe(Contents)], ticket : [Requests -> Maybe(Ticket)],
        receipt : [Requests -> Maybe(Receipt)], audit : SUBSET Requests]
Objects == (Requests \X Contents) \cup Requests

\* None is no id, and stands for a missing upload or receipt.
ASSUME NoneAssumption == None \notin Requests /\ None \notin Ticket /\ None \notin Receipt

TypeOK ==
  /\ snap \in Row
  /\ req \in [Requests -> [pc : {"idle", "waiting", "locked", "writing", "committing", "answered"},
                           op : Maybe(Op), key : Maybe(Requests), next : Maybe(Row), todo : SUBSET Objects,
                           ran : BOOLEAN, status : {"none", "ok", "refused", "unavailable"},
                           value : Maybe(Requests)]]
  /\ tx \in [Requests -> {"none", "open", "commit", "done", "undone"}]
  /\ bucket \subseteq Requests \X Contents /\ landing \subseteq Requests \X Contents
  /\ uploads \in [Requests -> Maybe(Contents)]
  /\ reserved \subseteq Objects /\ live \in BOOLEAN

EmptyRow ==
  [doc |-> [t \in Types |-> None], retired |-> {}, held |-> {}, body |-> [i \in Requests |-> None],
   ticket |-> [i \in Requests |-> None], receipt |-> [k \in Requests |-> None], audit |-> {}]
Idle == [pc |-> "idle", op |-> None, key |-> None, next |-> None, todo |-> {}, ran |-> FALSE,
         status |-> "none", value |-> None]

Init ==
  /\ snap = EmptyRow /\ req = [r \in Requests |-> Idle] /\ tx = [r \in Requests |-> "none"]
  /\ bucket = {} /\ landing = {} /\ uploads = [i \in Requests |-> None]
  /\ reserved = {} /\ live = TRUE

Current(s) == {s.doc[t] : t \in Types} \ {None}
\* The bodies that a row refers to.
Bodies(s) ==
  {<<v, s.body[v]>> : v \in Current(s) \cup s.retired}
  \cup {<<i, s.ticket[i].data>> : i \in {j \in Requests : s.ticket[j] # None /\ s.ticket[j].data # None}}

Tx(r, state) == tx' = [tx EXCEPT ![r] = state]
Answer(r, status) == req' = [req EXCEPT ![r].pc = "answered", ![r].status = status,
  ![r].next = IF tx[r] = "commit" THEN @ ELSE None, ![r].todo = {}]
\* Uploads that the person was told of.
Told == {req[r].value : r \in {q \in Requests : req[q].status = "ok" /\ req[q].op.kind = "authorize"}}

-----------------------------------------------------------------------------
(***************************************************************************)
(* The client                                                              *)
(***************************************************************************)
Ask(kind, type, id, sha, md5) == [kind |-> kind, type |-> type, id |-> id, sha |-> sha, md5 |-> md5]
\* What a client can ask: uploads it was told of, versions it could have seen.
Asks ==
  LET seen == Maybe(Current(snap) \cup snap.retired)
      links == {req[r].value : r \in {q \in Requests : req[q].status = "ok" /\ req[q].op.kind = "issue"}}
  IN {Ask("authorize", t, v, c, m) : t \in Types, v \in seen, c \in Contents, m \in Contents}
     \cup {Ask("put", None, i, c, None) : i \in Told, c \in Contents}
     \cup {Ask("finalize", None, i, None, None) : i \in Told}
     \cup {Ask("remove", t, v, None, None) : t \in Types, v \in seen}
     \cup {Ask("list", None, None, None, None)}
     \cup {Ask("issue", t, None, None, None) : t \in Types}
     \cup {Ask("deliver", None, v, None, None) : v \in links}

\* A request arrives and its session is good; another is refused at once.
\* A mutation carries a key of its own or, if it is a retry, an earlier one.
Send(r) == \E o \in Asks, k \in {None, r} \cup {req[q].key : q \in Requests} :
  /\ req[r].pc = "idle" /\ live
  /\ (k = None) = (o.kind \in Reads)
  /\ req' = [req EXCEPT ![r].pc = "waiting", ![r].op = o, ![r].key = k]
  /\ UNCHANGED <<snap, tx, bucket, uploads, landing, reserved, live>>

\* The capability is good for one object, bound to the declared MD5.
PutDirect(i) ==
  /\ i \in Told /\ uploads[i] = None
  /\ uploads' = [uploads EXCEPT ![i] = snap.ticket[i].md5]
  /\ UNCHANGED <<snap, req, tx, bucket, landing, reserved, live>>

\* The session ends, or the principal is removed.
SignOut == live /\ live' = FALSE /\ UNCHANGED <<snap, req, tx, bucket, uploads, landing, reserved>>

-----------------------------------------------------------------------------
(***************************************************************************)
(* The transaction of a request                                            *)
(***************************************************************************)
\* The row's lock is granted and every body the row refers to is read.
Lock(r) ==
  /\ req[r].pc = "waiting" /\ \A q \in Requests : tx[q] \notin {"open", "commit"}
  /\ IF Bodies(snap) \subseteq bucket /\ Cardinality(Bodies(snap)) <= Capacity
     THEN Tx(r, "open") /\ req' = [req EXCEPT ![r].pc = "locked"]
     ELSE Tx(r, "undone") /\ Answer(r, "unavailable")
  /\ UNCHANGED <<snap, bucket, uploads, landing, reserved, live>>

\* lock_timeout, a slow or failing read, a lost connection, or the death of the
\* process, after which nobody is answered: rolled back.
Fail(r) ==
  /\ req[r].pc \in {"waiting", "locked", "writing"}
  /\ Tx(r, "undone") /\ Answer(r, "unavailable")
  /\ UNCHANGED <<snap, bucket, uploads, landing, reserved, live>>

\* The staged body of an upload, from the row or from the bucket.
Staged(i) == IF snap.ticket[i].data # None THEN snap.ticket[i].data ELSE uploads[i]

\* Mutant: finalization relies on what the authorization compared.
ComparedBefore(t) == TRUE
\* The slot still holds the version that the upload is to replace.
StillExpected(t) == snap.doc[t.type] = t.expected
\* Mutant: a finalized upload may be finalized again.
AlwaysOpen(t) == TRUE
\* The upload has not been finalized.
StillOpen(t) == ~t.committed

\* A finalization finds its direct object nowhere, which fails like any read.
Missing(o) == o.kind = "finalize" /\ StillOpen(snap.ticket[o.id]) /\ Staged(o.id) = None

\* What each operation requires of the row.
Allowed(o) ==
  LET t == snap.ticket[o.id] IN
  CASE o.kind = "authorize" -> snap.doc[o.type] = o.id
    [] o.kind = "put" -> StillOpen(t) /\ t.data \in {None, o.sha}
    [] o.kind = "finalize" -> StillOpen(t) /\ Staged(o.id) = t.sha /\ StillExpected(t)
    [] o.kind = "remove" -> o.id # None /\ snap.doc[o.type] = o.id
    [] o.kind = "issue" -> snap.doc[o.type] # None
    [] o.kind = "deliver" -> o.id \in Current(snap)
    [] o.kind = "list" -> TRUE

\* The version in a slot gives way to another, or to none.
Replaced(s, type, new) ==
  [s EXCEPT !.doc[type] = new, !.retired = @ \cup ({s.doc[type]} \ {None}), !.held = @ \cup ({s.doc[type]} \ {None})]

\* The row that request r leaves.
Executed(r, o) ==
  LET t == snap.ticket[o.id]
      audited(s) == [s EXCEPT !.audit = @ \cup {r}]
  IN CASE o.kind = "authorize" ->
            [snap EXCEPT !.ticket[r] = [type |-> o.type, expected |-> o.id, sha |-> o.sha, md5 |-> o.md5,
                                        data |-> None, committed |-> FALSE]]
       [] o.kind = "put" -> [snap EXCEPT !.ticket[o.id].data = o.sha]
       [] o.kind = "finalize" ->
            audited([Replaced(snap, t.type, r) EXCEPT !.body[r] = Staged(o.id),
                       !.ticket[o.id].committed = TRUE, !.ticket[o.id].data = None])
       [] o.kind = "remove" -> audited(Replaced(snap, o.type, None))
       [] OTHER -> audited(snap)
Value(r, o) ==
  CASE o.kind \in {"authorize", "finalize"} -> r
    [] o.kind = "issue" -> snap.doc[o.type]
    [] o.kind = "deliver" -> o.id
    [] OTHER -> None

\* Mutant: receipts are kept beside the row and written with the answer.
PastAnswers(r) == IF req[r].key # None /\ \E q \in Requests : req[q].key = req[r].key /\ req[q].status = "ok"
  THEN snap.receipt[req[r].key] ELSE None
\* The receipt of the request's key.
Past(r) == IF req[r].key = None THEN None ELSE snap.receipt[req[r].key]
\* Under the lock: the key's age, the session again, the upload's life for a
\* PUT, the receipt, and only then the operation.
Refused(r, oldKey, oldTicket) ==
  \/ ~live
  \/ req[r].key # None /\ oldKey
  \/ req[r].op.kind = "put" /\ oldTicket
  \/ IF Past(r) # None THEN Past(r).print # req[r].op
     ELSE \/ ~Allowed(req[r].op) /\ ~Missing(req[r].op)
          \/ req[r].op.kind \in {"finalize", "deliver"} /\ oldTicket

\* An old key, or a key that another operation used, commits the row as it was
\* read; every other refusal rolls back.
Refuse(r) == \E oldKey, oldTicket \in BOOLEAN :
  /\ req[r].pc = "locked" /\ Refused(r, oldKey, oldTicket)
  /\ Tx(r, "undone") /\ Answer(r, "refused")
  /\ UNCHANGED <<snap, bucket, uploads, landing, reserved, live>>

Replay(r) ==
  /\ req[r].pc = "locked" /\ ~Refused(r, FALSE, FALSE) /\ Past(r) # None
  /\ req' = [req EXCEPT ![r].pc = "writing", ![r].next = snap, ![r].value = Past(r).value]
  /\ UNCHANGED <<snap, tx, bucket, uploads, landing, reserved, live>>

\* An authorization reserves its upload's key before it signs the capability.
Execute(r) ==
  LET o == req[r].op
      row == Executed(r, o)
      next == IF req[r].key = None THEN row
              ELSE [row EXCEPT !.receipt[req[r].key] = [print |-> o, value |-> Value(r, o)]]
  IN /\ req[r].pc = "locked" /\ ~Refused(r, FALSE, FALSE) /\ Past(r) = None /\ ~Missing(o)
     /\ req' = [req EXCEPT ![r].pc = "writing", ![r].next = next, ![r].ran = TRUE,
                           ![r].value = Value(r, o), ![r].todo = Bodies(next) \ Bodies(snap)]
     /\ reserved' = reserved \cup (IF o.kind = "authorize" THEN {r} ELSE {})
     /\ UNCHANGED <<snap, tx, bucket, uploads, landing, live>>

\* A new key is reserved on a connection of its own, which commits at once.
Reserve(r) == \E b \in req[r].todo \ reserved :
  /\ req[r].pc = "writing" /\ reserved' = reserved \cup {b}
  /\ UNCHANGED <<snap, req, tx, bucket, uploads, landing, live>>

\* If-None-Match; 412 with the same digest is as good.
Write(r) == \E b \in req[r].todo \cap reserved :
  /\ req[r].pc = "writing" /\ bucket' = bucket \cup {b}
  /\ req' = [req EXCEPT ![r].todo = @ \ {b}]
  /\ UNCHANGED <<snap, tx, uploads, landing, reserved, live>>

\* The PUT is given up; it may be applied all the same, even much later.
WriteUnknown(r) == \E b \in req[r].todo \cap reserved :
  /\ req[r].pc = "writing" /\ landing' = landing \cup {b}
  /\ Tx(r, "undone") /\ Answer(r, "unavailable")
  /\ UNCHANGED <<snap, bucket, uploads, reserved, live>>
Land == \E b \in landing :
  /\ bucket' = bucket \cup {b} /\ landing' = landing \ {b}
  /\ UNCHANGED <<snap, req, tx, uploads, reserved, live>>

\* Mutant: the row is committed while its bodies are still being written.
SendCommitEarly(r) ==
  /\ req[r].pc = "writing"
  /\ Tx(r, "commit") /\ req' = [req EXCEPT ![r].pc = "committing", ![r].todo = {}]
  /\ UNCHANGED <<snap, bucket, uploads, landing, reserved, live>>
SendCommit(r) ==
  /\ req[r].pc = "writing" /\ req[r].todo = {}
  /\ Tx(r, "commit") /\ req' = [req EXCEPT ![r].pc = "committing"]
  /\ UNCHANGED <<snap, bucket, uploads, landing, reserved, live>>
ServerCommits(r) ==
  /\ tx[r] = "commit" /\ Tx(r, "done") /\ snap' = req[r].next
  /\ req' = [req EXCEPT ![r].next = None]
  /\ UNCHANGED <<bucket, uploads, landing, reserved, live>>
ServerAborts(r) ==
  /\ tx[r] = "commit" /\ Tx(r, "undone")
  /\ req' = [req EXCEPT ![r].next = None]
  /\ UNCHANGED <<snap, bucket, uploads, landing, reserved, live>>

Acknowledged(r) ==
  /\ req[r].pc = "committing" /\ tx[r] = "done" /\ Answer(r, "ok")
  /\ UNCHANGED <<snap, tx, bucket, uploads, landing, reserved, live>>
\* Mutant: an error after COMMIT was sent is taken for its success.
UnacknowledgedOk(r) ==
  /\ req[r].pc = "committing" /\ Answer(r, "ok")
  /\ UNCHANGED <<snap, tx, bucket, uploads, landing, reserved, live>>
\* The connection is lost, or the process dies, after COMMIT was sent: nobody
\* knows.
Unacknowledged(r) ==
  /\ req[r].pc = "committing" /\ Answer(r, "unavailable")
  /\ UNCHANGED <<snap, tx, bucket, uploads, landing, reserved, live>>
Next ==
  \/ \E r \in Requests :
       \/ Send(r) \/ PutDirect(r) \/ Lock(r) \/ Fail(r) \/ Refuse(r) \/ Replay(r) \/ Execute(r)
       \/ Reserve(r) \/ Write(r) \/ WriteUnknown(r) \/ SendCommit(r) \/ ServerCommits(r)
       \/ ServerAborts(r) \/ Acknowledged(r) \/ Unacknowledged(r)
  \/ Land \/ SignOut
Spec == Init /\ [][Next]_vars

-----------------------------------------------------------------------------
(***************************************************************************)
(* Properties                                                              *)
(***************************************************************************)
\* Requests whose own execution is durable.
Acted == {r \in Requests : tx[r] = "done" /\ req[r].ran}

\* A key acts once: of all requests that carry it, over lost answers, retries
\* and deaths, at most one takes effect, and all that are told so are told the
\* same of the same operation.
KeyActsOnce == \A r, q \in Requests : (r # q /\ req[r].key = req[q].key /\ req[r].key # None) =>
  /\ ~({r, q} \subseteq Acted)
  /\ req[r].status = "ok" /\ req[q].status = "ok" => req[r].value = req[q].value /\ req[r].op = req[q].op

\* Whatever the row refers to is in the bucket, and whatever is in the bucket
\* was reserved first, also when the transaction that wrote it was rolled back
\* or its PUT arrived late.
ReferencedIsStored ==
  /\ Bodies(snap) \subseteq bucket
  /\ bucket \subseteq reserved
  /\ \A i \in Requests : uploads[i] # None => i \in reserved

\* A slot changes only for a request that knew what it replaced: a finalized
\* upload authorized against that version, with the body it declared, or a
\* removal that names it.
ReplacesWhatItSaw == [][\A t \in Types : snap'.doc[t] # snap.doc[t] =>
  \E r \in Requests : LET o == req[r].op IN
    /\ tx[r] = "commit" /\ tx'[r] = "done"
    /\ \/ /\ o.kind = "finalize" /\ snap'.doc[t] = r
          /\ snap.ticket[o.id].expected = snap.doc[t] /\ snap'.body[r] = snap.ticket[o.id].sha
       \/ o.kind = "remove" /\ snap'.doc[t] = None /\ o.id = snap.doc[t]]_vars

\* No accepted body is lost: every version is in its slot, or retired and held;
\* and an upload makes one version, whatever keys finalize it.
NothingIsLost ==
  LET versions == {r \in Acted : req[r].op.kind = "finalize"} IN
  /\ versions = Current(snap) \cup snap.retired /\ snap.retired = snap.held
  /\ Current(snap) \cap snap.retired = {}
  /\ \A v, w \in versions : v # w => req[v].op.id # req[w].op.id

\* Who is told ok, or handed a link or a body, has a durable effect: a receipt,
\* or for a read the audit row; who is refused has none.
OkIsDurable == \A r \in Requests :
  /\ req[r].status = "ok" =>
       IF req[r].key = None THEN r \in snap.audit
       ELSE snap.receipt[req[r].key] # None /\ snap.receipt[req[r].key].value = req[r].value
  /\ req[r].status = "refused" => tx[r] = "undone"
=============================================================================
