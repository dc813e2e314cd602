----------------------------- MODULE MCPlatform -----------------------------
(***************************************************************************)
(* The organization tree and a person's documents, two parts that share no *)
(* state side by side: a behaviour is one of either.                       *)
(*                                                                         *)
(* Organizations: one operator, one company, two ids for new               *)
(* sub-organizations, an administrator of the tree and a member who may be *)
(* granted, widened and revoked; contracts are for the days 1 to 3.        *)
(* Documents: one slot and four requests, for example two uploads          *)
(* authorized against one version and the finalization of each, or a PUT,  *)
(* a finalization and its retry.                                           *)
(***************************************************************************)
EXTENDS CandidateDocuments, Sequences, TLC

CONSTANTS
  Request, Operator, Company, SubOrg, Name, Store, Contract, Period, Person, StartGrants, Unused, Removed,
  op0, c1, n1, n2, s1, s2, k1, k2, adm, mem, d1, d2, d3, d4, a, b
VARIABLES
  part, org, deleted, grants, store, pay, manager, managerLog, storeLog, payLog, op, step, held, seen

Tree == INSTANCE Organizations
ASSUME TreeAssumption ==
  /\ Unused # Removed /\ {Unused, Removed, None} \cap Tree!Org = {}
  /\ Unused \notin Tree!Pay /\ Removed \notin Tree!Pay
  /\ IsFiniteSet(Store) /\ IsFiniteSet(Contract)
tree == <<org, deleted, grants, store, pay, manager, managerLog, storeLog, payLog, op, step, held, seen>>

MCPeriod == {{1, 2}, {2, 3}}
MCStartGrants ==
  LET all == [who |-> adm, org |-> op0, role |-> "admin", scope |-> "subtree"]
      one == [who |-> mem, org |-> c1, role |-> "staff", scope |-> "self"]
  IN {{all}, {all, one}}
\* The start rows, up to the choice of ids, of names and of days.
TreeInit == /\ Tree!Init /\ org[n2] = Unused /\ store[s2] = Unused /\ pay[k2] = Unused
            /\ pay[k1] # Unused => pay[k1].period = {1, 2} /\ org[n1] = Unused
AllInit ==
  /\ part \in {"tree", "documents"} /\ TreeInit /\ Init
  /\ part # "tree" => pay[k1] = Unused /\ org[n1] = Unused /\ store[s1] = Unused /\ Cardinality(grants) = 1
AllNext ==
  \/ part = "tree" /\ Tree!Next /\ UNCHANGED <<part, vars>>
  \/ part = "documents" /\ Next /\ UNCHANGED <<part, tree>>
AllSpec == AllInit /\ [][AllNext]_<<part, tree, vars>>

\* Only creations name the operator: it has no stores, contracts or manager.
\* Contracts are for the first store; the second one is there to be counted.
TreeBound == \A r \in Request : LET o == op'[r] IN
  /\ o.org = op0 => o.kind \in {"createOrg", "revoke"}
  /\ o.kind = "createPay" => o.store = s1
\* The requests are alike, so they are sent in one order; and since the row's
\* lock admits one at a time, each is sent when the one before it has sent its
\* COMMIT or has ended: sending only fixes what it asks, which it may ask
\* later as well.  One request fails, or one declares the MD5 of another body
\* or brings one with the second request; the session ends under the lock, a
\* list comes first, and only the second request may use a key for something
\* else.
Turn == <<d1, d2, d3, d4>>
DocumentsBound ==
  /\ Cardinality({i \in 1..4 : req'[Turn[i]].pc \in {"waiting", "locked", "writing"}}) <= 1
  /\ Cardinality({i \in 1..4 : req'[Turn[i]].status = "unavailable"})
     + Cardinality({i \in 1..4 : req'[Turn[i]].op # None /\ ~({req'[Turn[i]].op.sha, req'[Turn[i]].op.md5} \subseteq {a, None})}) <= 1
  /\ live' # live => \E i \in 1..4 : req[Turn[i]].pc = "locked"
  /\ \A i \in 1..4 : LET r == req'[Turn[i]] IN r.pc = "waiting" =>
       /\ r.op.kind = "list" => i = 1
       /\ r.op.sha = b => i = 2 /\ r.op.kind = "put"
       /\ \A j \in 1..(i - 1) : LET q == req'[Turn[j]] IN
            q.pc # "idle" /\ (r.key # None /\ r.key = q.key => i = 2 \/ r.op = q.op)
MCBound == (part = "tree" => TreeBound) /\ (part = "documents" => DocumentsBound)
\* Transactions are interchangeable.
MCSymmetry == Permutations(Request)

\* Every variable of the parts has its type.
AllTypesOK == TypeOK /\ Tree!TypeOK
\* Organizations: nothing live is left in a deleted organization.
DeletedIsEmpty == part = "tree" => Tree!DeletedIsEmpty
\* Organizations: contracts of one candidate and store never overlap.
NoOverlap == part = "tree" => Tree!NoOverlap
\* Organizations: the audit rows tell every change, one after the other.
AuditTellsTheStory == part = "tree" => Tree!AuditTellsTheStory
\* Organizations: what is committed was authorized when it was.
ActsWithAuthority == Tree!ActsWithAuthority
=============================================================================
