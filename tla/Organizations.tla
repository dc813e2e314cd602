--------------------------- MODULE Organizations ---------------------------
(***************************************************************************)
(* The organization tree and everything that hangs on it, as concurrent    *)
(* PostgreSQL transactions at READ COMMITTED: creating a sub-organization, *)
(* creating and removing stores, creating, changing and removing pay       *)
(* contracts, appointing an account manager, deleting an organization,     *)
(* granting and revoking roles.                                            *)
(*                                                                         *)
(* Every request is one transaction that runs a fixed list of statements   *)
(* (Plan).  A statement takes locks (Needs) and waits while another        *)
(* transaction holds a conflicting one; then it reads what is committed    *)
(* and either goes on or refuses (Passes).  The statements that write are  *)
(* folded into "commit": nobody sees a row before COMMIT, and what the     *)
(* rows conflict with is in Needs.  A transaction may fail at any          *)
(* statement and is then rolled back.                                      *)
(*                                                                         *)
(* Names, terms and dates are model values; the confirm token of the       *)
(* safe-write contract, which these operations share, is in SafeWrite.     *)
(* Left out: brand and mall references of a store (stores are created      *)
(* without one), and the other single-field writes of an organization,     *)
(* whose statements are those of Appoint.                                  *)
(***************************************************************************)
EXTENDS Integers, Sequences, FiniteSets

CONSTANTS
  Request,      \* transactions, one per HTTP request
  Operator,     \* the organization that operates the platform, root of the tree
  Company,      \* companies that exist at the start, children of Operator
  SubOrg,       \* ids of organizations still to be created
  Name,         \* organization names, lower-cased
  Store, Contract,  \* ids of stores and of pay contracts
  Period,       \* sets of days: the validity of a contract
  Person,       \* principals
  StartGrants,  \* what the table grants may hold at the start
  Unused, Removed,  \* a row that was never inserted; one that is soft-deleted
  None          \* no parent, no manager

Org == {Operator} \union Company \union SubOrg
Grant == [who: Person, org: Org, role: {"admin", "staff"}, scope: {"self", "subtree"}]
Pay == [company: Org, store: Store, period: Period]
\* An operation: the kind, who asks, the organization, the store, the row
\* it names and the new value.
Op(k, p, o, s, i, v) == [kind |-> k, by |-> p, org |-> o, store |-> s, item |-> i, value |-> v]
NoOp == Op("none", None, None, None, None, None)
Count == 0 .. Cardinality(Store \union Contract \union SubOrg) + 1

VARIABLES
  org,          \* id |-> [parent, name], or Unused: table organizations
  deleted,      \* table organization_deletions
  grants,       \* table grants
  store,        \* id |-> the organization of an active store, Unused or Removed
  pay,          \* id |-> the live contract, Unused or Removed
  manager,      \* table organization_account_managers
  managerLog, storeLog, payLog,  \* the audit rows that say before and after
  op, step, held, seen           \* per request: operation, next statement, locks, count read

db == <<org, deleted, grants, store, pay, manager, managerLog, storeLog, payLog>>
vars == <<db, op, step, held, seen>>

-----------------------------------------------------------------------------
(* What the statements read.                                               *)

Exists(o) == org[o] # Unused
Live(o) == Exists(o) /\ o \notin deleted
Children(o) == {c \in Org : Live(c) /\ org[c].parent = o}
StoresOf(o) == {s \in Store : store[s] = o}
PayAt(s) == {k \in Contract : pay[k] \in Pay /\ pay[k].store = s}
PayOf(o) == {k \in Contract : pay[k] \in Pay /\ pay[k].company = o}

Parents(S) == {org[o].parent : o \in {x \in S : Exists(x)}} \ {None}
\* The recursive query walks up from the organization; the tree is three deep.
Ancestors(o) == LET one == Parents({o}) IN one \union Parents(one) \union Parents(Parents(one))

GrantsOf(p) == {g \in grants : g.who = p}
Covers(p, o, roles) == \E g \in GrantsOf(p) :
  g.role \in roles /\ (g.org = o \/ (g.scope = "subtree" /\ g.org \in Ancestors(o)))
Writer == {"admin", "staff"}
\* The decision function each store is constructed with.
Decision(kind, p, o) ==
  CASE kind = "createOrg" -> \E g \in GrantsOf(p) :
         g.scope = "subtree" /\ g.role \in Writer /\ g.org \in {o} \union Ancestors(o)
    [] kind \in {"appoint", "deleteOrg"} -> o # Operator /\ Covers(p, o, {"admin"})
    [] OTHER -> o # Operator /\ Covers(p, o, Writer)
ParentAllowed(o) == o = Operator \/ org[o].parent \in {None, Operator}
Blocked(o) == Children(o) # {} \/ PayOf(o) # {} \/ StoresOf(o) # {} \/ \E g \in grants : g.org = o
Overlaps(x, y) == x \intersect y # {}

-----------------------------------------------------------------------------
(* The statements of each transaction and the locks they take.             *)

RevokePlan == <<"advisory", "rows", "commit">>
Plan(kind) ==
  CASE kind = "createOrg" -> <<"advisory", "org", "live", "grants", "names", "commit">>
    [] kind = "createStore" -> <<"advisory", "org", "live", "grants", "count", "commit">>
    [] kind = "removeStore" -> <<"advisory", "org", "live", "grants", "store", "used", "count", "commit">>
    [] kind = "createPay" -> <<"advisory", "org", "live", "grants", "pair", "overlap", "commit">>
    [] kind \in {"changePay", "removePay"} ->
         <<"advisory", "contract", "grants", "pair", "overlap", "commit">>
    [] kind = "appoint" -> <<"advisory", "org", "live", "grants", "eligible", "commit">>
    [] kind = "deleteOrg" -> <<"advisory", "org", "live", "grants", "blockers", "commit">>
    [] kind = "grant" -> <<"advisory", "widen", "org", "commit">>
    [] kind = "revoke" -> RevokePlan
    [] OTHER -> <<"commit">>

Key(g) == [who |-> g.who, org |-> g.org, role |-> g.role]
RowLocks(S, mode) == {[row |-> <<"grant", Key(g)>>, mode |-> mode] : g \in S}
\* Mutant: the lock of a write is its own row's or its author's.
AdvisoryKeyPerRow(o) == <<o.kind, o.by, o.store, o.item>>

\* The transaction-scoped advisory lock: one number per kind of write, and its subject.
AdvisoryKey(o) ==
  CASE o.kind = "createOrg" -> <<163, o.org>>
    [] o.kind \in {"createStore", "removeStore"} -> <<165, o.org>>
    [] o.kind = "createPay" -> <<317, o.org>>
    [] o.kind \in {"changePay", "removePay"} -> <<318, o.item>>
    [] o.kind = "deleteOrg" -> <<326, o.org>>
    [] o.kind = "appoint" -> <<336, o.org>>
    [] OTHER -> <<5959, o.item>>
\* Mutant: deletion shares the organization's row like everyone else.
OrgModeShared(kind) == IF kind = "grant" THEN "keyshare" ELSE "share"

\* Creation, stores, contracts and managers share the organization's row;
\* deletion takes it FOR UPDATE, and the foreign key of a new grant FOR KEY SHARE.
OrgMode(kind) == CASE kind = "deleteOrg" -> "update" [] kind = "grant" -> "keyshare" [] OTHER -> "share"
Staff(p, o) == [who |-> p, org |-> o, role |-> "staff", scope |-> "subtree"]

Widened(o) == {g \in GrantsOf(o.item) : g.role = "staff" /\ g.scope = "self" /\ g.org \in o.value}
Inserted(o) == {x \in o.value : ~\E g \in GrantsOf(o.item) : g.role = "staff" /\ g.org = x}
\* Mutant: grants are read without FOR SHARE.
GrantsUnlocked(p) == {}

\* SELECT ... FROM grants WHERE principal_id = p FOR SHARE
GrantsShared(p) == RowLocks(GrantsOf(p), "share")

\* Mutant: creations and changes of one contract id wait for each other.
PairOfContract(o) == <<5959, o.item>>

\* Creations, changes and removals for one candidate at one store.
Pair(o) == <<5959, o.store>>

\* LIMIT 1: one live contract that names the store, if there is one.
OneOf(S) == IF S = {} THEN {} ELSE {CHOOSE k \in S : TRUE}

Needs(o, what) ==
  CASE what = "advisory" -> {[row |-> <<"advisory", AdvisoryKey(o)>>, mode |-> "update"]}
    [] what = "org" -> {[row |-> <<"org", x>>, mode |-> OrgMode(o.kind)] :
                          x \in IF o.kind = "grant" THEN Inserted(o) ELSE {o.org}}
    [] what = "grants" -> GrantsShared(o.by)
    [] what = "eligible" -> GrantsShared(o.value.new)
    [] what = "widen" -> RowLocks(Widened(o), "nokey")
    [] what = "rows" -> RowLocks({g \in GrantsOf(o.item) : g.org = o.org}, "update")
    [] what = "store" -> {[row |-> <<"store", o.store>>, mode |-> "update"]}
    [] what = "used" -> {[row |-> <<"pay", k>>, mode |-> "share"] : k \in OneOf(PayAt(o.store))}
    [] what = "contract" -> {[row |-> <<"pay", o.item>>, mode |-> "update"]}
    [] what = "pair" -> {[row |-> <<"advisory", Pair(o)>>, mode |-> "update"]}
    [] OTHER -> {}

Conflicts(x, y) == LET m == {x, y} IN
  "update" \in m \/ ("nokey" \in m /\ m # {"nokey", "keyshare"})
Blocking(r, q, o, what) == q # r /\ \E n \in Needs(o, what), h \in held[q] :
  n.row = h.row /\ Conflicts(n.mode, h.mode)
Free(r, o, what) == \A q \in Request : ~Blocking(r, q, o, what)

\* What a statement must find for the transaction to go on.
Passes(o, what) ==
  CASE what = "org" -> o.kind # "grant" => Exists(o.org)
    [] what = "live" -> o.org \notin deleted
    [] what = "grants" -> Decision(o.kind, o.by, o.org) /\
         (o.kind \in {"changePay", "removePay"} => pay[o.item].period = o.value.was)
    [] what = "names" -> ParentAllowed(o.org) /\ \A c \in Children(o.org) : org[c].name # o.value
    [] what = "store" -> store[o.store] = o.org
    [] what = "used" -> PayAt(o.store) = {}
    [] what = "contract" -> pay[o.item] \in Pay
    [] what = "overlap" -> o.kind # "removePay" =>
         \A k \in PayAt(o.store) \ {o.item} : ~Overlaps(pay[k].period, o.value.period)
    [] what = "eligible" -> manager[o.org] = o.value.was /\
         (o.value.new = None \/ Covers(o.value.new, o.org, Writer))
    [] what = "blockers" -> ~Blocked(o.org)
    [] OTHER -> TRUE

-----------------------------------------------------------------------------
TypeOK ==
  /\ org \in [Org -> [parent: Org \union {None}, name: Name] \union {Unused}]
  /\ deleted \subseteq Org
  /\ grants \subseteq Grant /\ \A g, h \in grants : Key(g) = Key(h) => g = h
  /\ store \in [Store -> Org \union {Unused, Removed}]
  /\ pay \in [Contract -> Pay \union {Unused, Removed}]
  /\ manager \in [Org -> Person \union {None}]
  /\ step \in [Request -> 0 .. 9]
  /\ seen \in [Request -> Count]

\* Live organizations under one parent have different names, although two
\* creations may look for the name at the same time.
SiblingNamesDiffer == \A p \in Org : \A c, d \in Children(p) : c # d => org[c].name # org[d].name

\* A deployed platform: the operator and its companies, and any rows that
\* earlier requests have left.
Init ==
  /\ \E S \in SUBSET SubOrg, c \in Company, n \in Name : org =
       [o \in Org |-> CASE o = Operator -> [parent |-> None, name |-> n]
                      [] o \in Company -> [parent |-> Operator, name |-> n]
                      [] o \in S -> [parent |-> c, name |-> n]
                      [] OTHER -> Unused]
  /\ deleted = {} /\ SiblingNamesDiffer
  /\ grants \in StartGrants
  /\ store \in [Store -> Company \union {Unused}]
  /\ pay \in [Contract -> [company: Company, store: Store, period: Period] \union {Unused}]
  /\ \A k, l \in Contract : k # l /\ {pay[k], pay[l]} \subseteq Pay /\ pay[k].store = pay[l].store
                           => ~Overlaps(pay[k].period, pay[l].period)
  /\ manager = [o \in Org |-> None]
  /\ managerLog = [o \in Org |-> <<>>]
  /\ storeLog = [o \in Org |-> <<>>]
  /\ payLog = [s \in Store |-> <<>>]
  /\ op = [r \in Request |-> NoOp] /\ step = [r \in Request |-> 0]
  /\ held = [r \in Request |-> {}] /\ seen = [r \in Request |-> 0]

\* What a request may ask for.  The id of a new row is random, so any unused
\* one will do; the confirm of a change carries the value its preview read,
\* so "was" is what is committed when the request begins.
Fresh(table, kind) == OneOf({x \in DOMAIN table : table[x] = Unused /\ \A q \in Request :
  op[q].kind = kind => x \notin {op[q].item, op[q].store}})
Asks(r, x) == op' = [op EXCEPT ![r] = x]
AskedOf(r, p, o) ==
  \/ \E n \in Fresh(org, "createOrg"), m \in Name : Asks(r, Op("createOrg", p, o, None, n, m))
  \/ \E s \in Fresh(store, "createStore") : Asks(r, Op("createStore", p, o, s, None, None))
  \/ \E s \in Store : Asks(r, Op("removeStore", p, o, s, None, None))
  \/ \E s \in Store, k \in Fresh(pay, "createPay"), d \in Period :
       Asks(r, Op("createPay", p, o, s, k, [was |-> None, period |-> d]))
  \/ \E k \in PayOf(o), d \in Period :
       Asks(r, Op("changePay", p, o, pay[k].store, k, [was |-> pay[k].period, period |-> d]))
  \/ \E k \in PayOf(o) : Asks(r, Op("removePay", p, o, pay[k].store, k, [was |-> pay[k].period, period |-> {}]))
  \/ \E q \in Person \union {None} : Asks(r, Op("appoint", p, o, None, None, [was |-> manager[o], new |-> q]))
  \/ Asks(r, Op("deleteOrg", p, o, None, None, None))
  \/ \E S \in SUBSET {x \in Org : Exists(x)} \ {{}} : Asks(r, Op("grant", None, None, None, p, S))
  \/ Asks(r, Op("revoke", None, o, None, p, None))

Next1(r) == Plan(op[r].kind)[step[r]]
Close(r) == /\ op' = [op EXCEPT ![r] = NoOp] /\ step' = [step EXCEPT ![r] = 9]
            /\ held' = [held EXCEPT ![r] = {}] /\ seen' = [seen EXCEPT ![r] = 0]

Begin(r) == /\ step[r] = 0
            /\ \E p \in Person, o \in Org : AskedOf(r, p, o)
            /\ step' = [step EXCEPT ![r] = 1]
            /\ UNCHANGED <<db, held, seen>>

Reading(o, what) ==
  CASE what = "count" -> Cardinality(StoresOf(o.org))
    [] what = "overlap" -> Cardinality(PayAt(o.store))
    [] OTHER -> 0

\* One statement: it has its locks, keeps them and finds what it needs.
Run(r) == LET o == op[r] what == Next1(r) IN
  /\ step[r] \in 1 .. Len(Plan(o.kind)) - 1
  /\ Free(r, o, what) /\ Passes(o, what)
  /\ held' = [held EXCEPT ![r] = @ \union Needs(o, what)]
  /\ seen' = [seen EXCEPT ![r] = IF what \in {"count", "overlap"} THEN Reading(o, what) ELSE @]
  /\ step' = [step EXCEPT ![r] = @ + 1]
  /\ UNCHANGED <<db, op>>

\* The statement finds something else: not_found, name_taken, store_in_use,
\* state_changed ...  The transaction is rolled back and its locks freed.
Refuse(r) == LET o == op[r] what == Next1(r) IN
  /\ step[r] \in 1 .. Len(Plan(o.kind)) - 1
  /\ Free(r, o, what) /\ ~Passes(o, what)
  /\ Close(r) /\ UNCHANGED db

\* The transaction fails: a lost connection, or the victim of a deadlock.
Fail(r) == step[r] \in 1 .. 8 /\ Close(r) /\ UNCHANGED db

-----------------------------------------------------------------------------
(* COMMIT, for each kind: the written rows and the audit row appear.       *)

Committing(r, kinds) == step[r] \in 1 .. 8 /\ op[r].kind \in kinds /\ Next1(r) = "commit"
Logged(log, k, before, after) == [log EXCEPT ![k] = Append(@, <<before, after>>)]

CreateOrg(r) == LET o == op[r] IN
  /\ Committing(r, {"createOrg"}) /\ Close(r)
  /\ org' = [org EXCEPT ![o.item] = [parent |-> o.org, name |-> o.value]]
  /\ UNCHANGED <<deleted, grants, store, pay, manager, managerLog, storeLog, payLog>>
CreateStore(r) == LET o == op[r] IN
  /\ Committing(r, {"createStore"}) /\ Close(r)
  /\ store' = [store EXCEPT ![o.store] = o.org]
  /\ storeLog' = Logged(storeLog, o.org, seen[r], seen[r] + 1)
  /\ UNCHANGED <<org, deleted, grants, pay, manager, managerLog, payLog>>
RemoveStore(r) == LET o == op[r] IN
  /\ Committing(r, {"removeStore"}) /\ Close(r)
  /\ store' = [store EXCEPT ![o.store] = Removed]
  /\ storeLog' = Logged(storeLog, o.org, seen[r], seen[r] - 1)
  /\ UNCHANGED <<org, deleted, grants, pay, manager, managerLog, payLog>>
WritePay(r) == LET o == op[r] IN
  /\ Committing(r, {"createPay", "changePay"}) /\ Close(r)
  /\ pay' = [pay EXCEPT ![o.item] = [company |-> o.org, store |-> o.store, period |-> o.value.period]]
  /\ payLog' = Logged(payLog, o.store, seen[r], IF o.kind = "createPay" THEN seen[r] + 1 ELSE seen[r])
  /\ UNCHANGED <<org, deleted, grants, store, manager, managerLog, storeLog>>
RemovePay(r) == LET o == op[r] IN
  /\ Committing(r, {"removePay"}) /\ Close(r)
  /\ pay' = [pay EXCEPT ![o.item] = Removed]
  /\ payLog' = Logged(payLog, o.store, seen[r], seen[r] - 1)
  /\ UNCHANGED <<org, deleted, grants, store, manager, managerLog, storeLog>>
Appoint(r) == LET o == op[r] IN
  /\ Committing(r, {"appoint"}) /\ Close(r)
  /\ manager' = [manager EXCEPT ![o.org] = o.value.new]
  /\ managerLog' = IF o.value.new = o.value.was THEN managerLog
                   ELSE Logged(managerLog, o.org, o.value.was, o.value.new)
  /\ UNCHANGED <<org, deleted, grants, store, pay, storeLog, payLog>>
DeleteOrg(r) ==
  /\ Committing(r, {"deleteOrg"}) /\ Close(r)
  /\ deleted' = deleted \union {op[r].org}
  /\ UNCHANGED <<org, grants, store, pay, manager, managerLog, storeLog, payLog>>
GrantRoles(r) == LET o == op[r] IN
  /\ Committing(r, {"grant"}) /\ Close(r)
  /\ grants' = (grants \ Widened(o)) \union {Staff(o.item, x) : x \in o.value}
  /\ UNCHANGED <<org, deleted, store, pay, manager, managerLog, storeLog, payLog>>
RevokeRoles(r) == LET o == op[r] IN
  /\ Committing(r, {"revoke"}) /\ Close(r)
  /\ grants' = {g \in grants : ~(g.who = o.item /\ g.org = o.org)}
  /\ UNCHANGED <<org, deleted, store, pay, manager, managerLog, storeLog, payLog>>

Commit(r) == CreateOrg(r) \/ CreateStore(r) \/ RemoveStore(r) \/ WritePay(r) \/ RemovePay(r)
             \/ Appoint(r) \/ DeleteOrg(r) \/ GrantRoles(r) \/ RevokeRoles(r)

Next == \E r \in Request :
  Begin(r) \/ Run(r) \/ Refuse(r) \/ Fail(r) \/ Commit(r)

Spec == Init /\ [][Next]_vars

-----------------------------------------------------------------------------
\* A deletion strands nothing: a deleted organization has no live child, no
\* live pay contract and no active store, however the deletion's count races
\* with the transactions that add them (the pairing of FOR UPDATE with FOR
\* SHARE and of organizationLive's second statement).
DeletedIsEmpty == \A o \in deleted : Children(o) = {} /\ PayOf(o) = {} /\ StoresOf(o) = {}

\* Two live contracts at one store never overlap (one candidate), although
\* the check and the write are separate statements of concurrent creations,
\* changes and removals.
NoOverlap == \A k, l \in Contract :
  k # l /\ {pay[k], pay[l]} \subseteq Pay /\ pay[k].store = pay[l].store
  => ~Overlaps(pay[k].period, pay[l].period)

\* The audit rows of a record tell one story: each row begins where the
\* previous one ended and the last one ends at what the table holds.
Told(log, now) == log # <<>> =>
  /\ \A i \in 1 .. Len(log) - 1 : log[i + 1][1] = log[i][2]
  /\ log[Len(log)][2] = now
AuditTellsTheStory ==
  /\ \A o \in Org : Told(storeLog[o], Cardinality(StoresOf(o))) /\ Told(managerLog[o], manager[o])
  /\ \A s \in Store : Told(payLog[s], Cardinality(PayAt(s)))

\* A write takes effect only while whoever asked for it still has the grant,
\* and a manager is appointed only while the appointed can read the
\* organization: a revocation waits for it or is seen by it.
ActsWithAuthority == [][\A r \in Request : LET o == op[r] IN
  /\ Commit(r) /\ o.by # None => Decision(o.kind, o.by, o.org)
  /\ Appoint(r) /\ o.value.new # None => Covers(o.value.new, o.org, Writer)]_vars
=============================================================================
