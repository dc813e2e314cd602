------------------------ MODULE OrganizationsProofs ------------------------
(***************************************************************************)
(* The organization tree: no deletion strands a row, contracts never       *)
(* overlap, audit rows tell every change and nothing is written without    *)
(* the grant it rests on, for any organizations, people and requests.      *)
(***************************************************************************)
EXTENDS MCPlatform, Integers, TLAPS, FiniteSetTheorems

-----------------------------------------------------------------------------
(* The inductive invariant                                                 *)

\* The statements that a transaction has behind it.
Passed(r, what) == step[r] < 9 /\ \E i \in 1 .. 8 : i < step[r] /\ Tree!Plan(op[r].kind)[i] = what
Sited == {"createOrg", "createStore", "removeStore", "createPay", "appoint", "deleteOrg"}
OnPay == {"changePay", "removePay"}
Kinds == Sited \cup OnPay \cup {"grant", "revoke"}

TreeTypes ==
  /\ org \in [Tree!Org -> [parent : Tree!Org \cup {None}, name : Name] \cup {Unused}]
  /\ deleted \subseteq Tree!Org
  /\ store \in [Store -> Tree!Org \cup {Unused, Removed}]
  /\ pay \in [Contract -> Tree!Pay \cup {Unused, Removed}]
  /\ manager \in [Tree!Org -> Person \cup {None}]
  /\ managerLog \in [Tree!Org -> Seq((Person \cup {None}) \X (Person \cup {None}))]
  /\ storeLog \in [Tree!Org -> Seq(Int \X Int)] /\ payLog \in [Store -> Seq(Int \X Int)]
  /\ DOMAIN op = Request /\ step \in [Request -> 0 .. 9] /\ DOMAIN held = Request /\ seen \in [Request -> Nat]

\* What a transaction was asked.
Sensible(o) ==
  /\ o.kind \in {"grant", "revoke"} => o.by = None
  /\ o.kind \in Sited \cup OnPay => o.org \in Tree!Org
  /\ o.kind \in {"createStore", "removeStore", "createPay"} \cup OnPay => o.store \in Store
  /\ o.kind = "createOrg" => o.item \in Tree!Org /\ o.value \in Name
  /\ o.kind \in {"createPay"} \cup OnPay => o.item \in Contract
  /\ o.kind \in {"createPay", "changePay"} => o.value.period \in Period
  /\ o.kind = "appoint" => o.value.was \in Person \cup {None} /\ o.value.new \in Person \cup {None}
Asked(r) == LET o == op[r] IN
  /\ o.kind \in Kinds \cup {"none"} /\ (o.kind = "none") = (step[r] \in {0, 9})
  /\ o.kind # "none" => step[r] <= Len(Tree!Plan(o.kind))
  /\ Sensible(o)

\* Nobody else writes a new row's id, and a contract keeps its company and its
\* store.
OwnRows(o) ==
  /\ o.kind = "createOrg" => org[o.item] = Unused
  /\ o.kind = "createStore" => store[o.store] = Unused
  /\ o.kind = "createPay" => pay[o.item] = Unused
  /\ o.kind \in OnPay => pay[o.item] # Unused
  /\ o.kind \in OnPay /\ pay[o.item] \in Tree!Pay => pay[o.item].company = o.org /\ pay[o.item].store = o.store
RowsAreOwn(r) == OwnRows(op[r])
IdsDiffer == \A r, q \in Request : r # q /\ op[r].kind = op[q].kind =>
  /\ op[r].kind \in {"createOrg", "createPay"} => op[r].item # op[q].item
  /\ op[r].kind = "createStore" => op[r].store # op[q].store

\* The locks of what it has behind it.
Compatible == \A r, q \in Request : r # q => \A n \in held[r], h \in held[q] :
  n.row = h.row => ~Tree!Conflicts(n.mode, h.mode)
Locked(r) == \A what \in {"advisory", "store", "contract", "pair"} :
  Passed(r, what) => Tree!Needs(op[r], what) \subseteq held[r]
OrgLocked(r) == op[r].kind \in Sited /\ Passed(r, "org") => Tree!Needs(op[r], "org") \subseteq held[r]
GrantsLocked(r) ==
  /\ Passed(r, "widen") => Tree!Needs(op[r], "widen") \subseteq held[r]
  /\ Passed(r, "rows") => Tree!Needs(op[r], "rows") \subseteq held[r]

\* What it found still holds.
Found(r) == LET o == op[r] IN
  /\ Passed(r, "live") => o.org \notin deleted
  /\ Passed(r, "store") => store[o.store] = o.org
  /\ Passed(r, "contract") => pay[o.item] \in Tree!Pay
  /\ Passed(r, "overlap") => seen[r] = Cardinality(Tree!PayAt(o.store))
  /\ Passed(r, "overlap") /\ o.kind # "removePay" => 
       \A k \in Tree!PayAt(o.store) \ {o.item} : ~Tree!Overlaps(pay[k].period, o.value.period)
  /\ Passed(r, "count") => seen[r] = Cardinality(Tree!StoresOf(o.org))
  /\ Passed(r, "eligible") => manager[o.org] = o.value.was
  /\ Passed(r, "blockers") => Tree!Children(o.org) = {} /\ Tree!PayOf(o.org) = {} /\ Tree!StoresOf(o.org) = {}

\* The grant it relies on, whose row it shares.
Grounds(kind, o, g) ==
  IF kind = "createOrg" THEN g.scope = "subtree" /\ g.role \in Tree!Writer /\ g.org \in {o} \cup Tree!Ancestors(o)
  ELSE /\ g.role \in (IF kind \in {"appoint", "deleteOrg"} THEN {"admin"} ELSE Tree!Writer)
       /\ g.org = o \/ (g.scope = "subtree" /\ g.org \in Tree!Ancestors(o))
Backed(r, kind, p) == \E g \in grants : 
  /\ g.who = p /\ [row |-> <<"grant", Tree!Key(g)>>, mode |-> "share"] \in held[r] /\ Grounds(kind, op[r].org, g)
Authorized(r) == LET o == op[r] IN
  /\ Passed(r, "grants") => (o.kind = "createOrg" \/ o.org # Operator) /\ Backed(r, o.kind, o.by)
  /\ Passed(r, "eligible") /\ o.value.new # None => Backed(r, "manage", o.value.new)

Holds(r) == Asked(r) /\ RowsAreOwn(r) /\ Locked(r) /\ OrgLocked(r) /\ GrantsLocked(r) /\ Found(r) /\ Authorized(r)
TreeInv ==
  /\ TreeTypes /\ IdsDiffer /\ Compatible /\ \A r \in Request : Holds(r)
  /\ Tree!DeletedIsEmpty /\ Tree!NoOverlap /\ Tree!AuditTellsTheStory

-----------------------------------------------------------------------------
(* The plans                                                               *)

LEMMA SameCardinality == \A S : Tree!Cardinality(S) = Cardinality(S)
  BY DEF Tree!Cardinality, Cardinality

\* The statements of each plan.
LEMMA CreateOrgPlan == LET p == Tree!Plan("createOrg") IN
  /\ Len(p) = 6 /\ p[1] = "advisory" /\ p[2] = "org" /\ p[3] = "live" /\ p[4] = "grants" /\ p[5] = "names"
  /\ p[6] = "commit"
  BY DEF Tree!Plan
LEMMA CreateStorePlan == LET p == Tree!Plan("createStore") IN
  /\ Len(p) = 6 /\ p[1] = "advisory" /\ p[2] = "org" /\ p[3] = "live" /\ p[4] = "grants" /\ p[5] = "count"
  /\ p[6] = "commit"
  BY DEF Tree!Plan
LEMMA RemoveStorePlan == LET p == Tree!Plan("removeStore") IN
  /\ Len(p) = 8 /\ p[1] = "advisory" /\ p[2] = "org" /\ p[3] = "live" /\ p[4] = "grants" /\ p[5] = "store"
  /\ p[6] = "used" /\ p[7] = "count" /\ p[8] = "commit"
  BY DEF Tree!Plan
LEMMA CreatePayPlan == LET p == Tree!Plan("createPay") IN
  /\ Len(p) = 7 /\ p[1] = "advisory" /\ p[2] = "org" /\ p[3] = "live" /\ p[4] = "grants" /\ p[5] = "pair"
  /\ p[6] = "overlap" /\ p[7] = "commit"
  BY DEF Tree!Plan
LEMMA ChangePayPlan == LET p == Tree!Plan("changePay") IN
  /\ Len(p) = 6 /\ p[1] = "advisory" /\ p[2] = "contract" /\ p[3] = "grants" /\ p[4] = "pair"
  /\ p[5] = "overlap" /\ p[6] = "commit"
  BY DEF Tree!Plan
LEMMA RemovePayPlan == LET p == Tree!Plan("removePay") IN
  /\ Len(p) = 6 /\ p[1] = "advisory" /\ p[2] = "contract" /\ p[3] = "grants" /\ p[4] = "pair"
  /\ p[5] = "overlap" /\ p[6] = "commit"
  BY DEF Tree!Plan
LEMMA AppointPlan == LET p == Tree!Plan("appoint") IN
  /\ Len(p) = 6 /\ p[1] = "advisory" /\ p[2] = "org" /\ p[3] = "live" /\ p[4] = "grants" /\ p[5] = "eligible"
  /\ p[6] = "commit"
  BY DEF Tree!Plan
LEMMA DeleteOrgPlan == LET p == Tree!Plan("deleteOrg") IN
  /\ Len(p) = 6 /\ p[1] = "advisory" /\ p[2] = "org" /\ p[3] = "live" /\ p[4] = "grants" /\ p[5] = "blockers"
  /\ p[6] = "commit"
  BY DEF Tree!Plan
LEMMA GrantPlan == LET p == Tree!Plan("grant") IN
  /\ Len(p) = 4 /\ p[1] = "advisory" /\ p[2] = "widen" /\ p[3] = "org" /\ p[4] = "commit"
  BY DEF Tree!Plan
LEMMA RevokePlan == LET p == Tree!Plan("revoke") IN
  /\ Len(p) = 3 /\ p[1] = "advisory" /\ p[2] = "rows" /\ p[3] = "commit"
  BY DEF Tree!Plan, Tree!RevokePlan
LEMMA NonePlan == LET p == Tree!Plan("none") IN
  /\ Len(p) = 1 /\ p[1] = "commit"
  BY DEF Tree!Plan

\* A plan has three to eight statements.
Sized(kind, n) ==
  \/ kind \in {"createOrg", "createStore", "appoint", "deleteOrg"} \cup OnPay /\ n = 6
  \/ kind = "removeStore" /\ n = 8
  \/ kind = "createPay" /\ n = 7
  \/ kind = "grant" /\ n = 4
  \/ kind = "revoke" /\ n = 3
LEMMA Lengths ==
  ASSUME NEW kind \in Kinds
  PROVE  /\ Sized(kind, Len(Tree!Plan(kind)))
         /\ Len(Tree!Plan(kind)) \in 3 .. 8
<1>1. CASE kind = "createOrg"
  <2>1. Len(Tree!Plan(kind)) = 6
    BY <1>1, CreateOrgPlan
  <2>. QED  BY <1>1, <2>1 DEF Sized, OnPay
<1>2. CASE kind = "createStore"
  <2>1. Len(Tree!Plan(kind)) = 6
    BY <1>2, CreateStorePlan
  <2>. QED  BY <1>2, <2>1 DEF Sized, OnPay
<1>3. CASE kind = "removeStore"
  <2>1. Len(Tree!Plan(kind)) = 8
    BY <1>3, RemoveStorePlan
  <2>. QED  BY <1>3, <2>1 DEF Sized, OnPay
<1>4. CASE kind = "createPay"
  <2>1. Len(Tree!Plan(kind)) = 7
    BY <1>4, CreatePayPlan
  <2>. QED  BY <1>4, <2>1 DEF Sized, OnPay
<1>5. CASE kind = "changePay"
  <2>1. Len(Tree!Plan(kind)) = 6
    BY <1>5, ChangePayPlan
  <2>. QED  BY <1>5, <2>1 DEF Sized, OnPay
<1>6. CASE kind = "removePay"
  <2>1. Len(Tree!Plan(kind)) = 6
    BY <1>6, RemovePayPlan
  <2>. QED  BY <1>6, <2>1 DEF Sized, OnPay
<1>7. CASE kind = "appoint"
  <2>1. Len(Tree!Plan(kind)) = 6
    BY <1>7, AppointPlan
  <2>. QED  BY <1>7, <2>1 DEF Sized, OnPay
<1>8. CASE kind = "deleteOrg"
  <2>1. Len(Tree!Plan(kind)) = 6
    BY <1>8, DeleteOrgPlan
  <2>. QED  BY <1>8, <2>1 DEF Sized, OnPay
<1>9. CASE kind = "grant"
  <2>1. Len(Tree!Plan(kind)) = 4
    BY <1>9, GrantPlan
  <2>. QED  BY <1>9, <2>1 DEF Sized, OnPay
<1>10. CASE kind = "revoke"
  <2>1. Len(Tree!Plan(kind)) = 3
    BY <1>10, RevokePlan
  <2>. QED  BY <1>10, <2>1 DEF Sized, OnPay
<1>. QED  BY <1>1, <1>2, <1>3, <1>4, <1>5, <1>6, <1>7, <1>8, <1>9, <1>10 DEF Kinds, Sited, OnPay

\* The statements that a plan has.
LEMMA Plans ==
  ASSUME NEW kind \in Kinds
  PROVE  LET p == Tree!Plan(kind) IN
         /\ p[1] = "advisory"
         /\ kind \in Sited => p[2] = "org" /\ p[3] = "live" /\ p[4] = "grants"
         /\ kind = "removeStore" => p[5] = "store" /\ p[7] = "count"
         /\ kind = "createStore" => p[5] = "count"
         /\ kind = "createPay" => p[5] = "pair" /\ p[6] = "overlap"
         /\ kind \in OnPay => p[2] = "contract" /\ p[3] = "grants" /\ p[4] = "pair" /\ p[5] = "overlap"
         /\ kind = "appoint" => p[5] = "eligible"
         /\ kind = "deleteOrg" => p[5] = "blockers"
         /\ kind = "grant" => p[2] = "widen"
         /\ kind = "revoke" => p[2] = "rows"
<1>. USE DEF Sited, OnPay
<1>1. CASE kind = "createOrg"  BY <1>1, CreateOrgPlan
<1>2. CASE kind = "createStore"  BY <1>2, CreateStorePlan
<1>3. CASE kind = "removeStore"  BY <1>3, RemoveStorePlan
<1>4. CASE kind = "createPay"  BY <1>4, CreatePayPlan
<1>5. CASE kind = "changePay"  BY <1>5, ChangePayPlan
<1>6. CASE kind = "removePay"  BY <1>6, RemovePayPlan
<1>7. CASE kind = "appoint"  BY <1>7, AppointPlan
<1>8. CASE kind = "deleteOrg"  BY <1>8, DeleteOrgPlan
<1>9. CASE kind = "grant"  BY <1>9, GrantPlan
<1>10. CASE kind = "revoke"  BY <1>10, RevokePlan
<1>. QED  BY <1>1, <1>2, <1>3, <1>4, <1>5, <1>6, <1>7, <1>8, <1>9, <1>10 DEF Kinds

\* Which plans have a statement, and what comes before it.
Preceded(kind, i) == LET p == Tree!Plan(kind) IN
  /\ p[i] = "live" => kind \in Sited /\ i = 3 /\ p[2] = "org"
  /\ p[i] = "store" => kind = "removeStore" /\ i = 5
  /\ p[i] = "contract" => kind \in OnPay /\ i = 2
  /\ p[i] = "overlap" => kind \in {"createPay"} \cup OnPay /\ i > 2 /\ p[i - 1] = "pair"
  /\ p[i] = "count" => kind \in {"createStore", "removeStore"} /\ i > 4
  /\ p[i] = "eligible" => kind = "appoint" /\ i = 5
  /\ p[i] = "blockers" => kind = "deleteOrg" /\ i = 5 /\ p[2] = "org"
  /\ p[i] = "grants" => kind \in Sited \cup OnPay /\ i > 2
  /\ p[i] = "widen" => kind = "grant" /\ i = 2
  /\ p[i] = "rows" => kind = "revoke" /\ i = 2
LEMMA Order ==
  ASSUME NEW kind \in Kinds, NEW i \in 1 .. 8, i <= Len(Tree!Plan(kind))
  PROVE  Preceded(kind, i)
<1>. USE DEF Preceded, Sited, OnPay
<1>0. i = 1 \/ i = 2 \/ i = 3 \/ i = 4 \/ i = 5 \/ i = 6 \/ i = 7 \/ i = 8
  OBVIOUS
<1>1. CASE kind = "createOrg"  BY <1>0, <1>1, CreateOrgPlan
<1>2. CASE kind = "createStore"  BY <1>0, <1>2, CreateStorePlan
<1>3. CASE kind = "removeStore"  BY <1>0, <1>3, RemoveStorePlan
<1>4. CASE kind = "createPay"  BY <1>0, <1>4, CreatePayPlan
<1>5. CASE kind = "changePay"  BY <1>0, <1>5, ChangePayPlan
<1>6. CASE kind = "removePay"  BY <1>0, <1>6, RemovePayPlan
<1>7. CASE kind = "appoint"  BY <1>0, <1>7, AppointPlan
<1>8. CASE kind = "deleteOrg"  BY <1>0, <1>8, DeleteOrgPlan
<1>9. CASE kind = "grant"  BY <1>0, <1>9, GrantPlan
<1>10. CASE kind = "revoke"  BY <1>0, <1>10, RevokePlan
<1>. QED  BY <1>1, <1>2, <1>3, <1>4, <1>5, <1>6, <1>7, <1>8, <1>9, <1>10 DEF Kinds

\* The last statement, and no other, is the COMMIT.
LEMMA Last ==
  ASSUME NEW kind \in Kinds, NEW i \in 1 .. 8
  PROVE  /\ i < Len(Tree!Plan(kind)) => Tree!Plan(kind)[i] # "commit"
         /\ Tree!Plan(kind)[Len(Tree!Plan(kind))] = "commit"
<1>0. i = 1 \/ i = 2 \/ i = 3 \/ i = 4 \/ i = 5 \/ i = 6 \/ i = 7 \/ i = 8
  OBVIOUS
<1>1. CASE kind = "createOrg"
  <2>1. Len(Tree!Plan(kind)) = 6
    BY <1>1, CreateOrgPlan
  <2>. QED  BY <1>0, <1>1, <2>1, CreateOrgPlan
<1>2. CASE kind = "createStore"
  <2>1. Len(Tree!Plan(kind)) = 6
    BY <1>2, CreateStorePlan
  <2>. QED  BY <1>0, <1>2, <2>1, CreateStorePlan
<1>3. CASE kind = "removeStore"
  <2>1. Len(Tree!Plan(kind)) = 8
    BY <1>3, RemoveStorePlan
  <2>. QED  BY <1>0, <1>3, <2>1, RemoveStorePlan
<1>4. CASE kind = "createPay"
  <2>1. Len(Tree!Plan(kind)) = 7
    BY <1>4, CreatePayPlan
  <2>. QED  BY <1>0, <1>4, <2>1, CreatePayPlan
<1>5. CASE kind = "changePay"
  <2>1. Len(Tree!Plan(kind)) = 6
    BY <1>5, ChangePayPlan
  <2>. QED  BY <1>0, <1>5, <2>1, ChangePayPlan
<1>6. CASE kind = "removePay"
  <2>1. Len(Tree!Plan(kind)) = 6
    BY <1>6, RemovePayPlan
  <2>. QED  BY <1>0, <1>6, <2>1, RemovePayPlan
<1>7. CASE kind = "appoint"
  <2>1. Len(Tree!Plan(kind)) = 6
    BY <1>7, AppointPlan
  <2>. QED  BY <1>0, <1>7, <2>1, AppointPlan
<1>8. CASE kind = "deleteOrg"
  <2>1. Len(Tree!Plan(kind)) = 6
    BY <1>8, DeleteOrgPlan
  <2>. QED  BY <1>0, <1>8, <2>1, DeleteOrgPlan
<1>9. CASE kind = "grant"
  <2>1. Len(Tree!Plan(kind)) = 4
    BY <1>9, GrantPlan
  <2>. QED  BY <1>0, <1>9, <2>1, GrantPlan
<1>10. CASE kind = "revoke"
  <2>1. Len(Tree!Plan(kind)) = 3
    BY <1>10, RevokePlan
  <2>. QED  BY <1>0, <1>10, <2>1, RevokePlan
<1>. QED  BY <1>1, <1>2, <1>3, <1>4, <1>5, <1>6, <1>7, <1>8, <1>9, <1>10 DEF Kinds, Sited, OnPay

\* Which transactions have a statement behind them, and what else they have.
LEMMA Before ==
  ASSUME NEW r \in Request, Asked(r), step[r] \in 0 .. 9
  PROVE  /\ Passed(r, "live") => op[r].kind \in Sited /\ Passed(r, "org")
         /\ Passed(r, "store") => op[r].kind = "removeStore" /\ Passed(r, "live")
         /\ Passed(r, "contract") => op[r].kind \in OnPay
         /\ Passed(r, "overlap") => op[r].kind \in {"createPay"} \cup OnPay /\ Passed(r, "pair")
         /\ Passed(r, "count") => op[r].kind \in {"createStore", "removeStore"} /\ Passed(r, "advisory")
         /\ Passed(r, "eligible") => op[r].kind = "appoint" /\ Passed(r, "advisory")
         /\ Passed(r, "blockers") => op[r].kind = "deleteOrg" /\ Passed(r, "org")
         /\ Passed(r, "grants") => op[r].kind \in Sited \cup OnPay
         /\ Passed(r, "widen") => op[r].kind = "grant" /\ Passed(r, "advisory")
         /\ Passed(r, "rows") => op[r].kind = "revoke" /\ Passed(r, "advisory")
<1>. DEFINE k == op[r].kind  p == Tree!Plan(k)
<1>1. CASE k \in Kinds
  <2>. PICK n \in 3 .. 8 : n = Len(p)
    BY <1>1, Lengths
  <2>1. \A i \in 1 .. 8 : i <= n => Preceded(k, i)
    BY <1>1, Order
  <2>2. step[r] \in 0 .. 8 /\ step[r] <= n /\ p[1] = "advisory"
    <3>1. step[r] <= n
      BY <1>1 DEF Asked, Kinds, Sited, OnPay
    <3>2. p[1] = "advisory"
      BY <1>1, Plans
    <3>3. step[r] \in 0 .. 8
      BY ONLY <3>1, step[r] \in 0 .. 9, n \in 3 .. 8, SMT
    <3>. QED  BY <3>1, <3>2, <3>3
  <2>3. \A what : Passed(r, what) <=> \E i \in 1 .. 8 : i < step[r] /\ p[i] = what
    BY <2>2 DEF Passed
  <2>. HIDE DEF p
  <2>4. ASSUME NEW i \in 1 .. 8, i < step[r]
        PROVE  /\ Passed(r, p[i])
               /\ \A j \in 1 .. 8 : j < i => Passed(r, p[j])
    BY <2>3, <2>4, <2>2
  <2>5. ASSUME NEW i \in 1 .. 8, i < step[r]
        PROVE  /\ p[i] = "live" => k \in Sited /\ Passed(r, "org")
               /\ p[i] = "store" => k = "removeStore" /\ Passed(r, "live")
               /\ p[i] = "contract" => k \in OnPay
               /\ p[i] = "overlap" => k \in {"createPay"} \cup OnPay /\ Passed(r, "pair")
               /\ p[i] = "count" => k \in {"createStore", "removeStore"} /\ Passed(r, "advisory")
               /\ p[i] = "eligible" => k = "appoint" /\ Passed(r, "advisory")
               /\ p[i] = "blockers" => k = "deleteOrg" /\ Passed(r, "org")
               /\ p[i] = "grants" => k \in Sited \cup OnPay
               /\ p[i] = "widen" => k = "grant" /\ Passed(r, "advisory")
               /\ p[i] = "rows" => k = "revoke" /\ Passed(r, "advisory")
    <3>1. Preceded(k, i)
      BY <2>1, <2>2, <2>5
    <3>2. \A j \in 1 .. 8 : j < i => Passed(r, p[j])
      BY <2>4, <2>5
    <3>3. i > 1 => Passed(r, "advisory")
      BY <3>2, <2>2
    <3>4. i > 2 => Passed(r, p[2]) /\ Passed(r, p[i - 1])
      BY <3>2
    <3>5. i > 3 => Passed(r, p[3])
      BY <3>2
    <3>6. k = "removeStore" => p[3] = "live"
      BY <1>1, Plans DEF p, Sited
    <3>. QED  BY <3>1, <3>3, <3>4, <3>5, <3>6 DEF Preceded, p
  <2>. QED  BY <2>3, <2>5
<1>2. CASE k = "none"
  <2>1. ~ \E what : Passed(r, what)
    BY <1>2 DEF Asked, Passed
  <2>. QED  BY <2>1
<1>. QED  BY <1>1, <1>2 DEF Asked

\* What a transaction that commits has behind it.
LEMMA Complete ==
  ASSUME NEW r \in Request, Asked(r), step[r] \in 0 .. 9, NEW K, Tree!Committing(r, K)
  PROVE  LET k == op[r].kind IN
         /\ k \in Kinds \cap K
         /\ Passed(r, "advisory")
         /\ k \in Sited => Passed(r, "org") /\ Passed(r, "live") /\ Passed(r, "grants")
         /\ k = "createStore" => Passed(r, "count")
         /\ k = "removeStore" => Passed(r, "store") /\ Passed(r, "count")
         /\ k = "createPay" => Passed(r, "pair") /\ Passed(r, "overlap")
         /\ k \in OnPay => Passed(r, "contract") /\ Passed(r, "grants") /\ Passed(r, "pair") /\ Passed(r, "overlap")
         /\ k = "appoint" => Passed(r, "eligible")
         /\ k = "deleteOrg" => Passed(r, "blockers")
         /\ k = "grant" => Passed(r, "widen")
         /\ k = "revoke" => Passed(r, "rows")
<1>. DEFINE k == op[r].kind  p == Tree!Plan(k)
<1>1. k \in Kinds \cap K /\ step[r] \in 1 .. 8
  BY DEF Tree!Committing, Asked
<1>0. PICK n : n = Len(p)
  OBVIOUS
<1>2. Sized(k, n) /\ n \in 3 .. 8
  BY <1>0, <1>1, Lengths
<1>3. step[r] = n
  <2>1. step[r] <= n
    BY <1>0, <1>1 DEF Asked, Kinds, Sited, OnPay
  <2>2. p[step[r]] = "commit"
    BY DEF Tree!Committing, Tree!Next1
  <2>3. step[r] < n => p[step[r]] # "commit"
    BY <1>0, <1>1, Last
  <2>. HIDE DEF p
  <2>. QED  BY <1>1, <1>2, <2>1, <2>2, <2>3
<1>4. \A i \in 1 .. 8 : i < n => Passed(r, p[i])
  <2>. HIDE DEF p
  <2>1. \A i \in 1 .. 8 : i < n => step[r] < 9 /\ i < step[r]
    BY <1>2, <1>3
  <2>. USE DEF p
  <2>. QED  BY <2>1 DEF Passed
<1>19. p[1] = "advisory"
  BY <1>1, Plans
<1>. HIDE DEF p
<1>5. Passed(r, "advisory") /\ Passed(r, p[2])
  BY <1>2, <1>4, <1>19
<1>6. n > 3 => Passed(r, p[3])
  BY <1>2, <1>4
<1>7. n > 5 => Passed(r, p[4]) /\ Passed(r, p[5])
  BY <1>2, <1>4
<1>8. n > 6 => Passed(r, p[6])
  BY <1>2, <1>4
<1>9. n > 7 => Passed(r, p[7])
  BY <1>2, <1>4
<1>. USE DEF p
<1>10. k \in Sited \cup OnPay => n > 5
  BY <1>2 DEF Sized, Sited, OnPay
<1>11. k = "createPay" => n > 6
  BY <1>2 DEF Sized, OnPay
<1>12. k = "removeStore" => n > 7
  BY <1>2 DEF Sized, OnPay
<1>13. /\ k \in Sited => p[2] = "org" /\ p[3] = "live" /\ p[4] = "grants"
       /\ k = "removeStore" => p[5] = "store" /\ p[7] = "count"
       /\ k = "createStore" => p[5] = "count"
       /\ k = "createPay" => p[5] = "pair" /\ p[6] = "overlap"
       /\ k \in OnPay => p[2] = "contract" /\ p[3] = "grants" /\ p[4] = "pair" /\ p[5] = "overlap"
       /\ k = "appoint" => p[5] = "eligible"
       /\ k = "deleteOrg" => p[5] = "blockers"
       /\ k = "grant" => p[2] = "widen"
       /\ k = "revoke" => p[2] = "rows"
  BY <1>1, Plans
<1>14. {"removeStore", "createStore", "createPay", "appoint", "deleteOrg"} \subseteq Sited
  BY DEF Sited
<1>15. n > 5 => n > 3
  BY <1>2
<1>. HIDE DEF p
<1>16. k \in Sited => Passed(r, "org") /\ Passed(r, "live") /\ Passed(r, "grants") /\ Passed(r, p[5])
  BY <1>5, <1>6, <1>7, <1>10, <1>13, <1>15
<1>17. k \in OnPay => Passed(r, "contract") /\ Passed(r, "grants") /\ Passed(r, "pair") /\ Passed(r, "overlap")
  BY <1>5, <1>6, <1>7, <1>10, <1>13, <1>15
<1>18. k = "createStore" \/ k = "appoint" \/ k = "deleteOrg" => k \in Sited
  BY <1>14
<1>. QED  BY <1>1, <1>5, <1>8, <1>9, <1>11, <1>12, <1>13, <1>14, <1>16, <1>17, <1>18

-----------------------------------------------------------------------------
(* What a step leaves of the other transactions, and of its own            *)

\* A transaction that moves on has one more statement behind it.
LEMMA MovesOn ==
  ASSUME TreeTypes, NEW r \in Request, Asked(r), Tree!Run(r)
  PROVE  /\ op[r].kind \in Kinds /\ Asked(r)' /\ step[r] \in 1 .. 7 /\ step'[r] \in 0 .. 9
         /\ \A what : Passed(r, what)' <=> Passed(r, what) \/ what = Tree!Next1(r)
         /\ Tree!Next1(r) = "overlap" => op[r].kind \in {"createPay"} \cup OnPay
         /\ Tree!Next1(r) = "count" => op[r].kind \in {"createStore", "removeStore"}
<1>. DEFINE k == op[r].kind  p == Tree!Plan(k)
<1>1. step[r] \in 1 .. Len(p) - 1 /\ op' = op /\ step'[r] = step[r] + 1
  BY DEF Tree!Run, TreeTypes
<1>2. k \in Kinds
  <2>1. PICK n : n = Len(p)
    OBVIOUS
  <2>2. k = "none" => n = 1
    BY <2>1, NonePlan
  <2>3. step[r] \in 1 .. n - 1
    BY <1>1, <2>1
  <2>4. k # "none"
    BY ONLY <2>2, <2>3, SMT
  <2>. QED  BY <2>4 DEF Asked
<1>0. PICK n : n = Len(p)
  OBVIOUS
<1>3. step[r] \in 1 .. 7 /\ step[r] + 1 <= n
  <2>1. n \in 3 .. 8
    BY <1>0, <1>2, Lengths
  <2>2. step[r] \in 1 .. n - 1
    BY <1>0, <1>1
  <2>. QED  BY ONLY <2>1, <2>2, SMT
<1>4. \A what : Passed(r, what) <=> \E i \in 1 .. 8 : i < step[r] /\ p[i] = what
  BY <1>3 DEF Passed
<1>5. \A what : Passed(r, what)' <=> \E i \in 1 .. 8 : i < step[r] + 1 /\ p[i] = what
  BY <1>1, <1>3 DEF Passed
<1>6. Tree!Next1(r) = p[step[r]]
  BY DEF Tree!Next1
<1>7. \A i \in 1 .. 8 : i < step[r] + 1 <=> i < step[r] \/ i = step[r]
  BY <1>3
<1>8. Asked(r)'
  BY <1>0, <1>1, <1>2, <1>3 DEF Asked, Kinds, Sited, OnPay
<1>9. Preceded(k, step[r])
  <2>1. step[r] \in 1 .. 8 /\ step[r] <= n
    <3>1. step[r] \in Int /\ n \in Int
      BY <1>0, <1>2, <1>3, Lengths
    <3>. QED  BY ONLY <1>3, <3>1, SMT
  <2>. QED  BY <1>0, <1>2, <2>1, Order
<1>. HIDE DEF p
<1>10. /\ p[step[r]] = "overlap" => k \in {"createPay"} \cup OnPay
       /\ p[step[r]] = "count" => k \in {"createStore", "removeStore"}
  BY <1>9 DEF Preceded, p
<1>. QED  BY <1>1, <1>2, <1>3, <1>4, <1>5, <1>6, <1>7, <1>8, <1>10

\* What does not take part in a step.
Still(q) == op'[q] = op[q] /\ step'[q] = step[q] /\ held'[q] = held[q] /\ seen'[q] = seen[q]

LEMMA StillPassed ==
  ASSUME NEW q \in Request, Still(q)
  PROVE  \A what : Passed(q, what)' <=> Passed(q, what)
  BY DEF Passed, Still

\* The locks that do not depend on the tables.
LEMMA FixedNeeds ==
  ASSUME NEW o
  PROVE  /\ Tree!Needs(o, "advisory") = {[row |-> <<"advisory", Tree!AdvisoryKey(o)>>, mode |-> "update"]}
         /\ Tree!Needs(o, "store") = {[row |-> <<"store", o.store>>, mode |-> "update"]}
         /\ Tree!Needs(o, "contract") = {[row |-> <<"pay", o.item>>, mode |-> "update"]}
         /\ Tree!Needs(o, "pair") = {[row |-> <<"advisory", Tree!Pair(o)>>, mode |-> "update"]}
         /\ o.kind # "grant" => Tree!Needs(o, "org") = {[row |-> <<"org", o.org>>, mode |-> Tree!OrgMode(o.kind)]}
<1>1. Tree!Needs(o, "advisory") = {[row |-> <<"advisory", Tree!AdvisoryKey(o)>>, mode |-> "update"]}
  BY DEF Tree!Needs
<1>2. Tree!Needs(o, "store") = {[row |-> <<"store", o.store>>, mode |-> "update"]}
  BY DEF Tree!Needs
<1>3. Tree!Needs(o, "contract") = {[row |-> <<"pay", o.item>>, mode |-> "update"]}
  BY DEF Tree!Needs
<1>4. Tree!Needs(o, "pair") = {[row |-> <<"advisory", Tree!Pair(o)>>, mode |-> "update"]}
  BY DEF Tree!Needs
<1>5. ASSUME o.kind # "grant"
      PROVE  Tree!Needs(o, "org") = {[row |-> <<"org", o.org>>, mode |-> Tree!OrgMode(o.kind)]}
  BY <1>5 DEF Tree!Needs
<1>. QED  BY <1>1, <1>2, <1>3, <1>4, <1>5

LEMMA StillLocked ==
  ASSUME NEW q \in Request, Still(q), Asked(q), Locked(q), OrgLocked(q)
  PROVE  Asked(q)' /\ Locked(q)' /\ OrgLocked(q)'
<1>1. op'[q] = op[q] /\ step'[q] = step[q] /\ held'[q] = held[q]
  BY DEF Still
<1>2. \A what \in {"advisory", "store", "contract", "pair"} : Tree!Needs(op[q], what)' = Tree!Needs(op[q], what)
  BY <1>1 DEF Tree!Needs
<1>3. op[q].kind # "grant" => Tree!Needs(op[q], "org")' = Tree!Needs(op[q], "org")
  BY <1>1 DEF Tree!Needs
<1>4. Asked(q)'
  BY <1>1 DEF Asked
<1>5. Locked(q)'
  BY <1>1, <1>2, StillPassed DEF Locked
<1>6. OrgLocked(q)'
  BY <1>1, <1>3, StillPassed DEF OrgLocked, Sited
<1>. QED  BY <1>4, <1>5, <1>6

\* Where the tables stay as they are.
LEMMA StillHolds ==
  ASSUME NEW q \in Request, Still(q), Holds(q), UNCHANGED Tree!db
  PROVE  Holds(q)'
<1>1. /\ org' = org /\ deleted' = deleted /\ grants' = grants /\ store' = store
      /\ pay' = pay /\ manager' = manager
  BY DEF Tree!db
<1>2. op'[q] = op[q] /\ step'[q] = step[q] /\ held'[q] = held[q] /\ seen'[q] = seen[q]
  BY DEF Still
<1>3. Asked(q)' /\ Locked(q)' /\ OrgLocked(q)'
  BY StillLocked DEF Holds
<1>4. RowsAreOwn(q)'
  BY <1>1, <1>2 DEF Holds, RowsAreOwn, OwnRows
<1>5. GrantsLocked(q)'
  BY <1>1, <1>2, StillPassed DEF Holds, GrantsLocked, Tree!Needs, Tree!Widened, Tree!GrantsOf
<1>6. Found(q)'
  BY <1>1, <1>2, StillPassed
     DEF Holds, Found, Tree!PayAt, Tree!PayOf, Tree!StoresOf, Tree!Children, Tree!Live, Tree!Exists
<1>7. Authorized(q)'
  <2>1. \A o : Tree!Ancestors(o)' = Tree!Ancestors(o)
    BY <1>1 DEF Tree!Ancestors, Tree!Parents, Tree!Exists
  <2>2. \A kind, o, g : Grounds(kind, o, g)' <=> Grounds(kind, o, g)
    BY <2>1 DEF Grounds
  <2>3. \A kind, p : Backed(q, kind, p)' <=> Backed(q, kind, p)
    BY <1>1, <1>2, <2>2 DEF Backed
  <2>. QED  BY <1>1, <1>2, <2>3, StillPassed DEF Holds, Authorized
<1>. QED  BY <1>3, <1>4, <1>5, <1>6, <1>7 DEF Holds

\* A transaction that ends is nobody's any more.
LEMMA Closes ==
  ASSUME TreeInv, NEW r \in Request, Tree!Close(r)
  PROVE  /\ DOMAIN op' = Request /\ step' \in [Request -> 0 .. 9] /\ DOMAIN held' = Request /\ seen' \in [Request -> Nat]
         /\ IdsDiffer' /\ Compatible' /\ Holds(r)'
         /\ \A q \in Request \ {r} : Still(q) /\ Holds(q) /\ Asked(q)' /\ Locked(q)' /\ OrgLocked(q)'
<1>1. /\ op'[r] = Tree!NoOp /\ step'[r] = 9 /\ held'[r] = {}
      /\ DOMAIN op' = Request /\ step' \in [Request -> 0 .. 9] /\ DOMAIN held' = Request /\ seen' \in [Request -> Nat]
  BY DEF Tree!Close, TreeInv, TreeTypes
<1>2. \A q \in Request \ {r} : Still(q)
  BY DEF Tree!Close, TreeInv, TreeTypes, Still
<1>3. \A q \in Request \ {r} : Holds(q) /\ Asked(q)' /\ Locked(q)' /\ OrgLocked(q)'
  BY <1>2, StillLocked DEF TreeInv, Holds
<1>4. op'[r].kind = "none"
  BY <1>1 DEF Tree!NoOp, Tree!Op
<1>5. \A what : ~Passed(r, what)'
  BY <1>1 DEF Passed
<1>6. Holds(r)'
  <2>1. Asked(r)' /\ RowsAreOwn(r)'
    BY <1>1, <1>4 DEF Asked, Sensible, RowsAreOwn, OwnRows, Sited, OnPay
  <2>2. Locked(r)' /\ OrgLocked(r)' /\ GrantsLocked(r)' /\ Found(r)' /\ Authorized(r)'
    BY <1>5 DEF Locked, OrgLocked, GrantsLocked, Found, Authorized
  <2>. QED  BY <2>1, <2>2 DEF Holds
<1>7. IdsDiffer'
  BY <1>2, <1>4 DEF TreeInv, IdsDiffer, Still
<1>8. Compatible'
  BY <1>1, <1>2 DEF TreeInv, Compatible, Still
<1>. QED  BY <1>1, <1>2, <1>3, <1>6, <1>7, <1>8

-----------------------------------------------------------------------------
(* Two transactions that lock one row                                      *)

LEMMA LocksApart ==
  ASSUME Compatible, NEW r \in Request, NEW q \in Request, r # q, NEW x, NEW m, NEW n,
         [row |-> x, mode |-> m] \in held[r], [row |-> x, mode |-> n] \in held[q]
  PROVE  /\ m # "update" /\ n # "update"
         /\ ~(m = "nokey" /\ n = "share") /\ ~(m = "share" /\ n = "nokey")
  BY DEF Compatible, Tree!Conflicts

\* A deletion is alone with its organization.
LEMMA DeletesAlone ==
  ASSUME Compatible, NEW r \in Request, NEW q \in Request, r # q, OrgLocked(r), OrgLocked(q),
         Passed(r, "org"), Passed(q, "org"), op[r].kind \in Sited, op[q].kind = "deleteOrg"
  PROVE  op[r].org # op[q].org
<1>1. op[r].kind # "grant" /\ op[q].kind \in Sited
  BY DEF Sited
<1>2. [row |-> <<"org", op[r].org>>, mode |-> Tree!OrgMode(op[r].kind)] \in held[r]
  BY <1>1, FixedNeeds DEF OrgLocked
<1>3. [row |-> <<"org", op[q].org>>, mode |-> "update"] \in held[q]
  <2>1. Tree!OrgMode("deleteOrg") = "update"
    BY DEF Tree!OrgMode
  <2>. QED  BY <1>1, <2>1, FixedNeeds DEF OrgLocked
<1>. QED  BY <1>2, <1>3, LocksApart

\* Writes of one kind wait for each other, and so do those of a contract, of a
\* store and of a candidate at a store.
LEMMA WritesAlone ==
  ASSUME Compatible, NEW r \in Request, NEW q \in Request, r # q, Locked(r), Locked(q)
  PROVE  /\ Passed(r, "advisory") /\ Passed(q, "advisory") => Tree!AdvisoryKey(op[r]) # Tree!AdvisoryKey(op[q])
         /\ Passed(r, "pair") /\ Passed(q, "pair") => op[r].store # op[q].store
         /\ Passed(r, "contract") /\ Passed(q, "contract") => op[r].item # op[q].item
         /\ Passed(r, "store") /\ Passed(q, "store") => op[r].store # op[q].store
<1>1. \A what \in {"advisory", "store", "contract", "pair"} : Passed(r, what) => Tree!Needs(op[r], what) \subseteq held[r]
  BY DEF Locked
<1>2. \A what \in {"advisory", "store", "contract", "pair"} : Passed(q, what) => Tree!Needs(op[q], what) \subseteq held[q]
  BY DEF Locked
<1>3. ASSUME Passed(r, "advisory"), Passed(q, "advisory") PROVE Tree!AdvisoryKey(op[r]) # Tree!AdvisoryKey(op[q])
  <2>1. [row |-> <<"advisory", Tree!AdvisoryKey(op[r])>>, mode |-> "update"] \in held[r]
    BY <1>1, <1>3, FixedNeeds
  <2>2. [row |-> <<"advisory", Tree!AdvisoryKey(op[q])>>, mode |-> "update"] \in held[q]
    BY <1>2, <1>3, FixedNeeds
  <2>. QED  BY <2>1, <2>2, LocksApart
<1>4. Passed(r, "pair") /\ Passed(q, "pair") => op[r].store # op[q].store
  <2>1. Passed(r, "pair") /\ Passed(q, "pair") => Tree!Pair(op[r]) # Tree!Pair(op[q])
    BY <1>1, <1>2, FixedNeeds, LocksApart
  <2>2. op[r].store = op[q].store => Tree!Pair(op[r]) = Tree!Pair(op[q])
    BY DEF Tree!Pair
  <2>. QED  BY <2>1, <2>2
<1>5. ASSUME Passed(r, "contract"), Passed(q, "contract") PROVE op[r].item # op[q].item
  <2>1. [row |-> <<"pay", op[r].item>>, mode |-> "update"] \in held[r]
    BY <1>1, <1>5, FixedNeeds
  <2>2. [row |-> <<"pay", op[q].item>>, mode |-> "update"] \in held[q]
    BY <1>2, <1>5, FixedNeeds
  <2>. QED  BY <2>1, <2>2, LocksApart
<1>6. ASSUME Passed(r, "store"), Passed(q, "store") PROVE op[r].store # op[q].store
  <2>1. [row |-> <<"store", op[r].store>>, mode |-> "update"] \in held[r]
    BY <1>1, <1>6, FixedNeeds
  <2>2. [row |-> <<"store", op[q].store>>, mode |-> "update"] \in held[q]
    BY <1>2, <1>6, FixedNeeds
  <2>. QED  BY <2>1, <2>2, LocksApart
<1>. QED  BY <1>3, <1>4, <1>5, <1>6

-----------------------------------------------------------------------------
(* A transaction begins                                                    *)

LEMMA FreshIs ==
  ASSUME NEW table, NEW kind, NEW x \in Tree!Fresh(table, kind)
  PROVE  /\ x \in DOMAIN table /\ table[x] = Unused
         /\ \A q \in Request : op[q].kind = kind => x # op[q].item /\ x # op[q].store
<1>. DEFINE S == {y \in DOMAIN table : table[y] = Unused /\ \A q \in Request :
                    op[q].kind = kind => y \notin {op[q].item, op[q].store}}
<1>1. x \in Tree!OneOf(S)
  BY DEF Tree!Fresh
<1>2. x \in S
  <2>. HIDE DEF S
  <2>. QED  BY <1>1 DEF Tree!OneOf
<1>. QED  BY <1>2

\* A new row's id is asked for by nobody else.
FreshFor(o) == \A q \in Request : op[q].kind = o.kind =>
  /\ o.kind \in {"createOrg", "createPay"} => op[q].item # o.item
  /\ o.kind = "createStore" => op[q].store # o.store
LEMMA OpsAre ==
  ASSUME TreeTypes, NEW r \in Request, NEW p \in Person, NEW o \in Tree!Org, Tree!AskedOf(r, p, o)
  PROVE  \E x : /\ x.kind \in Kinds /\ Sensible(x) /\ OwnRows(x) /\ FreshFor(x)
               /\ op' = [op EXCEPT ![r] = x]
<1>. DEFINE Good(x) == x.kind \in Kinds /\ Sensible(x) /\ OwnRows(x) /\ FreshFor(x)
<1>. USE DEF Tree!Op, Kinds, Sited, OnPay, Sensible, OwnRows, FreshFor
<1>0. /\ DOMAIN org = Tree!Org /\ DOMAIN store = Store /\ DOMAIN pay = Contract
      /\ manager[o] \in Person \cup {None}
      /\ \A c \in Contract : pay[c] \in Tree!Pay => pay[c].store \in Store
  BY DEF TreeTypes, Tree!Pay
<1>1. ASSUME NEW n \in Tree!Fresh(org, "createOrg"), NEW m \in Name
      PROVE  Good(Tree!Op("createOrg", p, o, None, n, m))
  BY <1>0, FreshIs
<1>2. ASSUME NEW s \in Tree!Fresh(store, "createStore")
      PROVE  Good(Tree!Op("createStore", p, o, s, None, None))
  BY <1>0, FreshIs
<1>3. ASSUME NEW s \in Store
      PROVE  Good(Tree!Op("removeStore", p, o, s, None, None))
  OBVIOUS
<1>4. ASSUME NEW s \in Store, NEW k \in Tree!Fresh(pay, "createPay"), NEW d \in Period
      PROVE  Good(Tree!Op("createPay", p, o, s, k, [was |-> None, period |-> d]))
  BY <1>0, FreshIs
<1>5. ASSUME NEW k \in Tree!PayOf(o), NEW d \in Period
      PROVE  Good(Tree!Op("changePay", p, o, pay[k].store, k, [was |-> pay[k].period, period |-> d]))
  BY <1>0, TreeAssumption DEF Tree!PayOf
<1>6. ASSUME NEW k \in Tree!PayOf(o)
      PROVE  Good(Tree!Op("removePay", p, o, pay[k].store, k, [was |-> pay[k].period, period |-> {}]))
  BY <1>0, TreeAssumption DEF Tree!PayOf
<1>7. ASSUME NEW q \in Person \cup {None}
      PROVE  Good(Tree!Op("appoint", p, o, None, None, [was |-> manager[o], new |-> q]))
  BY <1>0
<1>8. Good(Tree!Op("deleteOrg", p, o, None, None, None))
  OBVIOUS
<1>9. ASSUME NEW S \in SUBSET {y \in Tree!Org : Tree!Exists(y)}
      PROVE  Good(Tree!Op("grant", None, None, None, p, S))
  OBVIOUS
<1>10. Good(Tree!Op("revoke", None, o, None, p, None))
  OBVIOUS
<1>. HIDE DEF Good, Tree!Op
<1>11. \E x : Good(x) /\ op' = [op EXCEPT ![r] = x]
  BY <1>1, <1>2, <1>3, <1>4, <1>5, <1>6, <1>7, <1>8, <1>9, <1>10, Zenon DEF Tree!AskedOf, Tree!Asks
<1>. QED  BY <1>11 DEF Good

LEMMA BeginPreserves == ASSUME TreeInv, NEW r \in Request, Tree!Begin(r) PROVE TreeInv'
<1>1. PICK p \in Person, o \in Tree!Org : Tree!AskedOf(r, p, o)
  BY DEF Tree!Begin
<1>2. PICK x : /\ x.kind \in Kinds /\ Sensible(x) /\ OwnRows(x) /\ FreshFor(x)
               /\ op' = [op EXCEPT ![r] = x]
  BY <1>1, OpsAre DEF TreeInv
<1>3. x.kind \in Kinds /\ Sensible(x) /\ OwnRows(x) /\ FreshFor(x)
  BY <1>2
<1>4. step' = [step EXCEPT ![r] = 1] /\ UNCHANGED <<Tree!db, held, seen>>
  BY DEF Tree!Begin
<1>5. op'[r] = x /\ step'[r] = 1
  BY <1>2, <1>4 DEF TreeInv, TreeTypes
<1>6. \A q \in Request \ {r} : Still(q)
  BY <1>2, <1>4 DEF TreeInv, TreeTypes, Still
<1>7. \A q \in Request \ {r} : Holds(q)'
  BY <1>4, <1>6, StillHolds DEF TreeInv
<1>8. \A what : ~Passed(r, what)'
  BY <1>5 DEF Passed
<1>9. /\ org' = org /\ deleted' = deleted /\ grants' = grants /\ store' = store /\ pay' = pay /\ manager' = manager
      /\ managerLog' = managerLog /\ storeLog' = storeLog /\ payLog' = payLog /\ held' = held /\ seen' = seen
  BY <1>4 DEF Tree!db
<1>10. Holds(r)'
  <2>1. Asked(r)'
    <3>1. PICK n : n = Len(Tree!Plan(x.kind))
      OBVIOUS
    <3>2. n \in 3 .. 8
      BY <3>1, <1>3, Lengths
    <3>3. 1 <= n
      BY ONLY <3>2, SMT
    <3>4. x.kind # "none"
      BY <1>3 DEF Kinds, Sited, OnPay
    <3>. QED  BY <1>3, <1>5, <3>1, <3>3, <3>4 DEF Asked
  <2>2. RowsAreOwn(r)'
    BY <1>3, <1>5, <1>9 DEF RowsAreOwn, OwnRows
  <2>3. Locked(r)' /\ OrgLocked(r)' /\ GrantsLocked(r)' /\ Found(r)' /\ Authorized(r)'
    BY <1>8 DEF Locked, OrgLocked, GrantsLocked, Found, Authorized
  <2>. QED  BY <2>1, <2>2, <2>3 DEF Holds
<1>11. IdsDiffer'
  BY <1>3, <1>5, <1>6 DEF TreeInv, IdsDiffer, FreshFor, Still
<1>12. Compatible'
  BY <1>9 DEF TreeInv, Compatible
<1>13. TreeTypes'
  BY <1>2, <1>4, <1>9 DEF TreeInv, TreeTypes
<1>14. Tree!DeletedIsEmpty' /\ Tree!NoOverlap' /\ Tree!AuditTellsTheStory'
  BY <1>9 DEF TreeInv, Tree!DeletedIsEmpty, Tree!NoOverlap, Tree!AuditTellsTheStory, Tree!Children, Tree!Live,
     Tree!Exists, Tree!PayOf, Tree!StoresOf, Tree!PayAt
<1>. QED  BY <1>7, <1>10, <1>11, <1>12, <1>13, <1>14 DEF TreeInv

LEMMA CloseOnlyPreserves ==
  ASSUME TreeInv, NEW r \in Request, Tree!Close(r), UNCHANGED Tree!db
  PROVE  TreeInv'
<1>1. /\ org' = org /\ deleted' = deleted /\ grants' = grants /\ store' = store /\ pay' = pay /\ manager' = manager
      /\ managerLog' = managerLog /\ storeLog' = storeLog /\ payLog' = payLog
  BY DEF Tree!db
<1>2. \A q \in Request \ {r} : Holds(q)'
  BY Closes, StillHolds
<1>3. TreeTypes'
  BY <1>1, Closes DEF TreeInv, TreeTypes
<1>4. Tree!DeletedIsEmpty' /\ Tree!NoOverlap' /\ Tree!AuditTellsTheStory'
  BY <1>1 DEF TreeInv, Tree!DeletedIsEmpty, Tree!NoOverlap, Tree!AuditTellsTheStory, Tree!Children, Tree!Live,
     Tree!Exists, Tree!PayOf, Tree!StoresOf, Tree!PayAt
<1>. QED  BY <1>2, <1>3, <1>4, Closes DEF TreeInv

-----------------------------------------------------------------------------
(* A statement: its locks are kept, and what it found is so                *)

\* The locks that a statement takes, and those of the ones before.
LEMMA RunLocks ==
  ASSUME TreeInv, NEW r \in Request, Tree!Run(r)
  PROVE  Locked(r)' /\ OrgLocked(r)' /\ GrantsLocked(r)' /\ Compatible'
<1>. DEFINE what == Tree!Next1(r)
<1>1. Asked(r) /\ Locked(r) /\ OrgLocked(r) /\ GrantsLocked(r)
  BY DEF TreeInv, Holds
<1>2. \A w : Passed(r, w)' <=> Passed(r, w) \/ w = what
  BY <1>1, MovesOn DEF TreeInv
<1>3. /\ op' = op /\ held'[r] = held[r] \cup Tree!Needs(op[r], what)
      /\ \A q \in Request \ {r} : held'[q] = held[q]
  BY DEF TreeInv, TreeTypes, Tree!Run
<1>4. \A w : Tree!Needs(op[r], w)' = Tree!Needs(op[r], w)
  <2>1. UNCHANGED <<Tree!db, op>>
    BY DEF Tree!Run
  <2>. QED  BY <2>1 DEF Tree!db, Tree!Needs, Tree!Inserted, Tree!GrantsShared, Tree!Widened, Tree!GrantsOf, Tree!PayAt
<1>5. \A q \in Request \ {r} : \A n \in Tree!Needs(op[r], what), h \in held[q] :
        n.row = h.row => ~Tree!Conflicts(n.mode, h.mode)
  BY DEF Tree!Run, Tree!Free, Tree!Blocking
<1>. HIDE DEF what
<1>6. Locked(r)' /\ OrgLocked(r)' /\ GrantsLocked(r)'
  BY <1>1, <1>2, <1>3, <1>4 DEF Locked, OrgLocked, GrantsLocked
<1>7. \A x, y : Tree!Conflicts(x, y) = Tree!Conflicts(y, x)
  <2>1. \A x, y : {x, y} = {y, x}
    OBVIOUS
  <2>. QED  BY <2>1 DEF Tree!Conflicts
<1>8. Compatible'
  <2>. SUFFICES ASSUME NEW p \in Request, NEW q \in Request, p # q, NEW n \in held'[p], NEW h \in held'[q], n.row = h.row
       PROVE  ~Tree!Conflicts(n.mode, h.mode)
    BY DEF Compatible
  <2>1. CASE n \in held[p] /\ h \in held[q]
    BY <2>1 DEF TreeInv, Compatible
  <2>2. CASE n \notin held[p]
    BY <2>2, <1>3, <1>5
  <2>3. CASE h \notin held[q]
    <3>1. q = r /\ p # r /\ h \in Tree!Needs(op[r], what) /\ n \in held[p]
      BY <2>3, <1>3
    <3>2. ~Tree!Conflicts(h.mode, n.mode)
      BY <3>1, <1>5
    <3>. QED  BY <3>2, <1>7
  <2>. QED  BY <2>1, <2>2, <2>3
<1>. QED  BY <1>6, <1>8

\* A decision rests on a grant.
LEMMA DecisionsRest ==
  ASSUME NEW kind, NEW p, NEW o
  PROVE  /\ Tree!Decision(kind, p, o) <=>
              (kind = "createOrg" \/ o # Operator) /\ \E g \in Tree!GrantsOf(p) : Grounds(kind, o, g)
         /\ Tree!Covers(p, o, Tree!Writer) <=> \E g \in Tree!GrantsOf(p) : Grounds("manage", o, g)
<1>1. CASE kind = "createOrg"
  BY <1>1 DEF Tree!Decision, Grounds, Tree!Covers
<1>2. CASE kind \in {"appoint", "deleteOrg"}
  BY <1>2 DEF Tree!Decision, Grounds, Tree!Covers
<1>3. CASE kind \notin {"createOrg", "appoint", "deleteOrg"}
  BY <1>3 DEF Tree!Decision, Grounds, Tree!Covers
<1>4. Tree!Covers(p, o, Tree!Writer) <=> \E g \in Tree!GrantsOf(p) : Grounds("manage", o, g)
  BY DEF Grounds, Tree!Covers
<1>. QED  BY <1>1, <1>2, <1>3, <1>4

LEMMA RunFinds ==
  ASSUME TreeInv, NEW r \in Request, Tree!Run(r)
  PROVE  Found(r)' /\ Authorized(r)'
<1>. DEFINE what == Tree!Next1(r)  o == op[r]
<1>1. Asked(r) /\ Found(r) /\ Authorized(r) /\ step[r] \in 0 .. 9
  BY DEF TreeInv, Holds, TreeTypes
<1>2. (\A w : Passed(r, w)' <=> Passed(r, w) \/ w = what) /\ Asked(r)' /\ step'[r] \in 0 .. 9
  BY <1>1, MovesOn DEF TreeInv
<1>3. /\ op' = op /\ held'[r] = held[r] \cup Tree!Needs(o, what)
      /\ seen'[r] = IF what \in {"count", "overlap"} THEN Tree!Reading(o, what) ELSE seen[r]
      /\ Tree!Passes(o, what)
  BY DEF TreeInv, TreeTypes, Tree!Run
<1>4. /\ org' = org /\ deleted' = deleted /\ grants' = grants /\ store' = store /\ pay' = pay /\ manager' = manager
  BY DEF Tree!Run, Tree!db
<1>5. Found(r)'
  <2>1. \A x : /\ Tree!PayAt(x)' = Tree!PayAt(x) /\ Tree!PayOf(x)' = Tree!PayOf(x)
               /\ Tree!StoresOf(x)' = Tree!StoresOf(x) /\ Tree!Children(x)' = Tree!Children(x)
    BY <1>4 DEF Tree!PayAt, Tree!PayOf, Tree!StoresOf, Tree!Children, Tree!Live, Tree!Exists
  <2>2. Passed(r, "overlap")' => ~Passed(r, "count")'
    <3>1. Passed(r, "overlap") => op[r].kind \in {"createPay"} \cup OnPay
      BY <1>1, Before
    <3>2. Passed(r, "count") => op[r].kind \in {"createStore", "removeStore"}
      BY <1>1, Before
    <3>3. /\ what = "overlap" => op[r].kind \in {"createPay"} \cup OnPay
          /\ what = "count" => op[r].kind \in {"createStore", "removeStore"}
      BY <1>1, MovesOn DEF TreeInv
    <3>4. ({"createPay"} \cup OnPay) \cap {"createStore", "removeStore"} = {}
      BY DEF OnPay
    <3>. HIDE DEF what
    <3>. QED  BY <1>2, <3>1, <3>2, <3>3, <3>4
  <2>3. /\ what = "live" => o.org \notin deleted
        /\ what = "store" => store[o.store] = o.org
        /\ what = "contract" => pay[o.item] \in Tree!Pay
        /\ what = "overlap" /\ o.kind # "removePay" =>
             \A k \in Tree!PayAt(o.store) \ {o.item} : ~Tree!Overlaps(pay[k].period, o.value.period)
        /\ what = "eligible" => manager[o.org] = o.value.was
        /\ what = "blockers" => Tree!Children(o.org) = {} /\ Tree!PayOf(o.org) = {} /\ Tree!StoresOf(o.org) = {}
    BY <1>3 DEF Tree!Passes, Tree!Blocked
  <2>4. /\ what = "overlap" => seen'[r] = Cardinality(Tree!PayAt(o.store))
        /\ what = "count" => seen'[r] = Cardinality(Tree!StoresOf(o.org))
    BY <1>3, SameCardinality DEF Tree!Reading
  <2>5. what \notin {"count", "overlap"} => seen'[r] = seen[r]
    BY <1>3
  <2>. HIDE DEF what
  <2>6. Passed(r, "overlap")' => seen'[r] = Cardinality(Tree!PayAt(o.store))
    BY <1>1, <1>2, <2>2, <2>4, <2>5 DEF Found
  <2>7. Passed(r, "count")' => seen'[r] = Cardinality(Tree!StoresOf(o.org))
    BY <1>1, <1>2, <2>2, <2>4, <2>5 DEF Found
  <2>. QED  BY <1>1, <1>2, <1>3, <1>4, <2>1, <2>3, <2>6, <2>7 DEF Found
<1>6. Authorized(r)'
  <2>1. \A x : Tree!Ancestors(x)' = Tree!Ancestors(x)
    BY <1>4 DEF Tree!Ancestors, Tree!Parents, Tree!Exists
  <2>2. \A kind, x, g : Grounds(kind, x, g)' <=> Grounds(kind, x, g)
    BY <2>1 DEF Grounds
  <2>3. \A kind, p : Backed(r, kind, p) => Backed(r, kind, p)'
    BY <1>3, <1>4, <2>2 DEF Backed
  <2>4. \A kind, p : Tree!RowLocks(Tree!GrantsOf(p), "share") \subseteq held'[r]
                     /\ (\E g \in Tree!GrantsOf(p) : Grounds(kind, o.org, g)) => Backed(r, kind, p)'
    BY <1>3, <1>4, <2>2 DEF Backed, Tree!RowLocks, Tree!GrantsOf
  <2>5. ASSUME what = "grants"
        PROVE  /\ o.kind = "createOrg" \/ o.org # Operator
               /\ \A kind, p : kind = o.kind /\ p = o.by => Backed(r, kind, p)'
    <3>1. Tree!RowLocks(Tree!GrantsOf(o.by), "share") \subseteq held'[r]
      BY <1>3, <2>5 DEF Tree!Needs, Tree!GrantsShared
    <3>2. Tree!Decision(o.kind, o.by, o.org)
      BY <1>3, <2>5 DEF Tree!Passes
    <3>3. (o.kind = "createOrg" \/ o.org # Operator) /\ \E g \in Tree!GrantsOf(o.by) : Grounds(o.kind, o.org, g)
      BY <3>2, DecisionsRest
    <3>. QED  BY <3>1, <3>3, <2>4
  <2>6. ASSUME what = "eligible", o.value.new # None
        PROVE  \A p : p = o.value.new => Backed(r, "manage", p)'
    <3>1. Tree!RowLocks(Tree!GrantsOf(o.value.new), "share") \subseteq held'[r]
      BY <1>3, <2>6 DEF Tree!Needs, Tree!GrantsShared
    <3>2. Tree!Covers(o.value.new, o.org, Tree!Writer)
      BY <1>3, <2>6 DEF Tree!Passes
    <3>3. \E g \in Tree!GrantsOf(o.value.new) : Grounds("manage", o.org, g)
      BY <3>2, DecisionsRest
    <3>. QED  BY <3>1, <3>3, <2>4
  <2>. HIDE DEF what
  <2>. QED  BY <1>1, <1>2, <1>3, <2>3, <2>5, <2>6 DEF Authorized
<1>. QED  BY <1>5, <1>6

LEMMA RunPreserves == ASSUME TreeInv, NEW r \in Request, Tree!Run(r) PROVE TreeInv'
<1>1. /\ step' = [step EXCEPT ![r] = @ + 1] /\ UNCHANGED <<Tree!db, op>>
      /\ \E c \in Nat : seen' = [seen EXCEPT ![r] = c]
      /\ DOMAIN held' = Request /\ \A q \in Request \ {r} : held'[q] = held[q]
  <2>1. Tree!Reading(op[r], Tree!Next1(r)) \in Nat
    <3>1. IsFiniteSet(Tree!StoresOf(op[r].org)) /\ IsFiniteSet(Tree!PayAt(op[r].store))
      BY TreeAssumption, FS_Subset DEF Tree!StoresOf, Tree!PayAt
    <3>2. Cardinality(Tree!StoresOf(op[r].org)) \in Nat /\ Cardinality(Tree!PayAt(op[r].store)) \in Nat
      BY <3>1, FS_CardinalityType
    <3>. QED  BY <3>2, SameCardinality DEF Tree!Reading
  <2>2. seen[r] \in Nat
    BY DEF TreeInv, TreeTypes
  <2>3. \E c \in Nat : seen' = [seen EXCEPT ![r] = c]
    BY <2>1, <2>2 DEF Tree!Run
  <2>. QED  BY <2>3 DEF TreeInv, TreeTypes, Tree!Run
<1>2. \A q \in Request \ {r} : Still(q)
  BY <1>1 DEF TreeInv, TreeTypes, Still
<1>3. \A q \in Request \ {r} : Holds(q)'
  BY <1>1, <1>2, StillHolds DEF TreeInv
<1>4. /\ org' = org /\ deleted' = deleted /\ grants' = grants /\ store' = store /\ pay' = pay /\ manager' = manager
      /\ managerLog' = managerLog /\ storeLog' = storeLog /\ payLog' = payLog /\ op' = op
  BY <1>1 DEF Tree!db
<1>5. Asked(r)' /\ step[r] \in 1 .. 7
  BY MovesOn DEF TreeInv, Holds
<1>6. Holds(r)'
  <2>1. RowsAreOwn(r)'
    BY <1>4 DEF TreeInv, Holds, RowsAreOwn, OwnRows
  <2>. QED  BY <1>5, <2>1, RunLocks, RunFinds DEF Holds
<1>7. TreeTypes'
  <2>1. step' \in [Request -> 0 .. 9] /\ seen' \in [Request -> Nat]
    BY <1>1, <1>5 DEF TreeInv, TreeTypes
  <2>. QED  BY <1>1, <1>4, <2>1 DEF TreeInv, TreeTypes
<1>8. IdsDiffer'
  BY <1>4 DEF TreeInv, IdsDiffer
<1>9. Tree!DeletedIsEmpty' /\ Tree!NoOverlap' /\ Tree!AuditTellsTheStory'
  BY <1>4 DEF TreeInv, Tree!DeletedIsEmpty, Tree!NoOverlap, Tree!AuditTellsTheStory, Tree!Children, Tree!Live,
     Tree!Exists, Tree!PayOf, Tree!StoresOf, Tree!PayAt
<1>. QED  BY <1>3, <1>6, <1>7, <1>8, <1>9, RunLocks DEF TreeInv

-----------------------------------------------------------------------------
(* COMMIT: what no other transaction can have found                        *)

LEMMA Ready ==
  ASSUME TreeInv, NEW r \in Request, NEW K, Tree!Committing(r, K)
  PROVE  LET k == op[r].kind IN
         /\ k \in Kinds \cap K /\ Holds(r) /\ Sensible(op[r]) /\ OwnRows(op[r])
         /\ Passed(r, "advisory")
         /\ k \in Sited => Passed(r, "org") /\ Passed(r, "live") /\ Passed(r, "grants")
         /\ k = "createStore" => Passed(r, "count")
         /\ k = "removeStore" => Passed(r, "store") /\ Passed(r, "count")
         /\ k = "createPay" => Passed(r, "pair") /\ Passed(r, "overlap")
         /\ k \in OnPay => Passed(r, "contract") /\ Passed(r, "grants") /\ Passed(r, "pair") /\ Passed(r, "overlap")
         /\ k = "appoint" => Passed(r, "eligible")
         /\ k = "deleteOrg" => Passed(r, "blockers")
         /\ k = "grant" => Passed(r, "widen")
         /\ k = "revoke" => Passed(r, "rows")
<1>1. Holds(r) /\ Asked(r) /\ step[r] \in 0 .. 9
  BY DEF TreeInv, TreeTypes, Holds
<1>2. Sensible(op[r]) /\ OwnRows(op[r])
  BY <1>1 DEF Holds, Asked, RowsAreOwn
<1>. QED  BY <1>1, <1>2, Complete

\* What another transaction has found is not about what r commits.
LEMMA OthersElsewhere ==
  ASSUME TreeInv, NEW r \in Request, NEW K, Tree!Committing(r, K), NEW q \in Request, r # q
  PROVE  /\ op[r].kind \in Sited /\ Passed(q, "blockers") => op[q].org # op[r].org
         /\ op[r].kind = "deleteOrg" /\ Passed(q, "live") => op[q].org # op[r].org
         /\ op[r].kind \in {"createStore", "removeStore"} /\ Passed(q, "count") => op[q].org # op[r].org
         /\ op[r].kind \in {"createPay"} \cup OnPay /\ Passed(q, "overlap") => op[q].store # op[r].store
         /\ op[r].kind \in OnPay /\ Passed(q, "contract") => op[q].item # op[r].item
         /\ op[r].kind = "removeStore" /\ Passed(q, "store") => op[q].store # op[r].store
         /\ op[r].kind = "appoint" /\ Passed(q, "eligible") => op[q].org # op[r].org
         /\ op[r].kind \in {"grant", "revoke"} /\ (Passed(q, "widen") \/ Passed(q, "rows")) => op[q].item # op[r].item
<1>1. /\ Compatible /\ OrgLocked(r) /\ OrgLocked(q) /\ Locked(r) /\ Locked(q)
      /\ Asked(q) /\ step[q] \in 0 .. 9
  BY DEF TreeInv, TreeTypes, Holds
<1>2. op[r].kind \in Kinds /\ Passed(r, "advisory")
  BY Ready
<1>3. op[r].kind \in Sited /\ Passed(q, "blockers") => op[q].org # op[r].org
  BY <1>1, Ready, Before, DeletesAlone
<1>4. op[r].kind = "deleteOrg" /\ Passed(q, "live") => op[q].org # op[r].org
  <2>1. "deleteOrg" \in Sited
    BY DEF Sited
  <2>. QED  BY <1>1, <2>1, Ready, Before, DeletesAlone
<1>5. Passed(q, "advisory") => Tree!AdvisoryKey(op[q]) # Tree!AdvisoryKey(op[r])
  BY <1>1, <1>2, WritesAlone
<1>6. op[r].kind \in {"createStore", "removeStore"} /\ Passed(q, "count") => op[q].org # op[r].org
  <2>1. \A o : o.kind \in {"createStore", "removeStore"} => Tree!AdvisoryKey(o) = <<165, o.org>>
    BY DEF Tree!AdvisoryKey
  <2>. QED  BY <1>1, <1>5, <2>1, Before
<1>7. op[r].kind = "appoint" /\ Passed(q, "eligible") => op[q].org # op[r].org
  <2>1. \A o : o.kind = "appoint" => Tree!AdvisoryKey(o) = <<336, o.org>>
    BY DEF Tree!AdvisoryKey
  <2>. QED  BY <1>1, <1>5, <2>1, Before
<1>8. op[r].kind \in {"grant", "revoke"} /\ (Passed(q, "widen") \/ Passed(q, "rows")) => op[q].item # op[r].item
  <2>1. \A o : o.kind \in {"grant", "revoke"} => Tree!AdvisoryKey(o) = <<5959, o.item>>
    BY DEF Tree!AdvisoryKey
  <2>. QED  BY <1>1, <1>5, <2>1, Before
<1>9. op[r].kind \in {"createPay"} \cup OnPay /\ Passed(q, "overlap") => op[q].store # op[r].store
  BY <1>1, Ready, Before, WritesAlone
<1>10. op[r].kind \in OnPay /\ Passed(q, "contract") => op[q].item # op[r].item
  BY <1>1, Ready, WritesAlone
<1>11. op[r].kind = "removeStore" /\ Passed(q, "store") => op[q].store # op[r].store
  BY <1>1, Ready, WritesAlone
<1>. QED  BY <1>3, <1>4, <1>6, <1>7, <1>8, <1>9, <1>10, <1>11

\* Where the grants stay, and the tree only grows.
LEMMA AuthorityStays ==
  ASSUME NEW q \in Request, Still(q), Asked(q), step[q] \in 0 .. 9, GrantsLocked(q), Authorized(q), grants' = grants,
         \A o \in Tree!Org : Tree!Ancestors(o) \subseteq Tree!Ancestors(o)'
  PROVE  GrantsLocked(q)' /\ Authorized(q)'
<1>1. op'[q] = op[q] /\ held'[q] = held[q]
  BY DEF Still
<1>2. GrantsLocked(q)'
  BY <1>1, StillPassed DEF GrantsLocked, Tree!Needs, Tree!Widened, Tree!GrantsOf
<1>3. \A kind, g : \A o \in Tree!Org : Grounds(kind, o, g) => Grounds(kind, o, g)'
  BY DEF Grounds
<1>4. \A kind, p : op[q].org \in Tree!Org /\ Backed(q, kind, p) => Backed(q, kind, p)'
  BY <1>1, <1>3 DEF Backed
<1>5. Passed(q, "grants") \/ Passed(q, "eligible") => op[q].org \in Tree!Org
  BY Before DEF Asked, Sensible, Sited
<1>6. Authorized(q)'
  BY <1>1, <1>4, <1>5, StillPassed DEF Authorized
<1>. QED  BY <1>2, <1>6

LEMMA TreeStays == ASSUME org' = org PROVE \A o \in Tree!Org : Tree!Ancestors(o) \subseteq Tree!Ancestors(o)'
  BY DEF Tree!Ancestors, Tree!Parents, Tree!Exists

\* A new organization is nobody's ancestor that was not one before.
LEMMA TreeGrows ==
  ASSUME TreeTypes, NEW i \in Tree!Org, org[i] = Unused, \A x \in Tree!Org \ {i} : org'[x] = org[x]
  PROVE  \A o \in Tree!Org : Tree!Ancestors(o) \subseteq Tree!Ancestors(o)'
<1>. DEFINE After(T) == {org'[x].parent : x \in {y \in T : org'[y] # Unused}} \ {None}
<1>1. ASSUME NEW S, NEW T, S \subseteq T, S \subseteq Tree!Org
      PROVE  Tree!Parents(S) \subseteq After(T) /\ Tree!Parents(S) \subseteq Tree!Org
  <2>. SUFFICES ASSUME NEW p \in Tree!Parents(S) PROVE p \in After(T) /\ p \in Tree!Org
    OBVIOUS
  <2>1. PICK x \in S : org[x] # Unused /\ p = org[x].parent /\ p # None
    BY DEF Tree!Parents, Tree!Exists
  <2>2. x \in T /\ org'[x] = org[x] /\ p \in Tree!Org
    BY <1>1, <2>1 DEF TreeTypes
  <2>. QED  BY <2>1, <2>2
<1>2. ASSUME NEW o \in Tree!Org PROVE Tree!Ancestors(o) \subseteq Tree!Ancestors(o)'
  <2>. DEFINE one == Tree!Parents({o})
  <2>1. one \subseteq After({o}) /\ one \subseteq Tree!Org
    BY <1>1
  <2>. HIDE DEF one, After
  <2>2. Tree!Parents(one) \subseteq After(After({o})) /\ Tree!Parents(one) \subseteq Tree!Org
    BY <1>1, <2>1
  <2>3. Tree!Parents(Tree!Parents(one)) \subseteq After(After(After({o})))
    BY <1>1, <2>2
  <2>. USE DEF one
  <2>4. Tree!Ancestors(o) = one \cup Tree!Parents(one) \cup Tree!Parents(Tree!Parents(one))
    BY DEF Tree!Ancestors
  <2>5. Tree!Ancestors(o)' = After({o}) \cup After(After({o})) \cup After(After(After({o})))
    BY DEF Tree!Ancestors, Tree!Parents, Tree!Exists, After
  <2>. QED  BY <2>1, <2>2, <2>3, <2>4, <2>5
<1>. QED  BY <1>2

\* An audit row that begins where the log ends.
LEMMA ToldOn ==
  ASSUME NEW S, NEW log \in Seq(S \X S), NEW x \in S, NEW y \in S, Tree!Told(log, x)
  PROVE  Append(log, <<x, y>>) \in Seq(S \X S) /\ Tree!Told(Append(log, <<x, y>>), y)
<1>. DEFINE new == Append(log, <<x, y>>)
<1>1. new \in Seq(S \X S) /\ Len(new) = Len(log) + 1 /\ Len(log) \in Nat
  OBVIOUS
<1>2. new[Len(log) + 1] = <<x, y>> /\ \A i \in 1 .. Len(log) : new[i] = log[i]
  OBVIOUS
<1>3. log # <<>> => Len(log) > 0 /\ log[Len(log)][2] = x
  BY DEF Tree!Told
<1>4. \A i \in 1 .. Len(log) - 1 : log[i + 1][1] = log[i][2]
  BY DEF Tree!Told
<1>5. ASSUME NEW i \in 1 .. Len(new) - 1 PROVE new[i + 1][1] = new[i][2]
  <2>. HIDE DEF new
  <2>1. i \in 1 .. Len(log)
    BY <1>1
  <2>2. CASE i = Len(log)
    <3>1. log # <<>>
      BY <2>1, <2>2
    <3>. QED  BY <1>2, <1>3, <2>1, <2>2, <3>1
  <2>3. CASE i # Len(log)
    <3>1. i \in 1 .. Len(log) - 1 /\ i + 1 \in 1 .. Len(log)
      BY <1>1, <2>1, <2>3
    <3>. QED  BY <1>2, <1>4, <2>1, <3>1
  <2>. QED  BY <2>2, <2>3
<1>6. new[Len(new)][2] = y
  BY <1>1, <1>2
<1>. HIDE DEF new
<1>7. Tree!Told(new, y)
  BY <1>5, <1>6 DEF Tree!Told
<1>. QED  BY <1>1, <1>7 DEF new

\* One more row, and one less.
LEMMA Counted ==
  ASSUME NEW S, IsFiniteSet(S), NEW x
  PROVE  /\ Cardinality(S) \in Nat
         /\ x \notin S => Cardinality(S \cup {x}) = Cardinality(S) + 1
         /\ x \in S => Cardinality(S \ {x}) = Cardinality(S) - 1
  BY FS_CardinalityType, FS_AddElement, FS_RemoveElement

\* What another transaction has found stays so.
LEMMA FoundStays ==
  ASSUME NEW q \in Request, Still(q), Found(q),
         Passed(q, "live") => op[q].org \notin deleted',
         Passed(q, "store") => store'[op[q].store] = op[q].org,
         Passed(q, "contract") => pay'[op[q].item] \in Tree!Pay,
         \A x : Passed(q, "overlap") /\ x = op[q].store =>
           Tree!PayAt(x)' = Tree!PayAt(x) /\ \A k \in Tree!PayAt(x) : pay'[k] = pay[k],
         \A x : Passed(q, "count") /\ x = op[q].org => Tree!StoresOf(x)' = Tree!StoresOf(x),
         Passed(q, "eligible") => manager'[op[q].org] = manager[op[q].org],
         \A x : Passed(q, "blockers") /\ x = op[q].org =>
           /\ Tree!Children(x)' \subseteq Tree!Children(x) /\ Tree!PayOf(x)' \subseteq Tree!PayOf(x)
           /\ Tree!StoresOf(x)' \subseteq Tree!StoresOf(x)
  PROVE  Found(q)'
<1>1. /\ op'[q] = op[q] /\ seen'[q] = seen[q] /\ \A what : Passed(q, what)' <=> Passed(q, what)
  BY StillPassed DEF Still
<1>. DEFINE o == op[q]
<1>2. /\ Passed(q, "overlap") => seen[q] = Cardinality(Tree!PayAt(o.store))
      /\ Passed(q, "overlap") /\ o.kind # "removePay" =>
           \A k \in Tree!PayAt(o.store) \ {o.item} : ~Tree!Overlaps(pay[k].period, o.value.period)
      /\ Passed(q, "count") => seen[q] = Cardinality(Tree!StoresOf(o.org))
      /\ Passed(q, "eligible") => manager[o.org] = o.value.was
      /\ Passed(q, "blockers") => Tree!Children(o.org) = {} /\ Tree!PayOf(o.org) = {} /\ Tree!StoresOf(o.org) = {}
  BY DEF Found
<1>3. \A x : Passed(q, "overlap") /\ x = o.store =>
        /\ seen[q] = Cardinality(Tree!PayAt(x)')
        /\ o.kind # "removePay" => \A k \in Tree!PayAt(x)' \ {o.item} : ~Tree!Overlaps(pay'[k].period, o.value.period)
  BY <1>2 DEF Tree!Overlaps
<1>4. \A x : Passed(q, "count") /\ x = o.org => seen[q] = Cardinality(Tree!StoresOf(x)')
  BY <1>2
<1>5. \A x : Passed(q, "blockers") /\ x = o.org =>
        Tree!Children(x)' = {} /\ Tree!PayOf(x)' = {} /\ Tree!StoresOf(x)' = {}
  BY <1>2
<1>. QED  BY <1>1, <1>2, <1>3, <1>4, <1>5 DEF Found, Tree!Overlaps

\* The stores of one organization change, and its log says so; likewise for the
\* contracts at one store.
LEMMA StoresTold ==
  ASSUME TreeInv, NEW o \in Tree!Org, NEW n \in Int, NEW m \in Int,
         n = Cardinality(Tree!StoresOf(o)), m = Cardinality(Tree!StoresOf(o)'),
         storeLog' = [storeLog EXCEPT ![o] = Append(@, <<n, m>>)],
         \A x \in Tree!Org : x # o => Tree!StoresOf(x)' = Tree!StoresOf(x),
         UNCHANGED <<pay, payLog, manager, managerLog>>
  PROVE  storeLog' \in [Tree!Org -> Seq(Int \X Int)] /\ Tree!AuditTellsTheStory'
<1>1. storeLog[o] \in Seq(Int \X Int) /\ Tree!Told(storeLog[o], n)
  BY SameCardinality DEF TreeInv, TreeTypes, Tree!AuditTellsTheStory
<1>2. /\ Append(storeLog[o], <<n, m>>) \in Seq(Int \X Int)
      /\ Tree!Told(Append(storeLog[o], <<n, m>>), m)
  BY <1>1, ToldOn
<1>3. storeLog' \in [Tree!Org -> Seq(Int \X Int)]
  BY <1>2 DEF TreeInv, TreeTypes
<1>4. ASSUME NEW x \in Tree!Org PROVE Tree!Told(storeLog[x], Tree!Cardinality(Tree!StoresOf(x)))'
  <2>1. CASE x = o
    <3>1. storeLog'[x] = Append(storeLog[o], <<n, m>>)
      BY <2>1 DEF TreeInv, TreeTypes
    <3>2. Tree!Cardinality(Tree!StoresOf(x)') = m
      BY <2>1, SameCardinality
    <3>. QED  BY <1>2, <3>1, <3>2
  <2>2. CASE x # o
    BY <2>2 DEF TreeInv, TreeTypes, Tree!AuditTellsTheStory
  <2>. QED  BY <2>1, <2>2
<1>5. /\ \A x \in Tree!Org : Tree!Told(managerLog[x], manager[x])'
      /\ \A s \in Store : Tree!Told(payLog[s], Tree!Cardinality(Tree!PayAt(s)))'
  BY DEF TreeInv, Tree!AuditTellsTheStory, Tree!PayAt
<1>6. Tree!AuditTellsTheStory'
  BY <1>4, <1>5 DEF Tree!AuditTellsTheStory
<1>. QED  BY <1>3, <1>6

LEMMA PayTold ==
  ASSUME TreeInv, NEW s \in Store, NEW n \in Int, NEW m \in Int,
         n = Cardinality(Tree!PayAt(s)), m = Cardinality(Tree!PayAt(s)'),
         payLog' = [payLog EXCEPT ![s] = Append(@, <<n, m>>)],
         \A x \in Store : x # s => Tree!PayAt(x)' = Tree!PayAt(x),
         UNCHANGED <<store, storeLog, manager, managerLog>>
  PROVE  payLog' \in [Store -> Seq(Int \X Int)] /\ Tree!AuditTellsTheStory'
<1>1. payLog[s] \in Seq(Int \X Int) /\ Tree!Told(payLog[s], n)
  BY SameCardinality DEF TreeInv, TreeTypes, Tree!AuditTellsTheStory
<1>2. /\ Append(payLog[s], <<n, m>>) \in Seq(Int \X Int)
      /\ Tree!Told(Append(payLog[s], <<n, m>>), m)
  BY <1>1, ToldOn
<1>3. payLog' \in [Store -> Seq(Int \X Int)]
  BY <1>2 DEF TreeInv, TreeTypes
<1>4. ASSUME NEW x \in Store PROVE Tree!Told(payLog[x], Tree!Cardinality(Tree!PayAt(x)))'
  <2>1. CASE x = s
    <3>1. payLog'[x] = Append(payLog[s], <<n, m>>)
      BY <2>1 DEF TreeInv, TreeTypes
    <3>2. Tree!Cardinality(Tree!PayAt(x)') = m
      BY <2>1, SameCardinality
    <3>. QED  BY <1>2, <3>1, <3>2
  <2>2. CASE x # s
    BY <2>2 DEF TreeInv, TreeTypes, Tree!AuditTellsTheStory
  <2>. QED  BY <2>1, <2>2
<1>5. \A x \in Tree!Org : /\ Tree!Told(managerLog[x], manager[x])'
                         /\ Tree!Told(storeLog[x], Tree!Cardinality(Tree!StoresOf(x)))'
  BY DEF TreeInv, Tree!AuditTellsTheStory, Tree!StoresOf
<1>6. Tree!AuditTellsTheStory'
  BY <1>4, <1>5 DEF Tree!AuditTellsTheStory
<1>. QED  BY <1>3, <1>6

-----------------------------------------------------------------------------
(* COMMIT of each kind                                                     *)

LEMMA CommitKeeps ==
  ASSUME TreeInv, NEW r \in Request, Tree!Close(r), TreeTypes',
         \A q \in Request \ {r} : RowsAreOwn(q)' /\ GrantsLocked(q)' /\ Found(q)' /\ Authorized(q)',
         Tree!DeletedIsEmpty', Tree!NoOverlap', Tree!AuditTellsTheStory'
  PROVE  TreeInv'
<1>1. \A q \in Request : Holds(q)'
  BY Closes DEF Holds
<1>. QED  BY <1>1, Closes DEF TreeInv

\* What the others held before the commit.
LEMMA OthersHeld ==
  ASSUME TreeInv, NEW r \in Request, Tree!Close(r), NEW q \in Request \ {r}
  PROVE  /\ Still(q) /\ op'[q] = op[q] /\ step'[q] = step[q] /\ held'[q] = held[q] /\ seen'[q] = seen[q]
         /\ Asked(q) /\ RowsAreOwn(q) /\ GrantsLocked(q) /\ Found(q) /\ Authorized(q) /\ step[q] \in 0 .. 9
         /\ \A what : Passed(q, what)' <=> Passed(q, what)
<1>1. Still(q) /\ Holds(q)
  BY Closes
<1>. QED  BY <1>1, StillPassed DEF Still, Holds, TreeInv, TreeTypes

LEMMA CreateOrgPreserves == ASSUME TreeInv, NEW r \in Request, Tree!CreateOrg(r) PROVE TreeInv'
<1>. DEFINE o == op[r]  row == [parent |-> o.org, name |-> o.value]
<1>1. /\ Tree!Committing(r, {"createOrg"}) /\ Tree!Close(r) /\ org' = [org EXCEPT ![o.item] = row]
      /\ deleted' = deleted /\ grants' = grants /\ store' = store /\ pay' = pay /\ manager' = manager
      /\ managerLog' = managerLog /\ storeLog' = storeLog /\ payLog' = payLog
  BY DEF Tree!CreateOrg
<1>2. /\ o.kind = "createOrg" /\ o.kind \in Sited /\ o.org \in Tree!Org /\ o.item \in Tree!Org /\ o.value \in Name
      /\ org[o.item] = Unused /\ o.org \notin deleted
  <2>1. Holds(r) /\ Sensible(o) /\ OwnRows(o) /\ o.kind = "createOrg" /\ (o.kind \in Sited => Passed(r, "live"))
    BY <1>1, Ready
  <2>. QED  BY <2>1 DEF Holds, Found, Sensible, OwnRows, Sited
<1>3. DOMAIN org = Tree!Org /\ org'[o.item] = row /\ \A x \in Tree!Org \ {o.item} : org'[x] = org[x]
  BY <1>1, <1>2 DEF TreeInv, TreeTypes
<1>4. \A x \in Tree!Org : Tree!Ancestors(x) \subseteq Tree!Ancestors(x)'
  BY <1>2, <1>3, TreeGrows DEF TreeInv
<1>5. ASSUME NEW x, x # o.org PROVE Tree!Children(x)' \subseteq Tree!Children(x)
  BY <1>1, <1>2, <1>3, <1>5 DEF Tree!Children, Tree!Live, Tree!Exists
<1>6. ASSUME NEW q \in Request \ {r}
      PROVE  RowsAreOwn(q)' /\ GrantsLocked(q)' /\ Found(q)' /\ Authorized(q)'
  <2>1. GrantsLocked(q)' /\ Authorized(q)'
    BY <1>1, <1>4, OthersHeld, AuthorityStays
  <2>2. RowsAreOwn(q)'
    <3>1. op[q].kind = "createOrg" => op[q].item \in Tree!Org \ {o.item}
      BY <1>1, <1>2, OthersHeld DEF TreeInv, IdsDiffer, Asked, Sensible
    <3>. QED  BY <1>1, <1>3, <3>1, OthersHeld DEF RowsAreOwn, OwnRows
  <2>3. Found(q)'
    <3>1. Passed(q, "blockers") => \A x : x = op[q].org => Tree!Children(x)' \subseteq Tree!Children(x)
      BY <1>1, <1>2, <1>5, OthersElsewhere
    <3>2. /\ \A x : Tree!PayAt(x)' = Tree!PayAt(x) /\ Tree!PayOf(x)' = Tree!PayOf(x)
                 /\ Tree!StoresOf(x)' = Tree!StoresOf(x)
      BY <1>1 DEF Tree!PayAt, Tree!PayOf, Tree!StoresOf
    <3>3. Passed(q, "blockers") => \A x : x = op[q].org => Tree!Children(x)' = {}
      BY <3>1, <1>1, OthersHeld DEF Found
    <3>. QED  BY <1>1, <3>2, <3>3, OthersHeld DEF Found
  <2>. QED  BY <2>1, <2>2, <2>3
<1>7. TreeTypes'
  <2>1. org' \in [Tree!Org -> [parent : Tree!Org \cup {None}, name : Name] \cup {Unused}]
    BY <1>1, <1>2 DEF TreeInv, TreeTypes
  <2>. QED  BY <1>1, <2>1, Closes DEF TreeInv, TreeTypes
<1>8. Tree!DeletedIsEmpty'
  BY <1>1, <1>2, <1>5 DEF TreeInv, Tree!DeletedIsEmpty, Tree!PayOf, Tree!StoresOf
<1>9. Tree!NoOverlap' /\ Tree!AuditTellsTheStory'
  BY <1>1 DEF TreeInv, Tree!NoOverlap, Tree!AuditTellsTheStory, Tree!StoresOf, Tree!PayAt
<1>. QED  BY <1>1, <1>6, <1>7, <1>8, <1>9, CommitKeeps

LEMMA CreateStorePreserves == ASSUME TreeInv, NEW r \in Request, Tree!CreateStore(r) PROVE TreeInv'
<1>. DEFINE o == op[r]
<1>1. /\ Tree!Committing(r, {"createStore"}) /\ Tree!Close(r) /\ store' = [store EXCEPT ![o.store] = o.org]
      /\ storeLog' = [storeLog EXCEPT ![o.org] = Append(@, <<seen[r], seen[r] + 1>>)]
      /\ org' = org /\ deleted' = deleted /\ grants' = grants /\ pay' = pay /\ manager' = manager
      /\ managerLog' = managerLog /\ payLog' = payLog
  BY DEF Tree!CreateStore, Tree!Logged
<1>2. /\ o.kind = "createStore" /\ o.kind \in Sited /\ o.org \in Tree!Org /\ o.store \in Store
      /\ store[o.store] = Unused /\ o.org \notin deleted /\ seen[r] = Cardinality(Tree!StoresOf(o.org))
  <2>1. Holds(r) /\ Sensible(o) /\ OwnRows(o) /\ o.kind = "createStore" /\ Passed(r, "count")
        /\ (o.kind \in Sited => Passed(r, "live"))
    BY <1>1, Ready
  <2>. QED  BY <2>1 DEF Holds, Found, Sensible, OwnRows, Sited
<1>3. DOMAIN store = Store /\ store'[o.store] = o.org /\ \A s \in Store \ {o.store} : store'[s] = store[s]
  BY <1>1, <1>2 DEF TreeInv, TreeTypes
<1>4. o.org # Unused
  BY <1>2, TreeAssumption
<1>5. /\ \A x : x = o.org => Tree!StoresOf(x)' = Tree!StoresOf(x) \cup {o.store}
      /\ \A x \in Tree!Org : x # o.org => Tree!StoresOf(x)' = Tree!StoresOf(x)
      /\ o.store \notin Tree!StoresOf(o.org)
  BY <1>2, <1>3, <1>4, TreeAssumption DEF Tree!StoresOf
<1>6. ASSUME NEW q \in Request \ {r}
      PROVE  RowsAreOwn(q)' /\ GrantsLocked(q)' /\ Found(q)' /\ Authorized(q)'
  <2>1. GrantsLocked(q)' /\ Authorized(q)'
    BY <1>1, OthersHeld, TreeStays, AuthorityStays
  <2>2. RowsAreOwn(q)'
    <3>1. op[q].kind = "createStore" => op[q].store \in Store \ {o.store}
      BY <1>1, <1>2, OthersHeld DEF TreeInv, IdsDiffer, Asked, Sensible
    <3>. QED  BY <1>1, <1>3, <3>1, OthersHeld DEF RowsAreOwn, OwnRows
  <2>3. Found(q)'
    <3>1. Passed(q, "blockers") \/ Passed(q, "count") \/ Passed(q, "store") => op[q].org \in Tree!Org
      BY <1>1, OthersHeld, Before DEF Asked, Sensible, Sited
    <3>2. Passed(q, "blockers") \/ Passed(q, "count") =>
            \A x : x = op[q].org => Tree!StoresOf(x)' = Tree!StoresOf(x)
      BY <1>1, <1>2, <1>5, <3>1, OthersElsewhere
    <3>3. /\ \A x : Tree!PayAt(x)' = Tree!PayAt(x) /\ Tree!PayOf(x)' = Tree!PayOf(x)
                 /\ Tree!Children(x)' = Tree!Children(x)
      BY <1>1 DEF Tree!PayAt, Tree!PayOf, Tree!Children, Tree!Live, Tree!Exists
    <3>4. Passed(q, "store") => store'[op[q].store] = op[q].org
      <4>1. Passed(q, "store") => op[q].store \in Store /\ store[op[q].store] = op[q].org
        BY <1>1, OthersHeld, Before DEF Asked, Sensible, Found
      <4>. QED  BY <1>2, <1>3, <3>1, <4>1, TreeAssumption
    <3>5. /\ Passed(q, "live") => op[q].org \notin deleted'
          /\ Passed(q, "contract") => pay'[op[q].item] \in Tree!Pay
      BY <1>1, OthersHeld DEF Found
    <3>. QED  BY <1>1, <3>2, <3>3, <3>4, <3>5, OthersHeld, FoundStays
  <2>. QED  BY <2>1, <2>2, <2>3
<1>7. storeLog' \in [Tree!Org -> Seq(Int \X Int)] /\ Tree!AuditTellsTheStory'
  <2>1. IsFiniteSet(Tree!StoresOf(o.org))
    BY TreeAssumption, FS_Subset DEF Tree!StoresOf
  <2>2. Cardinality(Tree!StoresOf(o.org) \cup {o.store}) = Cardinality(Tree!StoresOf(o.org)) + 1
    BY <1>5, <2>1, Counted
  <2>3. Cardinality(Tree!StoresOf(o.org)) \in Nat
    BY <2>1, Counted
  <2>4. \A x : x = o.org => seen[r] + 1 = Cardinality(Tree!StoresOf(x)')
    BY <1>2, <1>5, <2>2
  <2>5. seen[r] \in Int /\ seen[r] + 1 \in Int
    BY <1>2, <2>3
  <2>. QED  BY <1>1, <1>2, <1>5, <2>4, <2>5, StoresTold
<1>8. TreeTypes'
  <2>1. store' \in [Store -> Tree!Org \cup {Unused, Removed}]
    BY <1>1, <1>2 DEF TreeInv, TreeTypes
  <2>. QED  BY <1>1, <1>7, <2>1, Closes DEF TreeInv, TreeTypes
<1>9. Tree!DeletedIsEmpty'
  <2>1. deleted \subseteq Tree!Org
    BY DEF TreeInv, TreeTypes
  <2>. QED  BY <1>1, <1>2, <1>5, <2>1
       DEF TreeInv, Tree!DeletedIsEmpty, Tree!PayOf, Tree!Children, Tree!Live, Tree!Exists
<1>10. Tree!NoOverlap'
  BY <1>1 DEF TreeInv, Tree!NoOverlap
<1>. QED  BY <1>1, <1>6, <1>7, <1>8, <1>9, <1>10, CommitKeeps

LEMMA RemoveStorePreserves == ASSUME TreeInv, NEW r \in Request, Tree!RemoveStore(r) PROVE TreeInv'
<1>. DEFINE o == op[r]
<1>1. /\ Tree!Committing(r, {"removeStore"}) /\ Tree!Close(r) /\ store' = [store EXCEPT ![o.store] = Removed]
      /\ storeLog' = [storeLog EXCEPT ![o.org] = Append(@, <<seen[r], seen[r] - 1>>)]
      /\ org' = org /\ deleted' = deleted /\ grants' = grants /\ pay' = pay /\ manager' = manager
      /\ managerLog' = managerLog /\ payLog' = payLog
  BY DEF Tree!RemoveStore, Tree!Logged
<1>2. /\ o.kind = "removeStore" /\ o.org \in Tree!Org /\ o.store \in Store
      /\ store[o.store] = o.org /\ seen[r] = Cardinality(Tree!StoresOf(o.org))
  <2>1. Holds(r) /\ Sensible(o) /\ o.kind = "removeStore" /\ Passed(r, "store") /\ Passed(r, "count")
    BY <1>1, Ready
  <2>. QED  BY <2>1 DEF Holds, Found, Sensible, Sited
<1>3. DOMAIN store = Store /\ store'[o.store] = Removed /\ \A s \in Store \ {o.store} : store'[s] = store[s]
  BY <1>1, <1>2 DEF TreeInv, TreeTypes
<1>5. /\ \A x : x = o.org => Tree!StoresOf(x)' = Tree!StoresOf(x) \ {o.store}
      /\ \A x \in Tree!Org : x # o.org => Tree!StoresOf(x)' = Tree!StoresOf(x)
      /\ o.store \in Tree!StoresOf(o.org)
  BY <1>2, <1>3, TreeAssumption DEF Tree!StoresOf
<1>6. ASSUME NEW q \in Request \ {r}
      PROVE  RowsAreOwn(q)' /\ GrantsLocked(q)' /\ Found(q)' /\ Authorized(q)'
  <2>1. GrantsLocked(q)' /\ Authorized(q)'
    BY <1>1, OthersHeld, TreeStays, AuthorityStays
  <2>2. RowsAreOwn(q)'
    <3>1. op[q].kind = "createStore" => op[q].store \in Store \ {o.store}
      <4>1. op[q].kind = "createStore" => op[q].store \in Store /\ store[op[q].store] = Unused
        BY <1>1, OthersHeld DEF Asked, Sensible, RowsAreOwn, OwnRows
      <4>. QED  BY <1>2, <4>1, TreeAssumption
    <3>. QED  BY <1>1, <1>3, <3>1, OthersHeld DEF RowsAreOwn, OwnRows
  <2>3. Found(q)'
    <3>1. Passed(q, "blockers") \/ Passed(q, "count") => op[q].org \in Tree!Org
      BY <1>1, OthersHeld, Before DEF Asked, Sensible, Sited
    <3>2. Passed(q, "count") => \A x : x = op[q].org => Tree!StoresOf(x)' = Tree!StoresOf(x)
      BY <1>1, <1>2, <1>5, <3>1, OthersElsewhere
    <3>3. Passed(q, "blockers") => \A x : x = op[q].org => Tree!StoresOf(x)' \subseteq Tree!StoresOf(x)
      BY <1>5, <3>1
    <3>4. /\ \A x : Tree!PayAt(x)' = Tree!PayAt(x) /\ Tree!PayOf(x)' = Tree!PayOf(x)
                 /\ Tree!Children(x)' = Tree!Children(x)
      BY <1>1 DEF Tree!PayAt, Tree!PayOf, Tree!Children, Tree!Live, Tree!Exists
    <3>5. Passed(q, "store") => store'[op[q].store] = op[q].org
      <4>1. Passed(q, "store") => op[q].store \in Store /\ store[op[q].store] = op[q].org /\ op[q].store # o.store
        <5>1. Asked(q) /\ Found(q) /\ step[q] \in 0 .. 9
          BY <1>1, OthersHeld
        <5>2. Passed(q, "store") => op[q].store # o.store
          BY <1>1, <1>2, OthersElsewhere
        <5>. QED  BY <5>1, <5>2, Before DEF Asked, Sensible, Found
      <4>. QED  BY <1>3, <4>1
    <3>6. /\ Passed(q, "live") => op[q].org \notin deleted'
          /\ Passed(q, "contract") => pay'[op[q].item] \in Tree!Pay
      BY <1>1, OthersHeld DEF Found
    <3>. QED  BY <1>1, <3>2, <3>3, <3>4, <3>5, <3>6, OthersHeld, FoundStays
  <2>. QED  BY <2>1, <2>2, <2>3
<1>7. storeLog' \in [Tree!Org -> Seq(Int \X Int)] /\ Tree!AuditTellsTheStory'
  <2>1. IsFiniteSet(Tree!StoresOf(o.org))
    BY TreeAssumption, FS_Subset DEF Tree!StoresOf
  <2>2. Cardinality(Tree!StoresOf(o.org) \ {o.store}) = Cardinality(Tree!StoresOf(o.org)) - 1
    BY <1>5, <2>1, Counted
  <2>3. Cardinality(Tree!StoresOf(o.org)) \in Nat
    BY <2>1, Counted
  <2>4. \A x : x = o.org => seen[r] - 1 = Cardinality(Tree!StoresOf(x)')
    BY <1>2, <1>5, <2>2
  <2>5. seen[r] \in Int /\ seen[r] - 1 \in Int
    BY <1>2, <2>3
  <2>. QED  BY <1>1, <1>2, <1>5, <2>4, <2>5, StoresTold
<1>8. TreeTypes'
  <2>1. store' \in [Store -> Tree!Org \cup {Unused, Removed}]
    BY <1>1, <1>2 DEF TreeInv, TreeTypes
  <2>. QED  BY <1>1, <1>7, <2>1, Closes DEF TreeInv, TreeTypes
<1>9. Tree!DeletedIsEmpty'
  <2>1. \A x \in deleted : Tree!StoresOf(x)' \subseteq Tree!StoresOf(x)
    BY <1>5 DEF TreeInv, TreeTypes
  <2>. QED  BY <1>1, <2>1
       DEF TreeInv, Tree!DeletedIsEmpty, Tree!PayOf, Tree!Children, Tree!Live, Tree!Exists
<1>10. Tree!NoOverlap'
  BY <1>1 DEF TreeInv, Tree!NoOverlap
<1>. QED  BY <1>1, <1>6, <1>7, <1>8, <1>9, <1>10, CommitKeeps


LEMMA WritePayPreserves == ASSUME TreeInv, NEW r \in Request, Tree!WritePay(r) PROVE TreeInv'
<1>. DEFINE o == op[r]  row == [company |-> o.org, store |-> o.store, period |-> o.value.period]
            more == IF o.kind = "createPay" THEN seen[r] + 1 ELSE seen[r]
<1>1. /\ Tree!Committing(r, {"createPay", "changePay"}) /\ Tree!Close(r) /\ pay' = [pay EXCEPT ![o.item] = row]
      /\ payLog' = [payLog EXCEPT ![o.store] = Append(@, <<seen[r], more>>)]
      /\ org' = org /\ deleted' = deleted /\ grants' = grants /\ store' = store /\ manager' = manager
      /\ managerLog' = managerLog /\ storeLog' = storeLog
  BY DEF Tree!WritePay, Tree!Logged
<1>2. /\ o.kind \in {"createPay", "changePay"} /\ o.org \in Tree!Org /\ o.store \in Store /\ o.item \in Contract
      /\ o.value.period \in Period /\ o.org \notin {Unused, Removed} /\ row \in Tree!Pay
      /\ o.kind = "createPay" => o.kind \in Sited /\ pay[o.item] = Unused /\ o.org \notin deleted
      /\ o.kind = "changePay" => pay[o.item] \in Tree!Pay /\ pay[o.item].company = o.org /\ pay[o.item].store = o.store
      /\ seen[r] = Cardinality(Tree!PayAt(o.store))
      /\ \A k \in Tree!PayAt(o.store) \ {o.item} : ~Tree!Overlaps(pay[k].period, o.value.period)
  <2>1. /\ Holds(r) /\ Sensible(o) /\ OwnRows(o) /\ o.kind \in {"createPay", "changePay"} /\ Passed(r, "overlap")
        /\ (o.kind \in Sited => Passed(r, "live")) /\ (o.kind \in OnPay => Passed(r, "contract"))
    BY <1>1, Ready DEF OnPay
  <2>2. /\ o.org \in Tree!Org /\ o.store \in Store /\ o.item \in Contract /\ o.value.period \in Period
    BY <2>1 DEF Sensible, Sited, OnPay
  <2>. QED  BY <2>1, <2>2, TreeAssumption DEF Holds, Found, OwnRows, Sited, OnPay, Tree!Pay
<1>3. DOMAIN pay = Contract /\ pay'[o.item] = row /\ \A k \in Contract \ {o.item} : pay'[k] = pay[k]
  BY <1>1, <1>2 DEF TreeInv, TreeTypes
<1>4. Unused \notin Tree!Pay
  BY TreeAssumption
<1>5. /\ \A x : x = o.store => Tree!PayAt(x)' = Tree!PayAt(x) \cup {o.item}
      /\ \A x : x # o.store => Tree!PayAt(x)' = Tree!PayAt(x) /\ o.item \notin Tree!PayAt(x)
      /\ o.kind = "createPay" => o.item \notin Tree!PayAt(o.store)
      /\ o.kind = "changePay" => o.item \in Tree!PayAt(o.store)
  BY <1>2, <1>3, <1>4 DEF Tree!PayAt
<1>6. \A x : x # o.org \/ o.kind = "changePay" => Tree!PayOf(x)' = Tree!PayOf(x)
  BY <1>2, <1>3, <1>4 DEF Tree!PayOf
<1>7. \A x : Tree!StoresOf(x)' = Tree!StoresOf(x) /\ Tree!Children(x)' = Tree!Children(x)
  BY <1>1 DEF Tree!StoresOf, Tree!Children, Tree!Live, Tree!Exists
<1>8. ASSUME NEW q \in Request \ {r}
      PROVE  RowsAreOwn(q)' /\ GrantsLocked(q)' /\ Found(q)' /\ Authorized(q)'
  <2>1. GrantsLocked(q)' /\ Authorized(q)'
    BY <1>1, OthersHeld, TreeStays, AuthorityStays
  <2>2. RowsAreOwn(q)'
    <3>1. op'[q] = op[q] /\ Sensible(op[q]) /\ OwnRows(op[q])
      BY <1>1, OthersHeld DEF Asked, RowsAreOwn
    <3>2. op[q].kind = "createPay" => pay'[op[q].item] = Unused
      <4>1. op[q].kind = "createPay" => op[q].item \in Contract \ {o.item}
        BY <1>2, <1>4, <3>1 DEF TreeInv, IdsDiffer, Sensible, OwnRows
      <4>. QED  BY <1>3, <3>1, <4>1 DEF OwnRows
    <3>3. op[q].kind \in OnPay =>
            /\ pay'[op[q].item] # Unused
            /\ pay'[op[q].item] \in Tree!Pay =>
                 pay'[op[q].item].company = op[q].org /\ pay'[op[q].item].store = op[q].store
      <4>1. CASE op[q].item = o.item
        BY <1>2, <1>3, <1>4, <3>1, <4>1 DEF OwnRows
      <4>2. CASE op[q].item # o.item
        BY <1>3, <3>1, <4>2 DEF OwnRows, Sensible
      <4>. QED  BY <4>1, <4>2
    <3>. QED  BY <1>1, <3>1, <3>2, <3>3 DEF RowsAreOwn, OwnRows
  <2>3. Found(q)'
    <3>1. Passed(q, "blockers") => \A x : x = op[q].org => Tree!PayOf(x)' = Tree!PayOf(x)
      BY <1>1, <1>2, <1>6, OthersElsewhere
    <3>2. Passed(q, "overlap") => \A x : x = op[q].store =>
            Tree!PayAt(x)' = Tree!PayAt(x) /\ \A k \in Tree!PayAt(x) : pay'[k] = pay[k]
      <4>1. Passed(q, "overlap") => op[q].store # o.store
        BY <1>1, <1>2, OthersElsewhere DEF OnPay
      <4>. QED  BY <1>3, <1>5, <4>1 DEF Tree!PayAt
    <3>3. Passed(q, "contract") => pay'[op[q].item] \in Tree!Pay
      <4>1. Passed(q, "contract") => op[q].item \in Contract /\ pay[op[q].item] \in Tree!Pay
        BY <1>1, OthersHeld, Before DEF Asked, Sensible, Found
      <4>. QED  BY <1>2, <1>3, <4>1
    <3>4. /\ Passed(q, "live") => op[q].org \notin deleted'
          /\ Passed(q, "store") => store'[op[q].store] = op[q].org
      BY <1>1, OthersHeld DEF Found
    <3>. QED  BY <1>1, <1>7, <3>1, <3>2, <3>3, <3>4, OthersHeld, FoundStays
  <2>. QED  BY <2>1, <2>2, <2>3
<1>9. payLog' \in [Store -> Seq(Int \X Int)] /\ Tree!AuditTellsTheStory'
  <2>1. IsFiniteSet(Tree!PayAt(o.store))
    BY TreeAssumption, FS_Subset DEF Tree!PayAt
  <2>2. Cardinality(Tree!PayAt(o.store) \cup {o.item}) = more
    <3>1. CASE o.kind = "createPay"
      BY <1>2, <1>5, <2>1, <3>1, Counted
    <3>2. CASE o.kind = "changePay"
      <4>1. Tree!PayAt(o.store) \cup {o.item} = Tree!PayAt(o.store)
        BY <1>5, <3>2
      <4>. QED  BY <1>2, <3>2, <4>1
    <3>. QED  BY <1>2, <3>1, <3>2
  <2>3. Cardinality(Tree!PayAt(o.store)) \in Nat
    BY <2>1, Counted
  <2>4. \A x : x = o.store => more = Cardinality(Tree!PayAt(x)')
    BY <1>5, <2>2
  <2>5. seen[r] \in Int /\ more \in Int
    BY <1>2, <2>3
  <2>. HIDE DEF more
  <2>. QED  BY <1>1, <1>2, <1>5, <2>4, <2>5, PayTold
<1>10. TreeTypes'
  <2>1. pay' \in [Contract -> Tree!Pay \cup {Unused, Removed}]
    BY <1>1, <1>2 DEF TreeInv, TreeTypes
  <2>. QED  BY <1>1, <1>9, <2>1, Closes DEF TreeInv, TreeTypes
<1>11. Tree!DeletedIsEmpty'
  BY <1>1, <1>2, <1>6, <1>7 DEF TreeInv, Tree!DeletedIsEmpty
<1>12. Tree!NoOverlap'
  <2>1. ASSUME NEW k \in Contract \ {o.item}, pay'[k] \in Tree!Pay, pay'[k].store = row.store
        PROVE  ~Tree!Overlaps(pay'[k].period, row.period) /\ ~Tree!Overlaps(row.period, pay'[k].period)
    BY <1>2, <1>3, <2>1 DEF Tree!PayAt, Tree!Overlaps
  <2>. QED  BY <1>3, <2>1 DEF TreeInv, Tree!NoOverlap, Tree!Overlaps
<1>. QED  BY <1>1, <1>8, <1>9, <1>10, <1>11, <1>12, CommitKeeps

LEMMA RemovePayPreserves == ASSUME TreeInv, NEW r \in Request, Tree!RemovePay(r) PROVE TreeInv'
<1>. DEFINE o == op[r]
<1>1. /\ Tree!Committing(r, {"removePay"}) /\ Tree!Close(r) /\ pay' = [pay EXCEPT ![o.item] = Removed]
      /\ payLog' = [payLog EXCEPT ![o.store] = Append(@, <<seen[r], seen[r] - 1>>)]
      /\ org' = org /\ deleted' = deleted /\ grants' = grants /\ store' = store /\ manager' = manager
      /\ managerLog' = managerLog /\ storeLog' = storeLog
  BY DEF Tree!RemovePay, Tree!Logged
<1>2. /\ o.kind = "removePay" /\ o.kind \in OnPay /\ o.org \in Tree!Org /\ o.store \in Store /\ o.item \in Contract
      /\ pay[o.item] \in Tree!Pay /\ pay[o.item].company = o.org /\ pay[o.item].store = o.store
      /\ seen[r] = Cardinality(Tree!PayAt(o.store))
  <2>1. /\ Holds(r) /\ Sensible(o) /\ OwnRows(o) /\ o.kind = "removePay" /\ Passed(r, "overlap") /\ Passed(r, "contract")
    BY <1>1, Ready DEF OnPay
  <2>. QED  BY <2>1 DEF Holds, Found, OwnRows, Sensible, OnPay
<1>3. /\ DOMAIN pay = Contract /\ pay'[o.item] = Removed /\ Removed \notin Tree!Pay
      /\ \A k \in Contract \ {o.item} : pay'[k] = pay[k]
  BY <1>1, <1>2, TreeAssumption DEF TreeInv, TreeTypes
<1>4. Unused # Removed /\ Unused \notin Tree!Pay
  BY TreeAssumption
<1>5. /\ \A x : x = o.store => Tree!PayAt(x)' = Tree!PayAt(x) \ {o.item}
      /\ \A x : x # o.store => Tree!PayAt(x)' = Tree!PayAt(x) /\ o.item \notin Tree!PayAt(x)
      /\ o.item \in Tree!PayAt(o.store)
  BY <1>2, <1>3 DEF Tree!PayAt
<1>6. \A x : Tree!PayOf(x)' \subseteq Tree!PayOf(x)
  BY <1>2, <1>3 DEF Tree!PayOf
<1>7. \A x : Tree!StoresOf(x)' = Tree!StoresOf(x) /\ Tree!Children(x)' = Tree!Children(x)
  BY <1>1 DEF Tree!StoresOf, Tree!Children, Tree!Live, Tree!Exists
<1>8. ASSUME NEW q \in Request \ {r}
      PROVE  RowsAreOwn(q)' /\ GrantsLocked(q)' /\ Found(q)' /\ Authorized(q)'
  <2>1. GrantsLocked(q)' /\ Authorized(q)'
    BY <1>1, OthersHeld, TreeStays, AuthorityStays
  <2>2. RowsAreOwn(q)'
    <3>1. op'[q] = op[q] /\ Sensible(op[q]) /\ OwnRows(op[q])
      BY <1>1, OthersHeld DEF Asked, RowsAreOwn
    <3>2. op[q].kind = "createPay" => pay'[op[q].item] = Unused
      <4>1. op[q].kind = "createPay" => op[q].item \in Contract \ {o.item}
        BY <1>2, <1>4, <3>1 DEF Sensible, OwnRows
      <4>. QED  BY <1>3, <3>1, <4>1 DEF OwnRows
    <3>3. op[q].kind \in OnPay =>
            /\ pay'[op[q].item] # Unused
            /\ pay'[op[q].item] \in Tree!Pay =>
                 pay'[op[q].item].company = op[q].org /\ pay'[op[q].item].store = op[q].store
      <4>1. CASE op[q].item = o.item
        BY <1>3, <1>4, <4>1
      <4>2. CASE op[q].item # o.item
        BY <1>3, <3>1, <4>2 DEF OwnRows, Sensible
      <4>. QED  BY <4>1, <4>2
    <3>. QED  BY <1>1, <3>1, <3>2, <3>3 DEF RowsAreOwn, OwnRows
  <2>3. Found(q)'
    <3>2. Passed(q, "overlap") => \A x : x = op[q].store =>
            Tree!PayAt(x)' = Tree!PayAt(x) /\ \A k \in Tree!PayAt(x) : pay'[k] = pay[k]
      <4>1. Passed(q, "overlap") => op[q].store # o.store
        BY <1>1, <1>2, OthersElsewhere
      <4>. QED  BY <1>3, <1>5, <4>1 DEF Tree!PayAt
    <3>3. Passed(q, "contract") => pay'[op[q].item] \in Tree!Pay
      <4>1. Passed(q, "contract") => 
              op[q].item \in Contract /\ pay[op[q].item] \in Tree!Pay /\ op[q].item # o.item
        <5>1. Asked(q) /\ Found(q) /\ step[q] \in 0 .. 9
          BY <1>1, OthersHeld
        <5>2. Passed(q, "contract") => op[q].item # o.item
          BY <1>1, <1>2, OthersElsewhere
        <5>. QED  BY <5>1, <5>2, Before DEF Asked, Sensible, Found
      <4>. QED  BY <1>3, <4>1
    <3>4. /\ Passed(q, "live") => op[q].org \notin deleted'
          /\ Passed(q, "store") => store'[op[q].store] = op[q].org
      BY <1>1, OthersHeld DEF Found
    <3>. QED  BY <1>1, <1>6, <1>7, <3>2, <3>3, <3>4, OthersHeld, FoundStays
  <2>. QED  BY <2>1, <2>2, <2>3
<1>9. payLog' \in [Store -> Seq(Int \X Int)] /\ Tree!AuditTellsTheStory'
  <2>1. IsFiniteSet(Tree!PayAt(o.store))
    BY TreeAssumption, FS_Subset DEF Tree!PayAt
  <2>2. Cardinality(Tree!PayAt(o.store) \ {o.item}) = Cardinality(Tree!PayAt(o.store)) - 1
    BY <1>5, <2>1, Counted
  <2>3. Cardinality(Tree!PayAt(o.store)) \in Nat
    BY <2>1, Counted
  <2>4. \A x : x = o.store => seen[r] - 1 = Cardinality(Tree!PayAt(x)')
    BY <1>2, <1>5, <2>2
  <2>5. seen[r] \in Int /\ seen[r] - 1 \in Int
    BY <1>2, <2>3
  <2>. QED  BY <1>1, <1>2, <1>5, <2>4, <2>5, PayTold
<1>10. TreeTypes'
  <2>1. pay' \in [Contract -> Tree!Pay \cup {Unused, Removed}]
    BY <1>1, <1>2 DEF TreeInv, TreeTypes
  <2>. QED  BY <1>1, <1>9, <2>1, Closes DEF TreeInv, TreeTypes
<1>11. Tree!DeletedIsEmpty'
  BY <1>1, <1>6, <1>7 DEF TreeInv, Tree!DeletedIsEmpty
<1>12. Tree!NoOverlap'
  BY <1>3 DEF TreeInv, Tree!NoOverlap
<1>. QED  BY <1>1, <1>8, <1>9, <1>10, <1>11, <1>12, CommitKeeps

LEMMA AppointPreserves == ASSUME TreeInv, NEW r \in Request, Tree!Appoint(r) PROVE TreeInv'
<1>. DEFINE o == op[r]  M == Person \cup {None}
<1>1. /\ Tree!Committing(r, {"appoint"}) /\ Tree!Close(r) /\ manager' = [manager EXCEPT ![o.org] = o.value.new]
      /\ org' = org /\ deleted' = deleted /\ grants' = grants /\ store' = store /\ pay' = pay
      /\ storeLog' = storeLog /\ payLog' = payLog
  BY DEF Tree!Appoint
<1>2. /\ o.kind = "appoint" /\ o.org \in Tree!Org /\ o.value.was \in M /\ o.value.new \in M
      /\ manager[o.org] = o.value.was
  <2>1. Holds(r) /\ Sensible(o) /\ o.kind = "appoint" /\ Passed(r, "eligible")
    BY <1>1, Ready
  <2>. QED  BY <2>1 DEF Holds, Found, Sensible, Sited
<1>3. /\ DOMAIN manager = Tree!Org /\ manager'[o.org] = o.value.new
      /\ \A x \in Tree!Org \ {o.org} : manager'[x] = manager[x]
  BY <1>1, <1>2 DEF TreeInv, TreeTypes
<1>4. \A x : /\ Tree!StoresOf(x)' = Tree!StoresOf(x) /\ Tree!Children(x)' = Tree!Children(x)
             /\ Tree!PayOf(x)' = Tree!PayOf(x) /\ Tree!PayAt(x)' = Tree!PayAt(x)
  BY <1>1 DEF Tree!StoresOf, Tree!Children, Tree!Live, Tree!Exists, Tree!PayOf, Tree!PayAt
<1>5. ASSUME NEW q \in Request \ {r}
      PROVE  RowsAreOwn(q)' /\ GrantsLocked(q)' /\ Found(q)' /\ Authorized(q)'
  <2>1. GrantsLocked(q)' /\ Authorized(q)'
    BY <1>1, OthersHeld, TreeStays, AuthorityStays
  <2>2. RowsAreOwn(q)'
    BY <1>1, OthersHeld DEF RowsAreOwn, OwnRows
  <2>3. Found(q)'
    <3>1. Passed(q, "eligible") => manager'[op[q].org] = manager[op[q].org]
      <4>1. Passed(q, "eligible") => op[q].org \in Tree!Org \ {o.org}
        BY <1>1, <1>2, OthersHeld, OthersElsewhere, Before DEF Asked, Sensible, Sited
      <4>. QED  BY <1>3, <4>1
    <3>2. /\ Passed(q, "live") => op[q].org \notin deleted'
          /\ Passed(q, "store") => store'[op[q].store] = op[q].org
          /\ Passed(q, "contract") => pay'[op[q].item] \in Tree!Pay
      BY <1>1, OthersHeld DEF Found
    <3>. QED  BY <1>1, <1>4, <3>1, <3>2, OthersHeld, FoundStays
  <2>. QED  BY <2>1, <2>2, <2>3
<1>6. managerLog' \in [Tree!Org -> Seq(M \X M)] /\ Tree!AuditTellsTheStory'
  <2>1. ASSUME NEW x \in Tree!Org PROVE managerLog'[x] \in Seq(M \X M) /\ Tree!Told(managerLog'[x], manager'[x])
    <3>1. managerLog[x] \in Seq(M \X M) /\ Tree!Told(managerLog[x], manager[x])
      BY DEF TreeInv, TreeTypes, Tree!AuditTellsTheStory
    <3>2. CASE x = o.org /\ o.value.new # o.value.was
      <4>1. managerLog'[x] = Append(managerLog[x], <<o.value.was, o.value.new>>)
        BY <3>2 DEF TreeInv, TreeTypes, Tree!Appoint, Tree!Logged
      <4>2. manager[x] = o.value.was /\ manager'[x] = o.value.new
        BY <1>2, <1>3, <3>2
      <4>3. Tree!Told(managerLog[x], o.value.was)
        BY <3>1, <4>2
      <4>. HIDE DEF M
      <4>4. /\ Append(managerLog[x], <<o.value.was, o.value.new>>) \in Seq(M \X M)
            /\ Tree!Told(Append(managerLog[x], <<o.value.was, o.value.new>>), o.value.new)
        BY <1>2, <3>1, <4>3, ToldOn
      <4>. QED  BY <4>1, <4>2, <4>4
    <3>3. CASE ~(x = o.org /\ o.value.new # o.value.was)
      <4>1. managerLog'[x] = managerLog[x]
        BY <3>3 DEF TreeInv, TreeTypes, Tree!Appoint, Tree!Logged
      <4>2. manager'[x] = manager[x]
        BY <1>2, <1>3, <3>3
      <4>. QED  BY <3>1, <4>1, <4>2
    <3>. QED  BY <3>2, <3>3
  <2>2. DOMAIN managerLog' = Tree!Org /\ managerLog' = [x \in Tree!Org |-> managerLog'[x]]
    BY DEF TreeInv, TreeTypes, Tree!Appoint, Tree!Logged
  <2>3. managerLog' \in [Tree!Org -> Seq(M \X M)]
    BY <2>1, <2>2
  <2>4. Tree!AuditTellsTheStory'
    BY <1>1, <1>4, <2>1 DEF TreeInv, Tree!AuditTellsTheStory
  <2>. QED  BY <2>3, <2>4
<1>7. TreeTypes'
  <2>1. manager' \in [Tree!Org -> M]
    BY <1>1, <1>2 DEF TreeInv, TreeTypes
  <2>. QED  BY <1>1, <1>6, <2>1, Closes DEF TreeInv, TreeTypes
<1>8. Tree!DeletedIsEmpty' /\ Tree!NoOverlap'
  BY <1>1, <1>4 DEF TreeInv, Tree!DeletedIsEmpty, Tree!NoOverlap
<1>. QED  BY <1>1, <1>5, <1>6, <1>7, <1>8, CommitKeeps

LEMMA DeleteOrgPreserves == ASSUME TreeInv, NEW r \in Request, Tree!DeleteOrg(r) PROVE TreeInv'
<1>. DEFINE o == op[r]
<1>1. /\ Tree!Committing(r, {"deleteOrg"}) /\ Tree!Close(r) /\ deleted' = deleted \cup {o.org}
      /\ org' = org /\ grants' = grants /\ store' = store /\ pay' = pay /\ manager' = manager
      /\ managerLog' = managerLog /\ storeLog' = storeLog /\ payLog' = payLog
  BY DEF Tree!DeleteOrg
<1>2. /\ o.kind = "deleteOrg" /\ o.org \in Tree!Org
      /\ Tree!Children(o.org) = {} /\ Tree!PayOf(o.org) = {} /\ Tree!StoresOf(o.org) = {}
  <2>1. Holds(r) /\ Sensible(o) /\ o.kind = "deleteOrg" /\ Passed(r, "blockers")
    BY <1>1, Ready
  <2>. QED  BY <2>1 DEF Holds, Found, Sensible, Sited
<1>3. \A x : /\ Tree!StoresOf(x)' = Tree!StoresOf(x) /\ Tree!Children(x)' \subseteq Tree!Children(x)
             /\ Tree!PayOf(x)' = Tree!PayOf(x) /\ Tree!PayAt(x)' = Tree!PayAt(x)
  BY <1>1 DEF Tree!StoresOf, Tree!Children, Tree!Live, Tree!Exists, Tree!PayOf, Tree!PayAt
<1>4. ASSUME NEW q \in Request \ {r}
      PROVE  RowsAreOwn(q)' /\ GrantsLocked(q)' /\ Found(q)' /\ Authorized(q)'
  <2>1. GrantsLocked(q)' /\ Authorized(q)'
    BY <1>1, OthersHeld, TreeStays, AuthorityStays
  <2>2. RowsAreOwn(q)'
    BY <1>1, OthersHeld DEF RowsAreOwn, OwnRows
  <2>3. Found(q)'
    <3>1. Passed(q, "live") => op[q].org \notin deleted'
      BY <1>1, <1>2, OthersHeld, OthersElsewhere DEF Found
    <3>2. /\ Passed(q, "store") => store'[op[q].store] = op[q].org
          /\ Passed(q, "contract") => pay'[op[q].item] \in Tree!Pay
      BY <1>1, OthersHeld DEF Found
    <3>. QED  BY <1>1, <1>3, <3>1, <3>2, OthersHeld, FoundStays
  <2>. QED  BY <2>1, <2>2, <2>3
<1>5. TreeTypes'
  BY <1>1, <1>2, Closes DEF TreeInv, TreeTypes
<1>6. Tree!DeletedIsEmpty'
  <2>1. \A x \in deleted' : Tree!Children(x) = {} /\ Tree!PayOf(x) = {} /\ Tree!StoresOf(x) = {}
    BY <1>1, <1>2 DEF TreeInv, Tree!DeletedIsEmpty
  <2>. QED  BY <1>3, <2>1 DEF Tree!DeletedIsEmpty
<1>7. Tree!NoOverlap' /\ Tree!AuditTellsTheStory'
  BY <1>1, <1>3 DEF TreeInv, Tree!NoOverlap, Tree!AuditTellsTheStory
<1>. QED  BY <1>1, <1>4, <1>5, <1>6, <1>7, CommitKeeps

\* The grants of one person change, and the rows that go were locked against
\* everyone who relies on them.
LEMMA GrantsPreserve ==
  ASSUME TreeInv, NEW r \in Request, NEW K, Tree!Committing(r, K), Tree!Close(r), op[r].kind \in {"grant", "revoke"},
         UNCHANGED <<org, deleted, store, pay, manager, managerLog, storeLog, payLog>>,
         \A p : p # op[r].item => Tree!GrantsOf(p)' = Tree!GrantsOf(p),
         \A g \in grants \ grants' : \E m \in {"update", "nokey"} :
           [row |-> <<"grant", Tree!Key(g)>>, mode |-> m] \in held[r]
  PROVE  TreeInv'
<1>1. \A x : /\ Tree!StoresOf(x)' = Tree!StoresOf(x) /\ Tree!Children(x)' = Tree!Children(x)
             /\ Tree!PayOf(x)' = Tree!PayOf(x) /\ Tree!PayAt(x)' = Tree!PayAt(x)
  BY DEF Tree!StoresOf, Tree!Children, Tree!Live, Tree!Exists, Tree!PayOf, Tree!PayAt
<1>2. ASSUME NEW q \in Request \ {r}
      PROVE  RowsAreOwn(q)' /\ GrantsLocked(q)' /\ Found(q)' /\ Authorized(q)'
  <2>1. /\ op'[q] = op[q] /\ held'[q] = held[q] /\ \A what : Passed(q, what)' <=> Passed(q, what)
        /\ Still(q) /\ RowsAreOwn(q) /\ GrantsLocked(q) /\ Found(q) /\ Authorized(q)
    BY OthersHeld
  <2>2. RowsAreOwn(q)'
    BY <2>1 DEF RowsAreOwn, OwnRows
  <2>3. GrantsLocked(q)'
    <3>1. Passed(q, "widen") \/ Passed(q, "rows") => op[q].item # op[r].item
      BY OthersElsewhere
    <3>2. \A x : x.item # op[r].item =>
            Tree!Needs(x, "widen")' = Tree!Needs(x, "widen") /\ Tree!Needs(x, "rows")' = Tree!Needs(x, "rows")
      BY DEF Tree!Needs, Tree!Widened
    <3>3. Passed(q, "widen") \/ Passed(q, "rows") => \A x : x = op[q] =>
            Tree!Needs(x, "widen")' = Tree!Needs(x, "widen") /\ Tree!Needs(x, "rows")' = Tree!Needs(x, "rows")
      BY <3>1, <3>2
    <3>. QED  BY <2>1, <3>3 DEF GrantsLocked
  <2>4. Found(q)'
    <3>1. /\ Passed(q, "live") => op[q].org \notin deleted'
          /\ Passed(q, "store") => store'[op[q].store] = op[q].org
          /\ Passed(q, "contract") => pay'[op[q].item] \in Tree!Pay
      BY <2>1 DEF Found
    <3>. QED  BY <1>1, <2>1, <3>1, FoundStays
  <2>5. Authorized(q)'
    <3>1. \A g \in grants : [row |-> <<"grant", Tree!Key(g)>>, mode |-> "share"] \in held[q] => g \in grants'
      BY LocksApart DEF TreeInv
    <3>2. \A o : Tree!Ancestors(o)' = Tree!Ancestors(o)
      BY DEF Tree!Ancestors, Tree!Parents, Tree!Exists
    <3>3. \A kind, o, g : Grounds(kind, o, g)' <=> Grounds(kind, o, g)
      BY <3>2 DEF Grounds
    <3>4. \A kind, p : Backed(q, kind, p) => Backed(q, kind, p)'
      BY <2>1, <3>1, <3>3 DEF Backed, Tree!Key
    <3>. QED  BY <2>1, <3>4 DEF Authorized
  <2>. QED  BY <2>2, <2>3, <2>4, <2>5
<1>3. TreeTypes'
  BY Closes DEF TreeInv, TreeTypes
<1>4. Tree!DeletedIsEmpty' /\ Tree!NoOverlap' /\ Tree!AuditTellsTheStory'
  BY <1>1 DEF TreeInv, Tree!DeletedIsEmpty, Tree!NoOverlap, Tree!AuditTellsTheStory
<1>. QED  BY <1>2, <1>3, <1>4, CommitKeeps

LEMMA GrantRolesPreserves == ASSUME TreeInv, NEW r \in Request, Tree!GrantRoles(r) PROVE TreeInv'
<1>. DEFINE o == op[r]
<1>1. /\ Tree!Committing(r, {"grant"}) /\ Tree!Close(r)
      /\ grants' = (grants \ Tree!Widened(o)) \cup {Tree!Staff(o.item, x) : x \in o.value}
      /\ UNCHANGED <<org, deleted, store, pay, manager, managerLog, storeLog, payLog>>
  BY DEF Tree!GrantRoles
<1>2. o.kind = "grant" /\ Passed(r, "widen") /\ GrantsLocked(r)
  BY <1>1, Ready DEF Holds
<1>3. \A g \in Tree!Widened(o) : [row |-> <<"grant", Tree!Key(g)>>, mode |-> "nokey"] \in held[r]
  BY <1>2 DEF GrantsLocked, Tree!Needs, Tree!RowLocks
<1>4. \A p : p # o.item => Tree!GrantsOf(p)' = Tree!GrantsOf(p)
  BY <1>1 DEF Tree!GrantsOf, Tree!Widened, Tree!Staff
<1>. QED  BY <1>1, <1>2, <1>3, <1>4, GrantsPreserve

LEMMA RevokeRolesPreserves == ASSUME TreeInv, NEW r \in Request, Tree!RevokeRoles(r) PROVE TreeInv'
<1>. DEFINE o == op[r]
<1>1. /\ Tree!Committing(r, {"revoke"}) /\ Tree!Close(r)
      /\ grants' = {g \in grants : ~(g.who = o.item /\ g.org = o.org)}
      /\ UNCHANGED <<org, deleted, store, pay, manager, managerLog, storeLog, payLog>>
  BY DEF Tree!RevokeRoles
<1>2. o.kind = "revoke" /\ Passed(r, "rows") /\ GrantsLocked(r)
  BY <1>1, Ready DEF Holds
<1>3. \A g \in grants \ grants' : [row |-> <<"grant", Tree!Key(g)>>, mode |-> "update"] \in held[r]
  BY <1>1, <1>2 DEF GrantsLocked, Tree!Needs, Tree!RowLocks, Tree!GrantsOf
<1>4. \A p : p # o.item => Tree!GrantsOf(p)' = Tree!GrantsOf(p)
  BY <1>1 DEF Tree!GrantsOf
<1>. QED  BY <1>1, <1>2, <1>3, <1>4, GrantsPreserve

-----------------------------------------------------------------------------
(* The theorems                                                            *)

LEMMA TreeStart == Tree!Init => TreeInv
<1>. SUFFICES ASSUME Tree!Init PROVE TreeInv
  OBVIOUS
<1>1. /\ deleted = {} /\ manager = [o \in Tree!Org |-> None]
      /\ store \in [Store -> Company \cup {Unused}]
      /\ pay \in [Contract -> [company : Company, store : Store, period : Period] \cup {Unused}]
      /\ managerLog = [o \in Tree!Org |-> <<>>] /\ storeLog = [o \in Tree!Org |-> <<>>]
      /\ payLog = [s \in Store |-> <<>>]
      /\ op = [r \in Request |-> Tree!NoOp] /\ step = [r \in Request |-> 0]
      /\ held = [r \in Request |-> {}] /\ seen = [r \in Request |-> 0]
  BY DEF Tree!Init
<1>2. Company \subseteq Tree!Org /\ Operator \in Tree!Org
  BY DEF Tree!Org
<1>3. TreeTypes
  <2>1. org \in [Tree!Org -> [parent : Tree!Org \cup {None}, name : Name] \cup {Unused}]
    <3>1. PICK S \in SUBSET SubOrg, c \in Company, n \in Name : org =
            [o \in Tree!Org |-> CASE o = Operator -> [parent |-> None, name |-> n]
                                  [] o \in Company -> [parent |-> Operator, name |-> n]
                                  [] o \in S -> [parent |-> c, name |-> n]
                                  [] OTHER -> Unused]
      BY DEF Tree!Init
    <3>. DEFINE R == [parent : Tree!Org \cup {None}, name : Name]
    <3>2. ASSUME NEW o \in Tree!Org PROVE org[o] \in R \cup {Unused}
      <4>1. /\ [parent |-> None, name |-> n] \in R /\ [parent |-> Operator, name |-> n] \in R
            /\ [parent |-> c, name |-> n] \in R
        BY <1>2
      <4>. HIDE DEF R
      <4>. QED  BY <3>1, <4>1
    <3>. QED  BY <3>1, <3>2
  <2>2. store \in [Store -> Tree!Org \cup {Unused, Removed}]
    BY <1>1, <1>2
  <2>3. pay \in [Contract -> Tree!Pay \cup {Unused, Removed}]
    BY <1>1, <1>2 DEF Tree!Pay
  <2>4. /\ manager \in [Tree!Org -> Person \cup {None}]
        /\ managerLog \in [Tree!Org -> Seq((Person \cup {None}) \X (Person \cup {None}))]
        /\ storeLog \in [Tree!Org -> Seq(Int \X Int)] /\ payLog \in [Store -> Seq(Int \X Int)]
        /\ DOMAIN op = Request /\ step \in [Request -> 0 .. 9] /\ DOMAIN held = Request /\ seen \in [Request -> Nat]
    BY <1>1
  <2>. QED  BY <1>1, <2>1, <2>2, <2>3, <2>4 DEF TreeTypes
<1>4. ASSUME NEW r \in Request PROVE Holds(r) /\ op[r].kind = "none" /\ held[r] = {}
  <2>1. op[r].kind = "none" /\ step[r] = 0 /\ held[r] = {}
    BY <1>1 DEF Tree!NoOp, Tree!Op
  <2>2. \A what : ~Passed(r, what)
    BY <2>1 DEF Passed
  <2>3. Asked(r) /\ RowsAreOwn(r)
    BY <2>1 DEF Asked, Sensible, RowsAreOwn, OwnRows, Sited, OnPay
  <2>4. Locked(r) /\ OrgLocked(r) /\ GrantsLocked(r) /\ Found(r) /\ Authorized(r)
    BY <2>2 DEF Locked, OrgLocked, GrantsLocked, Found, Authorized
  <2>. QED  BY <2>1, <2>3, <2>4 DEF Holds
<1>5. IdsDiffer /\ Compatible
  BY <1>4 DEF IdsDiffer, Compatible
<1>6. Tree!DeletedIsEmpty /\ Tree!AuditTellsTheStory
  BY <1>1 DEF Tree!DeletedIsEmpty, Tree!AuditTellsTheStory, Tree!Told
<1>7. Tree!NoOverlap
  BY DEF Tree!Init, Tree!NoOverlap
<1>. QED  BY <1>3, <1>4, <1>5, <1>6, <1>7 DEF TreeInv

LEMMA CommitPreserves == ASSUME TreeInv, NEW r \in Request, Tree!Commit(r) PROVE TreeInv'
  BY CreateOrgPreserves, CreateStorePreserves, RemoveStorePreserves, WritePayPreserves, RemovePayPreserves,
     AppointPreserves, DeleteOrgPreserves, GrantRolesPreserves, RevokeRolesPreserves DEF Tree!Commit

LEMMA TreeNext == TreeInv /\ [AllNext]_<<part, tree, vars>> => TreeInv'
<1>. SUFFICES ASSUME TreeInv, [AllNext]_<<part, tree, vars>> PROVE TreeInv'
  OBVIOUS
<1>1. CASE UNCHANGED tree
  <2>1. /\ org' = org /\ deleted' = deleted /\ grants' = grants /\ store' = store /\ pay' = pay /\ manager' = manager
        /\ managerLog' = managerLog /\ storeLog' = storeLog /\ payLog' = payLog
        /\ op' = op /\ step' = step /\ held' = held /\ seen' = seen
    BY <1>1 DEF tree
  <2>2. \A q \in Request : Holds(q)'
    BY <2>1, StillHolds DEF TreeInv, Still, Tree!db
  <2>3. TreeTypes' /\ IdsDiffer' /\ Compatible'
    BY <2>1 DEF TreeInv, TreeTypes, IdsDiffer, Compatible
  <2>4. Tree!DeletedIsEmpty' /\ Tree!NoOverlap' /\ Tree!AuditTellsTheStory'
    BY <2>1 DEF TreeInv, Tree!DeletedIsEmpty, Tree!NoOverlap, Tree!AuditTellsTheStory, Tree!Children, Tree!Live,
       Tree!Exists, Tree!PayOf, Tree!StoresOf, Tree!PayAt
  <2>. QED  BY <2>2, <2>3, <2>4 DEF TreeInv
<1>2. CASE Tree!Next
  <2>1. PICK r \in Request : Tree!Begin(r) \/ Tree!Run(r) \/ Tree!Refuse(r) \/ Tree!Fail(r) \/ Tree!Commit(r)
    BY <1>2 DEF Tree!Next
  <2>2. CASE Tree!Begin(r)
    BY <2>2, BeginPreserves
  <2>3. CASE Tree!Run(r)
    BY <2>3, RunPreserves
  <2>4. CASE Tree!Refuse(r) \/ Tree!Fail(r)
    <3>1. Tree!Close(r) /\ UNCHANGED Tree!db
      BY <2>4 DEF Tree!Refuse, Tree!Fail
    <3>. QED  BY <3>1, CloseOnlyPreserves
  <2>5. CASE Tree!Commit(r)
    BY <2>5, CommitPreserves
  <2>. QED  BY <2>1, <2>2, <2>3, <2>4, <2>5
<1>. QED  BY <1>1, <1>2 DEF AllNext

\* Every transaction holds the locks of the statements behind it, and what
\* those statements found is still so.
THEOREM TreeInvariance == AllSpec => []TreeInv
<1>1. AllInit => TreeInv
  BY TreeStart DEF AllInit, TreeInit
<1>. QED  BY <1>1, TreeNext, PTL DEF AllSpec

\* However a deletion's count races with the transactions that add an
\* organization, a store or a contract, nothing is left in a deleted one.
THEOREM DeletedIsEmptyHolds == AllSpec => []DeletedIsEmpty
<1>1. TreeInv => DeletedIsEmpty
  BY DEF TreeInv, DeletedIsEmpty
<1>. QED  BY <1>1, TreeInvariance, PTL

\* Contracts of one candidate at one store never overlap, although the check
\* and the write are two statements.
THEOREM NoOverlapHolds == AllSpec => []NoOverlap
<1>1. TreeInv => NoOverlap
  BY DEF TreeInv, NoOverlap
<1>. QED  BY <1>1, TreeInvariance, PTL

\* An audit row begins where the last one ended, and the last one ends at what
\* the table holds.
THEOREM AuditTellsTheStoryHolds == AllSpec => []AuditTellsTheStory
<1>1. TreeInv => AuditTellsTheStory
  BY DEF TreeInv, AuditTellsTheStory
<1>. QED  BY <1>1, TreeInvariance, PTL

\* Nothing is committed without the grant that the decision rested on: the
\* share lock on its row keeps a revocation out.
THEOREM ActsWithAuthorityHolds == AllSpec => ActsWithAuthority
<1>1. ASSUME TreeInv, NEW r \in Request
      PROVE  LET o == op[r] IN
             /\ Tree!Commit(r) /\ o.by # None => Tree!Decision(o.kind, o.by, o.org)
             /\ Tree!Appoint(r) /\ o.value.new # None => Tree!Covers(o.value.new, o.org, Tree!Writer)
  <2>. DEFINE o == op[r]
  <2>1. ASSUME Tree!Commit(r), o.by # None PROVE Tree!Decision(o.kind, o.by, o.org)
    <3>1. PICK K : Tree!Committing(r, K)
      BY <2>1 DEF Tree!Commit, Tree!CreateOrg, Tree!CreateStore, Tree!RemoveStore, Tree!WritePay, Tree!RemovePay,
         Tree!Appoint, Tree!DeleteOrg, Tree!GrantRoles, Tree!RevokeRoles
    <3>2. Authorized(r) /\ Sensible(o) /\ o.kind \in Kinds /\ (o.kind \in Sited \cup OnPay => Passed(r, "grants"))
      BY <1>1, <3>1, Ready DEF Holds
    <3>3. o.kind \in Sited \cup OnPay
      BY <2>1, <3>2 DEF Sensible, Kinds
    <3>4. (o.kind = "createOrg" \/ o.org # Operator) /\ Backed(r, o.kind, o.by)
      BY <3>2, <3>3 DEF Authorized
    <3>5. \E g \in Tree!GrantsOf(o.by) : Grounds(o.kind, o.org, g)
      BY <3>4 DEF Backed, Tree!GrantsOf
    <3>. QED  BY <3>4, <3>5, DecisionsRest
  <2>2. ASSUME Tree!Appoint(r), o.value.new # None PROVE Tree!Covers(o.value.new, o.org, Tree!Writer)
    <3>1. Tree!Committing(r, {"appoint"})
      BY <2>2 DEF Tree!Appoint
    <3>2. Authorized(r) /\ Passed(r, "eligible")
      BY <1>1, <3>1, Ready DEF Holds
    <3>3. Backed(r, "manage", o.value.new)
      BY <2>2, <3>2 DEF Authorized
    <3>4. \E g \in Tree!GrantsOf(o.value.new) : Grounds("manage", o.org, g)
      BY <3>3 DEF Backed, Tree!GrantsOf
    <3>. QED  BY <3>4, DecisionsRest
  <2>. QED  BY <2>1, <2>2
<1>2. TreeInv => [\A r \in Request : LET o == op[r] IN
          /\ Tree!Commit(r) /\ o.by # None => Tree!Decision(o.kind, o.by, o.org)
          /\ Tree!Appoint(r) /\ o.value.new # None => Tree!Covers(o.value.new, o.org, Tree!Writer)]_(Tree!vars)
  BY <1>1
<1>. QED  BY <1>2, TreeInvariance, PTL DEF ActsWithAuthority, Tree!ActsWithAuthority
=============================================================================
