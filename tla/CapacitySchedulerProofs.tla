---------------------- MODULE CapacitySchedulerProofs ----------------------
(***************************************************************************)
(* Running workers keep their reservations and their room, and no          *)
(* transaction undoes another, for every policy, any number of processes   *)
(* and any orders.                                                         *)
(***************************************************************************)
EXTENDS CapacityScheduler, TLAPS, FiniteSetTheorems, WellFoundedInduction

-----------------------------------------------------------------------------
(* The inductive invariant                                                 *)

\* A ledger, read or written, that keeps to the policy.
Ledger == [res : [Ids -> Reservation \union {None}], spent : Nat, paused : SUBSET Resources]
Labelled(l) == l \in Ledger /\ \A i \in Ids : l.res[i] # None => l.res[i].order.id = i
WithinLimits(l) ==
  /\ Cardinality(Active(l)) <= GlobalLimit /\ Cardinality(ActiveWriters(l)) <= GlobalLimit - ReviewReserve
  /\ \A o \in Order : /\ Cardinality(Holding(l, "host", o.host)) <= HostLimit
                      /\ Cardinality(Holding(l, "account", o.account)) <= AccountLimit
                      /\ Cardinality(Holding(l, "runtime", o.runtime)) <= RuntimeLimit
Apart(l) == \A i, j \in Active(l) : i # j => ~Collides(l.res[i].order, l.res[j].order)
\* What it has spent and what it has promised exceed the budget by no more than
\* ended workers exceeded their estimates; nothing is charged before the end.
Budgeted(l) ==
  /\ \A i \in Active(l) : l.res[i].actual = 0
  /\ l.spent + Committed(l) <= Budget + Overruns(l)
\* A charge is what a worker may have cost.
Charged(l) == \A i \in Ids : l.res[i] # None => l.res[i].actual \in Cost \union {0}
Good(l) == Labelled(l) /\ WithinLimits(l) /\ Apart(l) /\ Budgeted(l) /\ Charged(l)

\* A call, and where it may be.
CallType == {NoCall}
  \union [kind : {"reserve"}, todo : Seq(Order), ok : SUBSET Ids]
  \union [kind : {"move", "moved", "refused"}, id : Ids, status : Moves, cost : Cost]
  \union [kind : {"pause"}, key : Resources]
InTransaction(p) == pc[p] \in {"locked", "work", "write", "unlock"}
CallsInPlace ==
  /\ copy \in [Clerk -> Ledger] /\ call \in [Clerk -> CallType]
  /\ \A p \in Clerk :
       /\ pc[p] = "idle" => call[p] = NoCall
       /\ go[p] # None => pc[p] = "idle"
       /\ InTransaction(p) => lock = p
       /\ pc[p] \in {"begun", "locked"} /\ call[p].kind = "reserve" => call[p].ok = {}
       /\ pc[p] \in {"work", "write"} => Good(copy[p])

\* One process looks after a task; what it is about to end does not run.
OneCaller == \A p, q \in Clerk : p # q => Concerns(call[p]) \intersect (Concerns(call[q]) \union {go[q]}) = {}
LaunchesApart == \A p, q \in Clerk : p # q /\ go[p] # None => go[p] # go[q]
EndsTheEnded == \A p \in Clerk :
  call[p].kind \in {"move", "moved", "refused"} /\ call[p].status \in TerminalStatus => worker[call[p].id] # "live"

\* A task that runs, or that a process was told to launch, has a reservation
\* with no deadline: in the ledger, and in the copy about to replace it.
Bound(i) == worker[i] = "live" \/ \E p \in Clerk : go[p] = i
Secured(l, i) == l.res[i] # None /\ l.res[i].status \in ActiveStatus \ {"reserved"}
BoundIsSecured == \A i \in Ids : Bound(i) => Secured(ledger, i)

\* The copy loses nothing that the ledger has.
Keeps(l, m) == \A i \in Ids :
  /\ l.res[i] # None => m.res[i] # None
  /\ l.res[i] # None /\ l.res[i].status \in TerminalStatus => m.res[i] = l.res[i]
CopyFollows == \A p \in Clerk : pc[p] \in {"work", "write"} =>
  Keeps(ledger, copy[p]) /\ \A i \in Ids : Bound(i) => Secured(copy[p], i)

\* The answer of a call is what the ledger says, once it is written.
Backs(l, c) ==
  /\ c.kind = "reserve" => \A i \in c.ok : l.res[i] # None
  /\ c.kind = "moved" => l.res[c.id] # None /\ l.res[c.id].status = c.status
AnswersAreBacked ==
  /\ \A i \in told : ledger.res[i] # None
  /\ \A p \in Clerk : /\ (pc[p] = "work" /\ call[p].kind = "reserve") \/ pc[p] = "write" => Backs(copy[p], call[p])
                      /\ pc[p] = "unlock" => Backs(ledger, call[p])

IInv ==
  /\ TypeOK /\ Good(ledger) /\ CallsInPlace
  /\ OneCaller /\ LaunchesApart /\ EndsTheEnded
  /\ BoundIsSecured /\ CopyFollows /\ AnswersAreBacked

-----------------------------------------------------------------------------
(* Counting                                                                *)

LEMMA IdsAreFinite == IsFiniteSet(Ids)
<1>. DEFINE IdOf == [o \in Order |-> o.id]
<1>1. IdOf \in Surjection(Order, Ids)
  BY DEF Surjection, Ids
<1>. QED  BY <1>1, FS_Surjection, OrderAssumption

LEMMA Fewer ==
  ASSUME NEW S \in SUBSET Ids, NEW T \in SUBSET S
  PROVE  Cardinality(S) \in Nat /\ Cardinality(T) \in Nat /\ Cardinality(T) <= Cardinality(S)
<1>1. IsFiniteSet(S) /\ IsFiniteSet(T)
  BY IdsAreFinite, FS_Subset
<1>. QED  BY <1>1, FS_Subset, FS_CardinalityType

LEMMA OneMore ==
  ASSUME NEW S \in SUBSET Ids, NEW x \in Ids, NEW T \in SUBSET (S \union {x})
  PROVE  Cardinality(T) \in Nat /\ Cardinality(S) \in Nat /\ Cardinality(T) <= Cardinality(S) + 1
<1>1. IsFiniteSet(S) /\ Cardinality(S) \in Nat
  BY IdsAreFinite, FS_Subset, FS_CardinalityType
<1>2. Cardinality(S \union {x}) <= Cardinality(S) + 1
  BY <1>1, FS_AddElement
<1>3. S \union {x} \in SUBSET Ids
  OBVIOUS
<1>4. Cardinality(T) <= Cardinality(S \union {x}) /\ Cardinality(T) \in Nat /\ Cardinality(S \union {x}) \in Nat
  BY <1>3, Fewer
<1>. QED  BY <1>1, <1>2, <1>4

-----------------------------------------------------------------------------
(* Sums                                                                    *)

\* Induction over the subsets of a finite set, with a set for the property.
LEMMA SubsetInduction ==
  ASSUME NEW S, IsFiniteSet(S), NEW G,
         \A s \in SUBSET S : (\A r \in SUBSET s : r # s => r \in G) => s \in G
  PROVE  \A s \in SUBSET S : s \in G
<1>. DEFINE Bad == (SUBSET S) \ G
<1>1. IsWellFoundedOn(StrictSubsetOrdering(S), SUBSET S)
  BY FS_StrictSubsetOrderingWellFounded, FS_FiniteSubsetsOfFinite
<1>2. SUFFICES ASSUME Bad # {} PROVE FALSE
  OBVIOUS
<1>3. Bad \subseteq SUBSET S
  OBVIOUS
<1>. HIDE DEF Bad
<1>4. PICK m \in Bad : \A n \in Bad : <<n, m>> \notin StrictSubsetOrdering(S)
  BY <1>1, <1>2, <1>3, WFMin
<1>5. \A n \in SUBSET m : n # m => n \in G
  BY <1>4 DEF Bad, StrictSubsetOrdering
<1>. QED  BY <1>4, <1>5 DEF Bad

\* The table a sum is read from: an entry for every subset, in the order in
\* which the fold takes the elements.
First(s) == CHOOSE x \in s : TRUE
Table(g, f, S) == g = [s \in SUBSET S |-> IF s = {} THEN 0 ELSE f[First(s)] + g[s \ {First(s)}]]

LEMMA SumFromTable ==
  ASSUME NEW f, NEW S
  PROVE  SumFunctionOnSet(f, S) = (CHOOSE g : Table(g, f, S))[S]
BY DEF SumFunctionOnSet, FoldFunctionOnSet, MapThenFoldSet, Table, First

LEMMA FirstIsIn ==
  ASSUME NEW s, s # {}
  PROVE  First(s) \in s /\ s \ {First(s)} \in SUBSET s /\ s \ {First(s)} # s
<1>1. First(s) \in s
  BY DEF First
<1>. QED  BY <1>1

LEMMA TablesAgree ==
  ASSUME NEW S, IsFiniteSet(S), NEW R, NEW f, NEW g, NEW h, Table(g, f, S), Table(h, f, R)
  PROVE  \A s \in SUBSET S : s \subseteq R => g[s] = h[s]
<1>. DEFINE G == {s \in SUBSET S : s \subseteq R => g[s] = h[s]}
<1>1. ASSUME NEW s \in SUBSET S, \A r \in SUBSET s : r # s => r \in G PROVE s \in G
  <2>. SUFFICES ASSUME s \subseteq R PROVE g[s] = h[s]
    OBVIOUS
  <2>1. /\ g[s] = IF s = {} THEN 0 ELSE f[First(s)] + g[s \ {First(s)}]
        /\ h[s] = IF s = {} THEN 0 ELSE f[First(s)] + h[s \ {First(s)}]
    BY DEF Table
  <2>2. s # {} => g[s \ {First(s)}] = h[s \ {First(s)}]
    BY <1>1, FirstIsIn
  <2>. QED  BY <2>1, <2>2
<1>. HIDE DEF G
<1>2. \A s \in SUBSET S : s \in G
  BY <1>1, SubsetInduction
<1>. QED  BY <1>2 DEF G

LEMMA TableExists ==
  ASSUME NEW S, IsFiniteSet(S), NEW f
  PROVE  \E g : Table(g, f, S)
<1>. DEFINE G == {s \in SUBSET S : \E g : Table(g, f, s)}
            Made(s) == CHOOSE g : Table(g, f, s)
<1>1. ASSUME NEW s \in SUBSET S, \A r \in SUBSET s : r # s => r \in G PROVE s \in G
  <2>. DEFINE sum(r) == Made(r)[r]
              new == [r \in SUBSET s |-> IF r = {} THEN 0 ELSE f[First(r)] + sum(r \ {First(r)})]
  <2>1. ASSUME NEW r \in SUBSET s, r # s PROVE Table(Made(r), f, r) /\ IsFiniteSet(r)
    <3>1. \E g : Table(g, f, r)
      BY <1>1, <2>1
    <3>. QED  BY <3>1, FS_Subset
  <2>. HIDE DEF Made, G
  <2>2. ASSUME NEW r \in SUBSET s, r # s PROVE new[r] = sum(r)
    <3>1. sum(r) = IF r = {} THEN 0 ELSE f[First(r)] + Made(r)[r \ {First(r)}]
      <4>1. Table(Made(r), f, r)
        BY <2>1, <2>2
      <4>. QED  BY <4>1 DEF Table
    <3>2. CASE r # {}
      <4>. DEFINE q == r \ {First(r)}
      <4>1. q \in SUBSET r /\ q \in SUBSET s /\ q # s
        BY <2>2, <3>2, FirstIsIn
      <4>2. Table(Made(q), f, q) /\ IsFiniteSet(q) /\ Table(Made(r), f, r)
        BY <2>1, <2>2, <4>1
      <4>. HIDE DEF q
      <4>3. Made(q)[q] = Made(r)[q]
        BY <4>1, <4>2, TablesAgree
      <4>. QED  BY <3>1, <3>2, <4>3 DEF q
    <3>. QED  BY <3>1, <3>2
  <2>3. ASSUME NEW r \in SUBSET s, r # {}
        PROVE  new[r \ {First(r)}] = sum(r \ {First(r)})
    <3>1. r \ {First(r)} \in SUBSET s /\ r \ {First(r)} # s
      BY <2>3, FirstIsIn
    <3>. HIDE DEF new, sum
    <3>. QED  BY <2>2, <3>1
  <2>. DEFINE same == [r \in SUBSET s |-> IF r = {} THEN 0 ELSE f[First(r)] + new[r \ {First(r)}]]
  <2>4. \A r \in SUBSET s : new[r] = same[r]
    <3>. HIDE DEF sum
    <3>1. \A r \in SUBSET s : new[r] = IF r = {} THEN 0 ELSE f[First(r)] + sum(r \ {First(r)})
      OBVIOUS
    <3>. HIDE DEF new
    <3>. QED  BY <2>3, <3>1
  <2>5. new = same
    <3>1. new = [r \in SUBSET s |-> new[r]] /\ same = [r \in SUBSET s |-> same[r]]
      OBVIOUS
    <3>. HIDE DEF new, same
    <3>. QED  BY <2>4, <3>1
  <2>6. Table(new, f, s)
    <3>. HIDE DEF new
    <3>. QED  BY <2>5 DEF Table
  <2>. QED  BY <2>6 DEF G
<1>. HIDE DEF G
<1>2. \A s \in SUBSET S : s \in G
  BY <1>1, SubsetInduction
<1>. QED  BY <1>2 DEF G

\* A sum over a finite set, one element at a time: the one the fold takes ..
LEMMA SumOfNone == ASSUME NEW f PROVE SumFunctionOnSet(f, {}) = 0
<1>. DEFINE g == CHOOSE g : Table(g, f, {})
<1>1. Table(g, f, {})
  BY TableExists, FS_EmptySet
<1>. HIDE DEF g
<1>2. g[{}] = 0
  BY <1>1 DEF Table
<1>. QED  BY <1>2, SumFromTable DEF g

LEMMA SumOfFirst ==
  ASSUME NEW f, NEW S, IsFiniteSet(S), S # {}
  PROVE  SumFunctionOnSet(f, S) = f[First(S)] + SumFunctionOnSet(f, S \ {First(S)})
<1>. DEFINE R == S \ {First(S)}
            g == CHOOSE g : Table(g, f, S)
            h == CHOOSE h : Table(h, f, R)
<1>1. IsFiniteSet(R) /\ R \in SUBSET S
  BY FS_Subset
<1>2. Table(g, f, S) /\ Table(h, f, R)
  <2>. HIDE DEF R
  <2>. QED  BY <1>1, TableExists
<1>3. SumFunctionOnSet(f, S) = g[S] /\ SumFunctionOnSet(f, R) = h[R]
  <2>. HIDE DEF R
  <2>. QED  BY SumFromTable
<1>. HIDE DEF g, h, R
<1>4. h[R] = g[R]
  BY <1>1, <1>2, TablesAgree
<1>5. g[S] = f[First(S)] + g[R]
  BY <1>2 DEF Table, R
<1>. QED  BY <1>3, <1>4, <1>5 DEF R

Amounts(f, S) == \A i \in S : f[i] \in Nat

LEMMA SumIsNat ==
  ASSUME NEW f, NEW S, IsFiniteSet(S), Amounts(f, S)
  PROVE  SumFunctionOnSet(f, S) \in Nat
<1>. DEFINE G == {s \in SUBSET S : SumFunctionOnSet(f, s) \in Nat}
<1>1. ASSUME NEW s \in SUBSET S, \A r \in SUBSET s : r # s => r \in G PROVE s \in G
  <2>1. CASE s = {}
    BY <2>1, SumOfNone
  <2>2. CASE s # {}
    <3>1. SumFunctionOnSet(f, s) = f[First(s)] + SumFunctionOnSet(f, s \ {First(s)})
      BY <2>2, FS_Subset, SumOfFirst
    <3>2. f[First(s)] \in Nat /\ SumFunctionOnSet(f, s \ {First(s)}) \in Nat
      BY <1>1, <2>2, FirstIsIn DEF Amounts
    <3>. QED  BY <3>1, <3>2
  <2>. QED  BY <2>1, <2>2
<1>. HIDE DEF G
<1>2. \A s \in SUBSET S : s \in G
  BY <1>1, SubsetInduction
<1>. QED  BY <1>2 DEF G

\* .. and any other: the order does not matter.
LEMMA SumOfAny ==
  ASSUME NEW f, NEW S, IsFiniteSet(S), Amounts(f, S), NEW x \in S
  PROVE  SumFunctionOnSet(f, S) = f[x] + SumFunctionOnSet(f, S \ {x})
<1>. DEFINE sum(s) == SumFunctionOnSet(f, s)
            G == {s \in SUBSET S : \A y \in s : sum(s) = f[y] + sum(s \ {y})}
<1>1. ASSUME NEW s \in SUBSET S, \A r \in SUBSET s : r # s => r \in G PROVE s \in G
  <2>. SUFFICES ASSUME NEW y \in s PROVE sum(s) = f[y] + sum(s \ {y})
    OBVIOUS
  <2>. DEFINE z == First(s)
  <2>1. z \in s /\ IsFiniteSet(s) /\ f[z] \in Nat /\ f[y] \in Nat
    BY FirstIsIn, FS_Subset DEF Amounts
  <2>2. sum(s) = f[z] + sum(s \ {z})
    BY <2>1, SumOfFirst
  <2>. HIDE DEF z, sum
  <2>3. CASE y # z
    <3>1. sum(s \ {z}) = f[y] + sum((s \ {z}) \ {y})
      BY <1>1, <2>1, <2>3
    <3>2. sum(s \ {y}) = f[z] + sum((s \ {y}) \ {z})
      BY <1>1, <2>1, <2>3
    <3>3. (s \ {z}) \ {y} = (s \ {y}) \ {z}
      OBVIOUS
    <3>4. sum((s \ {y}) \ {z}) \in Nat
      <4>1. IsFiniteSet((s \ {y}) \ {z}) /\ Amounts(f, (s \ {y}) \ {z})
        BY <2>1, FS_Subset DEF Amounts
      <4>. QED  BY <4>1, SumIsNat DEF sum
    <3>. QED  BY <2>1, <2>2, <3>1, <3>2, <3>3, <3>4
  <2>. QED  BY <2>2, <2>3
<1>. HIDE DEF G
<1>2. \A s \in SUBSET S : s \in G
  BY <1>1, SubsetInduction
<1>. QED  BY <1>2 DEF G

LEMMA SumOfSame ==
  ASSUME NEW f, NEW g, NEW S, IsFiniteSet(S), \A i \in S : f[i] = g[i]
  PROVE  SumFunctionOnSet(f, S) = SumFunctionOnSet(g, S)
<1>. DEFINE G == {s \in SUBSET S : SumFunctionOnSet(f, s) = SumFunctionOnSet(g, s)}
<1>1. ASSUME NEW s \in SUBSET S, \A r \in SUBSET s : r # s => r \in G PROVE s \in G
  <2>1. CASE s = {}
    BY <2>1, SumOfNone
  <2>2. CASE s # {}
    <3>1. /\ SumFunctionOnSet(f, s) = f[First(s)] + SumFunctionOnSet(f, s \ {First(s)})
          /\ SumFunctionOnSet(g, s) = g[First(s)] + SumFunctionOnSet(g, s \ {First(s)})
      BY <2>2, FS_Subset, SumOfFirst
    <3>2. /\ f[First(s)] = g[First(s)]
          /\ SumFunctionOnSet(f, s \ {First(s)}) = SumFunctionOnSet(g, s \ {First(s)})
      BY <1>1, <2>2, FirstIsIn
    <3>. QED  BY <3>1, <3>2
  <2>. QED  BY <2>1, <2>2
<1>. HIDE DEF G
<1>2. \A s \in SUBSET S : s \in G
  BY <1>1, SubsetInduction
<1>. QED  BY <1>2 DEF G

LEMMA SumOfZeros ==
  ASSUME NEW f, NEW S, IsFiniteSet(S), \A i \in S : f[i] = 0
  PROVE  SumFunctionOnSet(f, S) = 0
<1>. DEFINE G == {s \in SUBSET S : SumFunctionOnSet(f, s) = 0}
<1>1. ASSUME NEW s \in SUBSET S, \A r \in SUBSET s : r # s => r \in G PROVE s \in G
  <2>1. CASE s = {}
    BY <2>1, SumOfNone
  <2>2. CASE s # {}
    <3>1. SumFunctionOnSet(f, s) = f[First(s)] + SumFunctionOnSet(f, s \ {First(s)})
      BY <2>2, FS_Subset, SumOfFirst
    <3>2. f[First(s)] = 0 /\ SumFunctionOnSet(f, s \ {First(s)}) = 0
      BY <1>1, <2>2, FirstIsIn
    <3>. QED  BY <3>1, <3>2
  <2>. QED  BY <2>1, <2>2
<1>. HIDE DEF G
<1>2. \A s \in SUBSET S : s \in G
  BY <1>1, SubsetInduction
<1>. QED  BY <1>2 DEF G

LEMMA SumOfFewer ==
  ASSUME NEW f, NEW S, IsFiniteSet(S), Amounts(f, S), NEW R \in SUBSET S
  PROVE  SumFunctionOnSet(f, R) <= SumFunctionOnSet(f, S)
<1>. DEFINE sum(s) == SumFunctionOnSet(f, s)
            G == {s \in SUBSET S : R \subseteq s => sum(R) <= sum(s)}
<1>1. \A s \in SUBSET S : IsFiniteSet(s) /\ Amounts(f, s) /\ sum(s) \in Nat
  BY FS_Subset, SumIsNat DEF Amounts
<1>2. ASSUME NEW s \in SUBSET S, \A r \in SUBSET s : r # s => r \in G PROVE s \in G
  <2>. SUFFICES ASSUME R \subseteq s PROVE sum(R) <= sum(s)
    OBVIOUS
  <2>1. CASE R = s
    BY <1>1, <2>1
  <2>2. CASE R # s
    <3>1. PICK x \in s : x \notin R
      BY <2>2
    <3>2. sum(s) = f[x] + sum(s \ {x}) /\ f[x] \in Nat
      BY <1>1, SumOfAny DEF Amounts
    <3>3. sum(R) <= sum(s \ {x})
      BY <1>2, <3>1
    <3>4. sum(R) \in Nat /\ sum(s \ {x}) \in Nat
      BY <1>1
    <3>. HIDE DEF sum
    <3>. QED  BY <3>2, <3>3, <3>4
  <2>. QED  BY <2>1, <2>2
<1>. HIDE DEF G
<1>3. \A s \in SUBSET S : s \in G
  BY <1>2, SubsetInduction
<1>. QED  BY <1>3 DEF G

-----------------------------------------------------------------------------
(* What a ledger has promised                                              *)

Costs(l) == [i \in Active(l) |-> l.res[i].order.cost]
Overs(l) == [i \in Ids |-> Overrun(l, i)]

LEMMA LedgerAmounts ==
  ASSUME NEW l, Labelled(l)
  PROVE  /\ IsFiniteSet(Active(l)) /\ Amounts(Costs(l), Active(l))
         /\ Committed(l) = SumFunctionOnSet(Costs(l), Active(l)) /\ Committed(l) \in Nat
         /\ IsFiniteSet(Ids) /\ Amounts(Overs(l), Ids)
         /\ Overruns(l) = SumFunctionOnSet(Overs(l), Ids) /\ Overruns(l) \in Nat
         /\ l.spent \in Nat /\ Budget \in Nat
<1>1. /\ l.res \in [Ids -> Reservation \union {None}] /\ l.spent \in Nat
      /\ \A i \in Active(l) : i \in Ids /\ l.res[i] \in Reservation
  BY DEF Labelled, Ledger, Active
<1>2. \A r \in Reservation : r.order.cost \in Nat /\ r.actual \in Nat
  BY OrderAssumption DEF Reservation
<1>3. IsFiniteSet(Ids) /\ IsFiniteSet(Active(l))
  <2>1. Active(l) \in SUBSET Ids
    BY DEF Active
  <2>. QED  BY <2>1, IdsAreFinite, FS_Subset
<1>4. Amounts(Costs(l), Active(l))
  BY <1>1, <1>2 DEF Amounts, Costs
<1>5. Amounts(Overs(l), Ids)
  <2>1. \A i \in Ids : Overrun(l, i) \in Nat
    BY <1>1, <1>2 DEF Overrun
  <2>. QED  BY <2>1 DEF Amounts, Overs
<1>6. Committed(l) = SumFunctionOnSet(Costs(l), Active(l))
  <2>1. DOMAIN Costs(l) = Active(l)
    BY DEF Costs
  <2>2. Committed(l) = SumFunctionOnSet(Costs(l), DOMAIN Costs(l))
    BY DEF Committed, SumFunction, Costs
  <2>. QED  BY <2>1, <2>2
<1>7. Overruns(l) = SumFunctionOnSet(Overs(l), Ids)
  <2>1. DOMAIN Overs(l) = Ids
    BY DEF Overs
  <2>2. Overruns(l) = SumFunctionOnSet(Overs(l), DOMAIN Overs(l))
    BY DEF Overruns, SumFunction, Overs
  <2>. QED  BY <2>1, <2>2
<1>8. Committed(l) \in Nat /\ Overruns(l) \in Nat
  BY <1>3, <1>4, <1>5, <1>6, <1>7, SumIsNat
<1>. QED  BY <1>1, <1>3, <1>4, <1>5, <1>6, <1>7, <1>8, PolicyAssumption

\* A ledger that gives up reservations, and is charged nothing, stays within
\* the budget.
LEMMA BudgetShrinks ==
  ASSUME NEW l, NEW m, Good(l), Labelled(m), Active(m) \subseteq Active(l), m.spent = l.spent,
         \A i \in Active(m) : m.res[i].order = l.res[i].order /\ m.res[i].actual = l.res[i].actual,
         \A i \in Ids : Overrun(m, i) = Overrun(l, i)
  PROVE  Budgeted(m)
<1>1. Labelled(l) /\ Budgeted(l)
  BY DEF Good
<1>2. Overruns(m) = Overruns(l)
  <2>1. Overs(m) = Overs(l)
    BY DEF Overs
  <2>. QED  BY <1>1, <2>1, LedgerAmounts
<1>3. Committed(m) = SumFunctionOnSet(Costs(l), Active(m))
  <2>1. \A i \in Active(m) : Costs(m)[i] = Costs(l)[i]
    BY DEF Costs
  <2>. QED  BY <2>1, LedgerAmounts, SumOfSame
<1>4. Committed(m) <= Committed(l)
  BY <1>1, <1>3, LedgerAmounts, SumOfFewer
<1>5. /\ Committed(m) \in Nat /\ Committed(l) \in Nat /\ Overruns(l) \in Nat /\ l.spent \in Nat
      /\ Budget \in Nat
  BY <1>1, LedgerAmounts
<1>. QED  BY <1>1, <1>2, <1>4, <1>5 DEF Budgeted

\* One more reservation, that the budget affords.
LEMMA BudgetAffords ==
  ASSUME NEW l, NEW m, Good(l), Labelled(m), m.spent = l.spent, NEW x \in Ids, x \notin Active(l),
         Active(m) = Active(l) \union {x}, \A i \in Active(l) : m.res[i] = l.res[i],
         m.res[x].actual = 0, l.spent + Committed(l) + m.res[x].order.cost <= Budget
  PROVE  Budgeted(m)
<1>1. Labelled(l) /\ Budgeted(l)
  BY DEF Good
<1>2. Committed(m) = m.res[x].order.cost + Committed(l)
  <2>1. Committed(m) = Costs(m)[x] + SumFunctionOnSet(Costs(m), Active(m) \ {x})
    BY LedgerAmounts, SumOfAny
  <2>2. Active(m) \ {x} = Active(l) /\ Costs(m)[x] = m.res[x].order.cost
    BY DEF Costs
  <2>3. \A i \in Active(l) : Costs(m)[i] = Costs(l)[i]
    BY DEF Costs
  <2>4. SumFunctionOnSet(Costs(m), Active(l)) = Committed(l)
    BY <1>1, <2>3, LedgerAmounts, SumOfSame
  <2>. QED  BY <2>1, <2>2, <2>4
<1>3. m.res[x].order.cost \in Nat
  <2>1. x \in Active(m)
    OBVIOUS
  <2>2. Amounts(Costs(m), Active(m)) /\ Costs(m)[x] = m.res[x].order.cost
    BY <2>1, LedgerAmounts DEF Costs
  <2>. QED  BY <2>1, <2>2 DEF Amounts
<1>4. Committed(l) \in Nat /\ Overruns(m) \in Nat /\ l.spent \in Nat /\ Budget \in Nat
  BY <1>1, LedgerAmounts
<1>5. m.spent + Committed(m) <= Budget + Overruns(m)
  BY <1>2, <1>3, <1>4
<1>. QED  BY <1>1, <1>5 DEF Budgeted

\* One reservation ends and is charged what it cost, its estimate or not.
LEMMA BudgetCharged ==
  ASSUME NEW l, NEW m, Good(l), Labelled(m), NEW x \in Active(l), NEW c \in Nat,
         Active(m) = Active(l) \ {x}, \A i \in Ids : i # x => m.res[i] = l.res[i],
         m.res[x] # None, m.res[x].order = l.res[x].order, m.res[x].actual = c, m.spent = l.spent + c
  PROVE  Budgeted(m)
<1>1. Labelled(l) /\ Budgeted(l)
  BY DEF Good
<1>2. x \in Ids
  BY DEF Active
<1>. DEFINE cost == l.res[x].order.cost
<1>3. cost \in Nat
  <2>1. Amounts(Costs(l), Active(l)) /\ Costs(l)[x] = cost
    BY <1>1, LedgerAmounts DEF Costs
  <2>. QED  BY <2>1 DEF Amounts
<1>4. Committed(l) = cost + Committed(m)
  <2>1. Committed(l) = Costs(l)[x] + SumFunctionOnSet(Costs(l), Active(l) \ {x})
    BY <1>1, LedgerAmounts, SumOfAny
  <2>2. \A i \in Active(m) : Costs(m)[i] = Costs(l)[i]
    <3>1. \A i \in Active(m) : i \in Active(l) /\ m.res[i] = l.res[i]
      BY DEF Active
    <3>. QED  BY <3>1 DEF Costs
  <2>3. SumFunctionOnSet(Costs(l), Active(l) \ {x}) = Committed(m)
    <3>1. Committed(m) = SumFunctionOnSet(Costs(m), Active(m)) /\ IsFiniteSet(Active(m))
      BY LedgerAmounts
    <3>. QED  BY <2>2, <3>1, SumOfSame
  <2>4. Costs(l)[x] = cost
    BY DEF Costs
  <2>. QED  BY <2>1, <2>3, <2>4
<1>5. Overruns(m) = Overruns(l) + Overrun(m, x) /\ Overrun(m, x) \in Nat
  <2>1. /\ Overruns(l) = Overs(l)[x] + SumFunctionOnSet(Overs(l), Ids \ {x})
        /\ Overruns(m) = Overs(m)[x] + SumFunctionOnSet(Overs(m), Ids \ {x})
    BY <1>1, <1>2, LedgerAmounts, SumOfAny
  <2>2. \A i \in Ids \ {x} : Overs(m)[i] = Overs(l)[i]
    BY DEF Overs, Overrun
  <2>3. SumFunctionOnSet(Overs(l), Ids \ {x}) = SumFunctionOnSet(Overs(m), Ids \ {x})
    <3>1. IsFiniteSet(Ids \ {x})
      BY IdsAreFinite, FS_Subset
    <3>. QED  BY <2>2, <3>1, SumOfSame
  <2>4. SumFunctionOnSet(Overs(m), Ids \ {x}) \in Nat
    <3>1. IsFiniteSet(Ids \ {x}) /\ Amounts(Overs(m), Ids \ {x})
      BY IdsAreFinite, FS_Subset, LedgerAmounts DEF Amounts
    <3>. QED  BY <3>1, SumIsNat
  <2>5. Overs(l)[x] = 0
    BY <1>1, <1>2, <1>3 DEF Overs, Overrun, Budgeted
  <2>6. Overs(m)[x] = Overrun(m, x) /\ Overrun(m, x) \in Nat
    BY <1>2, LedgerAmounts DEF Overs, Amounts
  <2>. QED  BY <2>1, <2>3, <2>4, <2>5, <2>6
<1>6. c <= cost + Overrun(m, x)
  BY <1>3 DEF Overrun
<1>7. /\ Committed(m) \in Nat /\ Overruns(l) \in Nat /\ l.spent \in Nat /\ Budget \in Nat
      /\ l.spent + Committed(l) <= Budget + Overruns(l)
  BY <1>1, LedgerAmounts DEF Budgeted
<1>8. m.spent + Committed(m) <= Budget + Overruns(m)
  <2>. HIDE DEF cost
  <2>. QED  BY <1>3, <1>4, <1>5, <1>6, <1>7
<1>9. \A i \in Active(m) : m.res[i].actual = 0
  BY <1>1 DEF Active, Budgeted
<1>. QED  BY <1>8, <1>9 DEF Budgeted

-----------------------------------------------------------------------------
(* What a transaction does to a ledger                                     *)

\* A ledger with fewer active reservations, of the same orders, is as good.
LEMMA GoodShrinks ==
  ASSUME NEW l, NEW m, Good(l), Labelled(m), Active(m) \subseteq Active(l),
         \A i \in Active(m) : m.res[i].order = l.res[i].order, Budgeted(m), Charged(m)
  PROVE  Good(m)
<1>1. Apart(m)
  BY DEF Good, Apart
<1>2. Active(l) \in SUBSET Ids /\ ActiveWriters(l) \in SUBSET Ids /\ ActiveWriters(m) \in SUBSET ActiveWriters(l)
  BY DEF Active, ActiveWriters
<1>3. Cardinality(Active(m)) <= GlobalLimit
  BY <1>2, Fewer, PolicyAssumption DEF Good, WithinLimits
<1>4. Cardinality(ActiveWriters(m)) <= GlobalLimit - ReviewReserve
  BY <1>2, Fewer, PolicyAssumption DEF Good, WithinLimits
<1>5. \A f, v : Holding(l, f, v) \in SUBSET Ids /\ Holding(m, f, v) \in SUBSET Holding(l, f, v)
  BY <1>2 DEF Holding
<1>6. \A f, v : Cardinality(Holding(m, f, v)) \in Nat /\ Cardinality(Holding(l, f, v)) \in Nat
                /\ Cardinality(Holding(m, f, v)) <= Cardinality(Holding(l, f, v))
  BY <1>5, Fewer
<1>7. ASSUME NEW o \in Order
      PROVE  /\ Cardinality(Holding(m, "host", o.host)) <= HostLimit
             /\ Cardinality(Holding(m, "account", o.account)) <= AccountLimit
             /\ Cardinality(Holding(m, "runtime", o.runtime)) <= RuntimeLimit
  <2>1. /\ Cardinality(Holding(l, "host", o.host)) <= HostLimit
        /\ Cardinality(Holding(l, "account", o.account)) <= AccountLimit
        /\ Cardinality(Holding(l, "runtime", o.runtime)) <= RuntimeLimit
    BY DEF Good, WithinLimits
  <2>. QED  BY <1>6, <2>1, PolicyAssumption
<1>. QED  BY <1>1, <1>3, <1>4, <1>7 DEF Good, WithinLimits

\* Reading expires what was only acknowledged.
LEMMA ElapsedIsGood ==
  ASSUME NEW l, Good(l), NEW I \in SUBSET {i \in Active(l) : Expires(l.res[i].status)}, NEW K \in SUBSET l.paused
  PROVE  LET m == Elapsed(l, I, K) IN
         Good(m) /\ Keeps(l, m) /\ \A i \in Ids : Secured(l, i) => Secured(m, i)
<1>. DEFINE m == Elapsed(l, I, K)
<1>. DEFINE late(i) == [l.res[i] EXCEPT !.status = "expired"]
<1>1. l \in Ledger /\ \A i \in I : i \in Ids /\ l.res[i] \in Reservation /\ l.res[i].status = "reserved"
  BY DEF Good, Labelled, Ledger, Active, Expires
<1>2. \A i \in I : late(i) \in Reservation /\ late(i).order = l.res[i].order /\ late(i).status = "expired"
  BY <1>1 DEF Reservation, TerminalStatus
<1>3. /\ m.res = [i \in Ids |-> IF i \in I THEN late(i) ELSE l.res[i]]
      /\ m.spent = l.spent /\ m.paused = l.paused \ K
  BY DEF Elapsed
<1>4. m = [res |-> m.res, spent |-> m.spent, paused |-> m.paused]
  BY DEF Elapsed
<1>. HIDE DEF m, late
<1>5. m.res \in [Ids -> Reservation \union {None}] /\ m.spent \in Nat /\ m.paused \in SUBSET Resources
  BY <1>1, <1>2, <1>3 DEF Ledger
<1>6. m \in Ledger
  BY <1>4, <1>5 DEF Ledger
<1>7. Labelled(m)
  BY <1>1, <1>2, <1>3, <1>6, NoneAssumption DEF Labelled, Good
<1>8. \A i \in Active(m) : i \in Active(l) /\ i \notin I /\ m.res[i] = l.res[i]
  BY <1>2, <1>3 DEF Active, ActiveStatus
<1>9. Good(m)
  <2>1. (\A i \in Ids : Overrun(m, i) = Overrun(l, i)) /\ Charged(m)
    <3>1. \A i \in I : m.res[i] # None /\ l.res[i] # None
      BY <1>1, <1>2, <1>3, NoneAssumption
    <3>2. \A i \in I : m.res[i].order = l.res[i].order /\ m.res[i].actual = l.res[i].actual
      <4>1. \A i \in I : late(i).actual = l.res[i].actual
        BY <1>1 DEF late, Reservation
      <4>. QED  BY <1>1, <1>2, <1>3, <4>1
    <3>3. \A i \in Ids \ I : m.res[i] = l.res[i]
      BY <1>3
    <3>4. \A i \in Ids : Overrun(m, i) = Overrun(l, i)
      BY <3>1, <3>2, <3>3 DEF Overrun
    <3>5. Charged(m)
      BY <3>1, <3>2, <3>3 DEF Good, Charged
    <3>. QED  BY <3>4, <3>5
  <2>2. Budgeted(m)
    BY <1>3, <1>7, <1>8, <2>1, BudgetShrinks
  <2>. QED  BY <1>7, <1>8, <2>1, <2>2, GoodShrinks
<1>10. Keeps(l, m)
  BY <1>1, <1>2, <1>3, NoneAssumption DEF Keeps, TerminalStatus
<1>11. \A i \in Ids : Secured(l, i) => Secured(m, i)
  BY <1>1, <1>3 DEF Secured
<1>. QED  BY <1>9, <1>10, <1>11 DEF m

\* Reserving adds one reservation, where there is room and no collision.
LEMMA ReservedIsGood ==
  ASSUME NEW l, Good(l), NEW o \in Order, Admits(o, l)
  PROVE  LET m == Reserved(o, l) IN
         /\ Good(m) /\ m.res[o.id] # None
         /\ \A i \in Ids : i # o.id => m.res[i] = l.res[i]
<1>. DEFINE m == Reserved(o, l)
            r == [order |-> o, status |-> "reserved", actual |-> 0]
<1>1. l \in Ledger /\ o.id \in Ids /\ l.res[o.id] = None /\ Room(o, l)
  BY DEF Good, Labelled, Admits, Ids
<1>2. r \in Reservation
  BY DEF Reservation, ActiveStatus
<1>3. m.res = [l.res EXCEPT ![o.id] = r] /\ m \in Ledger
  BY <1>1, <1>2 DEF Reserved, Ledger
<1>. HIDE DEF m
<1>4. m.res[o.id] = r /\ \A i \in Ids : i # o.id => m.res[i] = l.res[i]
  BY <1>1, <1>3 DEF Ledger
<1>5. Labelled(m)
  BY <1>3, <1>4 DEF Labelled, Good
<1>6. Active(m) = Active(l) \union {o.id} /\ o.id \notin Active(l) /\ Active(l) \in SUBSET Ids
  BY <1>1, <1>2, <1>4, NoneAssumption DEF Active, ActiveStatus
<1>7. \A i \in Active(l) : m.res[i] = l.res[i]
  BY <1>4, <1>6
<1>8. Apart(m)
  <2>1. \A i \in Active(l) : ~Collides(m.res[o.id].order, m.res[i].order) /\ ~Collides(m.res[i].order, m.res[o.id].order)
    BY <1>4, <1>7 DEF Admits, Collides
  <2>2. \A i, j \in Active(l) : i # j => ~Collides(m.res[i].order, m.res[j].order)
    BY <1>7 DEF Good, Apart
  <2>. QED  BY <1>6, <2>1, <2>2 DEF Apart
<1>9. Cardinality(Active(m)) <= GlobalLimit
  <2>1. Cardinality(Active(m)) \in Nat /\ Cardinality(Active(l)) \in Nat /\ Cardinality(Active(m)) <= Cardinality(Active(l)) + 1
    BY <1>1, <1>6, OneMore
  <2>. QED  BY <1>1, <2>1, PolicyAssumption DEF Room
<1>10. Cardinality(ActiveWriters(m)) <= GlobalLimit - ReviewReserve
  <2>1. ActiveWriters(l) \in SUBSET Ids
    BY <1>6 DEF ActiveWriters
  <2>2. CASE o.role \in Writers
    <3>1. ActiveWriters(m) \in SUBSET (ActiveWriters(l) \union {o.id})
      BY <1>6, <1>7 DEF ActiveWriters
    <3>2. Cardinality(ActiveWriters(m)) \in Nat /\ Cardinality(ActiveWriters(l)) \in Nat
          /\ Cardinality(ActiveWriters(m)) <= Cardinality(ActiveWriters(l)) + 1
      BY <1>1, <2>1, <3>1, OneMore
    <3>. QED  BY <1>1, <2>2, <3>2, PolicyAssumption DEF Room
  <2>3. CASE o.role \notin Writers
    <3>1. ActiveWriters(m) = ActiveWriters(l)
      BY <1>4, <1>6, <1>7, <2>3 DEF ActiveWriters
    <3>. QED  BY <3>1 DEF Good, WithinLimits
  <2>. QED  BY <2>2, <2>3
<1>11. ASSUME NEW f, NEW v, NEW limit \in Nat, Cardinality(Holding(l, f, v)) <= limit,
              o[f] = v => Cardinality(Holding(l, f, v)) < limit
       PROVE  Cardinality(Holding(m, f, v)) <= limit
  <2>1. Holding(l, f, v) \in SUBSET Ids
    BY <1>6 DEF Holding
  <2>2. CASE o[f] = v
    <3>1. Holding(m, f, v) \in SUBSET (Holding(l, f, v) \union {o.id})
      BY <1>6, <1>7 DEF Holding
    <3>2. Cardinality(Holding(m, f, v)) \in Nat /\ Cardinality(Holding(l, f, v)) \in Nat
          /\ Cardinality(Holding(m, f, v)) <= Cardinality(Holding(l, f, v)) + 1
      BY <1>1, <2>1, <3>1, OneMore
    <3>. QED  BY <1>11, <2>2, <3>2
  <2>3. CASE o[f] # v
    <3>1. Holding(m, f, v) = Holding(l, f, v)
      BY <1>4, <1>6, <1>7, <2>3 DEF Holding
    <3>. QED  BY <1>11, <3>1
  <2>. QED  BY <2>2, <2>3
<1>12. ASSUME NEW x \in Order
       PROVE  /\ Cardinality(Holding(m, "host", x.host)) <= HostLimit
              /\ Cardinality(Holding(m, "account", x.account)) <= AccountLimit
              /\ Cardinality(Holding(m, "runtime", x.runtime)) <= RuntimeLimit
  <2>1. /\ Cardinality(Holding(l, "host", x.host)) <= HostLimit
        /\ Cardinality(Holding(l, "account", x.account)) <= AccountLimit
        /\ Cardinality(Holding(l, "runtime", x.runtime)) <= RuntimeLimit
    BY DEF Good, WithinLimits
  <2>2. /\ o.host = x.host => Cardinality(Holding(l, "host", x.host)) < HostLimit
        /\ o.account = x.account => Cardinality(Holding(l, "account", x.account)) < AccountLimit
        /\ o.runtime = x.runtime => Cardinality(Holding(l, "runtime", x.runtime)) < RuntimeLimit
    BY <1>1 DEF Room
  <2>3. HostLimit \in Nat /\ AccountLimit \in Nat /\ RuntimeLimit \in Nat
    BY PolicyAssumption
  <2>4. Cardinality(Holding(m, "host", x.host)) <= HostLimit
    BY <1>11, <2>1, <2>2, <2>3
  <2>5. Cardinality(Holding(m, "account", x.account)) <= AccountLimit
    BY <1>11, <2>1, <2>2, <2>3
  <2>6. Cardinality(Holding(m, "runtime", x.runtime)) <= RuntimeLimit
    BY <1>11, <2>1, <2>2, <2>3
  <2>. QED  BY <2>4, <2>5, <2>6
<1>13. Budgeted(m)
  <2>1. m.spent = l.spent
    BY <1>1 DEF m, Reserved, Ledger
  <2>2. l.spent + Committed(l) + m.res[o.id].order.cost <= Budget
    BY <1>4 DEF Admits, Affords
  <2>. QED  BY <1>1, <1>4, <1>5, <1>6, <1>7, <2>1, <2>2, BudgetAffords
<1>14. Good(m)
  <2>1. Charged(m)
    BY <1>4 DEF Good, Charged
  <2>. QED  BY <1>5, <1>8, <1>9, <1>10, <1>12, <1>13, <2>1 DEF Good, WithinLimits
<1>. QED  BY <1>2, <1>4, <1>14, NoneAssumption DEF m

\* A reservation moves among the active statuses, or ends.
LEMMA MovedIsGood ==
  ASSUME NEW l, Good(l), NEW i \in Ids, NEW s \in Moves, NEW c \in Cost, Movable(l, i, s)
  PROVE  LET m == Moved(l, i, s, c) IN
         /\ Good(m) /\ m.res[i] # None /\ m.res[i].status = s
         /\ l.res[i].status \in TerminalStatus => m.res[i] = l.res[i]
         /\ \A j \in Ids : j # i => m.res[j] = l.res[j]
<1>. DEFINE m == Moved(l, i, s, c)
            ends == l.res[i].status \in ActiveStatus /\ s \in TerminalStatus
            r == [order |-> l.res[i].order, status |-> s, actual |-> IF ends THEN c ELSE l.res[i].actual]
<1>1. l \in Ledger /\ l.res[i] \in Reservation /\ l.res[i].order.id = i
  BY DEF Good, Labelled, Ledger, Movable
<1>2. s \in ActiveStatus \union TerminalStatus /\ s # "reserved" /\ c \in Nat
  BY PolicyAssumption
<1>3. r \in Reservation /\ r.order = l.res[i].order /\ r.status = s
  BY <1>1, <1>2 DEF Reservation
<1>4. ~ends => r.actual = l.res[i].actual
  OBVIOUS
<1>5. m = [res |-> [l.res EXCEPT ![i] = r], spent |-> IF ends THEN l.spent + c ELSE l.spent, paused |-> l.paused]
  BY DEF Moved
<1>. HIDE DEF m, r
<1>6. (IF ends THEN l.spent + c ELSE l.spent) \in Nat
  BY <1>1, <1>2 DEF Ledger
<1>7. m \in Ledger
  BY <1>1, <1>3, <1>5, <1>6 DEF Ledger
<1>8. m.res[i] = r /\ \A j \in Ids : j # i => m.res[j] = l.res[j]
  BY <1>1, <1>5 DEF Ledger
<1>9. Labelled(m)
  BY <1>1, <1>3, <1>7, <1>8 DEF Labelled, Good
<1>10. Active(m) \subseteq Active(l) /\ \A j \in Active(m) : m.res[j].order = l.res[j].order
  BY <1>1, <1>2, <1>3, <1>8, NoneAssumption DEF Active, Movable, Reservation, ActiveStatus, TerminalStatus
<1>11. Good(m)
  <2>1. Budgeted(m)
    <3>1. m.spent = (IF ends THEN l.spent + c ELSE l.spent) /\ i \in Ids /\ m.res[i] = r /\ r # None /\ l.res[i] # None
      BY <1>1, <1>3, <1>5, <1>8, NoneAssumption
    <3>2. CASE ends
      <4>1. i \in Active(l) /\ Active(m) = Active(l) \ {i}
        BY <1>3, <1>8, <3>1, <3>2 DEF Active, ActiveStatus, TerminalStatus
      <4>2. r.actual = c
        BY <3>2 DEF r
      <4>. QED  BY <1>2, <1>3, <1>8, <1>9, <3>1, <3>2, <4>1, <4>2, BudgetCharged
    <3>3. CASE ~ends
      <4>1. \A j \in Ids : Overrun(m, j) = Overrun(l, j)
        BY <1>3, <1>4, <1>8, <3>1, <3>3 DEF Overrun
      <4>2. \A j \in Active(m) : m.res[j].actual = l.res[j].actual
        BY <1>4, <1>8, <3>3 DEF Active
      <4>. QED  BY <1>9, <1>10, <3>1, <3>3, <4>1, <4>2, BudgetShrinks
    <3>. QED  BY <3>2, <3>3
  <2>2. Charged(m)
    <3>1. r.actual \in {c, l.res[i].actual} /\ l.res[i] # None
      BY <1>1, NoneAssumption DEF r
    <3>2. \A j \in Ids : m.res[j] # None => m.res[j].actual \in Cost \union {0}
      BY <1>8, <3>1 DEF Good, Charged
    <3>. QED  BY <3>2 DEF Charged
  <2>. QED  BY <1>9, <1>10, <2>1, <2>2, GoodShrinks
<1>12. l.res[i].status \in TerminalStatus => r = l.res[i]
  <2>. SUFFICES ASSUME l.res[i].status \in TerminalStatus PROVE r = l.res[i]
    OBVIOUS
  <2>1. ~ends /\ s = l.res[i].status
    BY DEF Movable, ActiveStatus, TerminalStatus
  <2>. QED  BY <1>1, <1>3, <1>4, <2>1 DEF Reservation
<1>. QED  BY <1>3, <1>8, <1>11, <1>12, NoneAssumption DEF m

-----------------------------------------------------------------------------
(* Calls and the tasks they concern                                        *)

LEMMA CallShape ==
  ASSUME NEW c \in CallType
  PROVE  /\ c.kind \in {"none", "reserve", "move", "moved", "refused", "pause"}
         /\ c.kind = "none" <=> c = NoCall
         /\ c.kind = "reserve" => c.todo \in Seq(Order) /\ c.ok \in SUBSET Ids
         /\ c.kind \in {"move", "moved", "refused"} => c.id \in Ids /\ c.status \in Moves /\ c.cost \in Cost
         /\ c.kind = "pause" => c.key \in Resources
         /\ Concerns(c) = CASE c.kind = "reserve" -> {c.todo[k].id : k \in DOMAIN c.todo} \union c.ok
                             [] c.kind \in {"move", "moved", "refused"} -> {c.id} [] OTHER -> {}
         /\ Concerns(c) \subseteq Ids
<1>. USE DEF CallType, NoCall
<1>1. CASE c = NoCall
  BY <1>1 DEF Concerns
<1>2. CASE c \in [kind : {"reserve"}, todo : Seq(Order), ok : SUBSET Ids]
  <2>1. \A k \in DOMAIN c.todo : c.todo[k] \in Order
    BY <1>2
  <2>. QED  BY <1>2, <2>1 DEF Concerns, Ids
<1>3. CASE c \in [kind : {"move", "moved", "refused"}, id : Ids, status : Moves, cost : Cost]
  BY <1>3 DEF Concerns
<1>4. CASE c \in [kind : {"pause"}, key : Resources]
  BY <1>4 DEF Concerns
<1>. QED  BY <1>1, <1>2, <1>3, <1>4

\* A step of one process, on a task that was its own, leaves the others theirs.
LEMMA CallersApart ==
  ASSUME IInv, NEW p \in Clerk, NEW c \in CallType, NEW g,
         call' = [call EXCEPT ![p] = c], Concerns(c) \subseteq Concerns(call[p]),
         go' = [go EXCEPT ![p] = g], g \in {go[p], None} \union Concerns(call[p])
  PROVE  OneCaller' /\ LaunchesApart'
<1>1. /\ \A q \in Clerk : call[q] \in CallType /\ None \notin Concerns(call[q])
      /\ call \in [Clerk -> CallType] /\ go \in [Clerk -> Ids \union {None}]
  BY CallShape, OrderAssumption DEF IInv, CallsInPlace, TypeOK
<1>2. \A q \in Clerk : q # p => call'[q] = call[q] /\ go'[q] = go[q]
  BY <1>1
<1>3. call'[p] = c /\ go'[p] = g
  BY <1>1
<1>4. OneCaller'
  <2>. SUFFICES ASSUME NEW q \in Clerk, NEW r \in Clerk, q # r
                PROVE  Concerns(call'[q]) \intersect (Concerns(call'[r]) \union {go'[r]}) = {}
    BY DEF OneCaller
  <2>1. /\ Concerns(call[q]) \intersect (Concerns(call[r]) \union {go[r]}) = {}
        /\ None \notin Concerns(call[q])
    BY <1>1 DEF IInv, OneCaller
  <2>2. CASE q = p
    BY <1>2, <1>3, <2>1, <2>2
  <2>3. CASE r = p
    BY <1>2, <1>3, <2>1, <2>3
  <2>4. CASE q # p /\ r # p
    BY <1>2, <2>1, <2>4
  <2>. QED  BY <2>2, <2>3, <2>4
<1>5. LaunchesApart'
  <2>. SUFFICES ASSUME NEW q \in Clerk, NEW r \in Clerk, q # r, go'[q] # None
                PROVE  go'[q] # go'[r]
    BY DEF LaunchesApart
  <2>1. /\ go[q] # None => go[q] # go[r]
        /\ go[r] # None => go[r] # go[q]
        /\ go[r] \notin Concerns(call[q]) /\ go[q] \notin Concerns(call[r])
    BY DEF IInv, LaunchesApart, OneCaller
  <2>. QED  BY <1>2, <1>3, <2>1
<1>. QED  BY <1>4, <1>5

\* Two processes are never in a transaction.
LEMMA OneTransaction ==
  ASSUME IInv, NEW p \in Clerk, NEW q \in Clerk, InTransaction(p), InTransaction(q)
  PROVE  p = q /\ lock = p
  BY DEF IInv, CallsInPlace

-----------------------------------------------------------------------------
(* Steps of one process that leave the ledger alone                        *)

LEMMA OwnStep ==
  ASSUME IInv, UNCHANGED <<ledger, told, worker>>, crashes' \in 0 .. MaxCrashes,
         NEW p \in Clerk, lock' \in {lock, p}, lock' = p => lock \in {p, None},
         NEW at \in {"idle", "begun", "locked", "work", "write", "unlock"},
         NEW l \in Ledger, NEW c \in CallType, NEW g \in {go[p], None},
         pc' = [pc EXCEPT ![p] = at], copy' = [copy EXCEPT ![p] = l], call' = [call EXCEPT ![p] = c],
         go' = [go EXCEPT ![p] = g],
         at = "idle" => c = NoCall,
         g # None => at = "idle",
         at \in {"locked", "work", "write", "unlock"} => lock' = p,
         at \in {"begun", "locked"} /\ c.kind = "reserve" => c.ok = {},
         at \in {"work", "write"} =>
           Good(l) /\ Keeps(ledger, l) /\ \A i \in Ids : Bound(i) => Secured(l, i),
         (at = "work" /\ c.kind = "reserve") \/ at = "write" => Backs(l, c),
         at = "unlock" => Backs(ledger, c),
         c.kind \in {"move", "moved", "refused"} /\ c.status \in TerminalStatus => worker[c.id] # "live",
         OneCaller', LaunchesApart'
  PROVE  IInv'
<1>. USE DEF IInv
<1>1. TypeOK'
  BY DEF TypeOK
<1>2. Good(ledger)'
  OBVIOUS
<1>3. /\ \A q \in Clerk : q # p => /\ pc'[q] = pc[q] /\ copy'[q] = copy[q]
                                   /\ call'[q] = call[q] /\ go'[q] = go[q]
      /\ pc'[p] = at /\ copy'[p] = l /\ call'[p] = c /\ go'[p] = g
  BY DEF TypeOK, CallsInPlace
<1>4. \A i \in Ids : Bound(i)' => Bound(i)
  BY <1>3, OrderAssumption DEF Bound
<1>5. CallsInPlace'
  <2>1. copy' \in [Clerk -> Ledger] /\ call' \in [Clerk -> CallType]
    BY DEF CallsInPlace
  <2>2. ASSUME NEW q \in Clerk
        PROVE  /\ pc'[q] = "idle" => call'[q] = NoCall
               /\ go'[q] # None => pc'[q] = "idle"
               /\ pc'[q] \in {"locked", "work", "write", "unlock"} => lock' = q
               /\ pc'[q] \in {"begun", "locked"} /\ call'[q].kind = "reserve" => call'[q].ok = {}
               /\ pc'[q] \in {"work", "write"} => Good(copy'[q])
    <3>1. CASE q = p
      BY <1>3, <3>1
    <3>2. CASE q # p
      <4>1. pc[q] \in {"locked", "work", "write", "unlock"} => lock' = q
        BY <3>2, OrderAssumption DEF CallsInPlace, InTransaction
      <4>. QED  BY <1>3, <3>2, <4>1 DEF CallsInPlace
    <3>. QED  BY <3>1, <3>2
  <2>. QED  BY <2>1, <2>2 DEF CallsInPlace, InTransaction
<1>6. EndsTheEnded'
  BY <1>3 DEF EndsTheEnded
<1>7. BoundIsSecured'
  BY <1>4 DEF BoundIsSecured
<1>8. CopyFollows'
  BY <1>3, <1>4 DEF CopyFollows
<1>9. AnswersAreBacked'
  BY <1>3 DEF AnswersAreBacked
<1>. QED  BY <1>1, <1>2, <1>5, <1>6, <1>7, <1>8, <1>9

LEMMA Here ==
  ASSUME IInv, NEW p \in Clerk
  PROVE  /\ copy = [copy EXCEPT ![p] = copy[p]] /\ call = [call EXCEPT ![p] = call[p]]
         /\ go = [go EXCEPT ![p] = go[p]] /\ pc = [pc EXCEPT ![p] = pc[p]]
         /\ copy[p] \in Ledger /\ call[p] \in CallType /\ Empty \in Ledger /\ NoCall \in CallType
         /\ (pc[p] = "idle" => call[p] = NoCall) /\ (go[p] # None => pc[p] = "idle")
         /\ pc[p] \in {"begun", "locked"} /\ call[p].kind = "reserve" => call[p].ok = {}
         /\ call[p].kind \in {"move", "moved", "refused"} /\ call[p].status \in TerminalStatus => worker[call[p].id] # "live"
         /\ OneCaller /\ LaunchesApart /\ crashes \in 0 .. MaxCrashes
<1>1. Empty \in Ledger /\ NoCall \in CallType
  BY DEF Empty, Ledger, NoCall, CallType
<1>. QED  BY <1>1 DEF IInv, TypeOK, CallsInPlace, EndsTheEnded

\* What a process calls for is one of the calls.
LEMMA CallsAreTyped ==
  ASSUME NEW c \in Calls
  PROVE  /\ c \in CallType /\ c.kind \in {"reserve", "move", "pause"}
         /\ c.kind = "reserve" => c.ok = {}
<1>1. \A b \in Batches : b \in Seq(Order)
  <2>1. \A o \in Order : <<o>> \in Seq(Order)
    OBVIOUS
  <2>2. \A o1, o2 \in Order : <<o1, o2>> \in Seq(Order)
    OBVIOUS
  <2>3. \A b \in Order \X Order : b \in Seq(Order)
    <3>1. \A b \in Order \X Order : \E o1, o2 \in Order : b = <<o1, o2>>
      OBVIOUS
    <3>. QED  BY <2>2, <3>1
  <2>. QED  BY <2>1, <2>3 DEF Batches
<1>. QED  BY <1>1 DEF Calls, CallType

LEMMA BeginPreserves == ASSUME IInv, NEW p \in Clerk, Begin(p) PROVE IInv'
<1>1. PICK c \in Calls : Proper(p, c) /\ call' = [call EXCEPT ![p] = c]
  BY DEF Begin
<1>2. c \in CallType /\ c.kind \in {"reserve", "move", "pause"} /\ (c.kind = "reserve" => c.ok = {})
  BY CallsAreTyped
<1>3. c # NoCall
  BY <1>2, CallShape
<1>4. /\ pc' = [pc EXCEPT ![p] = "begun"] /\ copy' = [copy EXCEPT ![p] = copy[p]] /\ go' = [go EXCEPT ![p] = go[p]]
      /\ go[p] = None /\ UNCHANGED <<ledger, lock, told, worker, crashes, go>>
  BY Here DEF Begin, To
<1>5. c.kind \in {"move", "moved", "refused"} /\ c.status \in TerminalStatus => worker[c.id] # "live"
  BY <1>1, <1>2 DEF Proper
<1>6. \A q \in Clerk : q # p => /\ Concerns(c) \intersect (Concerns(call[q]) \union {go[q]}) = {}
                               /\ call'[q] = call[q] /\ None \notin Concerns(call[q])
  <2>1. \A q \in Clerk : call[q] \in CallType
    BY DEF IInv, CallsInPlace
  <2>. QED  BY <1>1, <2>1, CallShape, OrderAssumption DEF Proper
<1>7. call'[p] = c
  BY <1>1 DEF IInv, CallsInPlace
<1>8. OneCaller'
  BY <1>4, <1>6, <1>7 DEF OneCaller, IInv
<1>9. LaunchesApart'
  BY <1>4 DEF LaunchesApart, IInv
<1>10. lock' = p => lock \in {p, None}
  BY <1>4
<1>. QED  BY <1>1, <1>2, <1>3, <1>4, <1>5, <1>8, <1>9, <1>10, Here, OwnStep

LEMMA LockPreserves == ASSUME IInv, NEW p \in Clerk, Lock(p) PROVE IInv'
<1>1. /\ pc' = [pc EXCEPT ![p] = "locked"] /\ copy' = [copy EXCEPT ![p] = copy[p]]
      /\ call' = [call EXCEPT ![p] = call[p]] /\ go' = [go EXCEPT ![p] = go[p]]
      /\ pc[p] = "begun" /\ lock = None /\ lock' = p /\ UNCHANGED <<ledger, told, worker, crashes, go, call>>
  BY Here DEF Lock, Is, To
<1>2. OneCaller' /\ LaunchesApart'
  <2>1. UNCHANGED <<go, call>>
    BY DEF Lock
  <2>. QED  BY <2>1, Here DEF OneCaller, LaunchesApart
<1>. QED  BY <1>1, <1>2, Here, OwnStep

LEMMA BusyPreserves == ASSUME IInv, NEW p \in Clerk, Busy(p) PROVE IInv'
<1>1. /\ pc' = [pc EXCEPT ![p] = "idle"] /\ copy' = [copy EXCEPT ![p] = copy[p]]
      /\ call' = [call EXCEPT ![p] = NoCall] /\ go' = [go EXCEPT ![p] = go[p]]
      /\ pc[p] = "begun" /\ UNCHANGED <<ledger, lock, told, worker, crashes, go>>
  BY Here DEF Busy, Is, To
<1>2. NoCall \in CallType /\ NoCall.kind = "none" /\ Concerns(NoCall) = {}
  BY Here, CallShape
<1>3. OneCaller' /\ LaunchesApart'
  BY <1>1, <1>2, CallersApart
<1>4. lock' = p => lock \in {p, None}
  BY <1>1
<1>. QED  BY <1>1, <1>2, <1>3, <1>4, Here, OwnStep

LEMMA ReadPreserves == ASSUME IInv, NEW p \in Clerk, Read(p) PROVE IInv'
<1>1. PICK I \in SUBSET {i \in Active(ledger) : Expires(ledger.res[i].status)}, K \in SUBSET ledger.paused :
        copy' = [copy EXCEPT ![p] = Elapsed(ledger, I, K)]
  BY DEF Read
<1>. DEFINE l == Elapsed(ledger, I, K)
<1>2. /\ pc' = [pc EXCEPT ![p] = "work"] /\ call' = [call EXCEPT ![p] = call[p]]
      /\ go' = [go EXCEPT ![p] = go[p]] /\ pc[p] = "locked" /\ lock' = p /\ lock = p
      /\ UNCHANGED <<ledger, told, worker, crashes, go, call>>
  BY Here DEF Read, Is, To, IInv, CallsInPlace, InTransaction
<1>3. Good(l) /\ Keeps(ledger, l) /\ \A i \in Ids : Secured(ledger, i) => Secured(l, i)
  BY ElapsedIsGood DEF IInv
<1>4. l \in Ledger
  BY <1>3 DEF Good, Labelled
<1>5. \A i \in Ids : Bound(i) => Secured(l, i)
  BY <1>3 DEF IInv, BoundIsSecured
<1>6. OneCaller' /\ LaunchesApart'
  <2>1. UNCHANGED <<go, call>>
    BY DEF Read
  <2>. QED  BY <2>1, Here DEF OneCaller, LaunchesApart
<1>7. call[p].kind = "reserve" => Backs(l, call[p])
  BY <1>2, Here DEF Backs
<1>. HIDE DEF l
<1>. QED  BY <1>1, <1>2, <1>3, <1>4, <1>5, <1>6, <1>7, Here, OwnStep DEF l

\* In a transaction the copy is good, loses nothing and secures what runs.
LEMMA CopyIsGood ==
  ASSUME IInv, NEW p \in Clerk, pc[p] = "work"
  PROVE  /\ Good(copy[p]) /\ Keeps(ledger, copy[p]) /\ \A i \in Ids : Bound(i) => Secured(copy[p], i)
         /\ call[p].kind = "reserve" => Backs(copy[p], call[p])
         /\ lock = p /\ go[p] = None
  BY DEF IInv, CallsInPlace, CopyFollows, AnswersAreBacked, InTransaction

LEMMA EvaluatePreserves == ASSUME IInv, NEW p \in Clerk, Evaluate(p) PROVE IInv'
<1>. DEFINE o == Head(call[p].todo)
            todo == call[p].todo
            found == Admits(o, copy[p]) \/ Duplicate(o, copy[p])
            l == IF Admits(o, copy[p]) THEN Reserved(o, copy[p]) ELSE copy[p]
            c == [kind |-> "reserve", todo |-> Tail(call[p].todo),
                  ok |-> call[p].ok \union {i \in {o.id} : found}]
<1>1. pc[p] = "work" /\ call[p].kind = "reserve" /\ todo # <<>>
  BY DEF Evaluate, Is
<1>2. todo \in Seq(Order) /\ call[p].ok \in SUBSET Ids
      /\ Concerns(call[p]) = {todo[k].id : k \in DOMAIN todo} \union call[p].ok
  BY <1>1, CallShape, Here
<1>3. /\ o \in Order /\ o = todo[1] /\ 1 \in DOMAIN todo /\ Tail(todo) \in Seq(Order)
      /\ \A k \in DOMAIN Tail(todo) : k + 1 \in DOMAIN todo /\ Tail(todo)[k] = todo[k + 1]
  BY <1>1, <1>2
<1>4. o.id \in Ids /\ c \in CallType /\ c.kind = "reserve" /\ c.todo = Tail(todo)
      /\ c.ok = call[p].ok \union {i \in {o.id} : found}
  BY <1>2, <1>3 DEF CallType, Ids
<1>5. /\ pc' = [pc EXCEPT ![p] = "work"] /\ copy' = [copy EXCEPT ![p] = l] /\ call' = [call EXCEPT ![p] = c]
      /\ go' = [go EXCEPT ![p] = go[p]] /\ UNCHANGED <<ledger, lock, told, worker, crashes>>
  BY <1>1, Here DEF Evaluate
<1>6. /\ Good(l) /\ \A i \in Ids : copy[p].res[i] # None => l.res[i] = copy[p].res[i]
      /\ found => l.res[o.id] # None
  <2>1. CASE Admits(o, copy[p])
    <3>1. copy[p].res[o.id] = None
      BY <2>1 DEF Admits
    <3>. QED  BY <1>1, <1>3, <2>1, <3>1, CopyIsGood, ReservedIsGood
  <2>2. CASE ~Admits(o, copy[p])
    <3>1. found => copy[p].res[o.id] # None
      BY <2>2 DEF Duplicate, Active
    <3>. QED  BY <1>1, <2>2, <3>1, CopyIsGood
  <2>. QED  BY <2>1, <2>2
<1>7. Concerns(c) = {c.todo[k].id : k \in DOMAIN c.todo} \union c.ok
  BY <1>4, CallShape
<1>. HIDE DEF l, c, o, todo, found
<1>8. l \in Ledger
  BY <1>6 DEF Good, Labelled
<1>9. Keeps(ledger, l)
  BY <1>1, <1>6, CopyIsGood DEF Keeps
<1>10. \A i \in Ids : Bound(i) => Secured(l, i)
  BY <1>1, <1>6, CopyIsGood DEF Secured
<1>11. Backs(l, c)
  <2>1. \A i \in call[p].ok : l.res[i] # None
    BY <1>1, <1>2, <1>6, CopyIsGood DEF Backs
  <2>. QED  BY <1>4, <1>6, <2>1 DEF Backs
<1>12. Concerns(c) \subseteq Concerns(call[p])
  <2>1. \A k \in DOMAIN c.todo : c.todo[k].id \in {todo[j].id : j \in DOMAIN todo}
    BY <1>3, <1>4
  <2>2. o.id \in {todo[j].id : j \in DOMAIN todo}
    BY <1>3
  <2>. QED  BY <1>2, <1>4, <1>7, <2>1, <2>2
<1>13. OneCaller' /\ LaunchesApart'
  BY <1>4, <1>5, <1>12, CallersApart
<1>14. c # NoCall
  BY <1>4 DEF NoCall
<1>. QED  BY <1>1, <1>4, <1>5, <1>6, <1>8, <1>9, <1>10, <1>11, <1>13, <1>14, Here, CopyIsGood, OwnStep

LEMMA TransitionPreserves == ASSUME IInv, NEW p \in Clerk, Transition(p) PROVE IInv'
<1>. DEFINE c == call[p]
            moves == Movable(copy[p], c.id, c.status)
            l == IF moves THEN Moved(copy[p], c.id, c.status, c.cost) ELSE copy[p]
            d == [c EXCEPT !.kind = IF moves THEN "moved" ELSE "refused"]
<1>1. pc[p] = "work" /\ c.kind = "move"
  BY DEF Transition, Is
<1>2. c \in CallType /\ c.id \in Ids /\ c.status \in Moves /\ c.cost \in Cost /\ Concerns(c) = {c.id}
  BY <1>1, CallShape, Here
<1>3. /\ d \in CallType /\ d.kind = (IF moves THEN "moved" ELSE "refused")
      /\ d.id = c.id /\ d.status = c.status
  BY <1>1, <1>2 DEF CallType, NoCall
<1>4. d # NoCall /\ Concerns(d) = {d.id}
  <2>. HIDE DEF d
  <2>1. d.kind \in {"moved", "refused"}
    BY <1>3
  <2>. QED  BY <1>3, <2>1, CallShape DEF NoCall
<1>5. /\ pc' = [pc EXCEPT ![p] = "write"] /\ copy' = [copy EXCEPT ![p] = l] /\ call' = [call EXCEPT ![p] = d]
      /\ go' = [go EXCEPT ![p] = go[p]] /\ UNCHANGED <<ledger, lock, told, worker, crashes>>
  BY <1>1, Here DEF Transition, To
<1>6. /\ Good(l)
      /\ moves => l.res[c.id] # None /\ l.res[c.id].status = c.status
      /\ copy[p].res[c.id] # None => l.res[c.id] # None
      /\ copy[p].res[c.id] # None /\ copy[p].res[c.id].status \in TerminalStatus => l.res[c.id] = copy[p].res[c.id]
      /\ \A i \in Ids : i # c.id => l.res[i] = copy[p].res[i]
      /\ ~moves => l = copy[p]
  <2>1. CASE moves
    BY <1>1, <1>2, <2>1, CopyIsGood, MovedIsGood
  <2>2. CASE ~moves
    BY <1>1, <2>2, CopyIsGood
  <2>. QED  BY <2>1, <2>2
<1>7. c.status \in TerminalStatus => worker[c.id] # "live"
  BY <1>1, Here
<1>. HIDE DEF l, d, moves
<1>8. l \in Ledger
  BY <1>6 DEF Good, Labelled
<1>9. Keeps(ledger, l)
  BY <1>1, <1>2, <1>6, CopyIsGood DEF Keeps
<1>10. ASSUME NEW i \in Ids, Bound(i) PROVE Secured(l, i)
  <2>1. Secured(copy[p], i)
    BY <1>1, <1>10, CopyIsGood
  <2>2. CASE i = c.id /\ moves
    <3>1. \A q \in Clerk : go[q] # c.id
      BY <1>1, <1>2, <2>2, Here, CopyIsGood, OrderAssumption DEF OneCaller
    <3>2. c.status \notin TerminalStatus
      BY <1>7, <1>10, <2>2, <3>1 DEF Bound
    <3>3. c.status \in ActiveStatus \ {"reserved"}
      BY <1>2, <3>2, PolicyAssumption
    <3>. QED  BY <1>6, <2>2, <3>3 DEF Secured
  <2>3. CASE i # c.id \/ ~moves
    BY <1>6, <2>1, <2>3 DEF Secured
  <2>. QED  BY <2>2, <2>3
<1>11. Backs(l, d)
  BY <1>3, <1>6 DEF Backs
<1>12. Concerns(d) \subseteq Concerns(call[p])
  BY <1>2, <1>3, <1>4
<1>13. OneCaller' /\ LaunchesApart'
  BY <1>3, <1>5, <1>12, CallersApart
<1>14. d.kind \in {"move", "moved", "refused"} /\ d.status \in TerminalStatus => worker[d.id] # "live"
  BY <1>3, <1>7
<1>15. d.kind # "reserve"
  BY <1>3
<1>. QED  BY <1>1, <1>3, <1>4, <1>5, <1>6, <1>8, <1>9, <1>10, <1>11, <1>13, <1>14, <1>15, Here, CopyIsGood, OwnStep

LEMMA PauseResourcePreserves == ASSUME IInv, NEW p \in Clerk, PauseResource(p) PROVE IInv'
<1>. DEFINE l == [copy[p] EXCEPT !.paused = @ \union {call[p].key}]
<1>1. pc[p] = "work" /\ call[p].kind = "pause"
  BY DEF PauseResource, Is
<1>2. call[p].key \in Resources
  BY <1>1, CallShape, Here
<1>3. /\ pc' = [pc EXCEPT ![p] = "write"] /\ copy' = [copy EXCEPT ![p] = l] /\ call' = [call EXCEPT ![p] = call[p]]
      /\ go' = [go EXCEPT ![p] = go[p]] /\ UNCHANGED <<ledger, lock, told, worker, crashes>>
  BY <1>1, Here DEF PauseResource, To
<1>4. UNCHANGED <<go, call>>
  BY DEF PauseResource
<1>5. l \in Ledger /\ l.res = copy[p].res /\ l.spent = copy[p].spent
  BY <1>2, Here DEF Ledger
<1>. HIDE DEF l
<1>6. Good(copy[p])
  BY <1>1, CopyIsGood
<1>7. Active(l) \subseteq Active(copy[p]) /\ Labelled(l)
  BY <1>5, <1>6 DEF Good, Labelled, Active
<1>8. Good(l)
  <2>1. \A i \in Ids : Overrun(l, i) = Overrun(copy[p], i)
    BY <1>5 DEF Overrun
  <2>2. Budgeted(l)
    BY <1>5, <1>6, <1>7, <2>1, BudgetShrinks
  <2>3. Charged(l)
    BY <1>5, <1>6 DEF Good, Charged
  <2>. QED  BY <1>5, <1>6, <1>7, <2>2, <2>3, GoodShrinks
<1>9. Keeps(ledger, l) /\ \A i \in Ids : Bound(i) => Secured(l, i)
  BY <1>1, <1>5, CopyIsGood DEF Keeps, Secured
<1>10. Backs(l, call[p])
  BY <1>1 DEF Backs
<1>11. OneCaller' /\ LaunchesApart'
  BY <1>4, Here DEF OneCaller, LaunchesApart
<1>. QED  BY <1>1, <1>3, <1>5, <1>8, <1>9, <1>10, <1>11, Here, CopyIsGood, OwnStep

LEMMA EvaluatedPreserves == ASSUME IInv, NEW p \in Clerk, Evaluated(p) PROVE IInv'
<1>1. pc[p] = "work" /\ call[p].kind = "reserve"
  BY DEF Evaluated, Is
<1>2. /\ pc' = [pc EXCEPT ![p] = "write"] /\ copy' = [copy EXCEPT ![p] = copy[p]]
      /\ call' = [call EXCEPT ![p] = call[p]]
      /\ go' = [go EXCEPT ![p] = go[p]] /\ UNCHANGED <<ledger, lock, told, worker, crashes>>
  BY <1>1, Here DEF Evaluated, To
<1>3. UNCHANGED <<go, call>>
  BY DEF Evaluated
<1>4. OneCaller' /\ LaunchesApart'
  BY <1>3, Here DEF OneCaller, LaunchesApart
<1>. QED  BY <1>1, <1>2, <1>4, Here, CopyIsGood, OwnStep

LEMMA CrashPreserves == ASSUME IInv, NEW p \in Clerk, Crash(p) PROVE IInv'
<1>1. NoCall \in CallType /\ NoCall.kind = "none" /\ Concerns(NoCall) = {} /\ Empty \in Ledger
  BY Here, CallShape
<1>2. /\ pc' = [pc EXCEPT ![p] = "idle"] /\ copy' = [copy EXCEPT ![p] = Empty]
      /\ call' = [call EXCEPT ![p] = NoCall] /\ go' = [go EXCEPT ![p] = None]
      /\ crashes' \in 0 .. MaxCrashes /\ UNCHANGED <<ledger, lock, told, worker>>
  BY Here, PolicyAssumption DEF Crash, To
<1>3. OneCaller' /\ LaunchesApart'
  BY <1>1, <1>2, CallersApart
<1>4. lock' = p => lock \in {p, None}
  BY <1>2
<1>. QED  BY <1>1, <1>2, <1>3, <1>4, OwnStep

LEMMA ThrowsPreserves == ASSUME IInv, NEW p \in Clerk, Throws(p) PROVE IInv'
<1>1. /\ NoCall \in CallType /\ NoCall.kind = "none" /\ Concerns(NoCall) = {} /\ Empty \in Ledger
      /\ Backs(ledger, NoCall)
  BY Here, CallShape DEF Backs
<1>2. PICK at \in {"unlock", "idle"} :
        /\ pc[p] \in (IF at = "unlock" THEN {"locked", "work", "write", "unlock"} ELSE {"locked", "unlock"})
        /\ pc' = [pc EXCEPT ![p] = at] /\ copy' = [copy EXCEPT ![p] = Empty]
        /\ call' = [call EXCEPT ![p] = NoCall] /\ crashes < MaxCrashes /\ crashes' = crashes + 1
        /\ UNCHANGED <<ledger, lock, go, told, worker>>
  BY Zenon DEF Throws, To
<1>3. crashes' \in 0 .. MaxCrashes
  BY <1>2, Here, PolicyAssumption
<1>4. go[p] = None /\ go' = [go EXCEPT ![p] = go[p]] /\ lock' = p /\ lock = p
  BY <1>2, Here DEF IInv, CallsInPlace, InTransaction
<1>5. OneCaller' /\ LaunchesApart'
  BY <1>1, <1>2, <1>4, CallersApart
<1>. QED  BY <1>1, <1>2, <1>3, <1>4, <1>5, OwnStep

-----------------------------------------------------------------------------
(* The ledger is replaced, an answer is given, workers start and end       *)

LEMMA WritePreserves == ASSUME IInv, NEW p \in Clerk, Write(p) PROVE IInv'
<1>. USE DEF IInv
<1>1. /\ pc[p] = "write" /\ ledger' = copy[p] /\ pc' = [pc EXCEPT ![p] = "unlock"]
      /\ UNCHANGED <<lock, copy, call, go, told, worker, crashes>>
  BY DEF Write, Is, To
<1>2. /\ Good(copy[p]) /\ Keeps(ledger, copy[p]) /\ \A i \in Ids : Bound(i) => Secured(copy[p], i)
      /\ Backs(copy[p], call[p]) /\ lock = p
  BY <1>1 DEF CallsInPlace, CopyFollows, AnswersAreBacked, InTransaction
<1>3. pc'[p] = "unlock" /\ \A q \in Clerk : q # p => pc'[q] = pc[q] /\ ~InTransaction(q)
  <2>1. \A q \in Clerk : q # p => ~InTransaction(q)
    BY <1>1, OneTransaction DEF InTransaction
  <2>. QED  BY <1>1, <2>1 DEF TypeOK
<1>4. TypeOK'
  BY <1>1, <1>2 DEF TypeOK, Good, Labelled, Ledger
<1>5. Good(ledger)'
  BY <1>1, <1>2
<1>6. CallsInPlace'
  <2>1. ASSUME NEW q \in Clerk
        PROVE  /\ pc'[q] = "idle" => call[q] = NoCall
               /\ go[q] # None => pc'[q] = "idle"
               /\ pc'[q] \in {"locked", "work", "write", "unlock"} => lock = q
               /\ pc'[q] \in {"begun", "locked"} /\ call[q].kind = "reserve" => call[q].ok = {}
               /\ pc'[q] \in {"work", "write"} => Good(copy[q])
    BY <1>1, <1>2, <1>3 DEF CallsInPlace, InTransaction
  <2>. QED  BY <1>1, <2>1 DEF CallsInPlace, InTransaction
<1>7. OneCaller' /\ LaunchesApart' /\ EndsTheEnded'
  BY <1>1 DEF OneCaller, LaunchesApart, EndsTheEnded
<1>8. BoundIsSecured'
  BY <1>1, <1>2 DEF BoundIsSecured, Bound
<1>9. CopyFollows'
  BY <1>3 DEF CopyFollows, InTransaction
<1>10. AnswersAreBacked'
  BY <1>1, <1>2, <1>3 DEF AnswersAreBacked, InTransaction, Keeps, TypeOK
<1>. QED  BY <1>4, <1>5, <1>6, <1>7, <1>8, <1>9, <1>10

LEMMA UnlockPreserves == ASSUME IInv, NEW p \in Clerk, Unlock(p) PROVE IInv'
<1>. USE DEF IInv
<1>. DEFINE c == call[p]
            g == IF c.kind = "moved" /\ c.status = "dispatching" THEN c.id ELSE go[p]
<1>1. /\ pc[p] = "unlock" /\ lock' = None /\ pc' = [pc EXCEPT ![p] = "idle"]
      /\ call' = [call EXCEPT ![p] = NoCall] /\ copy' = [copy EXCEPT ![p] = Empty]
      /\ go' = [go EXCEPT ![p] = g]
      /\ told' = IF c.kind = "reserve" THEN told \union c.ok ELSE told
      /\ UNCHANGED <<ledger, worker, crashes>>
  BY Here DEF Unlock, Is, To
<1>2. /\ c \in CallType /\ go[p] = None /\ Backs(ledger, c) /\ lock = p
      /\ NoCall \in CallType /\ NoCall.kind = "none" /\ Concerns(NoCall) = {} /\ Empty \in Ledger
  BY <1>1, Here, CallShape DEF CallsInPlace, AnswersAreBacked, InTransaction
<1>3. /\ c.kind = "reserve" => c.ok \in SUBSET Ids
      /\ c.kind = "moved" => c.id \in Ids /\ c.id \in Concerns(c)
  BY <1>2, CallShape
<1>4. g \in Ids \union {None} /\ g \in {go[p], None} \union Concerns(c)
  BY <1>2, <1>3
<1>5. g # None => Secured(ledger, g)
  BY <1>2 DEF Backs, Secured, ActiveStatus
<1>. HIDE DEF g
<1>6. /\ \A q \in Clerk : q # p => /\ pc'[q] = pc[q] /\ copy'[q] = copy[q] /\ call'[q] = call[q] /\ go'[q] = go[q]
                                   /\ ~InTransaction(q)
      /\ pc'[p] = "idle" /\ copy'[p] = Empty /\ call'[p] = NoCall /\ go'[p] = g
  <2>1. \A q \in Clerk : q # p => ~InTransaction(q)
    BY <1>1, OneTransaction DEF InTransaction
  <2>. QED  BY <1>1, <2>1 DEF TypeOK, CallsInPlace
<1>7. TypeOK'
  BY <1>1, <1>3, <1>4 DEF TypeOK
<1>8. Good(ledger)'
  BY <1>1
<1>9. CallsInPlace'
  <2>1. ASSUME NEW q \in Clerk
        PROVE  /\ pc'[q] = "idle" => call'[q] = NoCall
               /\ go'[q] # None => pc'[q] = "idle"
               /\ ~InTransaction(q)'
               /\ pc'[q] \in {"begun", "locked"} /\ call'[q].kind = "reserve" => call'[q].ok = {}
    BY <1>6 DEF CallsInPlace, InTransaction
  <2>2. copy' \in [Clerk -> Ledger] /\ call' \in [Clerk -> CallType]
    BY <1>1, <1>2 DEF CallsInPlace
  <2>. QED  BY <2>1, <2>2 DEF CallsInPlace, InTransaction
<1>10. OneCaller' /\ LaunchesApart'
  BY <1>1, <1>2, <1>4, CallersApart
<1>11. EndsTheEnded'
  BY <1>1, <1>2, <1>6 DEF EndsTheEnded
<1>12. BoundIsSecured'
  <2>1. ASSUME NEW i \in Ids, Bound(i)' PROVE Bound(i) \/ i = g
    BY <1>1, <1>6, <2>1 DEF Bound
  <2>2. \A i \in Ids : i = g => Secured(ledger, i)
    BY <1>5, OrderAssumption
  <2>. QED  BY <1>1, <2>1, <2>2 DEF BoundIsSecured
<1>13. CopyFollows'
  BY <1>6 DEF CopyFollows, InTransaction
<1>14. AnswersAreBacked'
  BY <1>1, <1>2, <1>6 DEF AnswersAreBacked, InTransaction, Backs
<1>. QED  BY <1>7, <1>8, <1>9, <1>10, <1>11, <1>12, <1>13, <1>14

LEMMA LaunchPreserves == ASSUME IInv, NEW p \in Clerk, Launch(p) PROVE IInv'
<1>. USE DEF IInv
<1>1. /\ go[p] # None /\ go[p] \in Ids /\ go' = [go EXCEPT ![p] = None]
      /\ worker' = [worker EXCEPT ![go[p]] = IF @ = "none" THEN "live" ELSE @]
      /\ UNCHANGED <<ledger, lock, pc, copy, call, told, crashes>>
  BY DEF Launch, TypeOK
<1>2. pc[p] = "idle" /\ call[p] = NoCall
  BY <1>1, Here
<1>3. go'[p] = None /\ \A q \in Clerk : q # p => go'[q] = go[q]
  BY <1>1 DEF TypeOK
<1>4. worker'[go[p]] \in {worker[go[p]], "live"} /\ \A i \in Ids : i # go[p] => worker'[i] = worker[i]
  BY <1>1 DEF TypeOK
<1>5. \A i \in Ids : Bound(i)' => Bound(i)
  BY <1>3, <1>4, OrderAssumption DEF Bound
<1>6. TypeOK'
  BY <1>1 DEF TypeOK
<1>7. Good(ledger)' /\ BoundIsSecured'
  BY <1>1, <1>5 DEF BoundIsSecured
<1>8. CallsInPlace'
  BY <1>1, <1>3 DEF CallsInPlace, InTransaction
<1>9. OneCaller' /\ LaunchesApart'
  <2>1. \A q \in Clerk : None \notin Concerns(call[q])
    BY CallShape, OrderAssumption DEF CallsInPlace
  <2>. QED  BY <1>1, <1>3, <2>1 DEF OneCaller, LaunchesApart
<1>10. EndsTheEnded'
  <2>. SUFFICES ASSUME NEW q \in Clerk, call[q].kind \in {"move", "moved", "refused"}, call[q].status \in TerminalStatus
                PROVE  worker'[call[q].id] # "live"
    BY <1>1 DEF EndsTheEnded
  <2>1. call[q].id \in Ids /\ Concerns(call[q]) = {call[q].id}
    BY CallShape DEF CallsInPlace
  <2>2. q # p
    BY <1>2 DEF NoCall
  <2>3. call[q].id # go[p]
    BY <2>1, <2>2 DEF OneCaller
  <2>. QED  BY <1>4, <2>1, <2>3 DEF EndsTheEnded
<1>11. CopyFollows' /\ AnswersAreBacked'
  BY <1>1, <1>5 DEF CopyFollows, AnswersAreBacked
<1>. QED  BY <1>6, <1>7, <1>8, <1>9, <1>10, <1>11

\* Fewer workers run, or nothing changes.
LEMMA RestPreserves ==
  ASSUME IInv, UNCHANGED <<ledger, lock, clerks, told, crashes>>,
         worker' \in [Ids -> {"none", "live", "ended"}],
         \A i \in Ids : worker'[i] = "live" => worker[i] = "live"
  PROVE  IInv'
<1>. USE DEF IInv, clerks
<1>1. TypeOK' /\ Good(ledger)'
  BY DEF TypeOK
<1>2. CallsInPlace'
  BY DEF CallsInPlace, InTransaction
<1>3. OneCaller' /\ LaunchesApart'
  BY DEF OneCaller, LaunchesApart
<1>4. EndsTheEnded'
  BY CallShape DEF EndsTheEnded, CallsInPlace
<1>5. \A i \in Ids : Bound(i)' => Bound(i)
  BY DEF Bound
<1>6. BoundIsSecured' /\ CopyFollows' /\ AnswersAreBacked'
  BY <1>5 DEF BoundIsSecured, CopyFollows, AnswersAreBacked
<1>. QED  BY <1>1, <1>2, <1>3, <1>4, <1>6

-----------------------------------------------------------------------------
(* The theorems                                                            *)

LEMMA InitIsInductive == Init => IInv
<1>. SUFFICES ASSUME Init PROVE IInv
  OBVIOUS
<1>1. TypeOK
  BY PolicyAssumption DEF Init, TypeOK, Empty
<1>2. Active(Empty) = {} /\ Active(Empty) \in SUBSET Ids /\ \A i \in Ids : Empty.res[i] = None
  BY DEF Active, Empty
<1>3. Labelled(Empty)
  BY <1>2 DEF Labelled, Ledger, Empty
<1>4. WithinLimits(Empty)
  <2>1. ActiveWriters(Empty) = {} /\ \A f, v : Holding(Empty, f, v) = {}
    BY <1>2 DEF ActiveWriters, Holding
  <2>2. Cardinality({}) = 0 /\ Active(Empty) = {}
    BY <1>2, FS_EmptySet
  <2>3. 0 <= GlobalLimit /\ 0 <= GlobalLimit - ReviewReserve /\ 0 <= HostLimit /\ 0 <= AccountLimit /\ 0 <= RuntimeLimit
    BY PolicyAssumption
  <2>. QED  BY <2>1, <2>2, <2>3 DEF WithinLimits
<1>5. Good(ledger)
  <2>1. Committed(Empty) = 0
    BY <1>2, <1>3, LedgerAmounts, SumOfNone
  <2>2. Overruns(Empty) \in Nat /\ Budget \in Nat /\ Empty.spent = 0
    BY <1>3, LedgerAmounts DEF Empty
  <2>3. Budgeted(Empty)
    BY <1>2, <2>1, <2>2 DEF Budgeted
  <2>4. Charged(Empty)
    BY <1>2 DEF Charged
  <2>. QED  BY <1>2, <1>3, <1>4, <2>3, <2>4 DEF Init, Good, Apart
<1>6. /\ CallsInPlace /\ OneCaller /\ LaunchesApart /\ EndsTheEnded
      /\ BoundIsSecured /\ CopyFollows /\ AnswersAreBacked
  <2>1. NoCall \in CallType /\ NoCall.kind = "none" /\ Concerns(NoCall) = {}
    BY CallShape DEF CallType, NoCall
  <2>2. Empty \in Ledger
    BY <1>3 DEF Labelled
  <2>3. CallsInPlace
    BY <2>1, <2>2 DEF Init, CallsInPlace, InTransaction
  <2>4. OneCaller /\ LaunchesApart /\ EndsTheEnded
    BY <2>1 DEF Init, OneCaller, LaunchesApart, EndsTheEnded
  <2>5. BoundIsSecured /\ CopyFollows /\ AnswersAreBacked
    BY OrderAssumption DEF Init, BoundIsSecured, Bound, CopyFollows, AnswersAreBacked
  <2>. QED  BY <2>3, <2>4, <2>5
<1>. QED  BY <1>1, <1>5, <1>6 DEF IInv

LEMMA NextPreserves == IInv /\ [Next]_vars => IInv'
<1>. SUFFICES ASSUME IInv, [Next]_vars PROVE IInv'
  OBVIOUS
<1>1. CASE \E p \in Clerk : Begin(p) \/ Lock(p) \/ Busy(p) \/ Read(p) \/ Evaluate(p) \/ Transition(p)
  BY <1>1, BeginPreserves, LockPreserves, BusyPreserves, ReadPreserves, EvaluatePreserves, TransitionPreserves
<1>2. CASE \E p \in Clerk : PauseResource(p) \/ Evaluated(p) \/ Write(p) \/ Unlock(p) \/ Throws(p) \/ Launch(p) \/ Crash(p)
  BY <1>2, PauseResourcePreserves, EvaluatedPreserves, WritePreserves, UnlockPreserves, ThrowsPreserves, LaunchPreserves, CrashPreserves
<1>3. CASE \E i \in Ids : WorkerEnds(i)
  BY <1>3, RestPreserves DEF WorkerEnds, IInv, TypeOK
<1>4. CASE UNCHANGED vars
  BY <1>4, RestPreserves DEF vars, IInv, TypeOK
<1>. QED  BY <1>1, <1>2, <1>3, <1>4 DEF Next

\* The invariant holds always.
THEOREM Invariance == Spec => []IInv
  BY InitIsInductive, NextPreserves, PTL DEF Spec

\* The ledger, the lock, the processes and the workers have their types
\* throughout.
THEOREM TypeCorrect == Spec => []TypeOK
<1>1. IInv => TypeOK
  BY DEF IInv
<1>. QED  BY <1>1, Invariance, PTL

\* Running workers stay within every limit and out of each other's way,
\* although reservations expire by age and processes die between the ledger
\* and the launch.
THEOREM WorkersHaveRoomHolds == Spec => []WorkersHaveRoom
<1>1. ASSUME IInv PROVE WorkersHaveRoom
  <2>. USE <1>1
  <2>. DEFINE By(f, v) == {j \in Live : ledger.res[j].order[f] = v}
              LiveWriters == {i \in Live : ledger.res[i].order.role \in Writers}
  <2>1. Live \in SUBSET Active(ledger) /\ Active(ledger) \in SUBSET Ids
    BY DEF IInv, BoundIsSecured, Bound, Secured, Live, Active
  <2>2. \A i, j \in Live : i # j => ~Collides(ledger.res[i].order, ledger.res[j].order)
    BY <2>1 DEF IInv, Good, Apart
  <2>3. \A i \in Live : ledger.res[i].order \in Order
    BY <2>1 DEF IInv, Good, Labelled, Ledger, Active, Reservation
  <2>4. GlobalLimit \in Nat /\ ReviewReserve \in Nat /\ HostLimit \in Nat /\ AccountLimit \in Nat /\ RuntimeLimit \in Nat
    BY PolicyAssumption
  <2>5. WithinLimits(ledger)
    BY DEF IInv, Good
  <2>6. Cardinality(Live) <= GlobalLimit
    BY <2>1, <2>4, <2>5, Fewer DEF WithinLimits
  <2>7. Cardinality(LiveWriters) <= GlobalLimit - ReviewReserve
    <3>1. ActiveWriters(ledger) \in SUBSET Ids /\ LiveWriters \in SUBSET ActiveWriters(ledger)
      BY <2>1 DEF ActiveWriters
    <3>. QED  BY <2>4, <2>5, <3>1, Fewer DEF WithinLimits
  <2>8. \A f, v : /\ Cardinality(By(f, v)) \in Nat /\ Cardinality(Holding(ledger, f, v)) \in Nat
                  /\ Cardinality(By(f, v)) <= Cardinality(Holding(ledger, f, v))
    <3>1. \A f, v : Holding(ledger, f, v) \in SUBSET Ids /\ By(f, v) \in SUBSET Holding(ledger, f, v)
      BY <2>1 DEF Holding
    <3>. QED  BY <3>1, Fewer
  <2>. HIDE DEF By
  <2>9. ASSUME NEW i \in Live
        PROVE  /\ Cardinality(By("host", ledger.res[i].order.host)) <= HostLimit
               /\ Cardinality(By("account", ledger.res[i].order.account)) <= AccountLimit
               /\ Cardinality(By("runtime", ledger.res[i].order.runtime)) <= RuntimeLimit
    <3>1. /\ Cardinality(Holding(ledger, "host", ledger.res[i].order.host)) <= HostLimit
          /\ Cardinality(Holding(ledger, "account", ledger.res[i].order.account)) <= AccountLimit
          /\ Cardinality(Holding(ledger, "runtime", ledger.res[i].order.runtime)) <= RuntimeLimit
      BY <2>3, <2>5 DEF WithinLimits
    <3>. QED  BY <2>4, <2>8, <3>1
  <2>. QED  BY <2>1, <2>2, <2>6, <2>7, <2>9 DEF WorkersHaveRoom, By
<1>. QED  BY <1>1, Invariance, PTL

\* What is spent and what is promised exceed the budget by no more than workers
\* exceeded their own estimates, for any orders and any costs: a repeated or a
\* late answer is counted once, and a copy is never judged by stale sums.
THEOREM SpendingIsBoundedHolds == Spec => []SpendingIsBounded
<1>1. IInv => SpendingIsBounded
  BY DEF IInv, Good, Budgeted, SpendingIsBounded
<1>. QED  BY <1>1, Invariance, PTL

\* .. so that, where no task costs more than its order estimates, what is spent
\* and promised together never exceeds the budget.
THEOREM BudgetIsKept ==
  ASSUME \A o \in Order, c \in Cost : c <= o.cost
  PROVE  Spec => [](ledger.spent + Committed(ledger) <= Budget)
<1>1. ASSUME IInv PROVE ledger.spent + Committed(ledger) <= Budget
  <2>1. Labelled(ledger) /\ Budgeted(ledger) /\ Charged(ledger)
    BY <1>1 DEF IInv, Good
  <2>2. \A i \in Ids : Overrun(ledger, i) = 0
    <3>1. ASSUME NEW i \in Ids, ledger.res[i] # None
          PROVE  ~(ledger.res[i].actual > ledger.res[i].order.cost)
      <4>1. ledger.res[i].order \in Order /\ ledger.res[i].actual \in Cost \union {0}
        BY <2>1, <3>1 DEF Labelled, Ledger, Reservation, Charged
      <4>2. ledger.res[i].order.cost \in Nat
        BY <4>1, OrderAssumption
      <4>3. CASE ledger.res[i].actual = 0
        BY <4>2, <4>3
      <4>4. CASE ledger.res[i].actual \in Cost
        <5>1. ledger.res[i].actual \in Nat
          BY <4>4, PolicyAssumption
        <5>2. ledger.res[i].actual <= ledger.res[i].order.cost
          BY <4>1, <4>4
        <5>. QED  BY <4>2, <5>1, <5>2
      <4>. QED  BY <4>1, <4>3, <4>4
    <3>. QED  BY <3>1 DEF Overrun
  <2>3. Overruns(ledger) = 0
    <3>1. \A i \in Ids : Overs(ledger)[i] = 0
      BY <2>2 DEF Overs
    <3>. QED  BY <2>1, <3>1, LedgerAmounts, SumOfZeros
  <2>. QED  BY <2>1, <2>3, LedgerAmounts DEF Budgeted
<1>. QED  BY <1>1, Invariance, PTL

\* No transaction undoes another: an acknowledged reservation stays in the
\* ledger, and one that has ended stays ended.
THEOREM NothingIsUndoneHolds == Spec => NothingIsUndone
<1>. DEFINE Kept == \A i \in Ids :
       /\ i \in told => ledger'.res[i] # None
       /\ ledger.res[i] # None /\ ledger.res[i].status \in TerminalStatus => ledger'.res[i] = ledger.res[i]
<1>1. ASSUME IInv, [Next]_vars PROVE [Kept]_vars
  <2>1. ledger' = ledger \/ \E p \in Clerk : Write(p)
    BY <1>1 DEF Next, vars, Begin, Lock, Busy, Read, Evaluate, Transition, PauseResource, Evaluated, Unlock,
                Throws, Launch, Crash, WorkerEnds
  <2>2. CASE ledger' = ledger
    BY <1>1, <2>2 DEF IInv, AnswersAreBacked
  <2>3. ASSUME NEW p \in Clerk, Write(p) PROVE Kept
    <3>1. ledger' = copy[p] /\ Keeps(ledger, copy[p])
      BY <1>1, <2>3 DEF Write, Is, IInv, CopyFollows
    <3>. QED  BY <1>1, <3>1 DEF Keeps, IInv, AnswersAreBacked
  <2>. QED  BY <2>1, <2>2, <2>3
<1>. QED  BY <1>1, Invariance, PTL DEF Spec, NothingIsUndone
=============================================================================
