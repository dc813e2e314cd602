------------------------- MODULE CapacityScheduler -------------------------
(***************************************************************************)
(* The durable capacity ledger of one host.  Several processes reserve     *)
(* capacity, move a reservation through its statuses and pause resources.  *)
(* Each call is a transaction: take the lock directory, read the ledger,   *)
(* expire what was never launched, evaluate, replace the file, remove the  *)
(* lock.  A process may die, or a file operation throw, at any of these; a *)
(* lock that is left is never stolen.                                      *)
(*                                                                         *)
(* The callers follow the contract of CAPACITY-SCHEDULER.md: they turn     *)
(* "reserved" into "dispatching" before they launch, and end a reservation *)
(* only when its worker has ended.  Launching is idempotent in the task    *)
(* (Supervisor).  Left out: the bounds on deadlines, retries and premium   *)
(* runtimes, which are checks of one order on its own, and the wording of  *)
(* the holds.                                                              *)
(***************************************************************************)
EXTENDS Integers, Sequences, FiniteSets, Functions

CONSTANTS
  Clerk,         \* processes that use the scheduler
  Order,         \* the tasks that may be asked for
  GlobalLimit, ReviewReserve, HostLimit, AccountLimit, RuntimeLimit, \* the policy
  Budget,
  Moves,         \* the statuses the callers move a reservation to
  Cost,          \* what a worker may really have cost
  MaxCrashes,    \* bound on the processes that die and the transactions that throw
  None

Ids == {o.id : o \in Order}
Writers == {"build", "revise"}
ActiveStatus == {"reserved", "dispatching", "running", "launch_unknown", "hold"}
TerminalStatus == {"completed", "failed", "expired", "canceled"}
Resources == {<<"global">>} \union UNION {{<<"host", o.host>>, <<"account", o.account>>,
                                          <<"runtime", o.runtime>>} : o \in Order}

ASSUME PolicyAssumption ==
  /\ GlobalLimit \in Nat \ {0} /\ ReviewReserve \in 0 .. GlobalLimit - 1
  /\ HostLimit \in Nat \ {0} /\ AccountLimit \in Nat \ {0} /\ RuntimeLimit \in Nat \ {0}
  /\ Budget \in Nat \ {0} /\ Cost \subseteq Nat /\ MaxCrashes \in Nat
  /\ Moves \subseteq (ActiveStatus \union TerminalStatus) \ {"reserved", "expired"}
ASSUME OrderAssumption ==
  /\ \A o \in Order : o.role \in Writers \union {"review"} /\ o.cost \in Nat
  /\ IsFiniteSet(Order) /\ None \notin Ids \union Clerk

VARIABLES
  ledger,   \* the file: res, id |-> [order, status, actual] or None; spent; paused
  lock,     \* the process that made the lock directory, or None
  pc, copy, call,  \* per process: where it is, the ledger it read, its call
  go,       \* per process: the task it was told to launch
  told,     \* ids a process was told it had reserved
  worker,   \* id |-> none, live or ended
  crashes

clerks == <<pc, copy, call, go>>
vars == <<ledger, lock, clerks, told, worker, crashes>>

-----------------------------------------------------------------------------
(* The ledger and what it admits.                                          *)

Empty == [res |-> [i \in Ids |-> None], spent |-> 0, paused |-> {}]
Reservation == [order: Order, status: ActiveStatus \union TerminalStatus, actual: Nat]
ASSUME NoneAssumption == None \notin Reservation
Active(l) == {i \in Ids : l.res[i] # None /\ l.res[i].status \in ActiveStatus}
Holding(l, field, value) == {i \in Active(l) : l.res[i].order[field] = value}
ActiveWriters(l) == {i \in Active(l) : l.res[i].order.role \in Writers}
Committed(l) == SumFunction([i \in Active(l) |-> l.res[i].order.cost])
\* Mutant: a reservation expires by age, launched or not.
ExpiresByAge(status) == status \in {"reserved", "dispatching"}

\* Only an untouched acknowledgement has a deadline.
Expires(status) == status = "reserved"
\* The ledger as it is read when the deadlines of I, and of the pauses K, have passed.
Elapsed(l, I, K) == [
  res |-> [i \in Ids |-> IF i \in I THEN [l.res[i] EXCEPT !.status = "expired"] ELSE l.res[i]],
  spent |-> l.spent, paused |-> l.paused \ K]

Paused(o, l) == \E k \in {<<"global">>, <<"host", o.host>>, <<"account", o.account>>, <<"runtime", o.runtime>>} :
  k \in l.paused
Collides(o, x) ==
  \/ o.role \in Writers /\ x.role \in Writers /\ o.branch = x.branch
  \/ o.worktree = x.worktree
  \/ o.keys \intersect x.keys # {}
Room(o, l) ==
  /\ Cardinality(Active(l)) < GlobalLimit
  /\ o.role \in Writers => Cardinality(ActiveWriters(l)) < GlobalLimit - ReviewReserve
  /\ Cardinality(Holding(l, "host", o.host)) < HostLimit
  /\ Cardinality(Holding(l, "account", o.account)) < AccountLimit
  /\ Cardinality(Holding(l, "runtime", o.runtime)) < RuntimeLimit
\* Mutant: the budget counts what was spent and not what is committed.
AffordsSpent(o, l) == l.spent + o.cost <= Budget

Affords(o, l) == l.spent + Committed(l) + o.cost <= Budget

Admits(o, l) ==
  /\ o.blocked = {} /\ l.res[o.id] = None /\ ~Paused(o, l)
  /\ \A i \in Active(l) : ~Collides(o, l.res[i].order)
  /\ Room(o, l) /\ Affords(o, l)
\* A repeated request is told of the reservation it already has; only the
\* resources are compared.
SameResources(o, x) == \A f \in {"role", "runtime", "host", "account", "branch", "worktree"} : o[f] = x[f]
Duplicate(o, l) == o.blocked = {} /\ o.id \in Active(l) /\ SameResources(o, l.res[o.id].order)

Reserved(o, l) == [l EXCEPT !.res[o.id] = [order |-> o, status |-> "reserved", actual |-> 0]]
\* Ending a reservation adds its cost; ending it again changes nothing.
Moved(l, i, s, c) == LET r == l.res[i] ends == r.status \in ActiveStatus /\ s \in TerminalStatus IN [
  res |-> [l.res EXCEPT ![i] = [order |-> r.order, status |-> s, actual |-> IF ends THEN c ELSE r.actual]],
  spent |-> IF ends THEN l.spent + c ELSE l.spent, paused |-> l.paused]
Movable(l, i, s) == l.res[i] # None /\ (l.res[i].status \in TerminalStatus => s = l.res[i].status)

-----------------------------------------------------------------------------
NoCall == [kind |-> "none"]
\* reserveMany sorts reviews before writers, whatever their priorities.
Batches == {<<o>> : o \in Order} \union {b \in Order \X Order : b[2].role = "review" => b[1].role = "review"}
Calls == [kind: {"reserve"}, todo: Batches, ok: {{}}] \union [kind: {"move"}, id: Ids, status: Moves, cost: Cost]
         \union [kind: {"pause"}, key: Resources]
Concerns(c) == CASE c.kind = "reserve" -> {c.todo[k].id : k \in DOMAIN c.todo} \union c.ok
                 [] "id" \in DOMAIN c -> {c.id} [] OTHER -> {}

TypeOK ==
  /\ ledger.res \in [Ids -> Reservation \union {None}] /\ \A i \in Ids : ledger.res[i] # None => ledger.res[i].order.id = i
  /\ ledger.spent \in Nat /\ ledger.paused \subseteq Resources
  /\ lock \in Clerk \union {None}
  /\ pc \in [Clerk -> {"idle", "begun", "locked", "work", "write", "unlock"}]
  /\ go \in [Clerk -> Ids \union {None}]
  /\ worker \in [Ids -> {"none", "live", "ended"}] /\ told \subseteq Ids
  /\ crashes \in 0 .. MaxCrashes

Init ==
  /\ ledger = Empty /\ lock = None
  /\ pc = [p \in Clerk |-> "idle"] /\ copy = [p \in Clerk |-> Empty] /\ call = [p \in Clerk |-> NoCall]
  /\ go = [p \in Clerk |-> None]
  /\ told = {} /\ worker = [i \in Ids |-> "none"] /\ crashes = 0

Is(p, at) == pc[p] = at
To(p, at) == pc' = [pc EXCEPT ![p] = at]

\* The caller's side of the contract: one process looks after a task, it
\* dispatches what is not launched, and ends only what no longer runs.
Proper(p, c) ==
  /\ \A q \in Clerk \ {p} : Concerns(c) \intersect (Concerns(call[q]) \union {go[q]}) = {}
  /\ c.kind = "move" => /\ c.id \in told
                        /\ c.status = "dispatching" => worker[c.id] = "none"
                        /\ c.status = "running" => worker[c.id] # "none"
                        /\ c.status \in TerminalStatus => worker[c.id] # "live"
                        /\ c.status \notin TerminalStatus => c.cost = 0
                        /\ c.cost # 0 => worker[c.id] = "ended"
Begin(p) ==
  /\ Is(p, "idle") /\ go[p] = None
  /\ \E c \in Calls : Proper(p, c) /\ call' = [call EXCEPT ![p] = c]
  /\ To(p, "begun")
  /\ UNCHANGED <<ledger, lock, copy, go, told, worker, crashes>>

\* Mutant: a lock that is there is taken over.
StealLock(p) == /\ Is(p, "begun") /\ lock' = p /\ To(p, "locked")
                /\ UNCHANGED <<ledger, copy, call, go, told, worker, crashes>>

Lock(p) == /\ Is(p, "begun") /\ lock = None /\ lock' = p /\ To(p, "locked")
           /\ UNCHANGED <<ledger, copy, call, go, told, worker, crashes>>
\* mkdir finds the directory: SCHEDULER_BUSY.
Busy(p) == /\ Is(p, "begun") /\ lock # None /\ To(p, "idle") /\ call' = [call EXCEPT ![p] = NoCall]
           /\ UNCHANGED <<ledger, lock, copy, go, told, worker, crashes>>
\* Time passes: any deadline may have been reached when the ledger is read.
Read(p) ==
  /\ Is(p, "locked") /\ To(p, "work")
  /\ \E I \in SUBSET {i \in Active(ledger) : Expires(ledger.res[i].status)}, K \in SUBSET ledger.paused :
       copy' = [copy EXCEPT ![p] = Elapsed(ledger, I, K)]
  /\ UNCHANGED <<ledger, lock, call, go, told, worker, crashes>>

\* One order of a batch is evaluated against the copy that holds the ones before it.
Evaluate(p) ==
  /\ Is(p, "work") /\ call[p].kind = "reserve" /\ call[p].todo # <<>>
  /\ LET o == Head(call[p].todo) ok == Admits(o, copy[p]) \/ Duplicate(o, copy[p]) IN
       /\ copy' = IF Admits(o, copy[p]) THEN [copy EXCEPT ![p] = Reserved(o, @)] ELSE copy
       /\ call' = [call EXCEPT ![p] = [kind |-> "reserve", todo |-> Tail(@.todo), ok |-> @.ok \union {i \in {o.id} : ok}]]
  /\ UNCHANGED <<ledger, lock, pc, go, told, worker, crashes>>
Transition(p) == LET c == call[p] IN
  /\ Is(p, "work") /\ c.kind = "move" /\ To(p, "write")
  /\ copy' = IF Movable(copy[p], c.id, c.status)
             THEN [copy EXCEPT ![p] = Moved(@, c.id, c.status, c.cost)] ELSE copy
  /\ call' = [call EXCEPT ![p].kind = IF Movable(copy[p], c.id, c.status) THEN "moved" ELSE "refused"]
  /\ UNCHANGED <<ledger, lock, go, told, worker, crashes>>
PauseResource(p) ==
  /\ Is(p, "work") /\ call[p].kind = "pause" /\ To(p, "write")
  /\ copy' = [copy EXCEPT ![p].paused = @ \union {call[p].key}]
  /\ UNCHANGED <<ledger, lock, call, go, told, worker, crashes>>
Evaluated(p) ==
  /\ Is(p, "work") /\ call[p].kind = "reserve" /\ call[p].todo = <<>> /\ To(p, "write")
  /\ UNCHANGED <<ledger, lock, copy, call, go, told, worker, crashes>>

\* The temporary file is renamed over the ledger.
Write(p) == /\ Is(p, "write") /\ ledger' = copy[p] /\ To(p, "unlock")
            /\ UNCHANGED <<lock, copy, call, go, told, worker, crashes>>
\* rmdir, and the caller has its answer.
Unlock(p) == LET c == call[p] IN
  /\ Is(p, "unlock") /\ lock' = None /\ To(p, "idle")
  /\ call' = [call EXCEPT ![p] = NoCall] /\ copy' = [copy EXCEPT ![p] = Empty]
  /\ told' = IF c.kind = "reserve" THEN told \union c.ok ELSE told
  /\ go' = IF c.kind = "moved" /\ c.status = "dispatching" THEN [go EXCEPT ![p] = c.id] ELSE go
  /\ UNCHANGED <<ledger, worker, crashes>>

\* A file operation throws, or the ledger is not valid, and the caller is told of
\* nothing it has done; what was written stays.  The lock is removed all the
\* same, unless removing it is what threw, or making it durable.
Throws(p) == \E at \in {"unlock", "idle"} :
  /\ pc[p] \in (IF at = "unlock" THEN {"locked", "work", "write", "unlock"} ELSE {"locked", "unlock"})
  /\ To(p, at)
  /\ crashes < MaxCrashes /\ crashes' = crashes + 1
  /\ copy' = [copy EXCEPT ![p] = Empty] /\ call' = [call EXCEPT ![p] = NoCall]
  /\ UNCHANGED <<ledger, lock, go, told, worker>>

Launch(p) == /\ go[p] # None /\ go' = [go EXCEPT ![p] = None]
             /\ worker' = [worker EXCEPT ![go[p]] = IF @ = "none" THEN "live" ELSE @]
             /\ UNCHANGED <<ledger, lock, pc, copy, call, told, crashes>>
WorkerEnds(i) == /\ worker[i] = "live" /\ worker' = [worker EXCEPT ![i] = "ended"]
                 /\ UNCHANGED <<ledger, lock, clerks, told, crashes>>
\* The process dies; its lock stays, its tasks are looked after by others.
Crash(p) == /\ crashes < MaxCrashes /\ crashes' = crashes + 1
            /\ (pc[p] # "idle" \/ go[p] # None) /\ To(p, "idle")
            /\ copy' = [copy EXCEPT ![p] = Empty] /\ call' = [call EXCEPT ![p] = NoCall]
            /\ go' = [go EXCEPT ![p] = None]
            /\ UNCHANGED <<ledger, lock, told, worker>>

Next ==
  \/ \E p \in Clerk : Begin(p) \/ Lock(p) \/ Busy(p) \/ Read(p) \/ Evaluate(p) \/ Transition(p)
       \/ PauseResource(p) \/ Evaluated(p) \/ Write(p) \/ Unlock(p) \/ Throws(p) \/ Launch(p) \/ Crash(p)
  \/ \E i \in Ids : WorkerEnds(i)

Spec == Init /\ [][Next]_vars

-----------------------------------------------------------------------------
\* Running workers stay within every limit and out of each other's way: each
\* still has its reservation, no two write one branch, share a worktree or
\* overlap, and reviews keep their reserve, although reservations expire by
\* age and processes die between the ledger and the launch.
Live == {i \in Ids : worker[i] = "live"}
WorkersHaveRoom ==
  /\ Live \subseteq Active(ledger)
  /\ \A i, j \in Live : i # j => ~Collides(ledger.res[i].order, ledger.res[j].order)
  /\ Cardinality(Live) <= GlobalLimit
  /\ Cardinality({i \in Live : ledger.res[i].order.role \in Writers}) <= GlobalLimit - ReviewReserve
  /\ \A i \in Live : /\ Cardinality({j \in Live : ledger.res[j].order.host = ledger.res[i].order.host}) <= HostLimit
                     /\ Cardinality({j \in Live : ledger.res[j].order.account = ledger.res[i].order.account}) <= AccountLimit
                     /\ Cardinality({j \in Live : ledger.res[j].order.runtime = ledger.res[i].order.runtime}) <= RuntimeLimit

\* What is spent and what is committed exceed the budget by no more than
\* workers exceeded their own estimates: a repeated or a late answer is
\* counted once.
Overrun(l, i) == LET r == l.res[i] IN
  IF r # None /\ r.actual > r.order.cost THEN r.actual - r.order.cost ELSE 0
Overruns(l) == SumFunction([i \in Ids |-> Overrun(l, i)])
SpendingIsBounded == ledger.spent + Committed(ledger) <= Budget + Overruns(ledger)

\* No transaction undoes another: a reservation that was acknowledged stays in
\* the ledger, and one that has ended stays ended.
NothingIsUndone == [][\A i \in Ids :
  /\ i \in told => ledger'.res[i] # None
  /\ ledger.res[i] # None /\ ledger.res[i].status \in TerminalStatus => ledger'.res[i] = ledger.res[i]]_vars
=============================================================================
