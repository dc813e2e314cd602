--------------------------- MODULE MCCoordinator ---------------------------
(***************************************************************************)
(* The coordinator of the development work, three parts that share no      *)
(* state side by side: a behaviour is one of the capacity ledger, of the   *)
(* coordinator's ticks or of card runs that land.                          *)
(*                                                                         *)
(* The ledger has two processes and four orders: two builds that want the  *)
(* same branch, one of them also on a branch of its own, and a review.     *)
(* The ticks have two episodes, on one card or on two.  Three cards land,  *)
(* two at a time.                                                          *)
(***************************************************************************)
EXTENDS CapacityScheduler, TLC

CONSTANTS p1, p2, Issues, MaxEpisodes, MaxDispatch, MaxRevise, MaxFailed, MaxFails,
  Cards, Workers, BaseRounds, MaxPeople, MaxDeaths
VARIABLES
  part, thread, issue, armed, tick, sup, result, alive, fails,
  main, pull, asked, record, landLock, marker, run, people, deaths

Ticks == INSTANCE Reconcile
ASSUME TicksAssumption ==
  /\ MaxEpisodes \in Nat /\ MaxDispatch \in Nat /\ MaxRevise \in Nat /\ MaxFailed \in Nat /\ MaxFails \in Nat
  /\ None \notin Issues /\ None \notin {"ok", "blocked", "none", "busy"}
  /\ None \notin [stage : {"COMPLETED", "FAILED", "HOLD", "RESERVED", "LAUNCH_UNKNOWN", "RUNNING"}, why : Ticks!Whys]
Landings == INSTANCE CardLand WITH lock <- landLock
ASSUME LandingsAssumption ==
  /\ BaseRounds \in Nat \ {0} /\ MaxPeople \in Nat /\ MaxDeaths \in Nat
  /\ None \notin Cards /\ None \notin [by : Cards, pid : Cards \cup {None}]
  /\ None \notin [state : {"PREPARED", "HOLD", "COMPLETED"}, head : Landings!Heads]
  /\ None \notin [what : {"update", "merge"}, head : Landings!Heads]
ticks == <<thread, issue, armed, tick, sup, result, alive, fails>>
landings == <<main, pull, asked, record, landLock, marker, run, people, deaths>>

AllInit == part \in {"ledger", "ticks", "landings"} /\ Init /\ Ticks!Init /\ Landings!Init
AllNext ==
  \/ part = "ledger" /\ Next /\ UNCHANGED <<part, ticks, landings>>
  \/ part = "ticks" /\ Ticks!Next /\ UNCHANGED <<part, vars, landings>>
  \/ part = "landings" /\ Landings!Next /\ UNCHANGED <<part, vars, ticks>>
AllSpec == AllInit /\ [][AllNext]_<<part, vars, ticks, landings>>

Task(id, role, branch, worktree, keys, cost) ==
  [id |-> id, role |-> role, host |-> "h", account |-> "a", runtime |-> "c", branch |-> branch,
   worktree |-> worktree, keys |-> keys, cost |-> cost, blocked |-> {}]
MCOrder == {Task("b1", "build", "x", "w1", {"k"}, 1), Task("b2", "build", "x", "w2", {}, 2),
            Task("b2", "build", "y", "w2", {}, 2), Task("rv", "review", "x", "w3", {"k"}, 1)}
\* A process dies or a call throws, or one resource is paused before anything is
\* reserved; a batch has two tasks.  A failure before the ledger is written is as
\* good as one just before it.  Two processes do not ask for the lock at once: what a call
\* may ask for it may ask for later as well.
LedgerBound == \A p \in Clerk :
  /\ call'[p].kind = "pause" => call'[p].key = <<"host", "h">> /\ Active(ledger) = {} /\ crashes' = 0
  /\ crashes' # crashes => ledger.paused = {} /\ call[p].kind # "pause"
  /\ crashes' # crashes /\ pc'[p] # pc[p] => pc[p] \in {"write", "unlock"}
  /\ pc'[p] = "begun" => \A q \in Clerk \ {p} : pc'[q] # "begun"
  /\ (pc[p] = "idle" /\ call'[p].kind = "reserve" /\ Len(call'[p].todo) = 2) => call'[p].todo[1].id # call'[p].todo[2].id
\* One person acts or one process dies; a commit touches no card's files or
\* those of every card that has not landed; checks report while their landing
\* waits for them, and turn in the merge step before one of its reads.
LandingsBound ==
  /\ \A c \in Cards : pull'[c].green # pull[c].green /\ pull'[c].head = pull[c].head =>
       IF pull[c].green THEN run[c].pc \in {"authority", "confirm", "snapshot"} ELSE run[c].pc = "wait"
  /\ people' + deaths' <= 1
  /\ main' # main => LET m == main'[Len(main')] IN m.touches \in {{}, Landings!Unmerged \ {m.card}}
MCBound == (part = "ledger" => LedgerBound) /\ (part = "landings" => LandingsBound)
MCSymmetry == Permutations(Clerk) \union Permutations(Cards)

\* Every variable of the parts has its type.
AllTypesOK == TypeOK /\ (part = "ticks" => Ticks!TypeOK) /\ (part = "landings" => Landings!TypeOK)
\* Reconcile: who works has a receipt that holds one of the slots there are.
NobodyWorksUnseen == part = "ticks" => Ticks!NobodyWorksUnseen
\* Reconcile: the steps of an episode are one chain of verdicts.
StepsFollow == part = "ticks" => Ticks!StepsFollow
\* Landings: what a landing merged the review has passed.
LandsAsReviewed == part = "landings" => Landings!LandsAsReviewed
\* Landings: one at a time is in the merge step, and has the lock.
OneMergeStep == part = "landings" => Landings!OneMergeStep
=============================================================================
