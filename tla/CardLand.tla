------------------------------ MODULE CardLand ------------------------------
(***************************************************************************)
(* Card runs that land their passed pull requests on main, several at a    *)
(* time (service/card-land.mjs with "parallel", merge-readiness.mjs).  A   *)
(* landing brings its pull request up to main, waits for green, takes the  *)
(* host-wide landing lock, looks at main once more, records the handoff    *)
(* and its intent to merge, and asks GitHub for a merge of that head.      *)
(*                                                                         *)
(* A passed card is landed by one run, one process, whose name is also its *)
(* pid.  What GitHub does with a request it does when it likes, while the  *)
(* landing waits for an answer or after it has given up.  People push,     *)
(* update and merge as well.  A head is told by how much of main it holds, *)
(* by the head it was made from, and by the card's own files in it: those  *)
(* the review passed, merged with somebody's change, or a person's.        *)
(* Left out: the settling of review threads, whose open ones count as      *)
(* checks that are not green, and the landing repair.                      *)
(***************************************************************************)
EXTENDS Naturals, Sequences, FiniteSets

CONSTANTS
  Cards,
  Workers,     \* workers.max: runs at a time
  BaseRounds,
  MaxPeople,   \* bound on what people do
  MaxDeaths,   \* bound on the processes that die
  None

VARIABLES
  main,        \* the commits on main
  pull,        \* per card: its branch and pull request
  asked,       \* per card: what GitHub was asked and has not done
  record,      \* per card: its merge-attempt record
  lock,        \* the landing lock: None, or who created it and the pid in it
  marker,      \* the takeover marker: None, or who created it
  run,         \* per card: its landing
  people, deaths

host == <<lock, marker>>
github == <<main, pull, asked>>
bounds == <<people, deaths>>
vars == <<github, record, host, run, bounds>>

Heads == [base : Nat, from : Nat, own : {"passed", "mixed", "foreign"}]
Commit == [card : Cards \cup {None}, touches : SUBSET Cards, by : {"landing", "person"}, head : Heads \cup {None}]
MergeStep == {"fresh", "authority", "prepare", "confirm", "merge", "snapshot", "hold", "complete", "tell"}
TakesLock == {"lock", "write", "stale", "proc", "mark", "again", "clear", "unmark"}
Steps == {"idle", "update", "send", "poll", "wait", "comment", "done", "dead"} \cup TakesLock \cup MergeStep
\* A landing: where it is, the head it knows, its round, the clean reads, the
\* pid it found in the lock, and whether it reported a merge.
Run == [pc : Steps, head : Heads, round : 1..BaseRounds, green : 0..1, seen : Cards \cup {None}, merged : BOOLEAN]

TypeOK ==
  /\ main \in Seq(Commit)
  /\ pull \in [Cards -> [state : {"none", "open", "merged"}, head : Heads, green : BOOLEAN]]
  /\ asked \in [Cards -> {None} \cup [what : {"update", "merge"}, head : Heads]]
  /\ record \in [Cards -> {None} \cup [state : {"PREPARED", "HOLD", "COMPLETED"}, head : Heads]]
  /\ lock \in {None} \cup [by : Cards, pid : Cards \cup {None}]
  /\ marker \in Cards \cup {None}
  /\ run \in [Cards -> Run]
  /\ people \in 0..MaxPeople /\ deaths \in 0..MaxDeaths

Passed == [base |-> 0, from |-> 0, own |-> "passed"]
AtRest == [pc |-> "idle", head |-> Passed, round |-> 1, green |-> 0, seen |-> None, merged |-> FALSE]
Init ==
  /\ main = <<>>
  /\ pull = [c \in Cards |-> [state |-> "none", head |-> Passed, green |-> FALSE]]
  /\ asked = [c \in Cards |-> None] /\ record = [c \in Cards |-> None]
  /\ lock = None /\ marker = None
  /\ run = [c \in Cards |-> AtRest]
  /\ people = 0 /\ deaths = 0

\* A landing that is over forgets what it knew.
Goto(c, pc) == run' = [run EXCEPT ![c] =
  IF pc \in {"done", "dead"} THEN [AtRest EXCEPT !.pc = pc] ELSE [@ EXCEPT !.pc = pc]]
Alive(c) == run[c].pc \notin {"idle", "done", "dead"}
InMergeStep(c) == run[c].pc \in MergeStep

-----------------------------------------------------------------------------
(* GitHub.  A request it does not serve, for whatever reason, stays undone. *)

Fresh(h) == h.base = Len(main)
\* Main changed one of the card's own files since the head's base.
Touched(c, h) == \E i \in h.base + 1 .. Len(main) : c \in main[i].touches
UpdateOf(c, h) ==
  [base |-> Len(main), from |-> h.base, own |-> IF h.own = "passed" /\ Touched(c, h) THEN "mixed" ELSE h.own]
\* A new head, for which no request was made.
NewHead(c, h) ==
  /\ pull' = [pull EXCEPT ![c].head = h, ![c].green = FALSE]
  /\ asked' = [asked EXCEPT ![c] = None]
\* A squash of the pull request.  Which other cards it shares a file with
\* nobody asked before it was on main.
Unmerged == {c \in Cards : pull[c].state # "merged"}
Merge(c, by) == \E T \in SUBSET (Unmerged \ {c}) :
  /\ asked' = [asked EXCEPT ![c] = None]
  /\ main' = Append(main, [card |-> c, touches |-> T, by |-> by, head |-> pull[c].head])
  /\ pull' = [pull EXCEPT ![c].state = "merged"]

\* What the checks, statuses and threads of the head say changes.
Report(c) ==
  /\ pull[c].state = "open" /\ pull' = [pull EXCEPT ![c].green = ~@]
  /\ UNCHANGED <<main, asked, record, host, run, bounds>>

\* update-branch, on the head it was sent for.
ServerUpdates(c) ==
  /\ asked[c] # None /\ asked[c].what = "update"
  /\ pull[c].state = "open" /\ pull[c].head = asked[c].head /\ ~Fresh(pull[c].head)
  /\ NewHead(c, UpdateOf(c, pull[c].head))
  /\ UNCHANGED <<main, record, host, run, bounds>>

\* The merge, on the head it names and under main's strict protection.
ServerMerges(c) ==
  /\ asked[c] # None /\ asked[c].what = "merge"
  /\ pull[c].state = "open" /\ pull[c].head = asked[c].head
  /\ Fresh(pull[c].head) /\ pull[c].green
  /\ Merge(c, "landing")
  /\ UNCHANGED <<record, host, run, bounds>>

-----------------------------------------------------------------------------
(* People, who may override the protection of main                         *)

PersonActs == people < MaxPeople /\ people' = people + 1 /\ UNCHANGED <<record, host, run, deaths>>
PersonCommits == \E T \in SUBSET Unmerged :
  /\ PersonActs /\ main' = Append(main, [card |-> None, touches |-> T, by |-> "person", head |-> None])
  /\ UNCHANGED <<pull, asked>>
PersonPushes(c) ==
  /\ PersonActs /\ pull[c].state # "merged" /\ pull[c].head.own # "foreign"
  /\ NewHead(c, [pull[c].head EXCEPT !.own = "foreign"]) /\ UNCHANGED main
PersonUpdates(c) ==
  /\ PersonActs /\ pull[c].state = "open" /\ ~Fresh(pull[c].head)
  /\ NewHead(c, UpdateOf(c, pull[c].head)) /\ UNCHANGED main
PersonMerges(c) == PersonActs /\ pull[c].state = "open" /\ Merge(c, "person")
Person == PersonCommits \/ \E c \in Cards : PersonPushes(c) \/ PersonUpdates(c) \/ PersonMerges(c)

-----------------------------------------------------------------------------
(* A landing up to the lock                                                *)

\* The newest PASS is read, the pull request found or opened, its head compared.
Start(c) ==
  /\ run[c].pc = "idle" /\ Cardinality({d \in Cards : Alive(d)}) < Workers
  /\ pull[c].state = "none"
  /\ pull' = [pull EXCEPT ![c].state = "open"]
  /\ Goto(c, IF pull[c].head = run[c].head THEN "update" ELSE "done")
  /\ UNCHANGED <<main, asked, record, host, bounds>>

\* Nothing to bring in; or main changed the card's own files.
ReadMain(c) ==
  /\ run[c].pc = "update"
  /\ Goto(c, IF Fresh(run[c].head) THEN "wait" ELSE IF Touched(c, run[c].head) THEN "done" ELSE "send")
  /\ UNCHANGED <<github, record, host, bounds>>

\* Sent once, on the head it knows.  A conflict GitHub reports at once.
SendUpdate(c) ==
  /\ run[c].pc = "send"
  /\ \/ asked' = [asked EXCEPT ![c] = [what |-> "update", head |-> run[c].head]] /\ Goto(c, "poll")
     \/ Touched(c, run[c].head) /\ Goto(c, "done") /\ UNCHANGED asked
  /\ UNCHANGED <<main, pull, record, host, bounds>>

\* Mutant: that the update is a merge into the known head is all that counts.
MergesOnly(c, h) == h.from = run[c].head.base /\ h.own # "foreign"

\* The new head merges a commit of main into the known one and keeps the
\* blobs the review passed.
OnlyMainCameIn(c, h) == h.from = run[c].head.base /\ h.own = "passed"

TakeUpdate(c) == LET h == pull[c].head IN
  /\ run[c].pc = "poll" /\ h # run[c].head
  /\ IF OnlyMainCameIn(c, h) THEN run' = [run EXCEPT ![c].pc = "wait", ![c].head = h] ELSE Goto(c, "done")
  /\ UNCHANGED <<github, record, host, bounds>>

\* What a read of the pull request says of the head.  One that is behind main
\* does not read as clean.
Green(c, h) == pull[c].state = "open" /\ pull[c].green /\ Fresh(h)
\* Green must hold on two reads in a row.  A red check ends the wait (Stop).
ReadChecks(c) == LET h == run[c].head IN
  /\ run[c].pc = "wait"
  /\ IF pull[c].head # h THEN Goto(c, "done")
     ELSE run' = [run EXCEPT ![c].pc = IF Green(c, h) /\ run[c].green = 1 THEN "lock" ELSE @,
                             ![c].green = IF Green(c, h) THEN 1 - @ ELSE 0]
  /\ UNCHANGED <<github, record, host, bounds>>

-----------------------------------------------------------------------------
(* The landing lock, file operation by file operation                      *)

Made(c) == [by |-> c, pid |-> None]
Held(c) == [by |-> c, pid |-> c]

\* Exclusive creation; the pid is written into the open file.
CreateLock(c) ==
  /\ run[c].pc = "lock"
  /\ IF lock = None THEN lock' = Made(c) /\ Goto(c, "write")
     ELSE Goto(c, "stale") /\ UNCHANGED lock
  /\ UNCHANGED <<github, record, marker, bounds>>
WriteLock(c) ==
  /\ run[c].pc = "write"
  /\ lock' = IF lock = Made(c) THEN Held(c) ELSE lock
  /\ Goto(c, "fresh")
  /\ UNCHANGED <<github, record, marker, bounds>>

\* The pid of a process that is gone.
Stale == lock # None /\ lock.pid # None /\ ~Alive(lock.pid)
\* The pid is read, and then looked up in /proc; the lock may change hands
\* between the two.
ReadHolder(c) ==
  /\ run[c].pc = "stale"
  /\ run' = IF lock # None /\ lock.pid # None
             THEN [run EXCEPT ![c].pc = "proc", ![c].seen = lock.pid] ELSE [run EXCEPT ![c].pc = "lock"]
  /\ UNCHANGED <<github, record, host, bounds>>
LockAgain(c) == run' = [run EXCEPT ![c].pc = "lock", ![c].seen = None]
LookUpHolder(c) ==
  /\ run[c].pc = "proc"
  /\ IF Alive(run[c].seen) THEN LockAgain(c) ELSE Goto(c, "mark")
  /\ UNCHANGED <<github, record, host, bounds>>
CreateMarker(c) ==
  /\ run[c].pc = "mark"
  /\ IF marker = None THEN marker' = c /\ Goto(c, "again") ELSE LockAgain(c) /\ UNCHANGED marker
  /\ UNCHANGED <<github, record, lock, bounds>>

\* Mutant: what was read before the marker is believed.
FirstLookCounts(c) == TRUE

\* Whoever was gone at the first look is gone now, so this one is one step.
StillTheSame(c) == Stale /\ lock.pid = run[c].seen

ReadAgain(c) ==
  /\ run[c].pc = "again"
  /\ Goto(c, IF StillTheSame(c) THEN "clear" ELSE "unmark")
  /\ UNCHANGED <<github, record, host, bounds>>
ClearLock(c) ==
  /\ run[c].pc = "clear"
  /\ lock' = None /\ Goto(c, "unmark")
  /\ UNCHANGED <<github, record, marker, bounds>>
RemoveMarker(c) ==
  /\ run[c].pc = "unmark"
  /\ marker' = None /\ LockAgain(c)
  /\ UNCHANGED <<github, record, lock, bounds>>
TakeLock(c) ==
  \/ CreateLock(c) \/ WriteLock(c) \/ ReadHolder(c) \/ LookUpHolder(c)
  \/ CreateMarker(c) \/ ReadAgain(c) \/ ClearLock(c) \/ RemoveMarker(c)

-----------------------------------------------------------------------------
(* The merge step                                                          *)

\* Main is where the head says, and the PASS gets its merge-readiness handoff;
\* or the landing goes round, so many times.
LookAtMain(c) ==
  /\ run[c].pc = "fresh"
  /\ IF Fresh(run[c].head) THEN Goto(c, "authority") /\ UNCHANGED lock
     ELSE /\ lock' = None
          /\ IF run[c].round < BaseRounds
             THEN run' = [run EXCEPT ![c].pc = "update", ![c].round = @ + 1]
             ELSE Goto(c, "done")
  /\ UNCHANGED <<github, record, marker, bounds>>

MergedAt(c, h) == pull[c].state = "merged" /\ pull[c].head = h
\* The landed tree is the head's: nothing but the head's base was on main.
TreeLanded(c, h) == \E i \in 1 .. Len(main) : main[i].card = c /\ h.base = i - 1
\* authorityNow: the PASS, the pull request at this head, main, checks and
\* threads; and what they lead to.
Authority(c, h, next) ==
  IF MergedAt(c, h) THEN (IF TreeLanded(c, h) THEN "complete" ELSE "hold")
  ELSE IF pull[c].head = h /\ Green(c, h) THEN next ELSE "hold"

ReadAuthority(c) ==
  /\ run[c].pc = "authority" /\ Goto(c, Authority(c, run[c].head, "prepare"))
  /\ UNCHANGED <<github, record, host, bounds>>

\* A record is a comment on the card; unless it is acknowledged and reads back
\* the landing stops.
Write(c, state, acked, next) ==
  /\ \/ record' = [record EXCEPT ![c] = [state |-> state, head |-> run[c].head]]
     \/ ~acked /\ UNCHANGED record
  /\ IF acked THEN Goto(c, next) /\ UNCHANGED lock
     ELSE Goto(c, "done") /\ lock' = None
  /\ UNCHANGED <<github, marker, bounds>>
\* The intent: this head, whose base was main's tip.
Prepare(c, acked) == run[c].pc = "prepare" /\ Write(c, "PREPARED", acked, "confirm")

\* Every authority is read again, and the base is the one recorded.
Confirm(c) ==
  /\ run[c].pc = "confirm" /\ Goto(c, Authority(c, run[c].head, "merge"))
  /\ UNCHANGED <<github, record, host, bounds>>

SendMerge(c) ==
  /\ run[c].pc = "merge"
  /\ asked' = [asked EXCEPT ![c] = [what |-> "merge", head |-> run[c].head]]
  /\ Goto(c, "snapshot")
  /\ UNCHANGED <<main, pull, record, host, bounds>>

\* Whatever the answer said, GitHub is read.
ReadBack(c) ==
  /\ run[c].pc = "snapshot"
  /\ Goto(c, IF MergedAt(c, run[c].head) /\ TreeLanded(c, run[c].head) THEN "complete" ELSE "hold")
  /\ UNCHANGED <<github, record, host, bounds>>

Complete(c, acked) == run[c].pc = "complete" /\ Write(c, "COMPLETED", acked, "tell")
Hold(c, acked) == run[c].pc = "hold" /\ Write(c, "HOLD", acked, "tell")

\* The record is read, the lock let go.
LetGo(c) ==
  /\ run[c].pc = "tell"
  /\ lock' = None /\ Goto(c, IF record[c].state = "COMPLETED" THEN "comment" ELSE "done")
  /\ UNCHANGED <<github, record, marker, bounds>>
Comment(c) ==
  /\ run[c].pc = "comment" /\ run' = [run EXCEPT ![c] = [AtRest EXCEPT !.pc = "done", !.merged = TRUE]]
  /\ UNCHANGED <<github, record, host, bounds>>

-----------------------------------------------------------------------------
(* Faults                                                                  *)

\* A read or a write fails, a bound is reached, the pause file appears.  The
\* lock goes if the landing has it, not if only its creation succeeded.
Stop(c) ==
  /\ Alive(c) /\ run[c].pc \notin TakesLock \ {"lock", "write"}
  /\ Goto(c, "done")
  /\ lock' = IF InMergeStep(c) THEN None ELSE lock
  /\ UNCHANGED <<github, record, marker, bounds>>
Dies(c) ==
  /\ Alive(c) /\ deaths < MaxDeaths /\ deaths' = deaths + 1
  /\ Goto(c, "dead")
  /\ UNCHANGED <<github, record, host, people>>

Lands(c) ==
  \/ Start(c) \/ ReadMain(c) \/ SendUpdate(c) \/ TakeUpdate(c) \/ ReadChecks(c) \/ TakeLock(c)
  \/ LookAtMain(c) \/ ReadAuthority(c) \/ Confirm(c) \/ SendMerge(c) \/ ReadBack(c)
  \/ \E acked \in BOOLEAN : Prepare(c, acked) \/ Complete(c, acked) \/ Hold(c, acked)
  \/ LetGo(c) \/ Comment(c) \/ Stop(c) \/ Dies(c)
Next ==
  \/ \E c \in Cards : Lands(c) \/ Report(c) \/ ServerUpdates(c) \/ ServerMerges(c)
  \/ Person
Spec == Init /\ [][Next]_vars

-----------------------------------------------------------------------------
\* card-land.mjs:37-62, merge-readiness.mjs:4: what a landing merges are the
\* files that the review passed, on the main they were checked with, and only
\* after a record of this head and this base; a record of completion, and the
\* report of the run, tell of such a merge.
LandsAsReviewed ==
  /\ \A i \in 1 .. Len(main) : LET m == main[i] IN m.by = "landing" =>
       /\ m.head.own = "passed" /\ m.head.base = i - 1
       /\ record[m.card] # None /\ record[m.card].head = m.head
  /\ \A c \in Cards : record[c] # None /\ record[c].state = "COMPLETED" =>
       \E i \in 1 .. Len(main) : main[i].card = c /\ main[i].head = record[c].head /\ main[i].head.base = i - 1
  /\ \A c \in Cards : run[c].merged => record[c] # None /\ record[c].state = "COMPLETED"

\* card-land.mjs:881-882: a lock that a live landing took is never moved or
\* removed, and two landings never are in the merge step.
OneMergeStep ==
  \A c, d \in Cards : InMergeStep(c) => lock = Held(c) /\ (InMergeStep(d) => c = d)
=============================================================================
