------------------------- MODULE CoordinatorProofs -------------------------
(***************************************************************************)
(* Landings reach main as reviewed, one merge step at a time; no worker of *)
(* the reconciler runs without a receipt, and an episode's steps follow    *)
(* each other.  For any number of cards, people's acts, workers, processes *)
(* and deaths.                                                             *)
(***************************************************************************)
EXTENDS MCCoordinator, TLAPS, FiniteSetTheorems

-----------------------------------------------------------------------------
(* The inductive invariant                                                 *)

\* Who makes the lock writes it; who takes it over has the marker, and removes
\* a lock whose process is gone and stays gone.
LockFollows ==
  /\ \A c \in Cards : run[c].pc = "write" => landLock = Landings!Made(c)
  /\ \A c \in Cards : run[c].pc \in {"again", "clear", "unmark"} => marker = c
  /\ \A c \in Cards : run[c].pc = "clear" => Landings!Stale
  /\ landLock # None /\ landLock.pid # None => run[landLock.pid].pc # "idle"
LockInv == Landings!OneMergeStep /\ LockFollows

\* A card's pull request is on main once, at its last head.
OnMain(c, h) == \E i \in 1 .. Len(main) : main[i].card = c /\ main[i].head = h /\ h.base = i - 1
MainFollows ==
  /\ \A c \in Cards : pull[c].state # "merged" => \A i \in 1 .. Len(main) : main[i].card # c
  /\ \A c \in Cards : \A i \in 1 .. Len(main) : main[i].card = c => main[i].head = pull[c].head

\* A merge was asked for once, after a record of the reviewed head, which the
\* landing does not change any more.
Asking == {"snapshot", "hold", "complete", "tell"}
Requested(c, h) ==
  /\ h.own = "passed" /\ record[c] # None /\ record[c].head = h
  /\ run[c].pc \in Asking \cup {"comment", "done", "dead"}
  /\ run[c].pc \in Asking => run[c].head = h
AskedFor ==
  /\ \A c \in Cards : asked[c] # None /\ asked[c].what = "merge" => Requested(c, asked[c].head)
  /\ \A i \in 1 .. Len(main) : main[i].by = "landing" =>
       /\ main[i].card \in Cards /\ main[i].head.base = i - 1
       /\ Requested(main[i].card, main[i].head)

\* What a landing knows, and what its record tells.
RunKnows(c, r) ==
  /\ r.head.own = "passed"
  /\ r.pc \in {"confirm", "merge", "snapshot", "tell"} => record[c] # None /\ record[c].head = r.head
  /\ r.pc = "complete" => OnMain(c, r.head)
  /\ r.pc = "comment" => record[c] # None /\ record[c].state = "COMPLETED"
  /\ r.merged => r.pc = "done" /\ record[c] # None /\ record[c].state = "COMPLETED"
RunsKnow == \A c \in Cards : RunKnows(c, run[c])
RecordTells == \A c \in Cards : record[c] # None /\ record[c].state = "COMPLETED" => OnMain(c, record[c].head)

RecordInv == MainFollows /\ AskedFor /\ RunsKnow /\ RecordTells
LandingsInv == Landings!TypeOK /\ LockInv /\ RecordInv

-----------------------------------------------------------------------------
(* One landing moves                                                       *)

LEMMA Known ==
  /\ Landings!AtRest \in Landings!Run /\ Landings!AtRest.head = Landings!Passed /\ Landings!AtRest.pc = "idle"
  /\ Landings!AtRest.merged = FALSE
  /\ Landings!Passed \in Landings!Heads /\ Landings!Passed.own = "passed"
  BY LandingsAssumption DEF Landings!AtRest, Landings!Run, Landings!Steps, Landings!Passed, Landings!Heads

\* The landing of c goes on with what it knows, or is over.
GoesTo(c, r, to) ==
  /\ r \in Landings!Run /\ run' = [run EXCEPT ![c] = r] /\ r.pc = to
  /\ r.head.own \in {run[c].head.own, "passed"}
  /\ to \notin {"done", "dead"} => r.head = run[c].head /\ r.merged = run[c].merged
  /\ to \in {"done", "dead"} => ~r.merged

LEMMA Goes ==
  ASSUME Landings!TypeOK, NEW c \in Cards, NEW to \in Landings!Steps, Landings!Goto(c, to)
  PROVE  \E r : GoesTo(c, r, to)
<1>. DEFINE over == [Landings!AtRest EXCEPT !.pc = to]
            on == [run[c] EXCEPT !.pc = to]
<1>1. run[c] \in Landings!Run /\ run \in [Cards -> Landings!Run]
  BY DEF Landings!TypeOK
<1>2. over \in Landings!Run /\ over.pc = to /\ over.head = Landings!Passed /\ over.merged = FALSE
  BY Known DEF Landings!Run
<1>3. on \in Landings!Run /\ on.pc = to /\ on.head = run[c].head /\ on.merged = run[c].merged
  BY <1>1 DEF Landings!Run
<1>4. CASE to \in {"done", "dead"}
  <2>1. run' = [run EXCEPT ![c] = over]
    BY <1>4 DEF Landings!Goto
  <2>. HIDE DEF over
  <2>. QED  BY <1>2, <1>4, <2>1, Known DEF GoesTo
<1>5. CASE to \notin {"done", "dead"}
  <2>1. run' = [run EXCEPT ![c] = on]
    BY <1>1, <1>5 DEF Landings!Goto
  <2>. HIDE DEF on
  <2>. QED  BY <1>3, <1>5, <2>1 DEF GoesTo
<1>. QED  BY <1>4, <1>5

\* The landing of c, wherever it goes.
Runs(c, r) == r \in Landings!Run /\ run' = [run EXCEPT ![c] = r]
LEMMA RunsIs ==
  ASSUME Landings!TypeOK, NEW c \in Cards, NEW r, Runs(c, r)
  PROVE  run' \in [Cards -> Landings!Run] /\ run'[c] = r /\ \A d \in Cards : d # c => run'[d] = run[d]
  BY DEF Runs, Landings!TypeOK

\* The bodies of the steps, as the run they lead to.
LEMMA OwnSteps ==
  ASSUME Landings!TypeOK, NEW c \in Cards
  PROVE  /\ Landings!ReadMain(c) => run[c].pc = "update" /\ \E r, to : to \in {"wait", "done", "send"} /\ GoesTo(c, r, to)
         /\ Landings!TakeUpdate(c) => run[c].pc = "poll" /\
              \E r : \/ GoesTo(c, r, "done")
                     \/ Runs(c, r) /\ r.pc = "wait" /\ r.head.own = "passed" /\ r.merged = run[c].merged
         /\ Landings!ReadChecks(c) => run[c].pc = "wait" /\
              \E r : \/ GoesTo(c, r, "done")
                     \/ Runs(c, r) /\ r.pc \in {"wait", "lock"} /\ r.head = run[c].head /\ r.merged = run[c].merged
         /\ Landings!LockAgain(c) => \E r : Runs(c, r) /\ r.pc = "lock" /\ r.head = run[c].head /\ r.merged = run[c].merged
<1>. DEFINE R == run[c]
<1>1. run \in [Cards -> Landings!Run] /\ R \in Landings!Run /\ R.green \in 0..1
  BY DEF Landings!TypeOK, Landings!Run
<1>2. {"wait", "done", "send", "lock"} \subseteq Landings!Steps
  BY DEF Landings!Steps, Landings!TakesLock
<1>3. ASSUME Landings!ReadMain(c)
      PROVE  run[c].pc = "update" /\ \E r, to : to \in {"wait", "done", "send"} /\ GoesTo(c, r, to)
  <2>1. run[c].pc = "update" /\ \E to \in {"wait", "done", "send"} : Landings!Goto(c, to)
    BY <1>3 DEF Landings!ReadMain
  <2>. QED  BY <1>2, <2>1, Goes
<1>4. ASSUME Landings!TakeUpdate(c)
      PROVE  run[c].pc = "poll" /\
              \E r : \/ GoesTo(c, r, "done")
                     \/ Runs(c, r) /\ r.pc = "wait" /\ r.head.own = "passed" /\ r.merged = run[c].merged
  <2>. DEFINE h == pull[c].head
              r == [run[c] EXCEPT !.pc = "wait", !.head = h]
  <2>1. CASE Landings!OnlyMainCameIn(c, h)
    <3>1. h \in Landings!Heads /\ h.own = "passed"
      BY <2>1 DEF Landings!OnlyMainCameIn, Landings!TypeOK
    <3>2. r \in Landings!Run /\ r.pc = "wait" /\ r.head = h /\ r.merged = run[c].merged
      BY <1>1, <1>2, <3>1 DEF Landings!Run
    <3>3. run' = [run EXCEPT ![c] = r]
      BY <1>1, <1>4, <2>1 DEF Landings!TakeUpdate
    <3>. HIDE DEF r
    <3>. QED  BY <1>4, <3>1, <3>2, <3>3 DEF Landings!TakeUpdate, Runs
  <2>2. CASE ~Landings!OnlyMainCameIn(c, h)
    BY <1>2, <1>4, <2>2, Goes DEF Landings!TakeUpdate
  <2>. QED  BY <2>1, <2>2
<1>5. ASSUME Landings!ReadChecks(c)
      PROVE  run[c].pc = "wait" /\
              \E r : \/ GoesTo(c, r, "done")
                     \/ Runs(c, r) /\ r.pc \in {"wait", "lock"} /\ r.head = run[c].head /\ r.merged = run[c].merged
  <2>. DEFINE h == R.head
              to == IF Landings!Green(c, h) /\ R.green = 1 THEN "lock" ELSE R.pc
              green == IF Landings!Green(c, h) THEN 1 - R.green ELSE 0
              r == [R EXCEPT !.pc = to, !.green = green]
  <2>1. CASE pull[c].head = h
    <3>1. to \in {"wait", "lock"} /\ green \in 0..1
      BY <1>1, <1>5 DEF Landings!ReadChecks
    <3>2. run' = [run EXCEPT ![c] = r]
      BY <1>1, <1>5, <2>1 DEF Landings!ReadChecks
    <3>. HIDE DEF to, green
    <3>3. r \in Landings!Run /\ r.pc = to /\ r.head = R.head /\ r.merged = R.merged
      BY <1>1, <1>2, <3>1 DEF Landings!Run
    <3>. HIDE DEF r
    <3>. QED  BY <1>5, <3>1, <3>2, <3>3 DEF Landings!ReadChecks, Runs
  <2>2. CASE pull[c].head # h
    BY <1>2, <1>5, <2>2, Goes DEF Landings!ReadChecks
  <2>. QED  BY <2>1, <2>2
<1>6. ASSUME Landings!LockAgain(c)
      PROVE  \E r : Runs(c, r) /\ r.pc = "lock" /\ r.head = run[c].head /\ r.merged = run[c].merged
  <2>. DEFINE r == [R EXCEPT !.pc = "lock", !.seen = None]
  <2>1. r \in Landings!Run /\ r.pc = "lock" /\ r.head = R.head /\ r.merged = R.merged
    BY <1>1, <1>2 DEF Landings!Run
  <2>2. run' = [run EXCEPT ![c] = r]
    BY <1>1, <1>6 DEF Landings!LockAgain
  <2>. HIDE DEF r
  <2>. QED  BY <2>1, <2>2 DEF Runs
<1>. QED  BY <1>3, <1>4, <1>5, <1>6

LEMMA MoreSteps ==
  ASSUME Landings!TypeOK, NEW c \in Cards
  PROVE  /\ Landings!LookAtMain(c) => run[c].pc = "fresh" /\
              \/ UNCHANGED landLock /\ \E r : GoesTo(c, r, "authority")
              \/ landLock' = None /\ \E r : GoesTo(c, r, "done")
              \/ landLock' = None /\ \E r : Runs(c, r) /\ r.pc = "update" /\ r.head = run[c].head /\ r.merged = run[c].merged
         /\ Landings!ReadHolder(c) => run[c].pc = "stale" /\
              \E r : Runs(c, r) /\ r.pc \in {"proc", "lock"} /\ r.head = run[c].head /\ r.merged = run[c].merged
         /\ Landings!Comment(c) => run[c].pc = "comment" /\ \E r : Runs(c, r) /\ r.pc = "done" /\ r.head.own = "passed" /\ r.merged
<1>. DEFINE R == run[c]
<1>1. run \in [Cards -> Landings!Run] /\ R \in Landings!Run /\ R.round \in 1..BaseRounds
  BY DEF Landings!TypeOK, Landings!Run
<1>2. {"authority", "done", "update", "proc", "lock"} \subseteq Landings!Steps
  BY DEF Landings!Steps, Landings!TakesLock, Landings!MergeStep
<1>3. ASSUME Landings!LookAtMain(c)
      PROVE  run[c].pc = "fresh" /\
              \/ UNCHANGED landLock /\ \E r : GoesTo(c, r, "authority")
              \/ landLock' = None /\ \E r : GoesTo(c, r, "done")
              \/ landLock' = None /\ \E r : Runs(c, r) /\ r.pc = "update" /\ r.head = run[c].head /\ r.merged = run[c].merged
  <2>. DEFINE r == [R EXCEPT !.pc = "update", !.round = R.round + 1]
  <2>1. CASE run' = [run EXCEPT ![c].pc = "update", ![c].round = @ + 1] /\ R.round < BaseRounds /\ landLock' = None
    <3>1. run' = [run EXCEPT ![c] = r]
      BY <1>1, <2>1
    <3>2. r \in Landings!Run /\ r.pc = "update" /\ r.head = R.head /\ r.merged = R.merged
      BY <1>1, <1>2, <2>1, LandingsAssumption DEF Landings!Run
    <3>. HIDE DEF r
    <3>. QED  BY <1>3, <2>1, <3>1, <3>2 DEF Landings!LookAtMain, Runs
  <2>2. CASE UNCHANGED landLock /\ Landings!Goto(c, "authority")
    BY <1>2, <1>3, <2>2, Goes DEF Landings!LookAtMain
  <2>3. CASE landLock' = None /\ Landings!Goto(c, "done")
    <3>1. PICK q : GoesTo(c, q, "done")
      BY <1>2, <2>3, Goes
    <3>2. run[c].pc = "fresh"
      BY <1>3 DEF Landings!LookAtMain
    <3>. QED  BY <2>3, <3>1, <3>2
  <2>. QED  BY <1>3, <2>1, <2>2, <2>3 DEF Landings!LookAtMain
<1>4. ASSUME Landings!ReadHolder(c)
      PROVE  run[c].pc = "stale" /\
              \E r : Runs(c, r) /\ r.pc \in {"proc", "lock"} /\ r.head = run[c].head /\ r.merged = run[c].merged
  <2>1. CASE landLock # None /\ landLock.pid # None
    <3>. DEFINE r == [R EXCEPT !.pc = "proc", !.seen = landLock.pid]
    <3>1. landLock.pid \in Cards \cup {None}
      BY <2>1 DEF Landings!TypeOK
    <3>2. run' = [run EXCEPT ![c] = r]
      BY <1>1, <1>4, <2>1 DEF Landings!ReadHolder
    <3>3. r \in Landings!Run /\ r.pc = "proc" /\ r.head = R.head /\ r.merged = R.merged
      BY <1>1, <1>2, <3>1 DEF Landings!Run
    <3>. HIDE DEF r
    <3>. QED  BY <1>4, <3>2, <3>3 DEF Landings!ReadHolder, Runs
  <2>2. CASE ~(landLock # None /\ landLock.pid # None)
    <3>. DEFINE r == [R EXCEPT !.pc = "lock"]
    <3>1. run' = [run EXCEPT ![c] = r]
      BY <1>1, <1>4, <2>2 DEF Landings!ReadHolder
    <3>2. r \in Landings!Run /\ r.pc = "lock" /\ r.head = R.head /\ r.merged = R.merged
      BY <1>1, <1>2 DEF Landings!Run
    <3>. HIDE DEF r
    <3>. QED  BY <1>4, <3>1, <3>2 DEF Landings!ReadHolder, Runs
  <2>. QED  BY <2>1, <2>2
<1>5. ASSUME Landings!Comment(c)
      PROVE  run[c].pc = "comment" /\ \E r : Runs(c, r) /\ r.pc = "done" /\ r.head.own = "passed" /\ r.merged
  <2>. DEFINE r == [Landings!AtRest EXCEPT !.pc = "done", !.merged = TRUE]
  <2>1. r \in Landings!Run /\ r.pc = "done" /\ r.head = Landings!Passed /\ r.merged
    BY <1>2, Known DEF Landings!Run
  <2>2. run' = [run EXCEPT ![c] = r]
    BY <1>5 DEF Landings!Comment
  <2>. HIDE DEF r
  <2>. QED  BY <1>5, <2>1, <2>2, Known DEF Landings!Comment, Runs
<1>. QED  BY <1>3, <1>4, <1>5

-----------------------------------------------------------------------------
(* One landing at a time                                                   *)

\* Who does not take the lock leaves it to who has it.
LEMMA LockKept ==
  ASSUME Landings!TypeOK, LockInv, NEW c \in Cards, NEW r, Runs(c, r), UNCHANGED <<landLock, marker>>,
         run[c].pc \notin {"done", "dead"}, r.pc # "idle",
         r.pc \in Landings!MergeStep => run[c].pc \in Landings!MergeStep,
         r.pc # "write",
         r.pc \in {"again", "clear", "unmark"} => run[c].pc \in {"again", "clear"},
         r.pc = "clear" => Landings!Stale
  PROVE  LockInv'
<1>1. run'[c] = r /\ \A d \in Cards : d # c => run'[d] = run[d]
  BY RunsIs
<1>2. Landings!OneMergeStep'
  BY <1>1 DEF LockInv, Landings!OneMergeStep, Landings!InMergeStep, Landings!Held
<1>3. Landings!Stale => Landings!Stale'
  BY <1>1 DEF Landings!Stale, Landings!Alive, LockInv, LockFollows, Landings!TypeOK
<1>4. LockFollows'
  BY <1>1, <1>3 DEF LockInv, LockFollows, Landings!Made, Landings!TypeOK
<1>. QED  BY <1>2, <1>4 DEF LockInv

\* Who is in the merge step lets the lock go.
LEMMA LockReleased ==
  ASSUME Landings!TypeOK, LockInv, NEW c \in Cards, NEW r, Runs(c, r), landLock' = None, UNCHANGED marker,
         run[c].pc \in Landings!MergeStep,
         r.pc \notin Landings!MergeStep \cup {"write", "again", "clear", "unmark"}
  PROVE  LockInv'
<1>1. run'[c] = r /\ \A d \in Cards : d # c => run'[d] = run[d]
  BY RunsIs
<1>2. landLock = Landings!Held(c) /\ \A d \in Cards : d # c => run[d].pc \notin Landings!MergeStep
  BY DEF LockInv, Landings!OneMergeStep, Landings!InMergeStep
<1>3. landLock.pid = c /\ landLock # None /\ landLock.by = c
  BY <1>2, LandingsAssumption DEF Landings!Held
<1>4. \A d \in Cards : d # c => run[d].pc \notin {"write", "clear"}
  <2>1. ~Landings!Stale
    BY <1>3 DEF Landings!Stale, Landings!Alive, Landings!MergeStep
  <2>2. \A d \in Cards : landLock # Landings!Made(d)
    BY <1>3, LandingsAssumption DEF Landings!Made
  <2>. QED  BY <2>1, <2>2 DEF LockInv, LockFollows
<1>5. Landings!OneMergeStep'
  BY <1>1, <1>2 DEF Landings!OneMergeStep, Landings!InMergeStep
<1>6. LockFollows'
  BY <1>1, <1>4 DEF LockInv, LockFollows
<1>. QED  BY <1>5, <1>6 DEF LockInv

LEMMA TakingTheLock ==
  ASSUME Landings!TypeOK, LockInv, NEW c \in Cards, Landings!TakeLock(c)
  PROVE  LockInv'
<1>. USE DEF LockInv, LockFollows, Landings!OneMergeStep, Landings!InMergeStep
<1>1. {"write", "stale", "mark", "fresh", "again", "clear", "unmark"} \subseteq Landings!Steps
  BY DEF Landings!Steps, Landings!TakesLock, Landings!MergeStep
<1>2. ASSUME Landings!CreateLock(c) PROVE LockInv'
  <2>1. CASE landLock # None
    BY <1>1, <1>2, <2>1, Goes, LockKept DEF Landings!CreateLock, GoesTo, Runs, Landings!MergeStep
  <2>2. CASE landLock = None
    <3>1. landLock' = Landings!Made(c) /\ UNCHANGED marker /\ run[c].pc = "lock"
      BY <1>2, <2>2 DEF Landings!CreateLock
    <3>2. PICK r : GoesTo(c, r, "write")
      BY <1>1, <1>2, <2>2, Goes DEF Landings!CreateLock
    <3>3. run'[c] = r /\ r.pc = "write" /\ \A d \in Cards : d # c => run'[d] = run[d]
      BY <3>2, RunsIs DEF GoesTo, Runs
    <3>4. \A d \in Cards : run[d].pc \notin Landings!MergeStep \cup {"write", "clear"}
      BY <2>2, LandingsAssumption DEF Landings!Held, Landings!Made, Landings!Stale
    <3>5. landLock'.pid = None
      BY <3>1 DEF Landings!Made
    <3>. QED  BY <3>1, <3>3, <3>4, <3>5 DEF Landings!MergeStep
  <2>. QED  BY <2>1, <2>2
<1>3. ASSUME Landings!WriteLock(c) PROVE LockInv'
  <2>1. landLock = Landings!Made(c) /\ landLock' = Landings!Held(c) /\ UNCHANGED marker /\ run[c].pc = "write"
    BY <1>3 DEF Landings!WriteLock
  <2>2. PICK r : GoesTo(c, r, "fresh")
    BY <1>1, <1>3, Goes DEF Landings!WriteLock
  <2>3. run'[c] = r /\ r.pc = "fresh" /\ \A d \in Cards : d # c => run'[d] = run[d]
    BY <2>2, RunsIs DEF GoesTo, Runs
  <2>4. \A d \in Cards : d # c => run[d].pc \notin Landings!MergeStep \cup {"write", "clear"}
    BY <2>1, LandingsAssumption DEF Landings!Held, Landings!Made, Landings!Stale
  <2>5. landLock'.pid = c
    BY <2>1 DEF Landings!Held
  <2>. QED  BY <2>1, <2>3, <2>4, <2>5
<1>4. ASSUME Landings!ReadHolder(c) PROVE LockInv'
  <2>1. run[c].pc = "stale" /\ UNCHANGED <<landLock, marker>>
    BY <1>4 DEF Landings!ReadHolder, Landings!host
  <2>2. PICK r : Runs(c, r) /\ r.pc \in {"proc", "lock"}
    BY <1>4, MoreSteps
  <2>. QED  BY <2>1, <2>2, LockKept DEF Landings!MergeStep
<1>5. ASSUME Landings!LookUpHolder(c) PROVE LockInv'
  <2>1. run[c].pc = "proc" /\ UNCHANGED <<landLock, marker>>
    BY <1>5 DEF Landings!LookUpHolder, Landings!host
  <2>2. PICK r : Runs(c, r) /\ r.pc \in {"mark", "lock"}
    BY <1>1, <1>5, Goes, OwnSteps DEF Landings!LookUpHolder, GoesTo, Runs
  <2>. QED  BY <2>1, <2>2, LockKept DEF Landings!MergeStep
<1>6. ASSUME Landings!CreateMarker(c) PROVE LockInv'
  <2>1. run[c].pc = "mark" /\ UNCHANGED landLock
    BY <1>6 DEF Landings!CreateMarker
  <2>2. CASE marker = None
    <3>1. marker' = c
      BY <1>6, <2>2 DEF Landings!CreateMarker
    <3>2. PICK r : GoesTo(c, r, "again")
      BY <1>1, <1>6, <2>2, Goes DEF Landings!CreateMarker
    <3>3. run'[c] = r /\ r.pc = "again" /\ \A d \in Cards : d # c => run'[d] = run[d]
      BY <3>2, RunsIs DEF GoesTo, Runs
    <3>4. \A d \in Cards : run[d].pc \notin {"again", "clear", "unmark"}
      BY <2>2, LandingsAssumption
    <3>5. Landings!OneMergeStep'
      BY <2>1, <3>3 DEF Landings!MergeStep, Landings!Held
    <3>6. LockFollows'
      <4>1. \A d \in Cards : run'[d].pc = "write" => landLock' = Landings!Made(d)
        BY <2>1, <3>3
      <4>2. landLock' # None /\ landLock'.pid # None => run'[landLock'.pid].pc # "idle"
        BY <2>1, <3>3 DEF Landings!TypeOK
      <4>. QED  BY <3>1, <3>3, <3>4, <4>1, <4>2 DEF Landings!Made
    <3>. QED  BY <3>5, <3>6
  <2>3. CASE marker # None
    BY <1>6, <2>1, <2>3, OwnSteps, LockKept DEF Landings!CreateMarker, Landings!MergeStep
  <2>. QED  BY <2>2, <2>3
<1>7. ASSUME Landings!ReadAgain(c) PROVE LockInv'
  <2>1. run[c].pc = "again" /\ UNCHANGED <<landLock, marker>>
    BY <1>7 DEF Landings!ReadAgain, Landings!host
  <2>2. CASE Landings!StillTheSame(c)
    <3>1. PICK r : GoesTo(c, r, "clear")
      BY <1>1, <1>7, <2>2, Goes DEF Landings!ReadAgain
    <3>. QED  BY <2>1, <2>2, <3>1, LockKept DEF GoesTo, Runs, Landings!StillTheSame, Landings!MergeStep
  <2>3. CASE ~Landings!StillTheSame(c)
    <3>1. PICK r : GoesTo(c, r, "unmark")
      BY <1>1, <1>7, <2>3, Goes DEF Landings!ReadAgain
    <3>. QED  BY <2>1, <3>1, LockKept DEF GoesTo, Runs, Landings!MergeStep
  <2>. QED  BY <2>2, <2>3
<1>8. ASSUME Landings!ClearLock(c) PROVE LockInv'
  <2>1. run[c].pc = "clear" /\ landLock' = None /\ UNCHANGED marker /\ Landings!Stale
    BY <1>8 DEF Landings!ClearLock
  <2>2. PICK r : GoesTo(c, r, "unmark")
    BY <1>1, <1>8, Goes DEF Landings!ClearLock
  <2>3. run'[c] = r /\ r.pc = "unmark" /\ \A d \in Cards : d # c => run'[d] = run[d]
    BY <2>2, RunsIs DEF GoesTo, Runs
  <2>4. \A d \in Cards : d # c => run[d].pc \notin Landings!MergeStep \cup {"write", "clear"}
    BY <2>1, LandingsAssumption DEF Landings!Held, Landings!Made, Landings!Stale, Landings!Alive, Landings!MergeStep
  <2>. QED  BY <2>1, <2>3, <2>4 DEF Landings!MergeStep
<1>9. ASSUME Landings!RemoveMarker(c) PROVE LockInv'
  <2>1. run[c].pc = "unmark" /\ marker' = None /\ UNCHANGED landLock /\ marker = c
    BY <1>9 DEF Landings!RemoveMarker
  <2>2. PICK r : Runs(c, r) /\ r.pc = "lock"
    BY <1>9, OwnSteps DEF Landings!RemoveMarker
  <2>3. run'[c] = r /\ r.pc = "lock" /\ \A d \in Cards : d # c => run'[d] = run[d]
    BY <2>2, RunsIs
  <2>4. \A d \in Cards : d # c => run[d].pc \notin {"again", "clear", "unmark"}
    BY <2>1
  <2>5. Landings!OneMergeStep'
    BY <2>1, <2>3 DEF Landings!MergeStep, Landings!Held
  <2>6. LockFollows'
    <3>1. \A d \in Cards : run'[d].pc = "write" => landLock' = Landings!Made(d)
      BY <2>1, <2>3
    <3>2. landLock' # None /\ landLock'.pid # None => run'[landLock'.pid].pc # "idle"
      BY <2>1, <2>3 DEF Landings!TypeOK
    <3>. QED  BY <2>3, <2>4, <3>1, <3>2 DEF Landings!Made
  <2>. QED  BY <2>5, <2>6
<1>. QED  BY <1>2, <1>3, <1>4, <1>5, <1>6, <1>7, <1>8, <1>9 DEF Landings!TakeLock

-----------------------------------------------------------------------------
(* What was asked for, and what is on main                                 *)

\* A landing goes on, and nothing else changes.
LEMMA RecordKept ==
  ASSUME Landings!TypeOK, RecordInv, NEW c \in Cards, NEW r, Runs(c, r), UNCHANGED <<main, pull, asked, record>>,
         RunKnows(c, r),
         run[c].pc \in Asking \cup {"comment", "done", "dead"} => r.pc \in Asking \cup {"comment", "done", "dead"},
         r.pc \in Asking /\ run[c].pc \in Asking \cup {"comment", "done", "dead"} => run[c].pc \in Asking /\ r.head = run[c].head
  PROVE  RecordInv'
<1>. USE DEF RecordInv
<1>1. run'[c] = r /\ \A d \in Cards : d # c => run'[d] = run[d]
  BY RunsIs
<1>2. \A h : \A d \in Cards : Requested(d, h) => Requested(d, h)'
  BY <1>1 DEF Requested
<1>3. \A h : \A d \in Cards : OnMain(d, h)' = OnMain(d, h)
  BY DEF OnMain
<1>4. MainFollows' /\ RecordTells'
  BY <1>3 DEF MainFollows, RecordTells
<1>5. AskedFor'
  BY <1>2 DEF AskedFor
<1>6. RunsKnow'
  BY <1>1, <1>3 DEF RunsKnow, RunKnows
<1>. QED  BY <1>4, <1>5, <1>6

\* No landing is where it asks, before the merge step.
LEMMA GoesOn ==
  ASSUME Landings!TypeOK, RecordInv, NEW c \in Cards, NEW r, NEW to, GoesTo(c, r, to),
         UNCHANGED <<main, pull, asked, record>>,
         \/ to \in {"done", "dead"}
         \/ /\ to \notin {"confirm", "merge", "complete", "comment"} \cup (Asking \ {"hold"})
            /\ run[c].pc \notin Asking \cup {"comment", "done", "dead"}
  PROVE  RecordInv'
<1>1. RunKnows(c, run[c])
  BY DEF RecordInv, RunsKnow
<1>2. Runs(c, r) /\ RunKnows(c, r)
  BY <1>1 DEF GoesTo, RunKnows, Runs, Asking
<1>. QED  BY <1>2, RecordKept DEF GoesTo, Asking

LEMMA AuthorityKnows ==
  ASSUME Landings!TypeOK, RecordInv, NEW c \in Cards, NEW h, NEW next \in {"prepare", "merge"}
  PROVE  /\ Landings!Authority(c, h, next) \in {"complete", "hold", next}
         /\ Landings!Authority(c, h, next) = "complete" => OnMain(c, h)
<1>1. Landings!MergedAt(c, h) /\ Landings!TreeLanded(c, h) => OnMain(c, h)
  BY DEF Landings!MergedAt, Landings!TreeLanded, OnMain, RecordInv, MainFollows
<1>. QED  BY <1>1 DEF Landings!Authority

\* A record is written, or not acknowledged.
LEMMA RecordWritten ==
  ASSUME Landings!TypeOK, RecordInv, NEW c \in Cards, NEW s \in {"PREPARED", "HOLD", "COMPLETED"}, NEW acked \in BOOLEAN,
         NEW next \in {"confirm", "tell"}, Landings!Write(c, s, acked, next),
         run[c].pc \in {"prepare", "hold", "complete"},
         next = "confirm" => run[c].pc = "prepare",
         next = "tell" => run[c].pc \in {"hold", "complete"},
         s = "COMPLETED" => run[c].pc = "complete"
  PROVE  RecordInv'
<1>. USE DEF RecordInv
<1>. DEFINE new == [state |-> s, head |-> run[c].head]
<1>1. /\ UNCHANGED <<main, pull, asked>>
      /\ record' = [record EXCEPT ![c] = new] \/ (~acked /\ UNCHANGED record)
      /\ \E r : GoesTo(c, r, IF acked THEN next ELSE "done")
  <2>1. {"confirm", "tell", "done"} \subseteq Landings!Steps
    BY DEF Landings!Steps, Landings!MergeStep
  <2>2. \E r : GoesTo(c, r, IF acked THEN next ELSE "done")
    BY <2>1, Goes DEF Landings!Write
  <2>. QED  BY <2>2 DEF Landings!Write, Landings!github
<1>2. PICK r : GoesTo(c, r, IF acked THEN next ELSE "done")
  BY <1>1
<1>3. run'[c] = r /\ r.pc = (IF acked THEN next ELSE "done") /\ \A d \in Cards : d # c => run'[d] = run[d]
  BY <1>2, RunsIs DEF GoesTo, Runs
<1>4. record \in [Cards -> {None} \cup [state : {"PREPARED", "HOLD", "COMPLETED"}, head : Landings!Heads]]
      /\ run[c].head \in Landings!Heads
  BY DEF Landings!TypeOK, Landings!Run
<1>5. CASE UNCHANGED record /\ ~acked
  BY <1>1, <1>2, <1>5, GoesOn
<1>6. CASE record' = [record EXCEPT ![c] = new]
  <2>1. new # None /\ new.head = run[c].head /\ new.state = s
    BY <1>4, LandingsAssumption
  <2>. HIDE DEF new
  <2>2. record'[c] = new /\ \A d \in Cards : d # c => record'[d] = record[d]
    BY <1>4, <1>6
  <2>3. \A h : \A d \in Cards : OnMain(d, h)' = OnMain(d, h)
    BY <1>1 DEF OnMain
  <2>4. run[c].head.own = "passed" /\ (run[c].pc = "complete" => OnMain(c, run[c].head))
    BY DEF RunsKnow, RunKnows
  <2>5. ASSUME NEW d \in Cards, NEW h, Requested(d, h) PROVE Requested(d, h)'
    <3>1. CASE d = c
      <4>1. run[c].pc \in {"hold", "complete"} /\ run[c].head = h
        BY <2>5, <3>1 DEF Requested, Asking
      <4>2. run'[c].pc \in {"tell", "done"} /\ (run'[c].pc = "tell" => run'[c].head = h)
        BY <1>2, <1>3, <4>1 DEF GoesTo
      <4>. QED  BY <2>1, <2>2, <2>5, <3>1, <4>1, <4>2 DEF Requested, Asking
    <3>2. CASE d # c
      BY <1>3, <2>2, <2>5, <3>2 DEF Requested
    <3>. QED  BY <3>1, <3>2
  <2>6. MainFollows' /\ AskedFor'
    BY <1>1, <2>5 DEF MainFollows, AskedFor
  <2>7. RecordTells'
    BY <2>1, <2>2, <2>3, <2>4 DEF RecordTells
  <2>8. RunKnows(c, r)'
    BY <1>2, <1>3, <2>1, <2>2, <2>4 DEF RunKnows, GoesTo, RunsKnow
  <2>9. RunsKnow'
    BY <1>3, <2>2, <2>3, <2>8 DEF RunsKnow, RunKnows
  <2>. QED  BY <2>6, <2>7, <2>9
<1>. QED  BY <1>1, <1>5, <1>6

\* A branch moves, of a card that is not on main; what was asked is void.
LEMMA HeadMoved ==
  ASSUME Landings!TypeOK, RecordInv, NEW c \in Cards, NEW h, Landings!NewHead(c, h),
         pull[c].state # "merged", UNCHANGED <<main, record, run>>
  PROVE  RecordInv'
<1>. USE DEF RecordInv
<1>1. /\ \A d \in Cards : pull'[d].state = pull[d].state /\ (d # c => pull'[d] = pull[d] /\ asked'[d] = asked[d])
      /\ asked'[c] = None
  BY DEF Landings!NewHead, Landings!TypeOK
<1>2. MainFollows'
  BY <1>1 DEF MainFollows
<1>3. AskedFor'
  BY <1>1 DEF AskedFor, Requested
<1>4. RunsKnow' /\ RecordTells'
  BY DEF RunsKnow, RunKnows, RecordTells, OnMain
<1>. QED  BY <1>2, <1>3, <1>4

\* A pull request reaches main, a landing's as it was asked for.
LEMMA MergeReaches ==
  ASSUME Landings!TypeOK, RecordInv, NEW c \in Cards, NEW by \in {"landing", "person"}, Landings!Merge(c, by),
         pull[c].state = "open", UNCHANGED <<record, run>>,
         by = "landing" => /\ asked[c] # None /\ asked[c].what = "merge" /\ asked[c].head = pull[c].head
                           /\ Landings!Fresh(pull[c].head)
  PROVE  RecordInv'
<1>. USE DEF RecordInv
<1>1. PICK T : /\ main' = Append(main, [card |-> c, touches |-> T, by |-> by, head |-> pull[c].head])
               /\ asked' = [asked EXCEPT ![c] = None] /\ pull' = [pull EXCEPT ![c].state = "merged"]
  BY DEF Landings!Merge
<1>. DEFINE n == Len(main)
            m == [card |-> c, touches |-> T, by |-> by, head |-> pull[c].head]
<1>2. /\ n \in Nat /\ Len(main') = n + 1 /\ main'[n + 1] = m
      /\ \A i \in 1 .. n : main'[i] = main[i]
  BY <1>1 DEF Landings!TypeOK
<1>3. m.card = c /\ m.by = by /\ m.head = pull[c].head
  OBVIOUS
<1>. HIDE DEF m, n
<1>4. \A i \in 1 .. Len(main') : i \in 1 .. n \/ i = n + 1
  BY <1>2
<1>5. /\ \A d \in Cards : pull'[d].head = pull[d].head /\ (d # c => pull'[d] = pull[d] /\ asked'[d] = asked[d])
      /\ asked'[c] = None /\ pull'[c].state = "merged"
  BY <1>1 DEF Landings!TypeOK
<1>6. \A i \in 1 .. n : main[i].card # c
  BY DEF MainFollows, n
<1>7. MainFollows'
  BY <1>2, <1>3, <1>4, <1>5, <1>6 DEF MainFollows, n
<1>8. \A h : \A d \in Cards : OnMain(d, h) => OnMain(d, h)'
  <2>. SUFFICES ASSUME NEW d \in Cards, NEW h, OnMain(d, h) PROVE OnMain(d, h)'
    OBVIOUS
  <2>1. PICK i \in 1 .. n : main[i].card = d /\ main[i].head = h /\ h.base = i - 1
    BY DEF OnMain, n
  <2>2. i \in 1 .. Len(main') /\ main'[i] = main[i]
    BY <1>2, <2>1
  <2>. QED  BY <2>1, <2>2 DEF OnMain
<1>9. by = "landing" => Requested(c, m.head) /\ m.head.base = n
  BY <1>3 DEF AskedFor, Landings!Fresh, n
<1>10. \A h : \A d \in Cards : Requested(d, h)' = Requested(d, h)
  BY DEF Requested
<1>11. AskedFor'
  <2>1. ASSUME NEW i \in 1 .. Len(main'), main'[i].by = "landing"
        PROVE  main'[i].card \in Cards /\ main'[i].head.base = i - 1 /\ Requested(main'[i].card, main'[i].head)
    <3>1. CASE i \in 1 .. n
      BY <1>2, <2>1, <3>1 DEF AskedFor, n
    <3>2. CASE i = n + 1
      BY <1>2, <1>3, <1>9, <2>1, <3>2
    <3>. QED  BY <1>4, <3>1, <3>2
  <2>2. \A d \in Cards : asked'[d] # None /\ asked'[d].what = "merge" => Requested(d, asked'[d].head)
    BY <1>5 DEF AskedFor
  <2>. QED  BY <1>10, <2>1, <2>2 DEF AskedFor, Requested
<1>12. RunsKnow' /\ RecordTells'
  BY <1>8 DEF RunsKnow, RunKnows, RecordTells
<1>. QED  BY <1>7, <1>11, <1>12

LEMMA AskingPreserves ==
  ASSUME Landings!TypeOK, RecordInv, NEW c \in Cards,
         Landings!Start(c) \/ Landings!SendUpdate(c) \/ Landings!SendMerge(c)
  PROVE  RecordInv'
<1>. USE DEF RecordInv
<1>1. PICK r, to : /\ GoesTo(c, r, to) /\ to \in {"update", "poll", "done", "snapshot"}
                   /\ to = "snapshot" <=> run[c].pc = "merge"
                   /\ run[c].pc \in {"idle", "send", "merge"}
  <2>1. {"update", "poll", "done", "snapshot"} \subseteq Landings!Steps
    BY DEF Landings!Steps, Landings!MergeStep
  <2>2. CASE Landings!Start(c)
    <3>1. PICK q \in {"update", "done"} : Landings!Goto(c, q)
      BY <2>2 DEF Landings!Start
    <3>. QED  BY <2>1, <2>2, <3>1, Goes DEF Landings!Start
  <2>3. CASE Landings!SendUpdate(c)
    <3>1. PICK q \in {"poll", "done"} : Landings!Goto(c, q)
      BY <2>3 DEF Landings!SendUpdate
    <3>. QED  BY <2>1, <2>3, <3>1, Goes DEF Landings!SendUpdate
  <2>4. CASE Landings!SendMerge(c)
    BY <2>1, <2>4, Goes DEF Landings!SendMerge
  <2>. QED  BY <2>2, <2>3, <2>4
<1>2. run'[c] = r /\ r.pc = to /\ (to # "done" => r.head = run[c].head /\ r.merged = run[c].merged) /\ (to = "done" => ~r.merged)
      /\ \A d \in Cards : d # c => run'[d] = run[d]
  BY <1>1, RunsIs DEF GoesTo, Runs
<1>3. /\ UNCHANGED <<main, record>>
      /\ \A d \in Cards : /\ pull'[d].head = pull[d].head /\ (pull'[d].state # "merged" => pull[d].state # "merged")
                          /\ asked'[d] = asked[d] \/ (d = c /\ asked'[d] = [what |-> "update", head |-> run[c].head])
                             \/ (d = c /\ to = "snapshot" /\ asked'[d] = [what |-> "merge", head |-> run[c].head])
  BY <1>1 DEF Landings!Start, Landings!SendUpdate, Landings!SendMerge, Landings!TypeOK
<1>4. MainFollows'
  BY <1>3 DEF MainFollows
<1>5. ~Requested(c, asked[c].head) /\ \A h : ~Requested(c, h)
  BY <1>1 DEF Requested, Asking
<1>6. \A h : \A d \in Cards : Requested(d, h) => Requested(d, h)'
  BY <1>2, <1>3, <1>5 DEF Requested
<1>7. to = "snapshot" => Requested(c, run[c].head)'
  BY <1>1, <1>2, <1>3 DEF Requested, Asking, RunsKnow, RunKnows
<1>8. AskedFor'
  <2>1. \A d \in Cards : asked'[d] # None /\ asked'[d].what = "merge" => Requested(d, asked[d].head)'
    BY <1>2, <1>3, <1>6, <1>7 DEF AskedFor
  <2>2. \A i \in 1 .. Len(main') : main'[i].by = "landing" =>
          main'[i].card \in Cards /\ main'[i].head.base = i - 1 /\ Requested(main[i].card, main[i].head)'
    BY <1>3, <1>6 DEF AskedFor
  <2>. QED  BY <2>1, <2>2 DEF AskedFor
<1>9. RunsKnow' /\ RecordTells'
  <2>1. \A h : \A d \in Cards : OnMain(d, h)' = OnMain(d, h)
    BY <1>3 DEF OnMain
  <2>2. r.head.own = "passed"
    BY <1>1 DEF GoesTo, RunsKnow, RunKnows
  <2>3. RunKnows(c, r)'
    BY <1>1, <1>2, <1>3, <2>2 DEF RunsKnow, RunKnows
  <2>. QED  BY <1>2, <1>3, <2>1, <2>3 DEF RunsKnow, RunKnows, RecordTells
<1>. QED  BY <1>4, <1>8, <1>9

-----------------------------------------------------------------------------
(* Every step                                                              *)

LEMMA StepsAreSteps ==
  /\ {"update", "send", "poll", "wait", "comment", "done", "dead", "lock", "write", "stale", "proc", "mark", "again",
      "clear", "unmark", "fresh", "authority", "prepare", "confirm", "merge", "snapshot", "hold", "complete", "tell"}
       = Landings!Steps \ {"idle"}
  BY DEF Landings!Steps, Landings!TakesLock, Landings!MergeStep

\* A landing's step is a step of its run.
LEMMA RunsOn ==
  ASSUME Landings!TypeOK, RecordInv, NEW c \in Cards, Landings!Lands(c)
  PROVE  \E r : Runs(c, r)
<1>1. \A pc1 \in Landings!Steps : Landings!Goto(c, pc1) => \E r : Runs(c, r)
  BY Goes DEF GoesTo, Runs
<1>2. CASE Landings!Start(c) \/ Landings!SendUpdate(c) \/ Landings!SendMerge(c) \/ Landings!ReadBack(c)
  BY <1>1, <1>2, StepsAreSteps DEF Landings!Start, Landings!SendUpdate, Landings!SendMerge, Landings!ReadBack
<1>3. CASE Landings!ReadMain(c) \/ Landings!TakeUpdate(c) \/ Landings!ReadChecks(c)
  BY <1>3, OwnSteps DEF GoesTo, Runs
<1>4. CASE Landings!TakeLock(c)
  BY <1>1, <1>4, StepsAreSteps, OwnSteps, MoreSteps
     DEF Landings!TakeLock, Landings!CreateLock, Landings!WriteLock, Landings!LookUpHolder, Landings!CreateMarker,
         Landings!ReadAgain, Landings!ClearLock, Landings!RemoveMarker
<1>5. CASE Landings!LookAtMain(c) \/ Landings!Comment(c)
  BY <1>5, MoreSteps DEF GoesTo, Runs
<1>6. CASE Landings!ReadAuthority(c) \/ Landings!Confirm(c)
  BY <1>1, <1>6, StepsAreSteps, AuthorityKnows DEF Landings!ReadAuthority, Landings!Confirm
<1>7. CASE \E acked \in BOOLEAN : Landings!Prepare(c, acked) \/ Landings!Complete(c, acked) \/ Landings!Hold(c, acked)
  BY <1>1, <1>7, StepsAreSteps DEF Landings!Prepare, Landings!Complete, Landings!Hold, Landings!Write
<1>8. CASE Landings!LetGo(c) \/ Landings!Stop(c) \/ Landings!Dies(c)
  BY <1>1, <1>8, StepsAreSteps DEF Landings!LetGo, Landings!Stop, Landings!Dies
<1>. QED  BY <1>2, <1>3, <1>4, <1>5, <1>6, <1>7, <1>8 DEF Landings!Lands

LEMMA UpdateIsAHead ==
  ASSUME Landings!TypeOK, NEW c \in Cards, NEW h \in Landings!Heads
  PROVE  Landings!UpdateOf(c, h) \in Landings!Heads
  BY DEF Landings!TypeOK, Landings!UpdateOf, Landings!Heads

\* What GitHub has keeps its types.
LEMMA GitHubTypes ==
  ASSUME Landings!TypeOK, RecordInv, Landings!Next
  PROVE  /\ main' \in Seq(Landings!Commit)
         /\ pull' \in [Cards -> [state : {"none", "open", "merged"}, head : Landings!Heads, green : BOOLEAN]]
         /\ asked' \in [Cards -> {None} \cup [what : {"update", "merge"}, head : Landings!Heads]]
<1>. DEFINE Good3 == /\ main' \in Seq(Landings!Commit)
                     /\ pull' \in [Cards -> [state : {"none", "open", "merged"}, head : Landings!Heads, green : BOOLEAN]]
                     /\ asked' \in [Cards -> {None} \cup [what : {"update", "merge"}, head : Landings!Heads]]
            Pull == [state : {"none", "open", "merged"}, head : Landings!Heads, green : BOOLEAN]
            Request == [what : {"update", "merge"}, head : Landings!Heads]
<1>t. main \in Seq(Landings!Commit) /\ pull \in [Cards -> Pull] /\ asked \in [Cards -> {None} \cup Request]
  BY DEF Landings!TypeOK
<1>p. \A p \in Pull : /\ \A h \in Landings!Heads : [p EXCEPT !.head = h, !.green = FALSE] \in Pull
                      /\ \A s \in {"open", "merged"} : [p EXCEPT !.state = s] \in Pull
                      /\ [p EXCEPT !.green = ~@] \in Pull
  OBVIOUS
<1>1. CASE UNCHANGED <<main, pull, asked>>
  BY <1>1 DEF Landings!TypeOK
<1>2. ASSUME NEW c \in Cards, NEW h \in Landings!Heads, Landings!NewHead(c, h), UNCHANGED main PROVE Good3
  <2>1. pull' = [pull EXCEPT ![c] = [pull[c] EXCEPT !.head = h, !.green = FALSE]] /\ asked' = [asked EXCEPT ![c] = None]
    BY <1>2, <1>t DEF Landings!NewHead
  <2>. HIDE DEF Pull, Request
  <2>2. pull' \in [Cards -> Pull] /\ asked' \in [Cards -> {None} \cup Request]
    BY <1>t, <1>p, <2>1
  <2>. QED  BY <1>t, <1>2, <2>2 DEF Pull, Request
<1>3. ASSUME NEW c \in Cards, NEW by \in {"landing", "person"}, Landings!Merge(c, by) PROVE Good3
  <2>1. PICK T \in SUBSET Cards :
          /\ main' = Append(main, [card |-> c, touches |-> T, by |-> by, head |-> pull[c].head])
          /\ asked' = [asked EXCEPT ![c] = None] /\ pull' = [pull EXCEPT ![c].state = "merged"]
    BY <1>3 DEF Landings!Merge, Landings!Unmerged
  <2>2. [card |-> c, touches |-> T, by |-> by, head |-> pull[c].head] \in Landings!Commit
    BY DEF Landings!Commit, Landings!TypeOK
  <2>3. pull' = [pull EXCEPT ![c] = [pull[c] EXCEPT !.state = "merged"]]
    BY <1>t, <2>1
  <2>. HIDE DEF Pull, Request
  <2>4. pull' \in [Cards -> Pull]
    <3>1. [pull[c] EXCEPT !.state = "merged"] \in Pull
      BY <1>t, <1>p
    <3>. QED  BY ONLY <1>t, <2>3, <3>1
  <2>6. asked' \in [Cards -> {None} \cup Request]
    BY ONLY <1>t, <2>1
  <2>5. main' \in Seq(Landings!Commit)
    BY <1>t, <2>1, <2>2
  <2>. QED  BY <2>4, <2>5, <2>6 DEF Pull, Request
<1>4. ASSUME NEW c \in Cards, Landings!Report(c) PROVE Good3
  <2>1. pull' = [pull EXCEPT ![c] = [pull[c] EXCEPT !.green = ~@]] /\ UNCHANGED <<main, asked>>
    BY <1>4, <1>t DEF Landings!Report
  <2>. HIDE DEF Pull, Request
  <2>2. pull' \in [Cards -> Pull]
    BY <1>t, <1>p, <2>1
  <2>. QED  BY <1>t, <2>1, <2>2 DEF Pull, Request
<1>5. ASSUME NEW c \in Cards, Landings!ServerUpdates(c) PROVE Good3
  BY <1>2, <1>5, UpdateIsAHead DEF Landings!ServerUpdates, Landings!TypeOK
<1>6. ASSUME NEW c \in Cards, Landings!ServerMerges(c) PROVE Good3
  BY <1>3, <1>6 DEF Landings!ServerMerges
<1>7. ASSUME Landings!Person PROVE Good3
  <2>1. ASSUME NEW T \in SUBSET Cards,
               main' = Append(main, [card |-> None, touches |-> T, by |-> "person", head |-> None]),
               UNCHANGED <<pull, asked>> PROVE Good3
    <3>1. [card |-> None, touches |-> T, by |-> "person", head |-> None] \in Landings!Commit
      BY DEF Landings!Commit
    <3>. QED  BY <2>1, <3>1 DEF Landings!TypeOK
  <2>2. CASE Landings!PersonCommits
    BY <2>1, <2>2 DEF Landings!PersonCommits, Landings!Unmerged
  <2>3. ASSUME NEW c \in Cards, Landings!PersonPushes(c) PROVE Good3
    <3>1. [pull[c].head EXCEPT !.own = "foreign"] \in Landings!Heads
      <4>1. pull[c].head \in Landings!Heads
        BY <1>t
      <4>. QED  BY <4>1 DEF Landings!Heads
    <3>. QED  BY <1>2, <2>3, <3>1 DEF Landings!PersonPushes
  <2>4. ASSUME NEW c \in Cards, Landings!PersonUpdates(c) PROVE Good3
    BY <1>2, <2>4, UpdateIsAHead DEF Landings!PersonUpdates, Landings!TypeOK
  <2>5. ASSUME NEW c \in Cards, Landings!PersonMerges(c) PROVE Good3
    BY <1>3, <2>5 DEF Landings!PersonMerges
  <2>. QED  BY <1>7, <2>2, <2>3, <2>4, <2>5 DEF Landings!Person
<1>8. ASSUME NEW c \in Cards, Landings!Start(c) PROVE Good3
  <2>1. pull' = [pull EXCEPT ![c] = [pull[c] EXCEPT !.state = "open"]] /\ UNCHANGED <<main, asked>>
    BY <1>8, <1>t DEF Landings!Start
  <2>. HIDE DEF Pull, Request
  <2>2. pull' \in [Cards -> Pull]
    BY <1>t, <1>p, <2>1
  <2>. QED  BY <1>t, <2>1, <2>2 DEF Pull, Request
<1>9. ASSUME NEW c \in Cards, Landings!SendUpdate(c) \/ Landings!SendMerge(c) PROVE Good3
  <2>1. run[c].head \in Landings!Heads
    BY DEF Landings!TypeOK, Landings!Run
  <2>2. \E w \in {"update", "merge"} : asked' = asked \/ asked' = [asked EXCEPT ![c] = [what |-> w, head |-> run[c].head]]
    BY <1>9 DEF Landings!SendUpdate, Landings!SendMerge
  <2>3. UNCHANGED <<main, pull>>
    BY <1>9 DEF Landings!SendUpdate, Landings!SendMerge
  <2>4. \A w \in {"update", "merge"} : [what |-> w, head |-> run[c].head] \in Request
    BY <2>1
  <2>. HIDE DEF Request
  <2>5. asked' \in [Cards -> {None} \cup Request]
    BY <1>t, <2>2, <2>4
  <2>. QED  BY <1>t, <2>3, <2>5 DEF Request
<1>10. ASSUME NEW c \in Cards, Landings!Lands(c) PROVE Good3
  <2>1. Landings!Start(c) \/ Landings!SendUpdate(c) \/ Landings!SendMerge(c) \/ UNCHANGED <<main, pull, asked>>
    BY <1>10 DEF Landings!Lands, Landings!github, Landings!ReadMain, Landings!TakeUpdate, Landings!ReadChecks,
         Landings!TakeLock, Landings!CreateLock, Landings!WriteLock, Landings!ReadHolder, Landings!LookUpHolder,
           Landings!CreateMarker,
         Landings!ReadAgain, Landings!ClearLock, Landings!RemoveMarker, Landings!LookAtMain, Landings!ReadAuthority,
         Landings!Confirm, Landings!ReadBack, Landings!Prepare, Landings!Complete, Landings!Hold, Landings!Write,
         Landings!LetGo, Landings!Comment, Landings!Stop, Landings!Dies
  <2>. QED  BY <1>1, <1>8, <1>9, <2>1
<1>. QED  BY <1>4, <1>5, <1>6, <1>7, <1>10 DEF Landings!Next

\* What the host and the cards' threads have keeps its types.
LEMMA HostTypes ==
  ASSUME Landings!TypeOK, Landings!Next
  PROVE  /\ record' \in [Cards -> {None} \cup [state : {"PREPARED", "HOLD", "COMPLETED"}, head : Landings!Heads]]
         /\ landLock' \in {None} \cup [by : Cards, pid : Cards \cup {None}]
         /\ marker' \in Cards \cup {None} /\ people' \in 0 .. MaxPeople /\ deaths' \in 0 .. MaxDeaths
<1>. USE DEF Landings!TypeOK
<1>1. CASE UNCHANGED <<record, landLock, marker, deaths>> /\ people' \in {people, people + 1} /\ (people' # people => people < MaxPeople)
  BY <1>1, LandingsAssumption
<1>2. ASSUME NEW c \in Cards, Landings!Report(c) \/ Landings!ServerUpdates(c) \/ Landings!ServerMerges(c)
      PROVE  UNCHANGED <<record, landLock, marker, deaths, people>>
  BY <1>2 DEF Landings!Report, Landings!ServerUpdates, Landings!ServerMerges, Landings!host, Landings!bounds
<1>3. ASSUME Landings!Person
      PROVE  UNCHANGED <<record, landLock, marker, deaths>> /\ people' = people + 1 /\ people < MaxPeople
  BY <1>3 DEF Landings!Person, Landings!PersonActs, Landings!PersonCommits, Landings!PersonPushes, Landings!PersonUpdates,
              Landings!PersonMerges, Landings!host
<1>4. ASSUME NEW c \in Cards, Landings!Lands(c)
      PROVE  /\ record' \in [Cards -> {None} \cup [state : {"PREPARED", "HOLD", "COMPLETED"}, head : Landings!Heads]]
             /\ landLock' \in {None} \cup [by : Cards, pid : Cards \cup {None}]
             /\ marker' \in Cards \cup {None} /\ people' = people /\ deaths' \in 0 .. MaxDeaths
  <2>1. Landings!Made(c) \in [by : Cards, pid : Cards \cup {None}] /\ Landings!Held(c) \in [by : Cards, pid : Cards \cup {None}]
    BY DEF Landings!Made, Landings!Held
  <2>2. run[c].head \in Landings!Heads
    BY DEF Landings!Run
  <2>3. CASE Landings!TakeLock(c)
    <3>1. /\ landLock' \in {landLock, None, Landings!Made(c), Landings!Held(c)} /\ marker' \in {marker, c, None}
          /\ UNCHANGED <<record, people, deaths>>
      BY <2>3 DEF Landings!TakeLock, Landings!CreateLock, Landings!WriteLock, Landings!ReadHolder, Landings!LookUpHolder,
           Landings!CreateMarker,
           Landings!ReadAgain, Landings!ClearLock, Landings!RemoveMarker, Landings!host, Landings!bounds
    <3>. QED  BY <2>1, <3>1
  <2>4. CASE \E acked \in BOOLEAN : Landings!Prepare(c, acked) \/ Landings!Complete(c, acked) \/ Landings!Hold(c, acked)
    <3>1. /\ landLock' \in {landLock, None} /\ UNCHANGED <<marker, people, deaths>>
          /\ \E s \in {"PREPARED", "HOLD", "COMPLETED"} :
               record' = record \/ record' = [record EXCEPT ![c] = [state |-> s, head |-> run[c].head]]
      BY <2>4 DEF Landings!Prepare, Landings!Complete, Landings!Hold, Landings!Write, Landings!bounds
    <3>. QED  BY <2>2, <3>1
  <2>5. CASE Landings!Dies(c)
    BY <2>5, LandingsAssumption DEF Landings!Dies, Landings!host
  <2>6. CASE \/ Landings!Start(c) \/ Landings!ReadMain(c) \/ Landings!SendUpdate(c) \/ Landings!TakeUpdate(c)
             \/ Landings!ReadChecks(c) \/ Landings!LookAtMain(c) \/ Landings!ReadAuthority(c) \/ Landings!Confirm(c)
             \/ Landings!SendMerge(c) \/ Landings!ReadBack(c) \/ Landings!LetGo(c) \/ Landings!Comment(c) \/ Landings!Stop(c)
    BY <2>6 DEF Landings!Start, Landings!ReadMain, Landings!SendUpdate, Landings!TakeUpdate, Landings!ReadChecks,
         Landings!LookAtMain, Landings!ReadAuthority, Landings!Confirm, Landings!SendMerge, Landings!ReadBack,
         Landings!LetGo, Landings!Comment, Landings!Stop, Landings!host, Landings!bounds
  <2>. QED  BY <1>4, <2>3, <2>4, <2>5, <2>6 DEF Landings!Lands
<1>. QED  BY <1>1, <1>2, <1>3, <1>4 DEF Landings!Next

LEMMA TypesPreserved ==
  ASSUME Landings!TypeOK, RecordInv, Landings!Next
  PROVE  Landings!TypeOK'
<1>1. run' \in [Cards -> Landings!Run]
  <2>1. ASSUME NEW c \in Cards, Landings!Lands(c) PROVE run' \in [Cards -> Landings!Run]
    BY <2>1, RunsOn, RunsIs
  <2>2. ASSUME NEW c \in Cards, Landings!Report(c) \/ Landings!ServerUpdates(c) \/ Landings!ServerMerges(c) PROVE UNCHANGED run
    BY <2>2 DEF Landings!Report, Landings!ServerUpdates, Landings!ServerMerges
  <2>3. ASSUME Landings!Person PROVE UNCHANGED run
    BY <2>3 DEF Landings!Person, Landings!PersonActs, Landings!PersonCommits, Landings!PersonPushes, Landings!PersonUpdates,
                Landings!PersonMerges
  <2>. QED  BY <2>1, <2>2, <2>3 DEF Landings!Next, Landings!TypeOK
<1>. QED  BY <1>1, GitHubTypes, HostTypes DEF Landings!TypeOK

LEMMA LockPreserved ==
  ASSUME Landings!TypeOK, LockInv, RecordInv, Landings!Next
  PROVE  LockInv'
<1>1. ASSUME UNCHANGED <<run, landLock, marker>> PROVE LockInv'
  BY <1>1 DEF LockInv, LockFollows, Landings!OneMergeStep, Landings!InMergeStep, Landings!Held, Landings!Made,
              Landings!Stale, Landings!Alive
<1>2. ASSUME NEW c \in Cards, Landings!Report(c) \/ Landings!ServerUpdates(c) \/ Landings!ServerMerges(c) PROVE LockInv'
  BY <1>1, <1>2 DEF Landings!Report, Landings!ServerUpdates, Landings!ServerMerges, Landings!host
<1>3. ASSUME Landings!Person PROVE LockInv'
  BY <1>1, <1>3 DEF Landings!Person, Landings!PersonActs, Landings!PersonCommits, Landings!PersonPushes,
                    Landings!PersonUpdates, Landings!PersonMerges, Landings!host
<1>4. ASSUME NEW c \in Cards, Landings!Lands(c) PROVE LockInv'
  <2>. DEFINE Early == {"update", "send", "poll", "wait", "comment", "lock", "stale", "proc", "mark"}
  <2>1. \A r : \A to : GoesTo(c, r, to) => Runs(c, r) /\ r.pc = to
    BY DEF GoesTo, Runs
  <2>2. ASSUME UNCHANGED <<landLock, marker>>, run[c].pc \notin {"done", "dead"},
               NEW r, Runs(c, r), r.pc \in Early \cup {"done", "dead"}
        PROVE LockInv'
    BY <2>2, LockKept DEF Landings!MergeStep
  <2>3. ASSUME UNCHANGED <<landLock, marker>>, run[c].pc \in Landings!MergeStep,
               NEW r, Runs(c, r), r.pc \in Landings!MergeStep \cup Early \cup {"done", "dead"}
        PROVE LockInv'
    BY <2>3, LockKept DEF Landings!MergeStep
  <2>4. ASSUME landLock' = None, UNCHANGED marker, run[c].pc \in Landings!MergeStep,
               NEW r, Runs(c, r), r.pc \in Early \cup {"done", "dead"}
        PROVE LockInv'
    BY <2>4, LockReleased DEF Landings!MergeStep
  <2>. HIDE DEF Early
  <2>5. {"update", "send", "poll", "wait", "comment", "lock"} \subseteq Early
    BY DEF Early
  <2>6. CASE Landings!Start(c) \/ Landings!SendUpdate(c)
    <3>1. PICK to \in {"update", "poll", "done"} : Landings!Goto(c, to)
      BY <2>6 DEF Landings!Start, Landings!SendUpdate
    <3>2. UNCHANGED <<landLock, marker>> /\ run[c].pc \notin {"done", "dead"}
      BY <2>6 DEF Landings!Start, Landings!SendUpdate, Landings!host
    <3>3. PICK r : GoesTo(c, r, to)
      BY <3>1, Goes, StepsAreSteps
    <3>. QED  BY <2>1, <2>2, <2>5, <3>2, <3>3
  <2>7. CASE Landings!ReadMain(c) \/ Landings!TakeUpdate(c) \/ Landings!ReadChecks(c)
    <3>1. UNCHANGED <<landLock, marker>> /\ run[c].pc \notin {"done", "dead"}
      BY <2>7 DEF Landings!ReadMain, Landings!TakeUpdate, Landings!ReadChecks, Landings!host
    <3>2. PICK r : Runs(c, r) /\ r.pc \in {"wait", "done", "send", "lock"}
      BY <2>1, <2>7, OwnSteps
    <3>. QED  BY <2>2, <2>5, <3>1, <3>2
  <2>8. CASE Landings!TakeLock(c)
    BY <2>8, TakingTheLock
  <2>9. CASE Landings!LookAtMain(c)
    <3>1. run[c].pc \in Landings!MergeStep /\ UNCHANGED marker
      BY <2>9 DEF Landings!LookAtMain, Landings!MergeStep
    <3>2. CASE UNCHANGED landLock /\ \E r : GoesTo(c, r, "authority")
      BY <2>1, <2>3, <3>1, <3>2 DEF Landings!MergeStep
    <3>3. CASE landLock' = None /\ \E r : GoesTo(c, r, "done")
      BY <2>1, <2>4, <3>1, <3>3
    <3>4. CASE landLock' = None /\ \E r : Runs(c, r) /\ r.pc = "update"
      BY <2>4, <2>5, <3>1, <3>4
    <3>. QED  BY <2>9, <3>2, <3>3, <3>4, MoreSteps
  <2>10. CASE Landings!ReadAuthority(c) \/ Landings!Confirm(c) \/ Landings!SendMerge(c) \/ Landings!ReadBack(c)
    <3>1. run[c].pc \in Landings!MergeStep /\ UNCHANGED <<landLock, marker>>
      BY <2>10 DEF Landings!ReadAuthority, Landings!Confirm, Landings!SendMerge, Landings!ReadBack, Landings!MergeStep, Landings!host
    <3>2. PICK to \in {"prepare", "merge", "complete", "hold", "snapshot"} : Landings!Goto(c, to)
      BY <2>10, AuthorityKnows DEF Landings!ReadAuthority, Landings!Confirm, Landings!SendMerge, Landings!ReadBack
    <3>3. PICK r : GoesTo(c, r, to)
      BY <3>2, Goes, StepsAreSteps
    <3>. QED  BY <2>1, <2>3, <3>1, <3>3 DEF Landings!MergeStep
  <2>11. CASE \E acked \in BOOLEAN : Landings!Prepare(c, acked) \/ Landings!Complete(c, acked) \/ Landings!Hold(c, acked)
    <3>1. PICK acked \in BOOLEAN, to \in {"confirm", "tell"}, s \in {"PREPARED", "HOLD", "COMPLETED"} :
            Landings!Write(c, s, acked, to) /\ run[c].pc \in Landings!MergeStep
      BY <2>11 DEF Landings!Prepare, Landings!Complete, Landings!Hold, Landings!MergeStep
    <3>2. UNCHANGED marker
      BY <3>1 DEF Landings!Write
    <3>3. CASE acked
      <4>1. UNCHANGED landLock /\ Landings!Goto(c, to)
        BY <3>1, <3>3 DEF Landings!Write
      <4>2. PICK r : GoesTo(c, r, to)
        BY <4>1, Goes, StepsAreSteps
      <4>. QED  BY <2>1, <2>3, <3>1, <3>2, <4>1, <4>2 DEF Landings!MergeStep
    <3>4. CASE ~acked
      <4>1. landLock' = None /\ Landings!Goto(c, "done")
        BY <3>1, <3>4 DEF Landings!Write
      <4>2. PICK r : GoesTo(c, r, "done")
        BY <4>1, Goes, StepsAreSteps
      <4>. QED  BY <2>1, <2>4, <3>1, <3>2, <4>1, <4>2
    <3>. QED  BY <3>3, <3>4
  <2>12. CASE Landings!LetGo(c)
    <3>1. run[c].pc \in Landings!MergeStep /\ landLock' = None /\ UNCHANGED marker
      BY <2>12 DEF Landings!LetGo, Landings!MergeStep
    <3>2. PICK to \in {"comment", "done"} : Landings!Goto(c, to)
      BY <2>12 DEF Landings!LetGo
    <3>3. PICK r : GoesTo(c, r, to)
      BY <3>2, Goes, StepsAreSteps
    <3>. QED  BY <2>1, <2>4, <2>5, <3>1, <3>3
  <2>13. CASE Landings!Comment(c)
    <3>1. PICK r : Runs(c, r) /\ r.pc = "done"
      BY <2>13, MoreSteps
    <3>2. UNCHANGED <<landLock, marker>> /\ run[c].pc \notin {"done", "dead"}
      BY <2>13 DEF Landings!Comment, Landings!host
    <3>. QED  BY <2>2, <3>1, <3>2
  <2>14. CASE Landings!Stop(c)
    <3>1. PICK r : GoesTo(c, r, "done")
      BY <2>14, Goes, StepsAreSteps DEF Landings!Stop
    <3>2. UNCHANGED marker /\ landLock' = IF Landings!InMergeStep(c) THEN None ELSE landLock
      BY <2>14 DEF Landings!Stop
    <3>3. run[c].pc \notin {"done", "dead"}
      BY <2>14 DEF Landings!Stop, Landings!Alive
    <3>. QED  BY <2>1, <2>2, <2>4, <3>1, <3>2, <3>3 DEF Landings!InMergeStep
  <2>15. CASE Landings!Dies(c)
    <3>1. PICK r : GoesTo(c, r, "dead")
      BY <2>15, Goes, StepsAreSteps DEF Landings!Dies
    <3>2. UNCHANGED <<landLock, marker>> /\ run[c].pc \notin {"done", "dead"}
      BY <2>15 DEF Landings!Dies, Landings!Alive, Landings!host
    <3>. QED  BY <2>1, <2>2, <3>1, <3>2
  <2>. QED  BY <1>4, <2>6, <2>7, <2>8, <2>9, <2>10, <2>11, <2>12, <2>13, <2>14, <2>15 DEF Landings!Lands
<1>. QED  BY <1>2, <1>3, <1>4 DEF Landings!Next

LEMMA RecordPreserved ==
  ASSUME Landings!TypeOK, RecordInv, Landings!Next
  PROVE  RecordInv'
<1>1. ASSUME NEW c \in Cards, Landings!Report(c) PROVE RecordInv'
  <2>1. UNCHANGED <<main, asked, record, run>> /\ \A d \in Cards : pull'[d].state = pull[d].state /\ pull'[d].head = pull[d].head
    BY <1>1 DEF Landings!Report, Landings!TypeOK
  <2>. QED  BY <2>1 DEF RecordInv, MainFollows, AskedFor, Requested, RunsKnow, RunKnows, RecordTells, OnMain
<1>2. ASSUME NEW c \in Cards, Landings!ServerUpdates(c) PROVE RecordInv'
  BY <1>2, HeadMoved DEF Landings!ServerUpdates
<1>3. ASSUME NEW c \in Cards, Landings!ServerMerges(c) PROVE RecordInv'
  BY <1>3, MergeReaches DEF Landings!ServerMerges
<1>4. ASSUME Landings!Person PROVE RecordInv'
  <2>1. UNCHANGED <<record, run>>
    BY <1>4 DEF Landings!Person, Landings!PersonActs, Landings!PersonCommits, Landings!PersonPushes, Landings!PersonUpdates,
                Landings!PersonMerges
  <2>2. CASE Landings!PersonCommits
    <3>1. PICK T : main' = Append(main, [card |-> None, touches |-> T, by |-> "person", head |-> None])
      BY <2>2 DEF Landings!PersonCommits
    <3>. DEFINE n == Len(main)
                m == [card |-> None, touches |-> T, by |-> "person", head |-> None]
    <3>2. /\ n \in Nat /\ Len(main') = n + 1 /\ main'[n + 1] = m
          /\ \A i \in 1 .. n : main'[i] = main[i]
      BY <3>1 DEF Landings!TypeOK
    <3>3. m.card \notin Cards /\ m.by # "landing"
      BY LandingsAssumption
    <3>. HIDE DEF m, n
    <3>4. (\A i \in 1 .. Len(main') : i \in 1 .. n \/ i = n + 1) /\ \A i \in 1 .. n : i \in 1 .. Len(main')
      BY <3>2
    <3>5. UNCHANGED <<pull, asked>>
      BY <2>2 DEF Landings!PersonCommits
    <3>6. \A h : \A d \in Cards : OnMain(d, h) => OnMain(d, h)'
      <4>. SUFFICES ASSUME NEW d \in Cards, NEW h, OnMain(d, h) PROVE OnMain(d, h)'
        OBVIOUS
      <4>1. PICK i \in 1 .. n : main[i].card = d /\ main[i].head = h /\ h.base = i - 1
        BY DEF OnMain, n
      <4>. QED  BY <3>2, <3>4, <4>1 DEF OnMain
    <3>7. MainFollows'
      BY <3>2, <3>3, <3>4, <3>5 DEF RecordInv, MainFollows, n
    <3>8. AskedFor'
      BY <2>1, <3>2, <3>3, <3>4, <3>5 DEF RecordInv, AskedFor, Requested, n
    <3>9. RunsKnow' /\ RecordTells'
      BY <2>1, <3>6 DEF RecordInv, RunsKnow, RunKnows, RecordTells
    <3>. QED  BY <3>7, <3>8, <3>9 DEF RecordInv
  <2>3. ASSUME NEW c \in Cards, Landings!PersonPushes(c) \/ Landings!PersonUpdates(c) PROVE RecordInv'
    BY <2>1, <2>3, HeadMoved DEF Landings!PersonPushes, Landings!PersonUpdates
  <2>4. ASSUME NEW c \in Cards, Landings!PersonMerges(c) PROVE RecordInv'
    BY <2>1, <2>4, MergeReaches DEF Landings!PersonMerges
  <2>. QED  BY <1>4, <2>2, <2>3, <2>4 DEF Landings!Person
<1>5. ASSUME NEW c \in Cards, Landings!Lands(c) PROVE RecordInv'
  <2>. DEFINE same == UNCHANGED <<main, pull, asked, record>>
  <2>0. RunKnows(c, run[c])
    BY DEF RecordInv, RunsKnow
  <2>1. CASE Landings!Start(c) \/ Landings!SendUpdate(c) \/ Landings!SendMerge(c)
    BY <2>1, AskingPreserves
  <2>2. ASSUME same, NEW r, Runs(c, r),
               \/ \E to \in {"send", "wait", "lock", "proc", "update"} : r.pc = to /\ r.head = run[c].head /\ r.merged = run[c].merged
               \/ r.pc = "wait" /\ r.head.own = "passed" /\ r.merged = run[c].merged,
               run[c].pc \notin Asking \cup {"comment", "done", "dead"}
        PROVE RecordInv'
    <3>1. RunKnows(c, r)
      BY <2>0, <2>2 DEF RunKnows
    <3>. QED  BY <2>2, <3>1, RecordKept DEF Asking
  <2>3. CASE Landings!ReadMain(c)
    <3>1. same
      BY <2>3 DEF Landings!ReadMain, Landings!github
    <3>2. PICK r, to : to \in {"wait", "done", "send"} /\ GoesTo(c, r, to) /\ run[c].pc = "update"
      BY <2>3, OwnSteps
    <3>. QED  BY <3>1, <3>2, GoesOn DEF Asking
  <2>4. CASE Landings!TakeUpdate(c) \/ Landings!ReadChecks(c)
    <3>1. same /\ run[c].pc \in {"poll", "wait"}
      BY <2>4 DEF Landings!TakeUpdate, Landings!ReadChecks, Landings!github
    <3>2. PICK r : \/ GoesTo(c, r, "done")
                   \/ Runs(c, r) /\ r.pc = "wait" /\ r.head.own = "passed" /\ r.merged = run[c].merged
                   \/ Runs(c, r) /\ r.pc \in {"wait", "lock"} /\ r.head = run[c].head /\ r.merged = run[c].merged
      BY <2>4, OwnSteps
    <3>3. CASE GoesTo(c, r, "done")
      BY <3>1, <3>3, GoesOn
    <3>4. CASE Runs(c, r) /\ ~GoesTo(c, r, "done")
      BY <2>2, <3>1, <3>2, <3>4 DEF Asking
    <3>. QED  BY <3>2, <3>3, <3>4
  <2>5. CASE Landings!TakeLock(c)
    <3>1. same /\ run[c].pc \in {"lock", "write", "stale", "proc", "mark", "again", "clear", "unmark"}
      BY <2>5 DEF Landings!TakeLock, Landings!CreateLock, Landings!WriteLock, Landings!ReadHolder, Landings!LookUpHolder,
           Landings!CreateMarker,
           Landings!ReadAgain, Landings!ClearLock, Landings!RemoveMarker, Landings!github
    <3>2. \/ \E to \in {"write", "stale", "mark", "fresh", "again", "clear", "unmark"} : Landings!Goto(c, to)
          \/ Landings!ReadHolder(c) \/ Landings!LockAgain(c)
      BY <2>5 DEF Landings!TakeLock, Landings!CreateLock, Landings!WriteLock, Landings!LookUpHolder, Landings!CreateMarker,
           Landings!ReadAgain, Landings!ClearLock, Landings!RemoveMarker
    <3>3. ASSUME NEW to \in {"write", "stale", "mark", "fresh", "again", "clear", "unmark"}, Landings!Goto(c, to) PROVE RecordInv'
      <4>1. PICK r : GoesTo(c, r, to)
        BY <3>3, Goes, StepsAreSteps
      <4>. QED  BY <3>1, <4>1, GoesOn DEF Asking
    <3>4. CASE Landings!ReadHolder(c) \/ Landings!LockAgain(c)
      <4>1. PICK r : Runs(c, r) /\ r.pc \in {"proc", "lock"} /\ r.head = run[c].head /\ r.merged = run[c].merged
        BY <3>4, OwnSteps, MoreSteps
      <4>. QED  BY <2>2, <3>1, <4>1 DEF Asking
    <3>. QED  BY <3>2, <3>3, <3>4
  <2>6. CASE Landings!LookAtMain(c)
    <3>1. same /\ run[c].pc = "fresh"
      BY <2>6 DEF Landings!LookAtMain, Landings!github
    <3>2. CASE \E r : GoesTo(c, r, "authority") \/ GoesTo(c, r, "done")
      BY <3>1, <3>2, GoesOn DEF Asking
    <3>3. CASE \E r : Runs(c, r) /\ r.pc = "update" /\ r.head = run[c].head /\ r.merged = run[c].merged
      BY <2>2, <3>1, <3>3 DEF Asking
    <3>. QED  BY <2>6, <3>2, <3>3, MoreSteps
  <2>7. CASE Landings!ReadAuthority(c) \/ Landings!Confirm(c) \/ Landings!ReadBack(c)
    <3>1. same /\ run[c].pc \in {"authority", "confirm", "snapshot"}
      BY <2>7 DEF Landings!ReadAuthority, Landings!Confirm, Landings!ReadBack, Landings!github
    <3>2. PICK to \in {"complete", "hold", "prepare", "merge"} :
            /\ Landings!Goto(c, to) /\ (to = "complete" => OnMain(c, run[c].head))
            /\ (to = "merge" => run[c].pc = "confirm")
            /\ (to \in {"prepare", "merge"} => run[c].pc # "snapshot")
      <4>1. CASE Landings!ReadAuthority(c)
        BY <4>1, AuthorityKnows DEF Landings!ReadAuthority
      <4>2. CASE Landings!Confirm(c)
        BY <4>2, AuthorityKnows DEF Landings!Confirm
      <4>3. CASE Landings!ReadBack(c)
        <5>1. Landings!MergedAt(c, run[c].head) /\ Landings!TreeLanded(c, run[c].head) => OnMain(c, run[c].head)
          BY DEF Landings!MergedAt, Landings!TreeLanded, OnMain, RecordInv, MainFollows
        <5>. QED  BY <4>3, <5>1 DEF Landings!ReadBack
      <4>. QED  BY <2>7, <4>1, <4>2, <4>3
    <3>3. PICK r : GoesTo(c, r, to)
      BY <3>2, Goes, StepsAreSteps
    <3>4. Runs(c, r) /\ r.pc = to /\ r.head = run[c].head /\ r.merged = run[c].merged
      BY <3>3 DEF GoesTo, Runs
    <3>5. RunKnows(c, r)
      BY <2>0, <3>1, <3>2, <3>4 DEF RunKnows
    <3>. QED  BY <3>1, <3>2, <3>4, <3>5, RecordKept DEF Asking
  <2>8. CASE \E acked \in BOOLEAN : Landings!Prepare(c, acked) \/ Landings!Complete(c, acked) \/ Landings!Hold(c, acked)
    <3>1. PICK acked \in BOOLEAN : Landings!Prepare(c, acked) \/ Landings!Complete(c, acked) \/ Landings!Hold(c, acked)
      BY <2>8
    <3>2. CASE Landings!Prepare(c, acked)
      BY <3>2, RecordWritten DEF Landings!Prepare
    <3>3. CASE Landings!Complete(c, acked)
      BY <3>3, RecordWritten DEF Landings!Complete
    <3>4. CASE Landings!Hold(c, acked)
      BY <3>4, RecordWritten DEF Landings!Hold
    <3>. QED  BY <3>1, <3>2, <3>3, <3>4
  <2>9. CASE Landings!LetGo(c)
    <3>1. same /\ run[c].pc = "tell"
      BY <2>9 DEF Landings!LetGo, Landings!github
    <3>2. PICK to \in {"comment", "done"} : Landings!Goto(c, to) /\ (to = "comment" => record[c].state = "COMPLETED")
      BY <2>9 DEF Landings!LetGo
    <3>3. PICK r : GoesTo(c, r, to)
      BY <3>2, Goes, StepsAreSteps
    <3>4. Runs(c, r) /\ r.pc = to /\ r.head.own = "passed" /\ (to = "comment" => r.merged = run[c].merged) /\ (to = "done" => ~r.merged)
      BY <2>0, <3>3 DEF GoesTo, Runs, RunKnows
    <3>5. RunKnows(c, r)
      BY <2>0, <3>1, <3>2, <3>4 DEF RunKnows
    <3>. QED  BY <3>1, <3>4, <3>5, RecordKept DEF Asking
  <2>10. CASE Landings!Comment(c)
    <3>1. same /\ run[c].pc = "comment"
      BY <2>10 DEF Landings!Comment, Landings!github
    <3>2. PICK r : Runs(c, r) /\ r.pc = "done" /\ r.head.own = "passed" /\ r.merged
      BY <2>10, MoreSteps
    <3>3. RunKnows(c, r)
      BY <2>0, <3>1, <3>2 DEF RunKnows
    <3>. QED  BY <3>1, <3>2, <3>3, RecordKept DEF Asking
  <2>11. CASE Landings!Stop(c) \/ Landings!Dies(c)
    <3>1. same
      BY <2>11 DEF Landings!Stop, Landings!Dies, Landings!github
    <3>2. PICK to \in {"done", "dead"} : Landings!Goto(c, to)
      BY <2>11 DEF Landings!Stop, Landings!Dies
    <3>3. PICK r : GoesTo(c, r, to)
      BY <3>2, Goes, StepsAreSteps
    <3>. QED  BY <3>1, <3>3, GoesOn
  <2>. QED  BY <1>5, <2>1, <2>3, <2>4, <2>5, <2>6, <2>7, <2>8, <2>9, <2>10, <2>11 DEF Landings!Lands
<1>. QED  BY <1>1, <1>2, <1>3, <1>4, <1>5 DEF Landings!Next

-----------------------------------------------------------------------------
(* The theorems                                                            *)

LEMMA LandingsStart == Landings!Init => LandingsInv
<1>. SUFFICES ASSUME Landings!Init PROVE LandingsInv
  OBVIOUS
<1>1. Landings!TypeOK
  BY Known, LandingsAssumption DEF Landings!Init, Landings!TypeOK
<1>2. LockInv
  BY Known DEF Landings!Init, LockInv, LockFollows, Landings!OneMergeStep, Landings!InMergeStep, Landings!MergeStep
<1>3. main = <<>> /\ Len(main) = 0
  BY DEF Landings!Init
<1>4. RecordInv
  BY <1>3, Known DEF Landings!Init, RecordInv, MainFollows, AskedFor, Requested, RunsKnow, RunKnows, RecordTells
<1>. QED  BY <1>1, <1>2, <1>4 DEF LandingsInv

LEMMA LandingsGoOn == LandingsInv /\ [Landings!Next]_landings => LandingsInv'
<1>. SUFFICES ASSUME LandingsInv, [Landings!Next]_landings PROVE LandingsInv'
  OBVIOUS
<1>1. CASE Landings!Next
  BY <1>1, TypesPreserved, LockPreserved, RecordPreserved DEF LandingsInv
<1>2. CASE UNCHANGED landings
  <2>1. Landings!TypeOK' /\ LockInv'
    BY <1>2 DEF LandingsInv, landings, Landings!TypeOK, LockInv, LockFollows, Landings!OneMergeStep, Landings!InMergeStep,
                Landings!Held, Landings!Made, Landings!Stale, Landings!Alive
  <2>2. RecordInv'
    BY <1>2 DEF LandingsInv, landings, RecordInv, MainFollows, AskedFor, Requested, RunsKnow, RunKnows, RecordTells, OnMain
  <2>. QED  BY <2>1, <2>2 DEF LandingsInv
<1>. QED  BY <1>1, <1>2

\* The invariant of the landings holds always.
THEOREM LandingsInvariance == AllSpec => []LandingsInv
<1>1. AllInit => LandingsInv
  BY LandingsStart DEF AllInit
<1>2. LandingsInv /\ [AllNext]_<<part, vars, ticks, landings>> => LandingsInv'
  BY LandingsGoOn DEF AllNext
<1>. QED  BY <1>1, <1>2, PTL DEF AllSpec

\* card-land.mjs: a lock that a live landing took is never moved or removed, and
\* two landings never are in the merge step.
THEOREM OneMergeStepHolds == AllSpec => []OneMergeStep
<1>1. LandingsInv => OneMergeStep
  BY DEF LandingsInv, LockInv, OneMergeStep
<1>. QED  BY <1>1, LandingsInvariance, PTL

\* card-land.mjs, merge-readiness.mjs: what a landing merged are the files the
\* review passed, on the main they were checked with, after a record of this
\* head; a record of completion, and the report of a run, tell of such a merge.
THEOREM LandsAsReviewedHolds == AllSpec => []LandsAsReviewed
<1>1. ASSUME LandingsInv PROVE Landings!LandsAsReviewed
  BY <1>1 DEF LandingsInv, RecordInv, AskedFor, Requested, RunsKnow, RunKnows, RecordTells, OnMain, Landings!LandsAsReviewed
<1>2. LandingsInv => LandsAsReviewed
  BY <1>1 DEF LandsAsReviewed
<1>. QED  BY <1>2, LandingsInvariance, PTL

-----------------------------------------------------------------------------
(* The ticks: the inductive invariant                                      *)

Receipts == [stage : {"COMPLETED", "FAILED", "HOLD", "RESERVED", "LAUNCH_UNKNOWN", "RUNNING"}, why : Ticks!Whys]
TickType == {Ticks!Idle}
  \cup [pc : {"life", "reserved", "intent"}, episode : Ticks!Episodes, todo : SUBSET Ticks!Attempts, freed : BOOLEAN]
  \cup [pc : {"post"}, at : Ticks!Attempts, next : Receipts, then : {"life", "reserved", "intent", "idle"},
        episode : Ticks!Episodes, todo : SUBSET Ticks!Attempts, freed : BOOLEAN]

\* An episode that is in force, ticked or has receipts is on a card.
OnACard ==
  /\ armed # 0 => issue[armed] # None
  /\ tick.pc # "idle" => issue[tick.episode] # None
  /\ \A a \in Ticks!Attempts : thread[a] # None => issue[a[1]] # None

\* Nobody works for an attempt, or will.
AtNoWork(a) == sup[a] \notin {"accepted", "stuck", "running"} /\ a \notin alive

\* What a tick is about to write is still so when it is written: a reservation
\* is of an attempt that has none, on a free card, with a slot left; any other
\* receipt follows an open one; what gives an attempt up has no worker.
WriteFollows(a, r, then, e) ==
  /\ r.stage = "RESERVED" =>
       /\ Ticks!Stage(a) \in {"NONE", "FAILED"} /\ AtNoWork(a) /\ a[1] = e
       /\ Cardinality(Ticks!Actives) < MaxDispatch /\ Ticks!ActiveOn(issue[e]) = {}
       /\ a[2] > 1 => Ticks!Routes(<<a[1], a[2] - 1>>)
  /\ r.stage # "RESERVED" => Ticks!Active(a)
  /\ r.stage \in Ticks!TERMINAL_STAGES => AtNoWork(a) \/ (r.stage = "HOLD" /\ r.why \in {"held", "contact"})
  /\ r.stage = "FAILED" => fails[a] < MaxFails
  /\ then = "reserved" => r.stage = "RESERVED"
  /\ then = "intent" => r.stage = "LAUNCH_UNKNOWN" /\ AtNoWork(a)
PostFollows == tick.pc = "post" => WriteFollows(tick.at, tick.next, tick.then, tick.episode)
IntentFollows == tick.pc = "intent" => \A a \in tick.todo : Ticks!Stage(a) = "LAUNCH_UNKNOWN" /\ AtNoWork(a)

TicksInv ==
  /\ Ticks!TypeOK /\ tick \in TickType /\ OnACard
  /\ \A a \in alive : sup[a] \in {"running", "held"}
  /\ Ticks!NobodyWorksUnseen /\ Ticks!StepsFollow
  /\ PostFollows /\ IntentFollows

\* The cardinality the module of the ticks counts with.
LEMMA SameCardinality == \A S : Ticks!Cardinality(S) = Cardinality(S)
  BY DEF Ticks!Cardinality, Cardinality

LEMMA TickShape ==
  ASSUME tick \in TickType
  PROVE  /\ tick.pc \in {"idle", "life", "post", "reserved", "intent"}
         /\ tick.pc = "idle" <=> tick = Ticks!Idle
         /\ tick.pc # "idle" => tick.episode \in Ticks!Episodes /\ tick.todo \in SUBSET Ticks!Attempts /\ tick.freed \in BOOLEAN
         /\ tick.pc = "post" => /\ tick.at \in Ticks!Attempts /\ tick.next \in Receipts
                                /\ tick.then \in {"life", "reserved", "intent", "idle"}
  BY DEF TickType, Ticks!Idle

LEMMA AttemptsAre ==
  /\ IsFiniteSet(Ticks!Attempts)
  /\ \A a \in Ticks!Attempts : /\ a[1] \in Ticks!Episodes /\ a[2] \in Nat /\ a = <<a[1], a[2]>>
                               /\ a[2] > 1 => <<a[1], a[2] - 1>> \in Ticks!Attempts /\ <<a[1], a[2] - 1>> # a
<1>1. IsFiniteSet(Ticks!Episodes) /\ IsFiniteSet(1 .. 2 * MaxRevise + 2)
  BY FS_Interval, TicksAssumption DEF Ticks!Episodes
<1>2. IsFiniteSet(Ticks!Attempts)
  BY <1>1, FS_Product DEF Ticks!Attempts
<1>3. ASSUME NEW a \in Ticks!Attempts
      PROVE  /\ a[1] \in Ticks!Episodes /\ a[2] \in Nat /\ a = <<a[1], a[2]>>
             /\ a[2] > 1 => <<a[1], a[2] - 1>> \in Ticks!Attempts /\ <<a[1], a[2] - 1>> # a
  <2>1. PICK e \in Ticks!Episodes, k \in 1 .. 2 * MaxRevise + 2 : a = <<e, k>>
    BY DEF Ticks!Attempts
  <2>2. a[1] = e /\ a[2] = k /\ k \in Nat
    BY <2>1, TicksAssumption
  <2>3. k > 1 => k - 1 \in 1 .. 2 * MaxRevise + 2 /\ k - 1 # k
    BY <2>1, TicksAssumption
  <2>. QED  BY <2>1, <2>2, <2>3 DEF Ticks!Attempts
<1>. QED  BY <1>2, <1>3

\* What is read in the thread stays while no receipt is written.
LEMMA ThreadRead ==
  ASSUME UNCHANGED <<thread, issue>>
  PROVE  /\ Ticks!Actives' = Ticks!Actives
         /\ \A a : Ticks!Stage(a)' = Ticks!Stage(a) /\ Ticks!Active(a)' = Ticks!Active(a) /\ Ticks!Routes(a)' = Ticks!Routes(a)
         /\ \A i : Ticks!ActiveOn(i)' = Ticks!ActiveOn(i)
<1>1. \A a : Ticks!Stage(a)' = Ticks!Stage(a) /\ Ticks!Active(a)' = Ticks!Active(a)
  BY DEF Ticks!Stage, Ticks!Active
<1>2. Ticks!Actives' = Ticks!Actives /\ \A i : Ticks!ActiveOn(i)' = Ticks!ActiveOn(i)
  BY <1>1 DEF Ticks!Actives, Ticks!ActiveOn, Ticks!CardOf
<1>3. \A a : Ticks!Routes(a)' = Ticks!Routes(a)
  BY <1>1 DEF Ticks!Routes, Ticks!Coherent, Ticks!Blocked
<1>. QED  BY <1>1, <1>2, <1>3

\* The tick goes on and writes nothing, and the workers may stop working.
LEMMA TickGoesOn ==
  ASSUME TicksInv, UNCHANGED <<thread, issue, fails>>, armed' \in {armed, 0},
         tick' \in TickType, tick'.pc # "idle" => issue[tick'.episode] # None,
         sup' \in [Ticks!Attempts -> Ticks!SupStates], alive' \in SUBSET Ticks!Attempts,
         result' \in [Ticks!Attempts -> {None, "ok", "blocked", "none", "busy"}],
         \A a \in Ticks!Attempts : sup'[a] = "done" <=> result'[a] # None,
         \A a \in alive' : sup'[a] \in {"running", "held"},
         \A a \in Ticks!Attempts : AtNoWork(a) => AtNoWork(a)' \/ Ticks!Stage(a) = "LAUNCH_UNKNOWN",
         PostFollows', IntentFollows'
  PROVE  TicksInv'
<1>1. Ticks!TypeOK'
  <2>1. tick'.pc \in {"idle", "life", "post", "reserved", "intent"}
        /\ (tick'.pc # "idle" => tick'.todo \subseteq Ticks!Attempts /\ tick'.freed \in BOOLEAN)
    BY DEF TickType, Ticks!Idle
  <2>. QED  BY <2>1 DEF TicksInv, Ticks!TypeOK
<1>2. OnACard'
  BY DEF TicksInv, OnACard
<1>3. Ticks!NobodyWorksUnseen'
  <2>1. \A a \in Ticks!Attempts : sup'[a] \in {"accepted", "stuck", "running"} \/ a \in alive' =>
          Ticks!Stage(a) \in {"LAUNCH_UNKNOWN", "RUNNING"} \/ (Ticks!Stage(a) = "HOLD" /\ thread[a].why \in {"held", "contact"})
    BY DEF TicksInv, Ticks!NobodyWorksUnseen, AtNoWork
  <2>. QED  BY <2>1, ThreadRead DEF TicksInv, Ticks!NobodyWorksUnseen
<1>4. Ticks!StepsFollow'
  BY ThreadRead DEF TicksInv, Ticks!StepsFollow
<1>. QED  BY <1>1, <1>2, <1>3, <1>4 DEF TicksInv

\* A tick begins to write a receipt.
LEMMA TickWrites ==
  ASSUME TicksInv, tick.pc # "idle", NEW a \in Ticks!Attempts, NEW r \in Receipts,
         NEW then \in {"life", "reserved", "intent", "idle"}, Ticks!Send(a, r, then)
  PROVE  /\ tick' \in TickType /\ tick'.pc = "post" /\ tick'.at = a /\ tick'.next = r /\ tick'.then = then
         /\ tick'.episode = tick.episode
<1>1. tick.episode \in Ticks!Episodes /\ tick.todo \in SUBSET Ticks!Attempts /\ tick.freed \in BOOLEAN
  BY TickShape DEF TicksInv
<1>2. PICK left \in SUBSET Ticks!Attempts :
        tick' = [pc |-> "post", at |-> a, next |-> r, then |-> then, episode |-> tick.episode,
                 freed |-> tick.freed, todo |-> left]
  BY <1>1 DEF Ticks!Send
<1>. QED  BY <1>1, <1>2 DEF TickType

\* What the supervisor and the workers do not change keeps the invariant.
LEMMA TickWritesQuietly ==
  ASSUME TicksInv, tick.pc # "idle", NEW a \in Ticks!Attempts, NEW r \in Receipts,
         NEW then \in {"life", "reserved", "intent", "idle"}, Ticks!Send(a, r, then), Ticks!Quiet,
         WriteFollows(a, r, then, tick.episode)
  PROVE  TicksInv'
<1>1. UNCHANGED <<thread, issue, armed, sup, result, alive, fails>>
  BY DEF Ticks!Quiet, Ticks!world
<1>2. PostFollows'
  BY <1>1, TickWrites, ThreadRead DEF PostFollows, WriteFollows, AtNoWork
<1>3. IntentFollows' /\ tick' \in TickType /\ tick'.pc # "idle" /\ issue[tick'.episode] # None
  BY TickWrites DEF IntentFollows, TicksInv, OnACard
<1>4. \A b \in Ticks!Attempts : AtNoWork(b) => AtNoWork(b)'
  BY <1>1 DEF AtNoWork
<1>5. /\ sup' \in [Ticks!Attempts -> Ticks!SupStates] /\ alive' \in SUBSET Ticks!Attempts
      /\ result' \in [Ticks!Attempts -> {None, "ok", "blocked", "none", "busy"}]
      /\ \A b \in Ticks!Attempts : sup'[b] = "done" <=> result'[b] # None
      /\ \A b \in alive' : sup'[b] \in {"running", "held"}
  BY <1>1 DEF TicksInv, Ticks!TypeOK
<1>. QED  BY <1>1, <1>2, <1>3, <1>4, <1>5, TickGoesOn

\* A tick that neither writes nor has its launch intent written.
LEMMA TickReads ==
  ASSUME TicksInv, tick' \in TickType, tick'.pc \in {"idle", "life", "reserved"},
         tick'.pc # "idle" => issue[tick'.episode] # None, Ticks!Quiet
  PROVE  TicksInv'
<1>1. UNCHANGED <<thread, issue, armed, sup, result, alive, fails>>
  BY DEF Ticks!Quiet, Ticks!world
<1>2. PostFollows' /\ IntentFollows'
  BY DEF PostFollows, IntentFollows
<1>4. \A b \in Ticks!Attempts : AtNoWork(b) => AtNoWork(b)'
  BY <1>1 DEF AtNoWork
<1>5. /\ sup' \in [Ticks!Attempts -> Ticks!SupStates] /\ alive' \in SUBSET Ticks!Attempts
      /\ result' \in [Ticks!Attempts -> {None, "ok", "blocked", "none", "busy"}]
      /\ \A b \in Ticks!Attempts : sup'[b] = "done" <=> result'[b] # None
      /\ \A b \in alive' : sup'[b] \in {"running", "held"}
  BY <1>1 DEF TicksInv, Ticks!TypeOK
<1>. QED  BY <1>1, <1>2, <1>4, <1>5, TickGoesOn

-----------------------------------------------------------------------------
(* What a tick reads and decides                                           *)

\* A receipt that may be polled, launched or released.
LEMMA TurnIs ==
  ASSUME TicksInv, NEW a \in Ticks!Attempts, NEW s \in {"RESERVED", "LAUNCH_UNKNOWN", "RUNNING"}, Ticks!Turn(a, s)
  PROVE  tick.pc = "life" /\ a \in tick.todo /\ Ticks!Stage(a) = s /\ Ticks!Active(a)
  BY DEF Ticks!Turn, Ticks!Active

\* Nobody works for an attempt whose receipt is not of a launch.
LEMMA UnlaunchedAtNoWork ==
  ASSUME TicksInv, NEW a \in Ticks!Attempts, Ticks!Stage(a) \in {"NONE", "RESERVED", "FAILED"}
  PROVE  AtNoWork(a)
  BY DEF TicksInv, Ticks!NobodyWorksUnseen, AtNoWork

LEMMA TickKnows ==
  ASSUME TicksInv, tick.pc # "idle"
  PROVE  tick.episode \in Ticks!Episodes /\ issue[tick.episode] # None
  BY TickShape DEF TicksInv, OnACard

LEMMA TickAt ==
  ASSUME TicksInv, tick.pc # "idle", NEW a \in Ticks!Attempts, NEW to \in {"life", "reserved", "intent"}
  PROVE  /\ Ticks!At(to, a) \in TickType /\ Ticks!At(to, a).pc = to
         /\ Ticks!At(to, a).episode = tick.episode /\ Ticks!At(to, a).todo = {a}
  BY TickKnows DEF Ticks!At, Ticks!Tick, TickType

LEMMA ReceiptsAre ==
  /\ \A s \in {"COMPLETED", "FAILED", "HOLD", "RESERVED", "LAUNCH_UNKNOWN", "RUNNING"} : \A w \in Ticks!Whys :
       Ticks!Receipt(s, w) \in Receipts /\ Ticks!Receipt(s, w).stage = s /\ Ticks!Receipt(s, w).why = w
  /\ {"verdict", "unlaunched", "never_admitted", "refused", "held", "contact", "evidence", "busy", "open"} = Ticks!Whys
  BY DEF Receipts, Ticks!Receipt, Ticks!Whys

LEMMA LifeCycle ==
  ASSUME TicksInv
  PROVE  /\ Ticks!Begin \/ Ticks!Die \/ Ticks!Defer => TicksInv'
         /\ \A a \in Ticks!Attempts : Ticks!Skip(a) \/ Ticks!ReleaseStranded(a) \/ Ticks!ReleaseDisowned(a) \/ Ticks!PollFails(a) => TicksInv'
<1>1. CASE Ticks!Begin
  <2>1. /\ tick' = [pc |-> "life", episode |-> armed, todo |-> Ticks!Actives, freed |-> FALSE]
        /\ armed \in Ticks!Episodes /\ issue[armed] # None /\ Ticks!Actives \in SUBSET Ticks!Attempts
    BY <1>1 DEF Ticks!Begin, Ticks!Tick, Ticks!Armed, TicksInv, Ticks!TypeOK, OnACard, Ticks!Actives
  <2>2. Ticks!Quiet /\ tick' \in TickType /\ tick'.pc = "life" /\ tick'.episode = armed /\ UNCHANGED issue
    <3>1. Ticks!Quiet /\ UNCHANGED issue
      BY <1>1 DEF Ticks!Begin, Ticks!Quiet, Ticks!world
    <3>. QED  BY <2>1, <3>1 DEF TickType
  <2>. QED  BY <2>1, <2>2, TickReads
<1>2. CASE Ticks!Die \/ Ticks!Defer
  <2>1. tick' = Ticks!Idle /\ Ticks!Quiet /\ tick' \in TickType /\ tick'.pc = "idle"
    BY <1>2 DEF Ticks!Die, Ticks!Defer, Ticks!Quiet, TickType, Ticks!Idle
  <2>. QED  BY <2>1, TickReads
<1>3. ASSUME NEW a \in Ticks!Attempts, Ticks!Skip(a) PROVE TicksInv'
  <2>1. PICK s \in {"RESERVED", "LAUNCH_UNKNOWN", "RUNNING"} : Ticks!Turn(a, s)
    BY <1>3 DEF Ticks!Skip
  <2>2. tick.pc = "life" /\ tick' = [tick EXCEPT !.todo = @ \ {a}] /\ Ticks!Quiet /\ UNCHANGED issue
    BY <1>3, <2>1, TurnIs DEF Ticks!Skip, Ticks!Quiet
  <2>3. tick' \in TickType /\ tick'.pc = "life" /\ tick'.episode = tick.episode
    BY <2>2 DEF TicksInv, TickType, Ticks!Idle
  <2>. QED  BY <2>2, <2>3, TickKnows, TickReads
<1>4. ASSUME NEW a \in Ticks!Attempts, Ticks!ReleaseStranded(a) PROVE TicksInv'
  <2>1. tick.pc = "life" /\ Ticks!Active(a) /\ Ticks!Stage(a) = "RESERVED" /\ Ticks!Quiet
        /\ Ticks!Send(a, Ticks!Receipt("HOLD", "unlaunched"), "life")
    BY <1>4, TurnIs DEF Ticks!ReleaseStranded
  <2>2. WriteFollows(a, Ticks!Receipt("HOLD", "unlaunched"), "life", tick.episode)
    BY <2>1, UnlaunchedAtNoWork, ReceiptsAre DEF WriteFollows
  <2>. QED  BY <2>1, <2>2, ReceiptsAre, TickWritesQuietly
<1>5. ASSUME NEW a \in Ticks!Attempts, Ticks!ReleaseDisowned(a) PROVE TicksInv'
  <2>1. tick.pc = "life" /\ Ticks!Active(a) /\ sup[a] = "refused" /\ Ticks!Quiet
        /\ Ticks!Send(a, Ticks!Receipt("HOLD", "never_admitted"), "life")
    BY <1>5, TurnIs DEF Ticks!ReleaseDisowned, Ticks!Disowns
  <2>2. AtNoWork(a)
    BY <2>1 DEF AtNoWork, TicksInv
  <2>3. WriteFollows(a, Ticks!Receipt("HOLD", "never_admitted"), "life", tick.episode)
    BY <2>1, <2>2, ReceiptsAre DEF WriteFollows
  <2>. QED  BY <2>1, <2>3, ReceiptsAre, TickWritesQuietly
<1>6. ASSUME NEW a \in Ticks!Attempts, Ticks!PollFails(a) PROVE TicksInv'
  <2>1. tick.pc = "life" /\ Ticks!Active(a) /\ Ticks!Quiet
        /\ Ticks!Send(a, Ticks!Receipt("HOLD", "contact"), "life")
    BY <1>6, TurnIs DEF Ticks!PollFails
  <2>3. WriteFollows(a, Ticks!Receipt("HOLD", "contact"), "life", tick.episode)
    BY <2>1, ReceiptsAre DEF WriteFollows
  <2>. QED  BY <2>1, <2>3, ReceiptsAre, TickWritesQuietly
<1>. QED  BY <1>1, <1>2, <1>3, <1>4, <1>5, <1>6

\* A verdict, or a hold, of a run that is over.
LEMMA PollPreserves ==
  ASSUME TicksInv, NEW a \in Ticks!Attempts, Ticks!Poll(a)
  PROVE  TicksInv'
<1>1. tick.pc = "life" /\ Ticks!Active(a) /\ sup[a] \in {"held", "done"} /\ Ticks!Quiet
  BY TurnIs DEF Ticks!Poll
<1>2. PICK r \in Ticks!Outcomes(a) : (r.stage = "FAILED" => fails[a] < MaxFails) /\ Ticks!Send(a, r, "life")
  BY DEF Ticks!Poll
<1>3. /\ r \in Receipts /\ r.stage \in Ticks!TERMINAL_STAGES
      /\ sup[a] = "held" => r.stage = "HOLD" /\ r.why = "held"
  <2>1. CASE sup[a] = "held"
    <3>1. result[a] = None /\ None \notin {"ok", "blocked", "none"}
      BY <2>1, TicksAssumption DEF TicksInv, Ticks!TypeOK
    <3>2. Ticks!Outcomes(a) = {Ticks!Receipt("HOLD", "held")}
      BY <2>1, <3>1 DEF Ticks!Outcomes
    <3>3. r = Ticks!Receipt("HOLD", "held")
      BY <1>2, <3>2
    <3>. QED  BY <3>3, ReceiptsAre DEF Ticks!TERMINAL_STAGES
  <2>2. CASE sup[a] # "held"
    <3>1. r \in {Ticks!Receipt("COMPLETED", "verdict"), Ticks!Receipt("HOLD", "evidence"),
                 Ticks!Receipt("HOLD", "verdict"), Ticks!Receipt("FAILED", "busy")}
      BY <2>2, <1>2 DEF Ticks!Outcomes
    <3>. QED  BY <3>1, <2>2, ReceiptsAre DEF Ticks!TERMINAL_STAGES
  <2>. QED  BY <2>1, <2>2
<1>4. sup[a] = "done" => AtNoWork(a)
  BY DEF AtNoWork, TicksInv
<1>5. WriteFollows(a, r, "life", tick.episode)
  BY <1>1, <1>2, <1>3, <1>4 DEF WriteFollows, Ticks!TERMINAL_STAGES
<1>. QED  BY <1>1, <1>2, <1>3, <1>5, TickWritesQuietly

-----------------------------------------------------------------------------
(* The dispatch                                                            *)

LEMMA DispatchPreserves ==
  ASSUME TicksInv, NEW a \in Ticks!Attempts
  PROVE  Ticks!Resume(a) \/ Ticks!Reserve(a) \/ Ticks!Intend(a) \/ Ticks!HoldLaunch(a) => TicksInv'
<1>1. ASSUME Ticks!Resume(a) PROVE TicksInv'
  <2>1. tick.pc = "life" /\ Ticks!Stage(a) = "RESERVED" /\ Ticks!Active(a) /\ Ticks!Quiet /\ UNCHANGED issue
    BY <1>1 DEF Ticks!Resume, Ticks!Ready, Ticks!Resumable, Ticks!Active, Ticks!Quiet
  <2>2. CASE tick' = Ticks!At("reserved", a)
    <3>1. tick' \in TickType /\ tick'.pc = "reserved" /\ issue[tick'.episode] # None
      BY <2>1, <2>2, TickAt, TickKnows
    <3>. QED  BY <2>1, <3>1, TickReads
  <2>3. CASE Ticks!Send(a, Ticks!Receipt("HOLD", "unlaunched"), "idle")
    <3>1. WriteFollows(a, Ticks!Receipt("HOLD", "unlaunched"), "idle", tick.episode)
      BY <2>1, UnlaunchedAtNoWork, ReceiptsAre DEF WriteFollows
    <3>. QED  BY <2>1, <2>3, <3>1, ReceiptsAre, TickWritesQuietly
  <2>. QED  BY <1>1, <2>2, <2>3 DEF Ticks!Resume
<1>2. ASSUME Ticks!Reserve(a) PROVE TicksInv'
  <2>1. /\ tick.pc = "life" /\ a \in Ticks!Due(tick.episode) /\ Ticks!Quiet
        /\ Cardinality(Ticks!Actives) < MaxDispatch /\ Ticks!ActiveOn(issue[tick.episode]) = {}
        /\ Ticks!Send(a, Ticks!Receipt("RESERVED", "open"), "reserved")
    <3>1. /\ Ticks!Ready /\ a \in Ticks!Due(tick.episode) /\ Ticks!Room(issue[tick.episode]) /\ Ticks!Quiet
          /\ Ticks!Send(a, Ticks!Receipt("RESERVED", "open"), "reserved")
      BY <1>2, Zenon DEF Ticks!Reserve
    <3>2. tick.pc = "life"
      BY <3>1 DEF Ticks!Ready
    <3>3. Cardinality(Ticks!Actives) < MaxDispatch /\ Ticks!ActiveOn(issue[tick.episode]) = {}
      BY <3>1, SameCardinality DEF Ticks!Room
    <3>. QED  BY <3>1, <3>2, <3>3
  <2>2. /\ a[1] = tick.episode /\ Ticks!Stage(a) \in {"NONE", "FAILED"}
        /\ a[2] > 1 => Ticks!Routes(<<a[1], a[2] - 1>>)
    <3>1. CASE Ticks!Started(tick.episode)
      BY <2>1, <3>1 DEF Ticks!Due
    <3>2. CASE ~Ticks!Started(tick.episode)
      <4>1. a = <<tick.episode, 1>>
        BY <2>1, <3>2 DEF Ticks!Due
      <4>2. a[1] = tick.episode /\ a[2] = 1 /\ thread[a] = None
        BY <4>1, <3>2 DEF Ticks!Started
      <4>. QED  BY <4>2 DEF Ticks!Stage
    <3>. QED  BY <3>1, <3>2
  <2>3. WriteFollows(a, Ticks!Receipt("RESERVED", "open"), "reserved", tick.episode)
    BY <2>1, <2>2, UnlaunchedAtNoWork, ReceiptsAre DEF WriteFollows, Ticks!TERMINAL_STAGES
  <2>. QED  BY <2>1, <2>3, ReceiptsAre, TickWritesQuietly
<1>3. ASSUME Ticks!Intend(a) PROVE TicksInv'
  <2>1. /\ tick.pc = "reserved" /\ Ticks!Stage(a) = "RESERVED" /\ Ticks!Active(a) /\ Ticks!Quiet
        /\ Ticks!Send(a, Ticks!Receipt("LAUNCH_UNKNOWN", "open"), "intent")
    BY <1>3 DEF Ticks!Intend, Ticks!Active
  <2>2. WriteFollows(a, Ticks!Receipt("LAUNCH_UNKNOWN", "open"), "intent", tick.episode)
    BY <2>1, UnlaunchedAtNoWork, ReceiptsAre DEF WriteFollows, Ticks!TERMINAL_STAGES
  <2>. QED  BY <2>1, <2>2, ReceiptsAre, TickWritesQuietly
<1>4. ASSUME Ticks!HoldLaunch(a) PROVE TicksInv'
  <2>1. /\ tick.pc = "intent" /\ tick.todo = {a} /\ Ticks!Quiet
        /\ Ticks!Send(a, Ticks!Receipt("HOLD", "refused"), "idle")
    BY <1>4 DEF Ticks!HoldLaunch
  <2>2. Ticks!Active(a) /\ AtNoWork(a)
    BY <2>1 DEF TicksInv, IntentFollows, Ticks!Active
  <2>3. WriteFollows(a, Ticks!Receipt("HOLD", "refused"), "idle", tick.episode)
    BY <2>1, <2>2, ReceiptsAre DEF WriteFollows
  <2>. QED  BY <2>1, <2>3, ReceiptsAre, TickWritesQuietly
<1>. QED  BY <1>1, <1>2, <1>3, <1>4

\* The order is submitted: only an attempt whose launch is open can be admitted.
LEMMA SubmitPreserves ==
  ASSUME TicksInv, NEW a \in Ticks!Attempts, NEW to \in {"life", "idle"}, tick.pc \in {"life", "intent"},
         Ticks!Stage(a) = "LAUNCH_UNKNOWN", Ticks!SubmitOrder(a, to), to = "idle" \/ tick.pc = "life"
  PROVE  TicksInv'
<1>1. PICK arrives \in BOOLEAN, answered \in BOOLEAN :
        /\ sup' = IF arrives THEN [sup EXCEPT ![a] = Ticks!Admission(a)] ELSE sup
        /\ Ticks!Fold(a, IF arrives /\ answered THEN Ticks!Admission(a) ELSE "none", to)
  BY DEF Ticks!SubmitOrder
<1>2. UNCHANGED <<thread, issue, armed, result, alive, fails>>
  BY DEF Ticks!SubmitOrder
<1>3. /\ Ticks!Admission(a) \in Ticks!SupStates
      /\ Ticks!Admission(a) = "done" <=> sup[a] = "done"
      /\ a \in alive => Ticks!Admission(a) = sup[a]
      /\ Ticks!Admission(a) = "held" => sup[a] = "held"
      /\ Ticks!Admission(a) = "running" => sup[a] = "running"
  BY DEF Ticks!Admission, Ticks!SupStates, TicksInv, Ticks!TypeOK
<1>4. /\ sup' \in [Ticks!Attempts -> Ticks!SupStates] /\ alive' \in SUBSET Ticks!Attempts
      /\ result' \in [Ticks!Attempts -> {None, "ok", "blocked", "none", "busy"}]
      /\ \A b \in Ticks!Attempts : sup'[b] = "done" <=> result'[b] # None
      /\ \A b \in alive' : sup'[b] \in {"running", "held"}
  BY <1>1, <1>2, <1>3 DEF TicksInv, Ticks!TypeOK
<1>5. \A b \in Ticks!Attempts : AtNoWork(b) => AtNoWork(b)' \/ Ticks!Stage(b) = "LAUNCH_UNKNOWN"
  BY <1>1, <1>2 DEF AtNoWork, TicksInv, Ticks!TypeOK
<1>6. DEFINE s == IF arrives /\ answered THEN Ticks!Admission(a) ELSE "none"
<1>7. CASE s \in {"running", "done"}
  <2>1. Ticks!Send(a, Ticks!Receipt("RUNNING", "open"), to)
    BY <1>1, <1>7 DEF Ticks!Fold
  <2>2. tick' \in TickType /\ tick'.pc = "post" /\ tick'.at = a /\ tick'.then = to
        /\ tick'.next = Ticks!Receipt("RUNNING", "open") /\ tick'.episode = tick.episode
    BY <2>1, TickWrites, ReceiptsAre
  <2>3. PostFollows' /\ IntentFollows'
    <3>1. Ticks!Active(a)'
      BY <1>2, ThreadRead DEF Ticks!Active
    <3>2. tick'.next.stage = "RUNNING"
      BY <2>2, ReceiptsAre
    <3>. QED  BY <2>2, <3>1, <3>2 DEF PostFollows, WriteFollows, IntentFollows, Ticks!TERMINAL_STAGES
  <2>. QED  BY <1>2, <1>4, <1>5, <2>2, <2>3, TickKnows, TickGoesOn
<1>8. CASE s = "held"
  <2>1. Ticks!Send(a, Ticks!Receipt("HOLD", "held"), to)
    BY <1>1, <1>8 DEF Ticks!Fold
  <2>2. tick' \in TickType /\ tick'.pc = "post" /\ tick'.at = a /\ tick'.then = to
        /\ tick'.next = Ticks!Receipt("HOLD", "held") /\ tick'.episode = tick.episode
    BY <2>1, TickWrites, ReceiptsAre
  <2>3. PostFollows' /\ IntentFollows'
    <3>1. Ticks!Active(a)'
      BY <1>2, ThreadRead DEF Ticks!Active
    <3>2. tick'.next.stage = "HOLD" /\ tick'.next.why = "held"
      BY <2>2, ReceiptsAre
    <3>. QED  BY <2>2, <3>1, <3>2 DEF PostFollows, WriteFollows, IntentFollows, Ticks!TERMINAL_STAGES
  <2>. QED  BY <1>2, <1>4, <1>5, <2>2, <2>3, TickKnows, TickGoesOn
<1>9. CASE s \notin {"running", "done", "held"}
  <2>1. tick' = IF to = "life" THEN [tick EXCEPT !.todo = @ \ {a}] ELSE Ticks!Idle
    BY <1>1, <1>9 DEF Ticks!Fold
  <2>2. tick' \in TickType /\ tick'.pc = to /\ (to = "life" => tick'.episode = tick.episode)
    <3>1. CASE to = "life"
      BY <2>1, <3>1 DEF TicksInv, TickType, Ticks!Idle
    <3>2. CASE to = "idle"
      BY <2>1, <3>2 DEF TickType, Ticks!Idle
    <3>. QED  BY <3>1, <3>2
  <2>3. PostFollows' /\ IntentFollows'
    BY <2>2 DEF PostFollows, IntentFollows
  <2>. QED  BY <1>2, <1>4, <1>5, <2>2, <2>3, TickKnows, TickGoesOn
<1>. QED  BY <1>7, <1>8, <1>9

LEMMA OrdersPreserve ==
  ASSUME TicksInv, NEW a \in Ticks!Attempts
  PROVE  Ticks!Recover(a) \/ Ticks!Launch(a) => TicksInv'
<1>1. ASSUME Ticks!Recover(a) PROVE TicksInv'
  <2>1. tick.pc = "life" /\ Ticks!Stage(a) = "LAUNCH_UNKNOWN" /\ Ticks!SubmitOrder(a, "life")
    BY <1>1, TurnIs DEF Ticks!Recover
  <2>. QED  BY <2>1, SubmitPreserves
<1>2. ASSUME Ticks!Launch(a) PROVE TicksInv'
  <2>1. tick.pc = "intent" /\ Ticks!Stage(a) = "LAUNCH_UNKNOWN" /\ Ticks!SubmitOrder(a, "idle")
    BY <1>2 DEF Ticks!Launch, TicksInv, IntentFollows
  <2>. QED  BY <2>1, SubmitPreserves
<1>. QED  BY <1>1, <1>2

-----------------------------------------------------------------------------
(* The operator, the supervisor and its workers                            *)

LEMMA WorkersGoOn ==
  ASSUME TicksInv, UNCHANGED <<thread, issue, fails, tick>>, armed' \in {armed, 0},
         sup' \in [Ticks!Attempts -> Ticks!SupStates], alive' \in SUBSET Ticks!Attempts,
         result' \in [Ticks!Attempts -> {None, "ok", "blocked", "none", "busy"}],
         \A a \in Ticks!Attempts : sup'[a] = "done" <=> result'[a] # None,
         \A a \in alive' : sup'[a] \in {"running", "held"},
         \A a \in Ticks!Attempts : AtNoWork(a) => AtNoWork(a)'
  PROVE  TicksInv'
<1>1. PostFollows'
  <2>1. CASE tick.pc = "post"
    <3>1. tick.at \in Ticks!Attempts /\ (AtNoWork(tick.at) => (sup'[tick.at] \notin {"accepted", "stuck", "running"} /\ tick.at \notin alive'))
      BY <2>1, TickShape DEF TicksInv, AtNoWork
    <3>2. WriteFollows(tick.at, tick.next, tick.then, tick.episode)
      BY <2>1 DEF TicksInv, PostFollows
    <3>. QED  BY <3>1, <3>2, ThreadRead DEF PostFollows, WriteFollows, AtNoWork
  <2>. QED  BY <2>1 DEF PostFollows
<1>2. IntentFollows'
  <2>1. CASE tick.pc = "intent"
    <3>1. tick.todo \in SUBSET Ticks!Attempts
      BY <2>1, TickShape DEF TicksInv
    <3>. QED  BY <2>1, <3>1, ThreadRead DEF TicksInv, IntentFollows, AtNoWork
  <2>. QED  BY <2>1 DEF IntentFollows
<1>3. tick' \in TickType /\ (tick'.pc # "idle" => issue[tick'.episode] # None)
  BY TickKnows DEF TicksInv
<1>. QED  BY <1>1, <1>2, <1>3, TickGoesOn

LEMMA WorkersPreserve ==
  ASSUME TicksInv
  PROVE  /\ Ticks!Expire => TicksInv'
         /\ \A a \in Ticks!Attempts : Ticks!Spawn(a) \/ Ticks!Finish(a) \/ Ticks!HoldRun(a) \/ Ticks!WorkerDies(a) => TicksInv'
<1>. DEFINE Results == {None, "ok", "blocked", "none", "busy"}
<1>0. /\ sup \in [Ticks!Attempts -> Ticks!SupStates] /\ alive \in SUBSET Ticks!Attempts
      /\ result \in [Ticks!Attempts -> Results]
      /\ \A a \in Ticks!Attempts : sup[a] = "done" <=> result[a] # None
      /\ \A a \in alive : sup[a] \in {"running", "held"}
      /\ {"running", "done", "held"} \subseteq Ticks!SupStates
      /\ None \notin {"ok", "blocked", "none", "busy"}
  BY TicksAssumption DEF TicksInv, Ticks!TypeOK, Ticks!SupStates
<1>1. CASE Ticks!Expire
  <2>1. UNCHANGED <<thread, issue, fails, tick, sup, alive, result>> /\ armed' = 0
    BY <1>1 DEF Ticks!Expire, Ticks!world
  <2>. QED  BY <1>0, <2>1, WorkersGoOn DEF AtNoWork
<1>2. ASSUME NEW a \in Ticks!Attempts, Ticks!Spawn(a) PROVE TicksInv'
  <2>1. UNCHANGED <<thread, issue, armed, tick, result, fails>> /\ sup[a] = "accepted"
        /\ sup' = [sup EXCEPT ![a] = "running"] /\ alive' = alive \cup {a}
    BY <1>2 DEF Ticks!Spawn
  <2>2. /\ sup' \in [Ticks!Attempts -> Ticks!SupStates] /\ alive' \in SUBSET Ticks!Attempts
        /\ \A b \in Ticks!Attempts : sup'[b] = "done" <=> result'[b] # None
        /\ \A b \in alive' : sup'[b] \in {"running", "held"}
        /\ \A b \in Ticks!Attempts : AtNoWork(b) => AtNoWork(b)'
    BY <1>0, <2>1 DEF AtNoWork
  <2>. QED  BY <1>0, <2>1, <2>2, WorkersGoOn
<1>3. ASSUME NEW a \in Ticks!Attempts, Ticks!Finish(a) PROVE TicksInv'
  <2>1. UNCHANGED <<thread, issue, armed, tick, fails>> /\ sup[a] = "running"
        /\ sup' = [sup EXCEPT ![a] = "done"] /\ alive' = alive \ {a}
    BY <1>3 DEF Ticks!Finish
  <2>2. PICK v \in {"ok", "blocked", "none", "busy"} : result' = [result EXCEPT ![a] = v]
    BY <1>3 DEF Ticks!Finish
  <2>3. /\ sup' \in [Ticks!Attempts -> Ticks!SupStates] /\ alive' \in SUBSET Ticks!Attempts
        /\ result' \in [Ticks!Attempts -> Results]
        /\ \A b \in Ticks!Attempts : sup'[b] = "done" <=> result'[b] # None
        /\ \A b \in alive' : sup'[b] \in {"running", "held"}
        /\ \A b \in Ticks!Attempts : AtNoWork(b) => AtNoWork(b)'
    BY <1>0, <2>1, <2>2 DEF AtNoWork
  <2>. QED  BY <2>1, <2>3, WorkersGoOn
<1>4. ASSUME NEW a \in Ticks!Attempts, Ticks!HoldRun(a) PROVE TicksInv'
  <2>1. UNCHANGED <<thread, issue, armed, tick, result, alive, fails>> /\ sup[a] = "running"
        /\ sup' = [sup EXCEPT ![a] = "held"]
    BY <1>4 DEF Ticks!HoldRun
  <2>2. /\ sup' \in [Ticks!Attempts -> Ticks!SupStates] /\ alive' \in SUBSET Ticks!Attempts
        /\ \A b \in Ticks!Attempts : sup'[b] = "done" <=> result'[b] # None
        /\ \A b \in alive' : sup'[b] \in {"running", "held"}
        /\ \A b \in Ticks!Attempts : AtNoWork(b) => AtNoWork(b)'
    BY <1>0, <2>1 DEF AtNoWork
  <2>. QED  BY <1>0, <2>1, <2>2, WorkersGoOn
<1>5. ASSUME NEW a \in Ticks!Attempts, Ticks!WorkerDies(a) PROVE TicksInv'
  <2>1. UNCHANGED <<thread, issue, armed, tick, sup, result, fails>> /\ alive' = alive \ {a}
    BY <1>5 DEF Ticks!WorkerDies
  <2>2. /\ alive' \in SUBSET Ticks!Attempts
        /\ \A b \in alive' : sup'[b] \in {"running", "held"}
        /\ \A b \in Ticks!Attempts : AtNoWork(b) => AtNoWork(b)'
    BY <1>0, <2>1 DEF AtNoWork
  <2>. QED  BY <1>0, <2>1, <2>2, WorkersGoOn
<1>. QED  BY <1>1, <1>2, <1>3, <1>4, <1>5

\* An episode that is armed has no receipts yet, so its card is that of no attempt.
LEMMA ArmPreserves ==
  ASSUME TicksInv, NEW i \in Issues, Ticks!Arm(i)
  PROVE  TicksInv'
<1>1. PICK e \in Ticks!Episodes : issue[e] = None /\ armed' = e /\ issue' = [issue EXCEPT ![e] = i]
  BY DEF Ticks!Arm
<1>2. UNCHANGED <<thread, tick, sup, result, alive, fails>> /\ tick.pc = "idle"
  BY DEF Ticks!Arm, Ticks!world
<1>3. \A a \in Ticks!Attempts : thread[a] # None => issue'[a[1]] = issue[a[1]]
  BY <1>1, AttemptsAre DEF TicksInv, OnACard, Ticks!TypeOK
<1>4. /\ \A a : Ticks!Stage(a)' = Ticks!Stage(a) /\ Ticks!Active(a)' = Ticks!Active(a)
      /\ \A a : Ticks!Routes(a)' = Ticks!Routes(a) /\ Ticks!Actives' = Ticks!Actives
  <2>1. \A a : Ticks!Stage(a)' = Ticks!Stage(a) /\ Ticks!Active(a)' = Ticks!Active(a)
    BY <1>2 DEF Ticks!Stage, Ticks!Active
  <2>. QED  BY <1>2, <2>1 DEF Ticks!Routes, Ticks!Coherent, Ticks!Blocked, Ticks!Actives
<1>5. \A c : Ticks!ActiveOn(c)' = Ticks!ActiveOn(c)
  <2>1. \A a \in Ticks!Actives : Ticks!CardOf(a)' = Ticks!CardOf(a)
    BY <1>3 DEF Ticks!Actives, Ticks!Active, Ticks!Stage, Ticks!CardOf
  <2>. QED  BY <1>4, <2>1 DEF Ticks!ActiveOn
<1>6. Ticks!TypeOK'
  BY <1>1, <1>2 DEF TicksInv, Ticks!TypeOK
<1>7. OnACard'
  <2>1. issue'[e] # None
    BY <1>1, TicksAssumption DEF TicksInv, Ticks!TypeOK
  <2>. QED  BY <1>1, <1>2, <1>3, <2>1 DEF TicksInv, OnACard
<1>8. Ticks!NobodyWorksUnseen' /\ Ticks!StepsFollow'
  BY <1>2, <1>4, <1>5 DEF TicksInv, Ticks!NobodyWorksUnseen, Ticks!StepsFollow
<1>9. PostFollows' /\ IntentFollows'
  BY <1>2 DEF PostFollows, IntentFollows
<1>. QED  BY <1>2, <1>6, <1>7, <1>8, <1>9 DEF TicksInv

-----------------------------------------------------------------------------
(* A receipt is written                                                    *)

\* The slots: a reservation takes one that is left, on a card that has none.
LEMMA SlotsKept ==
  ASSUME TicksInv, NEW a \in Ticks!Attempts, NEW r \in Receipts, UNCHANGED issue,
         \A b \in Ticks!Attempts : b # a => Ticks!Active(b)' = Ticks!Active(b), r.stage \notin Ticks!TERMINAL_STAGES <=> Ticks!Active(a)',
         r.stage # "RESERVED" => Ticks!Active(a),
         r.stage = "RESERVED" => ~Ticks!Active(a) /\ Cardinality(Ticks!Actives) < MaxDispatch /\ Ticks!ActiveOn(issue[a[1]]) = {}
  PROVE  Cardinality(Ticks!Actives') <= MaxDispatch /\ \A i \in Issues : Cardinality(Ticks!ActiveOn(i)') <= 1
<1>1. IsFiniteSet(Ticks!Actives) /\ Cardinality(Ticks!Actives) \in Nat /\ Cardinality(Ticks!Actives) <= MaxDispatch
  <2>1. Ticks!Actives \subseteq Ticks!Attempts
    BY DEF Ticks!Actives
  <2>2. IsFiniteSet(Ticks!Actives)
    BY <2>1, AttemptsAre, FS_Subset
  <2>3. Cardinality(Ticks!Actives) <= MaxDispatch
    BY SameCardinality DEF TicksInv, Ticks!NobodyWorksUnseen
  <2>. QED  BY <2>2, <2>3, FS_CardinalityType
<1>2. \A i \in Issues : IsFiniteSet(Ticks!ActiveOn(i)) /\ Cardinality(Ticks!ActiveOn(i)) <= 1
  <2>1. ASSUME NEW i \in Issues PROVE IsFiniteSet(Ticks!ActiveOn(i)) /\ Cardinality(Ticks!ActiveOn(i)) <= 1
    <3>1. Ticks!ActiveOn(i) \subseteq Ticks!Actives
      BY DEF Ticks!ActiveOn
    <3>2. IsFiniteSet(Ticks!ActiveOn(i))
      BY <1>1, <3>1, FS_Subset
    <3>3. Cardinality(Ticks!ActiveOn(i)) <= 1
      BY SameCardinality DEF TicksInv, Ticks!NobodyWorksUnseen
    <3>. QED  BY <3>2, <3>3
  <2>. QED  BY <2>1
<1>3. CASE r.stage = "RESERVED"
  <2>1. Ticks!Actives' = Ticks!Actives \cup {a} /\ a \notin Ticks!Actives
    BY <1>3 DEF Ticks!Actives, Ticks!TERMINAL_STAGES
  <2>2. Cardinality(Ticks!Actives') <= MaxDispatch
    <3>1. Cardinality(Ticks!Actives \cup {a}) = Cardinality(Ticks!Actives) + 1
      BY <1>1, <2>1, FS_AddElement
    <3>2. Cardinality(Ticks!Actives) < MaxDispatch /\ MaxDispatch \in Nat
      BY <1>3, TicksAssumption
    <3>3. Cardinality(Ticks!Actives) + 1 <= MaxDispatch
      BY <1>1, <3>2
    <3>. QED  BY <2>1, <3>1, <3>3
  <2>3. ASSUME NEW i \in Issues PROVE Cardinality(Ticks!ActiveOn(i)') <= 1
    <3>1. CASE i = issue[a[1]]
      <4>1. Ticks!ActiveOn(i)' = {a}
        BY <1>3, <2>1, <3>1 DEF Ticks!ActiveOn, Ticks!CardOf
      <4>2. Cardinality({a}) = 1
        BY FS_Singleton, Zenon
      <4>3. Cardinality(Ticks!ActiveOn(i)') = 1
        BY <4>1, <4>2
      <4>. QED  BY <4>3
    <3>2. CASE i # issue[a[1]]
      <4>1. Ticks!ActiveOn(i)' = Ticks!ActiveOn(i)
        BY <2>1, <3>2 DEF Ticks!ActiveOn, Ticks!CardOf
      <4>. QED  BY <4>1, <1>2
    <3>. QED  BY <3>1, <3>2
  <2>. QED  BY <2>2, <2>3
<1>4. CASE r.stage # "RESERVED"
  <2>1. Ticks!Actives' \subseteq Ticks!Actives
    BY <1>4 DEF Ticks!Actives
  <2>2. Cardinality(Ticks!Actives') <= MaxDispatch
    <3>1. IsFiniteSet(Ticks!Actives') /\ Cardinality(Ticks!Actives') <= Cardinality(Ticks!Actives)
      BY <1>1, <2>1, FS_Subset
    <3>2. Cardinality(Ticks!Actives') \in Nat
      BY <3>1, FS_CardinalityType
    <3>. QED  BY <1>1, <3>1, <3>2, TicksAssumption
  <2>3. ASSUME NEW i \in Issues PROVE Cardinality(Ticks!ActiveOn(i)') <= 1
    <3>1. Ticks!ActiveOn(i)' \subseteq Ticks!ActiveOn(i)
      BY <2>1 DEF Ticks!ActiveOn, Ticks!CardOf
    <3>2. IsFiniteSet(Ticks!ActiveOn(i)') /\ Cardinality(Ticks!ActiveOn(i)') <= Cardinality(Ticks!ActiveOn(i))
      BY <1>2, <3>1, FS_Subset
    <3>3. Cardinality(Ticks!ActiveOn(i)') \in Nat /\ Cardinality(Ticks!ActiveOn(i)) \in Nat
      BY <1>2, <3>2, FS_CardinalityType
    <3>. QED  BY <1>2, <3>2, <3>3
  <2>. QED  BY <2>2, <2>3
<1>. QED  BY <1>3, <1>4

\* A receipt that was announced is written: who works is seen, the slots are
\* enough, and no verdict that an episode went on with is overwritten.
LEMMA WrittenPreserves ==
  ASSUME TicksInv, tick.pc = "post", NEW a \in Ticks!Attempts, a = tick.at, NEW r \in Receipts, r = tick.next,
         Ticks!Written(a, r), UNCHANGED <<issue, armed, sup, result, alive>>
  PROVE  /\ thread' \in [Ticks!Attempts -> Receipts \cup {None}] /\ fails' \in [Ticks!Attempts -> 0 .. MaxFails]
         /\ \A b \in Ticks!Attempts : thread'[b] # None => issue[b[1]] # None
         /\ Ticks!Stage(a)' = r.stage
         /\ Ticks!NobodyWorksUnseen' /\ Ticks!StepsFollow'
<1>1. WriteFollows(a, r, tick.then, tick.episode)
  BY DEF TicksInv, PostFollows
<1>2. thread \in [Ticks!Attempts -> Receipts \cup {None}] /\ None \notin Receipts
  BY TicksAssumption DEF TicksInv, Ticks!TypeOK, Receipts, Ticks!TERMINAL_STAGES
<1>3. thread' = [thread EXCEPT ![a] = r]
  BY DEF Ticks!Written
<1>4. /\ thread' \in [Ticks!Attempts -> Receipts \cup {None}] /\ thread'[a] = r /\ r # None
      /\ \A b \in Ticks!Attempts : b # a => thread'[b] = thread[b]
  BY <1>2, <1>3
<1>5. fails' \in [Ticks!Attempts -> 0 .. MaxFails]
  <2>1. fails \in [Ticks!Attempts -> 0 .. MaxFails] /\ MaxFails \in Nat
    BY TicksAssumption DEF TicksInv, Ticks!TypeOK
  <2>2. CASE r.stage = "FAILED"
    <3>1. fails' = [fails EXCEPT ![a] = fails[a] + 1] /\ fails[a] < MaxFails
      BY <1>1, <2>2 DEF Ticks!Written, WriteFollows
    <3>2. fails[a] + 1 \in 0 .. MaxFails
      BY <2>1, <3>1
    <3>. QED  BY <2>1, <3>1, <3>2
  <2>3. CASE r.stage # "FAILED"
    BY <2>1, <2>3 DEF Ticks!Written
  <2>. QED  BY <2>2, <2>3
<1>6. /\ Ticks!Stage(a)' = r.stage
      /\ \A b \in Ticks!Attempts : b # a => Ticks!Stage(b)' = Ticks!Stage(b)
  BY <1>4 DEF Ticks!Stage
<1>7. r.stage # "RESERVED" => thread[a] # None
  BY <1>1 DEF WriteFollows, Ticks!Active, Ticks!Stage
<1>8. \A b \in Ticks!Attempts : thread'[b] # None => issue[b[1]] # None
  <2>1. issue[a[1]] # None
    <3>1. CASE r.stage = "RESERVED"
      BY <1>1, <3>1, TickKnows DEF WriteFollows
    <3>2. CASE r.stage # "RESERVED"
      BY <1>7, <3>2 DEF TicksInv, OnACard
    <3>. QED  BY <3>1, <3>2
  <2>. QED  BY <1>4, <2>1 DEF TicksInv, OnACard
<1>9. \A b \in Ticks!Attempts : sup'[b] \in {"accepted", "stuck", "running"} \/ b \in alive' =>
        Ticks!Stage(b)' \in {"LAUNCH_UNKNOWN", "RUNNING"} \/ (Ticks!Stage(b)' = "HOLD" /\ thread'[b].why \in {"held", "contact"})
  <2>1. r.stage \in {"LAUNCH_UNKNOWN", "RUNNING"} \/ AtNoWork(a) \/ (r.stage = "HOLD" /\ r.why \in {"held", "contact"})
    <3>1. r.stage \in {"COMPLETED", "FAILED", "HOLD", "RESERVED", "LAUNCH_UNKNOWN", "RUNNING"}
      BY DEF Receipts
    <3>. QED  BY <1>1, <3>1 DEF WriteFollows, Ticks!TERMINAL_STAGES
  <2>. QED  BY <1>4, <1>6, <2>1 DEF TicksInv, Ticks!NobodyWorksUnseen, AtNoWork
<1>10. Cardinality(Ticks!Actives') <= MaxDispatch /\ \A i \in Issues : Cardinality(Ticks!ActiveOn(i)') <= 1
  <2>1. \A b \in Ticks!Attempts : b # a => Ticks!Active(b)' = Ticks!Active(b)
    BY <1>6 DEF Ticks!Active
  <2>2. r.stage \notin Ticks!TERMINAL_STAGES <=> Ticks!Active(a)'
    BY <1>6 DEF Receipts, Ticks!Active, Ticks!TERMINAL_STAGES
  <2>3. r.stage # "RESERVED" => Ticks!Active(a)
    BY <1>1 DEF WriteFollows
  <2>4. r.stage = "RESERVED" => ~Ticks!Active(a) /\ Cardinality(Ticks!Actives) < MaxDispatch /\ Ticks!ActiveOn(issue[a[1]]) = {}
    BY <1>1 DEF WriteFollows, Ticks!Active
  <2>. QED  BY <2>1, <2>2, <2>3, <2>4, SlotsKept
<1>11. Ticks!NobodyWorksUnseen'
  BY <1>9, <1>10, SameCardinality DEF Ticks!NobodyWorksUnseen
<1>12. \A b \in Ticks!Attempts : b # a => (Ticks!Routes(b) => Ticks!Routes(b)')
  BY <1>4, <1>6 DEF Ticks!Routes, Ticks!Coherent, Ticks!Blocked
<1>13. Ticks!StepsFollow'
  <2>1. ~Ticks!Routes(a)
    BY <1>1 DEF WriteFollows, Ticks!Routes, Ticks!Coherent, Ticks!Active
  <2>2. ASSUME NEW b \in Ticks!Attempts, b[2] > 1, thread'[b] # None PROVE Ticks!Routes(<<b[1], b[2] - 1>>)'
    <3>1. <<b[1], b[2] - 1>> \in Ticks!Attempts /\ <<b[1], b[2] - 1>> # b
      BY <2>2, AttemptsAre
    <3>2. Ticks!Routes(<<b[1], b[2] - 1>>)
      <4>1. CASE thread[b] # None
        BY <2>2, <4>1 DEF TicksInv, Ticks!StepsFollow
      <4>2. CASE thread[b] = None
        <5>1. b = a /\ r.stage = "RESERVED"
          BY <1>4, <1>7, <2>2, <4>2
        <5>. QED  BY <1>1, <2>2, <5>1 DEF WriteFollows
      <4>. QED  BY <4>1, <4>2
    <3>. QED  BY <1>12, <2>1, <3>1, <3>2
  <2>. QED  BY <2>2 DEF Ticks!StepsFollow
<1>. QED  BY <1>4, <1>5, <1>6, <1>8, <1>11, <1>13

LEMMA ReceiptPreserves ==
  ASSUME TicksInv, Ticks!Acknowledged \/ Ticks!Unacknowledged
  PROVE  TicksInv'
<1>1. /\ tick.pc = "post" /\ UNCHANGED <<issue, armed, sup, result, alive>>
      /\ \/ Ticks!Written(tick.at, tick.next) /\ Ticks!Acknowledged
         \/ Ticks!Written(tick.at, tick.next) /\ tick' = Ticks!Idle
         \/ UNCHANGED <<thread, fails>> /\ tick' = Ticks!Idle
  BY DEF Ticks!Acknowledged, Ticks!Unacknowledged, Ticks!world
<1>2. CASE UNCHANGED <<thread, fails>> /\ tick' = Ticks!Idle
  <2>1. Ticks!Quiet /\ tick' \in TickType /\ tick'.pc = "idle"
    BY <1>1, <1>2 DEF Ticks!Quiet, Ticks!world, TickType, Ticks!Idle
  <2>. QED  BY <2>1, TickReads
<1>3. CASE Ticks!Written(tick.at, tick.next)
  <2>1. PICK a \in Ticks!Attempts : a = tick.at
    BY <1>1, TickShape DEF TicksInv
  <2>2. PICK r \in Receipts : r = tick.next
    BY <1>1, TickShape DEF TicksInv
  <2>3. /\ thread' \in [Ticks!Attempts -> Receipts \cup {None}] /\ fails' \in [Ticks!Attempts -> 0 .. MaxFails]
        /\ \A b \in Ticks!Attempts : thread'[b] # None => issue[b[1]] # None
        /\ Ticks!Stage(a)' = r.stage
        /\ Ticks!NobodyWorksUnseen' /\ Ticks!StepsFollow'
    BY <1>1, <1>3, <2>1, <2>2, WrittenPreserves
  <2>4. WriteFollows(a, r, tick.then, tick.episode)
    BY <1>1, <2>1, <2>2 DEF TicksInv, PostFollows
  <2>5. /\ tick' \in TickType /\ tick'.pc \in {"idle", "life", "reserved", "intent"}
        /\ tick'.pc # "idle" => tick'.episode = tick.episode
        /\ tick'.pc = "intent" => tick'.todo = {a} /\ tick.then = "intent"
    <3>1. CASE tick' = Ticks!Idle
      BY <3>1 DEF TickType, Ticks!Idle
    <3>2. CASE Ticks!Acknowledged
      <4>1. /\ tick.episode \in Ticks!Episodes /\ tick.todo \in SUBSET Ticks!Attempts /\ tick.freed \in BOOLEAN
            /\ tick.then \in {"life", "reserved", "intent", "idle"}
        BY <1>1, TickShape DEF TicksInv
      <4>2. CASE tick.then = "idle"
        BY <3>2, <4>2 DEF Ticks!Acknowledged, TickType, Ticks!Idle
      <4>3. CASE tick.then = "life"
        <5>1. tick' = Ticks!Tick("life", tick.episode, tick.todo, tick.freed \/ tick.next.stage \in Ticks!TERMINAL_STAGES)
          BY <3>2, <4>3 DEF Ticks!Acknowledged
        <5>2. PICK f \in BOOLEAN : tick' = [pc |-> "life", episode |-> tick.episode, todo |-> tick.todo, freed |-> f]
          BY <4>1, <5>1 DEF Ticks!Tick
        <5>. QED  BY <4>1, <5>2 DEF TickType
      <4>4. CASE tick.then \in {"reserved", "intent"}
        <5>1. tick' = Ticks!At(tick.then, a)
          BY <2>1, <3>2, <4>4 DEF Ticks!Acknowledged
        <5>. QED  BY <1>1, <4>4, <5>1, TickAt
      <4>. QED  BY <4>1, <4>2, <4>3, <4>4
    <3>. QED  BY <1>1, <1>3, <3>1, <3>2
  <2>6. Ticks!TypeOK'
    <3>1. tick'.pc # "idle" => tick'.todo \subseteq Ticks!Attempts /\ tick'.freed \in BOOLEAN
      BY <2>5 DEF TickType, Ticks!Idle
    <3>2. thread' \in [Ticks!Attempts -> [stage : Ticks!TERMINAL_STAGES \cup {"RESERVED", "LAUNCH_UNKNOWN", "RUNNING"}, why : Ticks!Whys] \cup {None}]
      BY <2>3 DEF Receipts, Ticks!TERMINAL_STAGES
    <3>3. tick'.pc \in {"idle", "life", "post", "reserved", "intent"}
      BY <2>5
    <3>. QED  BY <1>1, <2>3, <3>1, <3>2, <3>3 DEF TicksInv, Ticks!TypeOK
  <2>7. OnACard'
    BY <1>1, <2>3, <2>5, TickKnows DEF TicksInv, OnACard
  <2>8. PostFollows'
    BY <2>5 DEF PostFollows
  <2>9. IntentFollows'
    <3>1. tick.then = "intent" => r.stage = "LAUNCH_UNKNOWN" /\ AtNoWork(a)
      BY <2>4 DEF WriteFollows
    <3>. QED  BY <1>1, <2>3, <2>5, <3>1 DEF IntentFollows, AtNoWork
  <2>. QED  BY <1>1, <2>3, <2>5, <2>6, <2>7, <2>8, <2>9 DEF TicksInv
<1>. QED  BY <1>1, <1>2, <1>3

-----------------------------------------------------------------------------
(* The theorems of the ticks                                               *)

LEMMA TicksStart == Ticks!Init => TicksInv
<1>. SUFFICES ASSUME Ticks!Init PROVE TicksInv
  OBVIOUS
<1>1. /\ thread = [a \in Ticks!Attempts |-> None] /\ issue = [e \in Ticks!Episodes |-> None] /\ armed = 0
      /\ tick = Ticks!Idle /\ sup = [a \in Ticks!Attempts |-> "none"] /\ result = [a \in Ticks!Attempts |-> None]
      /\ alive = {} /\ fails = [a \in Ticks!Attempts |-> 0]
  BY DEF Ticks!Init
<1>2. Ticks!TypeOK /\ tick \in TickType
  BY <1>1, TicksAssumption DEF Ticks!TypeOK, TickType, Ticks!Idle, Ticks!SupStates
<1>3. OnACard /\ PostFollows /\ IntentFollows /\ Ticks!StepsFollow
  BY <1>1 DEF OnACard, PostFollows, IntentFollows, Ticks!StepsFollow, Ticks!Idle
<1>4. Ticks!NobodyWorksUnseen
  <2>1. Ticks!Actives = {} /\ \A i \in Issues : Ticks!ActiveOn(i) = {}
    BY <1>1 DEF Ticks!Actives, Ticks!ActiveOn, Ticks!Active, Ticks!Stage
  <2>2. Cardinality({}) = 0
    BY FS_EmptySet
  <2>3. Ticks!Cardinality(Ticks!Actives) <= MaxDispatch /\ \A i \in Issues : Ticks!Cardinality(Ticks!ActiveOn(i)) <= 1
    BY <2>1, <2>2, SameCardinality, TicksAssumption
  <2>. QED  BY <1>1, <2>3 DEF Ticks!NobodyWorksUnseen
<1>. QED  BY <1>1, <1>2, <1>3, <1>4 DEF TicksInv

LEMMA TicksGoOn == TicksInv /\ [Ticks!Next]_ticks => TicksInv'
<1>. SUFFICES ASSUME TicksInv, [Ticks!Next]_ticks PROVE TicksInv'
  OBVIOUS
<1>1. CASE UNCHANGED ticks
  <2>1. UNCHANGED <<thread, issue, armed, tick, sup, result, alive, fails>>
    BY <1>1 DEF ticks
  <2>. QED  BY <2>1, WorkersGoOn DEF TicksInv, Ticks!TypeOK, AtNoWork
<1>2. CASE Ticks!Begin \/ Ticks!Die \/ Ticks!Defer
  BY <1>2, LifeCycle
<1>3. CASE Ticks!Acknowledged \/ Ticks!Unacknowledged
  BY <1>3, ReceiptPreserves
<1>4. CASE Ticks!Expire
  BY <1>4, WorkersPreserve
<1>5. CASE \E i \in Issues : Ticks!Arm(i)
  BY <1>5, ArmPreserves
<1>6. ASSUME NEW a \in Ticks!Attempts,
             Ticks!Skip(a) \/ Ticks!ReleaseStranded(a) \/ Ticks!ReleaseDisowned(a) \/ Ticks!Recover(a) \/ Ticks!Poll(a)
             \/ Ticks!PollFails(a) \/ Ticks!Resume(a) \/ Ticks!Reserve(a) \/ Ticks!Intend(a) \/ Ticks!HoldLaunch(a)
             \/ Ticks!Launch(a) \/ Ticks!Spawn(a) \/ Ticks!Finish(a) \/ Ticks!HoldRun(a) \/ Ticks!WorkerDies(a)
      PROVE  TicksInv'
  <2>1. CASE Ticks!Skip(a) \/ Ticks!ReleaseStranded(a) \/ Ticks!ReleaseDisowned(a) \/ Ticks!PollFails(a)
    BY <2>1, LifeCycle
  <2>2. CASE Ticks!Recover(a) \/ Ticks!Launch(a)
    BY <2>2, OrdersPreserve
  <2>3. CASE Ticks!Poll(a)
    BY <2>3, PollPreserves
  <2>4. CASE Ticks!Resume(a) \/ Ticks!Reserve(a) \/ Ticks!Intend(a) \/ Ticks!HoldLaunch(a)
    BY <2>4, DispatchPreserves
  <2>5. CASE Ticks!Spawn(a) \/ Ticks!Finish(a) \/ Ticks!HoldRun(a) \/ Ticks!WorkerDies(a)
    BY <2>5, WorkersPreserve
  <2>. QED  BY <1>6, <2>1, <2>2, <2>3, <2>4, <2>5
<1>. QED  BY <1>1, <1>2, <1>3, <1>4, <1>5, <1>6 DEF Ticks!Next

\* The ticks keep their invariant, the type invariant of Reconcile among it.
THEOREM TicksInvariance == AllSpec => []TicksInv
<1>1. AllInit => TicksInv
  BY TicksStart DEF AllInit
<1>2. TicksInv /\ [AllNext]_<<part, vars, ticks, landings>> => TicksInv'
  BY TicksGoOn DEF AllNext
<1>. QED  BY <1>1, <1>2, PTL DEF AllSpec

\* reconcile.mjs: an order the supervisor admitted, or a worker it left alive,
\* has a receipt that holds its slot, unless the supervisor held the run or was
\* not reached; open receipts never hold more slots than there are.
THEOREM NobodyWorksUnseenHolds == AllSpec => []NobodyWorksUnseen
<1>1. TicksInv => NobodyWorksUnseen
  BY DEF TicksInv, NobodyWorksUnseen
<1>. QED  BY <1>1, TicksInvariance, PTL

\* reconcile.mjs: the steps of an episode are one chain of verdicts; a verdict
\* that an episode went on with is never overwritten.
THEOREM StepsFollowHolds == AllSpec => []StepsFollow
<1>1. TicksInv => StepsFollow
  BY DEF TicksInv, StepsFollow
<1>. QED  BY <1>1, TicksInvariance, PTL
=============================================================================
