----------------------------- MODULE Reconcile -----------------------------
(***************************************************************************)
(* The coordinator's tick and the episode it drives.  An operator arms an  *)
(* activation for one card; each tick takes the receipts of the durable    *)
(* thread through their life cycle, and if that freed no slot launches     *)
(* the episode's next step: reserve, read back, write the launch intent,   *)
(* submit to the supervisor, fold its answer.  Every receipt is a comment  *)
(* that may be lost, or written and not acknowledged; a tick may die       *)
(* anywhere, and ticks do not overlap.  The supervisor (module Supervisor) *)
(* is reduced to what it answers.                                          *)
(*                                                                         *)
(* Left out: review-only and repair activations, pauses, routine merging,  *)
(* the hosted adapters, notes and evidence; the choice of runtimes and     *)
(* heads; a heartbeat and an observed identity, which write a receipt      *)
(* without moving it.                                                      *)
(***************************************************************************)
EXTENDS Integers, FiniteSets

CONSTANTS
  Issues,
  MaxEpisodes, \* bound on the activations that are armed
  MaxDispatch, MaxRevise, MaxFailed, \* the committed configuration
  MaxFails,    \* bound on the failures of one attempt
  None

Episodes == 1 .. MaxEpisodes
\* Attempt ids derive from their predecessors: step 1 builds, the even steps
\* review and the other odd steps revise.
Attempts == Episodes \X (1 .. 2 * MaxRevise + 2)
Reviews == {a \in Attempts : a[2] % 2 = 0}
Round(a) == a[2] \div 2

VARIABLES
  thread,     \* attempt |-> its newest receipt, or None
  issue,      \* episode |-> the card it was armed for, or None
  armed,      \* the episode of the activation in force, or 0
  tick,       \* the tick that runs
  sup,        \* attempt |-> what the supervisor knows of it
  result,     \* attempt |-> what its worker reported, or None
  alive,      \* the attempts whose worker is alive
  fails       \* attempt |-> the FAILED receipts written for it

world == <<sup, result, alive>>
vars == <<thread, issue, armed, tick, world, fails>>

TERMINAL_STAGES == {"COMPLETED", "FAILED", "HOLD"}
Receipt(s, why) == [stage |-> s, why |-> why]
Whys == {"verdict", "unlaunched", "never_admitted", "refused", "held", "contact", "evidence", "busy", "open"}
SupStates == {"none", "refused", "accepted", "stuck", "running", "held", "done"}
Idle == [pc |-> "idle"]
\* A tick goes by the activation it read when it began.
Tick(pc, e, todo, freed) == [pc |-> pc, episode |-> e, todo |-> todo, freed |-> freed]
At(pc, a) == Tick(pc, tick.episode, {a}, FALSE)

TypeOK ==
  /\ thread \in [Attempts -> [stage: TERMINAL_STAGES \union {"RESERVED", "LAUNCH_UNKNOWN", "RUNNING"}, why: Whys] \union {None}]
  /\ issue \in [Episodes -> Issues \union {None}] /\ armed \in Episodes \union {0}
  /\ sup \in [Attempts -> SupStates] /\ alive \subseteq Attempts
  /\ result \in [Attempts -> {None, "ok", "blocked", "none", "busy"}] /\ fails \in [Attempts -> 0 .. MaxFails]
  /\ tick.pc \in {"idle", "life", "post", "reserved", "intent"}
  /\ tick.pc # "idle" => tick.todo \subseteq Attempts /\ tick.freed \in BOOLEAN
  /\ \A a \in Attempts : sup[a] = "done" <=> result[a] # None

Init ==
  /\ thread = [a \in Attempts |-> None] /\ issue = [e \in Episodes |-> None] /\ armed = 0
  /\ tick = Idle /\ sup = [a \in Attempts |-> "none"] /\ result = [a \in Attempts |-> None]
  /\ alive = {} /\ fails = [a \in Attempts |-> 0]

-----------------------------------------------------------------------------
(* What a tick reads in the thread.                                        *)

Stage(a) == IF thread[a] = None THEN "NONE" ELSE thread[a].stage
Active(a) == Stage(a) \in {"RESERVED", "LAUNCH_UNKNOWN", "RUNNING"}
Actives == {a \in Attempts : Active(a)}
CardOf(a) == issue[a[1]]
ActiveOn(i) == {a \in Actives : CardOf(a) = i}
FailedOn(i) == {a \in Attempts : Stage(a) = "FAILED" /\ CardOf(a) = i}
\* coherentTerminal: a bound verdict, and the stage that belongs to it.
Coherent(a) == Stage(a) \in {"COMPLETED", "HOLD"} /\ thread[a].why = "verdict"
Blocked(a) == Coherent(a) /\ Stage(a) = "HOLD"
Newest(a) == Stage(a) \in TERMINAL_STAGES /\ \A b \in Attempts : b[1] = a[1] /\ b[2] > a[2] => Stage(b) \notin TERMINAL_STAGES
Started(e) == \E a \in Attempts : a[1] = e /\ thread[a] # None

\* Mutant: any terminal receipt routes the next step.
RoutesAll(a) == Stage(a) \in TERMINAL_STAGES /\ <<a[1], a[2] + 1>> \in Attempts

\* A finished write is reviewed; a blocked review is revised, MaxRevise times.
Routes(a) == Coherent(a) /\ (Blocked(a) <=> a \in Reviews) /\ (Blocked(a) => Round(a) <= MaxRevise)
Ended(e) ==
  \/ Cardinality(FailedOn(issue[e])) >= MaxFailed
  \/ \E a \in Attempts : a[1] = e /\ Newest(a) /\ Stage(a) # "FAILED" /\ ~Routes(a)
\* The step that is due: the first, or the successor of the newest verdict.
Due(e) == IF ~Started(e) THEN {<<e, 1>>}
          ELSE {a \in Attempts : a[1] = e /\ a[2] > 1 /\ Routes(<<e, a[2] - 1>>)
                                 /\ Stage(a) \in {"NONE", "FAILED"}}
Armed == armed # 0 /\ ~Ended(armed)

-----------------------------------------------------------------------------
(* Writing a receipt.  A write that is not acknowledged ends the tick.     *)

Send(a, r, pc) == tick' = [pc |-> "post", at |-> a, next |-> r, then |-> pc, episode |-> tick.episode,
                           freed |-> tick.freed, todo |-> IF r.stage = "RUNNING" THEN tick.todo ELSE tick.todo \ {a}]
Written(a, r) ==
  /\ thread' = [thread EXCEPT ![a] = r]
  /\ fails' = IF r.stage = "FAILED" THEN [fails EXCEPT ![a] = @ + 1] ELSE fails
Acknowledged ==
  /\ tick.pc = "post" /\ Written(tick.at, tick.next)
  /\ tick' = CASE tick.then = "idle" -> Idle
               [] tick.then = "life" -> Tick("life", tick.episode, tick.todo, tick.freed \/ tick.next.stage \in TERMINAL_STAGES)
               [] OTHER -> At(tick.then, tick.at)
  /\ UNCHANGED <<issue, armed, world>>
Unacknowledged ==
  /\ tick.pc = "post" /\ tick' = Idle
  /\ Written(tick.at, tick.next) \/ UNCHANGED <<thread, fails>>
  /\ UNCHANGED <<issue, armed, world>>
Die == tick.pc # "idle" /\ tick' = Idle /\ UNCHANGED <<thread, issue, armed, world, fails>>

-----------------------------------------------------------------------------
(* The supervisor's answers.                                               *)

\* The branch is free of every attempt that has not finished.
Free(a) == \A b \in Attempts : b # a /\ CardOf(b) = CardOf(a) => sup[b] \in {"none", "refused", "stuck", "done"}

\* An attempt that was refused and is sent again is admitted, never launched.
Admission(a) == CASE sup[a] = "none" -> IF Free(a) THEN "accepted" ELSE "refused"
                  [] sup[a] = "refused" -> IF Free(a) THEN "stuck" ELSE "refused"
                  [] OTHER -> sup[a]
\* What the tick does about the answer: a launch that is not acknowledged
\* leaves the receipt as it is.
Fold(a, s, pc) == CASE s \in {"running", "done"} -> Send(a, Receipt("RUNNING", "open"), pc)
                    [] s = "held" -> Send(a, Receipt("HOLD", "held"), pc)
                    [] OTHER -> tick' = IF pc = "life" THEN [tick EXCEPT !.todo = @ \ {a}] ELSE Idle
\* The order may not arrive, and its answer may be lost.
SubmitOrder(a, pc) == \E arrives, answered \in BOOLEAN :
  /\ sup' = IF arrives THEN [sup EXCEPT ![a] = Admission(a)] ELSE sup
  /\ Fold(a, IF arrives /\ answered THEN Admission(a) ELSE "none", pc)
  /\ UNCHANGED <<thread, issue, armed, result, alive, fails>>

-----------------------------------------------------------------------------
(* The life cycle: stranded reservations, then launches whose outcome is   *)
(* unknown, then running workers; those just recovered are polled too.     *)

Begin ==
  /\ tick.pc = "idle" /\ Armed
  /\ tick' = Tick("life", armed, Actives, FALSE)
  /\ UNCHANGED <<thread, issue, armed, world, fails>>
Phase(a) == CASE Stage(a) = "RESERVED" -> 1 [] Stage(a) = "LAUNCH_UNKNOWN" -> 2 [] OTHER -> 3
Turn(a, stage) ==
  /\ tick.pc = "life" /\ a \in tick.todo /\ Stage(a) = stage
  /\ \A b \in tick.todo : Phase(a) <= Phase(b)
Quiet == UNCHANGED <<thread, issue, armed, world, fails>>

\* A reservation is too young, or the episode's own and to be resumed; a launch
\* or poll lacks a Linear id, a preflight, a supported adapter; or nothing is new.
Skip(a) ==
  /\ \E s \in {"RESERVED", "LAUNCH_UNKNOWN", "RUNNING"} : Turn(a, s)
  /\ tick' = [tick EXCEPT !.todo = @ \ {a}] /\ Quiet
ReleaseStranded(a) == Turn(a, "RESERVED") /\ Send(a, Receipt("HOLD", "unlaunched"), "life") /\ Quiet
\* Mutant: every launch that the supervisor has not begun is given up.
DisownsQueued(a) == a[1] # tick.episode /\ sup[a] \in {"none", "refused", "accepted"}

\* Another episode's launch, of which the supervisor says that it has no record.
Disowns(a) == a[1] # tick.episode /\ sup[a] = "refused"
ReleaseDisowned(a) ==
  Turn(a, "LAUNCH_UNKNOWN") /\ Disowns(a) /\ Send(a, Receipt("HOLD", "never_admitted"), "life") /\ Quiet
\* Every other answer, and none, goes on to send the same order again.
Recover(a) ==
  /\ Turn(a, "LAUNCH_UNKNOWN") /\ ActiveOn(CardOf(a)) = {a}
  /\ SubmitOrder(a, "life")

\* A verdict counts at a head that can be read and is the reported one.
Outcomes(a) == CASE sup[a] = "held" -> {Receipt("HOLD", "held")}
  [] result[a] = "ok" -> {Receipt("COMPLETED", "verdict"), Receipt("HOLD", "evidence")}
  [] result[a] = "blocked" -> {Receipt("HOLD", "verdict"), Receipt("HOLD", "evidence")}
  [] result[a] = "none" -> {Receipt("HOLD", "evidence")}
  [] OTHER -> {Receipt("FAILED", "busy")}
Poll(a) ==
  /\ Turn(a, "RUNNING") /\ sup[a] \in {"held", "done"}
  /\ \E r \in Outcomes(a) : (r.stage = "FAILED" => fails[a] < MaxFails) /\ Send(a, r, "life")
  /\ Quiet
\* The supervisor cannot be reached: the adapter answers HOLD for it.
PollFails(a) == Turn(a, "RUNNING") /\ Send(a, Receipt("HOLD", "contact"), "life") /\ Quiet

-----------------------------------------------------------------------------
(* The dispatch, when the life cycle is through.                           *)

Ready == tick.pc = "life" /\ tick.todo = {}
Resumable == {a \in Attempts : a[1] = tick.episode /\ Stage(a) = "RESERVED"}
\* A freed slot defers, and so does a gate that is not met.
Defer == Ready /\ tick' = Idle /\ Quiet
Resume(a) ==
  /\ Ready /\ ~tick.freed /\ a \in Resumable
  /\ \/ tick' = At("reserved", a)
     \/ Send(a, Receipt("HOLD", "unlaunched"), "idle") \* its head has moved
  /\ Quiet
Room(i) == Cardinality(Actives) < MaxDispatch /\ ActiveOn(i) = {} /\ Cardinality(FailedOn(i)) < MaxFailed
Reserve(a) ==
  /\ Ready /\ ~tick.freed /\ Resumable = {}
  /\ a \in Due(tick.episode) /\ Room(issue[tick.episode])
  /\ a \in Reviews => Actives \intersect Reviews = {}
  /\ Send(a, Receipt("RESERVED", "open"), "reserved") /\ Quiet
\* The reservation is read back: it is there and alone on its card.
Intend(a) ==
  /\ tick.pc = "reserved" /\ tick.todo = {a}
  /\ Stage(a) = "RESERVED" /\ ActiveOn(CardOf(a)) = {a}
  /\ Send(a, Receipt("LAUNCH_UNKNOWN", "open"), "intent") /\ Quiet
\* The workspace cannot be prepared, or the activation no longer allows it.
HoldLaunch(a) ==
  /\ tick.pc = "intent" /\ tick.todo = {a}
  /\ Send(a, Receipt("HOLD", "refused"), "idle") /\ Quiet
Launch(a) ==
  /\ tick.pc = "intent" /\ tick.todo = {a} /\ armed = a[1]
  /\ SubmitOrder(a, "idle")

-----------------------------------------------------------------------------
(* The operator, the supervisor and its workers.                           *)

Arm(i) ==
  /\ tick.pc = "idle" /\ ~Armed
  /\ \E e \in Episodes : /\ issue[e] = None /\ \A d \in 1 .. e - 1 : issue[d] # None
                         /\ armed' = e /\ issue' = [issue EXCEPT ![e] = i]
  /\ UNCHANGED <<thread, tick, world, fails>>
Expire == armed # 0 /\ armed' = 0 /\ UNCHANGED <<thread, issue, tick, world, fails>>
Spawn(a) ==
  /\ sup[a] = "accepted" /\ sup' = [sup EXCEPT ![a] = "running"] /\ alive' = alive \union {a}
  /\ UNCHANGED <<thread, issue, armed, tick, result, fails>>
Finish(a) ==
  /\ sup[a] = "running" /\ sup' = [sup EXCEPT ![a] = "done"] /\ alive' = alive \ {a}
  /\ \E v \in {"ok", "blocked", "none"} \union (IF a \in Reviews THEN {"busy"} ELSE {}) :
       result' = [result EXCEPT ![a] = v]
  /\ UNCHANGED <<thread, issue, armed, tick, fails>>
\* A deadline, a restart or a broken stream holds the run, not the process.
HoldRun(a) ==
  /\ sup[a] = "running" /\ sup' = [sup EXCEPT ![a] = "held"]
  /\ UNCHANGED <<thread, issue, armed, tick, result, alive, fails>>
WorkerDies(a) ==
  /\ sup[a] = "held" /\ a \in alive /\ alive' = alive \ {a}
  /\ UNCHANGED <<thread, issue, armed, tick, sup, result, fails>>

Next ==
  \/ Begin \/ Acknowledged \/ Unacknowledged \/ Die \/ Defer \/ Expire \/ \E i \in Issues : Arm(i)
  \/ \E a \in Attempts :
       \/ Skip(a) \/ ReleaseStranded(a) \/ ReleaseDisowned(a) \/ Recover(a) \/ Poll(a) \/ PollFails(a)
       \/ Resume(a) \/ Reserve(a) \/ Intend(a) \/ HoldLaunch(a) \/ Launch(a)
       \/ Spawn(a) \/ Finish(a) \/ HoldRun(a) \/ WorkerDies(a)
Spec == Init /\ [][Next]_vars

-----------------------------------------------------------------------------
\* What a receipt says has been given up has no worker and never gets one: an
\* order the supervisor admitted, or a worker it left alive, has a receipt that
\* holds its slot.  The exceptions are the supervisor's own hold and the status
\* call that did not get through, which end a receipt whose worker may live.
\* The slots the open receipts hold are never more than there are, and one per
\* card, through lost acknowledgements, deaths and episodes that end early.
NobodyWorksUnseen ==
  /\ \A a \in Attempts : sup[a] \in {"accepted", "stuck", "running"} \/ a \in alive =>
       Stage(a) \in {"LAUNCH_UNKNOWN", "RUNNING"} \/ (Stage(a) = "HOLD" /\ thread[a].why \in {"held", "contact"})
  /\ Cardinality(Actives) <= MaxDispatch /\ \A i \in Issues : Cardinality(ActiveOn(i)) <= 1

\* An episode's steps are one chain: a step has a receipt only if the one
\* before it ended with the verdict that leads to it.
StepsFollow == \A a \in Attempts : a[2] > 1 /\ thread[a] # None => Routes(<<a[1], a[2] - 1>>)

\* A review that found its sandbox busy "stays a retryable FAILED, so the
\* episode routes the same review again" (supervisor-dispatch.mjs:75): each
\* failure is the failure of a run.  A worker runs at most once per attempt.
EachFailureIsARun == \A a \in Attempts : fails[a] <= IF sup[a] \in {"running", "held", "done"} THEN 1 ELSE 0

\* "Anything else (...) leaves the receipt held" (reconcile.mjs:98): while an
\* episode is armed the supervisor begins no order of an earlier one.
EndedEpisodesLaunchNothing ==
  [][\A a \in Attempts : sup[a] = "none" /\ sup'[a] = "accepted" => armed \in {0, a[1]}]_vars
=============================================================================
