----------------------------- MODULE Supervisor -----------------------------
(***************************************************************************)
(* The durable worker supervisor (.github/coordinator/supervisor.mjs): the *)
(* daemon that owns worker processes, the files it keeps, and the workers. *)
(*                                                                         *)
(* The daemon is one event loop whose handlers never await, so only a      *)
(* crash interrupts a handler; but it makes several durable writes, and a  *)
(* crash may fall between any two.  The workers are processes of their     *)
(* own: they run while the daemon is down, write their completion          *)
(* themselves, and do so between any two steps of a handler.               *)
(*                                                                         *)
(* A work order is its attempt and the branch it may write; the rest of    *)
(* its text is abstracted, as are signatures, tokens and sizes, which only *)
(* refuse.  Two different orders for one attempt differ in the branch.     *)
(***************************************************************************)
EXTENDS Naturals

CONSTANTS
  Attempts,    \* attempt ids
  Branches,    \* branches of the repository
  None,        \* no attempt, no order; as a predecessor, the start of a chain
  MaxCrashes   \* bound: how often the daemon dies or is stopped

ASSUME NoneAssumption == None \notin Attempts \cup Branches
ASSUME CrashAssumption == MaxCrashes \in Nat

VARIABLES
  \* Durable: one file each.
  intent,      \* intents/: the order and the hold code of an attempt
  claim,       \* branches/: per branch and predecessor, who claimed it
  order,       \* orders/: the branch of an admitted attempt
  run,         \* runs/: its status
  launch,      \* launches/: how far its launch got
  completion,  \* completions/: the terminal receipt
  \* The daemon's memory.
  job,         \* the handler it is in
  scheduled,   \* setImmediate: launches to come
  watched,     \* children: attempts whose process it has handlers for
  \* The worker processes.
  child,       \* what became of an attempt's process
  \* The host: the file that the daemon listens at, and whether orders and
  \* launches pass its gate (ENABLE_DISPATCH, and not stopping).
  socket,
  dispatch,
  \* History and bounds.
  spawned,     \* how many processes were started for an attempt
  disowned,    \* attempts of which status said NO_RECORDS
  crashes

fileVars == <<intent, claim, order, run, launch, completion>>
memVars == <<job, scheduled, watched>>
procVars == <<child, spawned>>
histVars == <<disowned, crashes>>
hostVars == <<socket, dispatch>>
vars == <<fileVars, memVars, procVars, hostVars, histVars>>

\* "absent" is a file that does not exist.
PreAdmissionRefusals == {"BRANCH_OCCUPIED", "MISSING_AUTHORITY"}
HoldCodes == PreAdmissionRefusals \cup {"AWAITING_LAUNCH", "AMBIGUOUS_LAUNCH"}
Intent == [branch : Branches, hold : HoldCodes]
ASSUME NoIntentAssumption == None \notin Intent
Outcomes == {"completed", "failed"}
RunStatuses == {"absent", "accepted", "running", "hold"} \cup Outcomes
LaunchPhases == {"absent", "reserved", "spawn_attempted", "launched"}

\* A process works; has recorded its completion; has then exited with 0; or
\* died of anything else.
ChildStates == {"none", "working", "recorded", "exited", "died"}

\* The handlers, and where one is.  An accept knows the claim it looks at and
\* whether submit or recover called it; a launch, whether spawning failed; a
\* finish, its outcome; recover, which attempts are left.
Down == [op |-> "down"]
Idle == [op |-> "idle"]
Accept(a, s, pred, todo) == [op |-> "accept", at |-> a, step |-> s, pred |-> pred, todo |-> todo]
Launching(a, s) == [op |-> "launch", at |-> a, step |-> s]
Finishing(a, o) == [op |-> "finish", at |-> a, outcome |-> o]
Intents(todo) == [op |-> "intents", todo |-> todo]
Recovering(s, a, todo) == [op |-> "recover", step |-> s, at |-> a, todo |-> todo]
Stopping(todo) == [op |-> "stop", todo |-> todo]

\* An accept that submit called has no attempts left over.
FromSubmit == None

Jobs ==
  {Down, Idle} \cup
  {Accept(a, s, pred, todo) : a \in Attempts, s \in {"claim", "order", "run"},
     pred \in Attempts \cup {None}, todo \in (SUBSET Attempts) \cup {FromSubmit}} \cup
  {Launching(a, s) : a \in Attempts, s \in {"mark", "spawn", "failed", "running", "launched"}} \cup
  {Finishing(a, o) : a \in Attempts, o \in Outcomes} \cup
  {Intents(todo) : todo \in SUBSET Attempts} \cup
  {Recovering(s, a, todo) : s \in {"next", "probe", "ambiguous"},
     a \in Attempts \cup {None}, todo \in SUBSET Attempts} \cup
  {Stopping(todo) : todo \in SUBSET Attempts}

Init ==
  /\ intent = [a \in Attempts |-> None]
  /\ claim = [b \in Branches |-> [p \in Attempts \cup {None} |-> None]]
  /\ order = [a \in Attempts |-> None]
  /\ run = [a \in Attempts |-> "absent"]
  /\ launch = [a \in Attempts |-> "absent"]
  /\ completion = [a \in Attempts |-> "absent"]
  /\ job = Down
  /\ scheduled = {}
  /\ watched = {}
  /\ child = [a \in Attempts |-> "none"]
  /\ spawned = [a \in Attempts |-> 0]
  /\ socket = "absent"
  /\ dispatch = "off"
  /\ disowned = {}
  /\ crashes = 0

----------------------------------------------------------------------------
(* accept: intent, claim of the branch, order, run                         *)

HoldIntent(a, code) == intent' = [intent EXCEPT ![a].hold = code]
WriteRun(a, s) == run' = [run EXCEPT ![a] = s]

\* Mutant: a refused intent is accepted anew when its order is sent again.
IntendAnew(a, b) ==
  IF intent[a] = None \/ intent[a].hold = "BRANCH_OCCUPIED"
    THEN intent' = [intent EXCEPT ![a] = [branch |-> b, hold |-> "AWAITING_LAUNCH"]]
    ELSE UNCHANGED intent

\* The first intent of an attempt is the one that stays.  The file is named
\* for the attempt and its issue; an attempt is of one issue here.
Intend(a, b) ==
  IF intent[a] = None
    THEN intent' = [intent EXCEPT ![a] = [branch |-> b, hold |-> "AWAITING_LAUNCH"]]
    ELSE UNCHANGED intent

\* An admitted attempt has its branch and its order; its run may be missing.
AcceptFrom(a, todo) ==
  job' = Accept(a, IF order[a] = None THEN "claim" ELSE "run", None, todo)

\* An order that differs from the attempt's intent is refused here.
Submit(a, b) ==
  /\ job = Idle /\ socket = "bound" /\ dispatch = "on"
  /\ intent[a] # None => intent[a].branch = b
  /\ Intend(a, b)
  /\ AcceptFrom(a, FromSubmit)
  /\ UNCHANGED <<claim, order, run, launch, completion, scheduled, watched, procVars, hostVars, histVars>>

\* Where accept returns to, after a refusal or an admission.
Return == job' = IF job.todo = FromSubmit THEN Idle ELSE Intents(job.todo)

Validated(a) == completion[a] # "absent" /\ launch[a] \in {"spawn_attempted", "launched"}

\* Mutant: an owner whose process was held is taken for finished.
FinishedOrHeld(a) == run[a] \in Outcomes \cup {"hold"} \/ Validated(a)

\* The owner of a claim has finished and can prove it.
Finished(a) ==
  /\ run[a] \in Outcomes \cup {"running"}
  /\ Validated(a)

\* The claim that follows pred is created, is the attempt's own, is another's
\* that has finished, or refuses.
ClaimBranch ==
  /\ job.op = "accept" /\ job.step = "claim"
  /\ LET a == job.at
         b == intent[a].branch
         owner == claim[b][job.pred]
     IN \/ /\ owner \in {None, a}
           /\ claim' = [claim EXCEPT ![b][job.pred] = a]
           /\ job' = [job EXCEPT !.step = "order"]
           /\ UNCHANGED intent
        \/ /\ owner \notin {None, a} /\ Finished(owner)
           /\ job' = [job EXCEPT !.pred = owner]
           /\ UNCHANGED <<intent, claim>>
        \/ /\ owner \notin {None, a} /\ ~Finished(owner)
           /\ HoldIntent(a, IF run[owner] = "absent" THEN "MISSING_AUTHORITY"
                                                     ELSE "BRANCH_OCCUPIED")
           /\ Return
           /\ UNCHANGED claim
  /\ UNCHANGED <<order, run, launch, completion, scheduled, watched, procVars, hostVars, histVars>>

CreateOrder ==
  /\ job.op = "accept" /\ job.step = "order"
  /\ order' = [order EXCEPT ![job.at] = intent[job.at].branch]
  /\ job' = [job EXCEPT !.step = "run"]
  /\ UNCHANGED <<intent, claim, run, launch, completion, scheduled, watched, procVars, hostVars, histVars>>

\* accept's last write, and submit's answer: the launch is scheduled if it is
\* still to come and nothing holds it.
CreateRun ==
  /\ job.op = "accept" /\ job.step = "run"
  /\ LET a == job.at
     IN /\ run' = IF run[a] = "absent" THEN [run EXCEPT ![a] = "accepted"] ELSE run
        /\ scheduled' =
             IF /\ job.todo = FromSubmit
                /\ run'[a] = "accepted" /\ launch[a] = "absent"
                /\ intent[a].hold = "AWAITING_LAUNCH"
               THEN scheduled \cup {a} ELSE scheduled
  /\ Return
  /\ UNCHANGED <<intent, claim, order, launch, completion, watched, procVars, hostVars, histVars>>

----------------------------------------------------------------------------
(* launch                                                                  *)

\* A queued launch starts: it does nothing unless the gate is open, the attempt
\* accepted, nothing holds it, and no launch was reserved before.
Launch(a) ==
  /\ job = Idle
  /\ a \in scheduled
  /\ scheduled' = scheduled \ {a}
  /\ IF dispatch = "on" /\ run[a] = "accepted" /\ launch[a] = "absent" /\ intent[a].hold = "AWAITING_LAUNCH"
       THEN /\ launch' = [launch EXCEPT ![a] = "reserved"]
            /\ job' = Launching(a, "mark")
       ELSE UNCHANGED <<launch, job>>
  /\ UNCHANGED <<intent, claim, order, run, completion, watched, procVars, hostVars, histVars>>

\* Mutant: the launch is reserved only in memory until the process is there.
MarkLater ==
  /\ job.op = "launch" /\ job.step = "mark"
  /\ launch' = [launch EXCEPT ![job.at] = "absent"]
  /\ job' = [job EXCEPT !.step = "spawn"]
  /\ UNCHANGED <<intent, claim, order, run, completion, scheduled, watched, procVars, hostVars, histVars>>

\* The marker that a process may exist is durable before it does.
MarkSpawn ==
  /\ job.op = "launch" /\ job.step = "mark"
  /\ launch' = [launch EXCEPT ![job.at] = "spawn_attempted"]
  /\ job' = [job EXCEPT !.step = "spawn"]
  /\ UNCHANGED <<intent, claim, order, run, completion, scheduled, watched, procVars, hostVars, histVars>>

Spawn ==
  /\ job.op = "launch" /\ job.step = "spawn"
  /\ \/ /\ child' = [child EXCEPT ![job.at] = "working"]
        /\ spawned' = [spawned EXCEPT ![job.at] = @ + 1]
        /\ job' = [job EXCEPT !.step = "running"]
     \/ /\ job' = [job EXCEPT !.step = "failed"]
        /\ UNCHANGED procVars
  /\ UNCHANGED <<fileVars, scheduled, watched, hostVars, histVars>>

SpawnFailed ==
  /\ job.op = "launch" /\ job.step = "failed"
  /\ WriteRun(job.at, "failed")
  /\ job' = Idle
  /\ UNCHANGED <<intent, claim, order, launch, completion, scheduled, watched, procVars, hostVars, histVars>>

\* A process without readable start evidence is held, but watched as well.
RecordRunning ==
  /\ job.op = "launch" /\ job.step = "running"
  /\ \E s \in {"running", "hold"} : WriteRun(job.at, s)
  /\ job' = [job EXCEPT !.step = "launched"]
  /\ UNCHANGED <<intent, claim, order, launch, completion, scheduled, watched, procVars, hostVars, histVars>>

RecordLaunched ==
  /\ job.op = "launch" /\ job.step = "launched"
  /\ launch' = [launch EXCEPT ![job.at] = "launched"]
  /\ watched' = watched \cup {job.at}
  /\ job' = Idle
  /\ UNCHANGED <<intent, claim, order, run, completion, scheduled, procVars, hostVars, histVars>>

----------------------------------------------------------------------------
(* finish                                                                  *)

\* Mutant: the completion is left to the worker.
ExitUnrecorded(a) ==
  /\ job = Idle
  /\ a \in watched
  /\ child[a] \in {"exited", "died"}
  /\ watched' = watched \ {a}
  /\ job' = Finishing(a, IF child[a] = "exited" THEN "completed" ELSE "failed")
  /\ UNCHANGED <<intent, claim, order, run, launch, completion, scheduled, procVars, hostVars, histVars>>

\* The exit of a watched process is handled: finish records a completion
\* unless the process left one.
ExitSeen(a) ==
  /\ job = Idle
  /\ a \in watched
  /\ child[a] \in {"exited", "died"}
  /\ watched' = watched \ {a}
  /\ LET o == IF child[a] = "exited" THEN "completed" ELSE "failed"
     IN /\ completion' = IF completion[a] = "absent"
                            THEN [completion EXCEPT ![a] = o] ELSE completion
        /\ job' = Finishing(a, o)
  /\ UNCHANGED <<intent, claim, order, run, launch, scheduled, procVars, hostVars, histVars>>

\* The run says how the process exited, whatever its completion says.
FinishRun ==
  /\ job.op = "finish"
  /\ WriteRun(job.at, job.outcome)
  /\ job' = Idle
  /\ UNCHANGED <<intent, claim, order, launch, completion, scheduled, watched, procVars, hostVars, histVars>>

\* Deadline, output limit, stream error, unknown message: the run is held,
\* no completion is written, and the process is sent SIGTERM (WorkerDies).
HoldIncomplete(a) ==
  /\ job = Idle
  /\ a \in watched
  /\ watched' = watched \ {a}
  /\ WriteRun(a, "hold")
  /\ UNCHANGED <<intent, claim, order, launch, completion, job, scheduled, procVars, hostVars, histVars>>

----------------------------------------------------------------------------
(* Workers                                                                 *)

\* The wrapper records what its adapter answered; a completion that exists
\* already is never replaced, and makes the wrapper fail.
WorkerRecords(a, o) ==
  /\ child[a] = "working"
  /\ IF completion[a] = "absent"
       THEN /\ completion' = [completion EXCEPT ![a] = o]
            /\ child' = [child EXCEPT ![a] = "recorded"]
       ELSE /\ child' = [child EXCEPT ![a] = "died"]
            /\ UNCHANGED completion
  /\ UNCHANGED <<intent, claim, order, run, launch, memVars, spawned, hostVars, histVars>>

\* Having recorded, it exits with 0, whatever it recorded.
WorkerExits(a) ==
  /\ child[a] = "recorded"
  /\ child' = [child EXCEPT ![a] = "exited"]
  /\ UNCHANGED <<fileVars, memVars, spawned, hostVars, histVars>>

\* It fails, is killed, or dies with its host.
WorkerDies(a) ==
  /\ child[a] \in {"working", "recorded"}
  /\ child' = [child EXCEPT ![a] = "died"]
  /\ UNCHANGED <<fileVars, memVars, spawned, hostVars, histVars>>

----------------------------------------------------------------------------
(* Crash, shutdown and recovery                                            *)

\* The daemon is gone, and s is what is left of its socket.
Ends(s) ==
  /\ crashes < MaxCrashes
  /\ crashes' = crashes + 1
  /\ job' = Down
  /\ scheduled' = {}
  /\ watched' = {}
  /\ socket' = s
  /\ dispatch' = "off"
  /\ UNCHANGED <<fileVars, procVars, disowned>>

\* A crash leaves the socket's file behind.
Crash ==
  /\ job # Down
  /\ Ends(socket)

\* stop closes the gate.  With terminateChildren every watched attempt is
\* held, then its process is sent SIGTERM; on a signal the workers go on.
Shutdown ==
  /\ job = Idle /\ socket = "bound"
  /\ crashes < MaxCrashes
  /\ \E todo \in {watched, {}} : job' = Stopping(todo)
  /\ dispatch' = "off"
  /\ UNCHANGED <<fileVars, scheduled, watched, procVars, socket, histVars>>

TerminateChild(a) ==
  /\ job.op = "stop" /\ a \in job.todo
  /\ WriteRun(a, "hold")
  /\ job' = Stopping(job.todo \ {a})
  /\ watched' = watched \ {a}
  /\ UNCHANGED <<intent, claim, order, launch, completion, scheduled, procVars, hostVars, histVars>>

\* Closing the server removes the socket.
Exit ==
  /\ job = Stopping({})
  /\ Ends("absent")

\* Whoever is sure that the daemon is gone removes a socket it left.
RemoveSocket ==
  /\ job = Down /\ socket = "bound"
  /\ socket' = "absent"
  /\ UNCHANGED <<fileVars, memVars, procVars, dispatch, histVars>>

\* The service is started, with the gate open or not; it refuses to start over
\* a socket that is there.  recover runs before the socket is opened.  It
\* accepts again what awaits its launch, since accept may not have got to the
\* order.
Restart ==
  /\ job = Down /\ socket = "absent"
  /\ dispatch' \in {"on", "off"}
  /\ job' = Intents({a \in Attempts : intent[a] # None /\ intent[a].hold = "AWAITING_LAUNCH"})
  /\ UNCHANGED <<fileVars, scheduled, watched, procVars, socket, histVars>>

RecoverIntent(a) ==
  /\ job.op = "intents" /\ a \in job.todo
  /\ AcceptFrom(a, job.todo \ {a})
  /\ UNCHANGED <<fileVars, scheduled, watched, procVars, hostVars, histVars>>

\* Mutant: only attempts that were running are recovered.
RecoverRunning ==
  /\ job = Intents({})
  /\ job' = Recovering("next", None, {a \in Attempts : run[a] = "running"})
  /\ UNCHANGED <<fileVars, scheduled, watched, procVars, hostVars, histVars>>

\* Then it goes through the attempts that have an order, a run or a completion.
RecoverAttempts ==
  /\ job = Intents({})
  /\ job' = Recovering("next", None, {a \in Attempts : order[a] # None})
  /\ UNCHANGED <<fileVars, scheduled, watched, procVars, hostVars, histVars>>

\* One attempt: a missing run is repaired; a held one stays; a completion
\* settles it; an accepted one is launched, or held if a launch was begun; a
\* running one has its process probed.
RecoverAttempt(a) ==
  /\ job.op = "recover" /\ job.step = "next" /\ a \in job.todo
  /\ LET status == IF run[a] = "absent" THEN "accepted" ELSE run[a]
         rest(s) == job' = Recovering(s, IF s = "next" THEN None ELSE a, job.todo \ {a})
     IN \/ /\ status # "hold" /\ completion[a] # "absent"
           /\ WriteRun(a, completion[a])
           /\ rest("next")
           /\ UNCHANGED <<intent, scheduled>>
        \/ /\ status = "accepted" /\ completion[a] = "absent" /\ launch[a] # "absent"
           /\ HoldIntent(a, "AMBIGUOUS_LAUNCH")
           /\ rest("ambiguous")
           /\ UNCHANGED <<run, scheduled>>
        \/ /\ status = "accepted" /\ completion[a] = "absent" /\ launch[a] = "absent"
           /\ WriteRun(a, "accepted")
           /\ scheduled' = IF intent[a].hold = "AWAITING_LAUNCH"
                              THEN scheduled \cup {a} ELSE scheduled
           /\ rest("next")
           /\ UNCHANGED intent
        \/ /\ status = "running" /\ completion[a] = "absent"
           /\ rest("probe")
           /\ UNCHANGED <<intent, run, scheduled>>
        \/ /\ status = "hold" \/ (status \in Outcomes /\ completion[a] = "absent")
           /\ rest("next")
           /\ UNCHANGED <<intent, run, scheduled>>
  /\ UNCHANGED <<claim, order, launch, completion, watched, procVars, hostVars, histVars>>

RecoverAmbiguous ==
  /\ job.op = "recover" /\ job.step = "ambiguous"
  /\ WriteRun(job.at, "hold")
  /\ job' = Recovering("next", None, job.todo)
  /\ UNCHANGED <<intent, claim, order, launch, completion, scheduled, watched, procVars, hostVars, histVars>>

\* A process proved alive goes on unwatched; one that is gone, or that cannot
\* be examined, holds its run.
RecoverProbe ==
  /\ job.op = "recover" /\ job.step = "probe"
  /\ \/ child[job.at] \in {"working", "recorded"} /\ UNCHANGED run
     \/ WriteRun(job.at, "hold")
  /\ job' = Recovering("next", None, job.todo)
  /\ UNCHANGED <<intent, claim, order, launch, completion, scheduled, watched, procVars, hostVars, histVars>>

Recovered ==
  /\ job.op = "recover" /\ job.step = "next" /\ job.todo = {}
  /\ job' = Idle
  /\ UNCHANGED <<fileVars, scheduled, watched, procVars, hostVars, histVars>>

\* Launches that recover queued may start before the socket is there.
Listen ==
  /\ job = Idle /\ socket = "absent"
  /\ socket' = "bound"
  /\ UNCHANGED <<fileVars, memVars, procVars, dispatch, histVars>>

----------------------------------------------------------------------------
(* status                                                                  *)

\* The supervisor refused the order and admitted nothing for it.
RefusedWithoutRecord(a) ==
  /\ intent[a] # None /\ intent[a].hold \in PreAdmissionRefusals
  /\ order[a] = None
  /\ run[a] = "absent" /\ launch[a] = "absent" /\ completion[a] = "absent"

\* NO_RECORDS; every other answer only reports what the files say.
Status(a) ==
  /\ job = Idle /\ socket = "bound"
  /\ RefusedWithoutRecord(a)
  /\ disowned' = disowned \cup {a}
  /\ UNCHANGED <<fileVars, memVars, procVars, hostVars, crashes>>

----------------------------------------------------------------------------

\* The handler in progress takes its next step.
Continue ==
  \/ ClaimBranch \/ CreateOrder \/ CreateRun
  \/ MarkSpawn \/ Spawn \/ SpawnFailed \/ RecordRunning \/ RecordLaunched
  \/ FinishRun
  \/ RecoverAttempts \/ RecoverAmbiguous \/ RecoverProbe \/ Recovered
  \/ \E a \in Attempts : RecoverIntent(a) \/ RecoverAttempt(a) \/ TerminateChild(a)

Worker(a) == (\E o \in Outcomes : WorkerRecords(a, o)) \/ WorkerExits(a) \/ WorkerDies(a)

Next ==
  \/ \E a \in Attempts, b \in Branches : Submit(a, b)
  \/ \E a \in Attempts :
       Status(a) \/ Launch(a) \/ ExitSeen(a) \/ HoldIncomplete(a) \/ Worker(a)
  \/ Continue
  \/ Listen \/ Crash \/ Shutdown \/ Exit \/ RemoveSocket \/ Restart

Spec == Init /\ [][Next]_vars

\* A handler runs to its end, and the event loop starves no launch queued in
\* it.  Nothing promises that a daemon that is down comes back: systemd starts
\* it three times in a minute, each time in vain while a crashed one's socket is
\* there, and not at all after a stop.
Fairness ==
  /\ WF_vars(Continue)
  /\ \A a \in Attempts : SF_vars(Launch(a))

FairSpec == Spec /\ Fairness

----------------------------------------------------------------------------
(* Properties                                                              *)

\* The shapes of the variables (the type invariant).
TypeOK ==
  /\ intent \in [Attempts -> Intent \cup {None}]
  /\ claim \in [Branches -> [Attempts \cup {None} -> Attempts \cup {None}]]
  /\ order \in [Attempts -> Branches \cup {None}]
  /\ run \in [Attempts -> RunStatuses]
  /\ launch \in [Attempts -> LaunchPhases]
  /\ completion \in [Attempts -> Outcomes \cup {"absent"}]
  /\ job \in Jobs
  /\ scheduled \in SUBSET Attempts
  /\ watched \in SUBSET Attempts
  /\ child \in [Attempts -> ChildStates]
  /\ spawned \in [Attempts -> Nat]
  /\ socket \in {"absent", "bound"}
  /\ dispatch \in {"on", "off"}
  /\ disowned \in SUBSET Attempts
  /\ crashes \in 0..MaxCrashes

\* No attempt ever gets a second process, however often its order is sent,
\* its launch queued and the daemon restarted (the launch marker).
OneProcess == \A a \in Attempts : spawned[a] <= 1

\* Two processes never work on one branch: the next attempt is admitted only
\* when the one before it has finished, also when nobody saw it finish
\* (accept's ownership chain).
OneWriterPerBranch ==
  \A a, c \in Attempts :
    child[a] = "working" /\ child[c] = "working" /\ order[a] = order[c] => a = c

\* An attempt of which status said NO_RECORDS never runs, although its order
\* may be sent again: whoever asked gave up its slot (refusedWithoutRecord).
DisownedNeverRuns == \A a \in disowned : spawned[a] = 0

\* A launched attempt is settled only with its receipt, so that status never
\* reports an outcome nothing durable backs (finish records before it writes).
SettledHasReceipt ==
  \A a \in Attempts :
    run[a] \in Outcomes /\ launch[a] = "launched" => completion[a] # "absent"

\* Accepted work whose launch nothing holds is launched or settled by the
\* daemon that admitted or recovered it, or that one dies, stops or dispatches
\* nothing; the promise is then the next daemon's, after however many crashes
\* and whenever it is started (submit's and recover's schedule).
AwaitedLaunches ==
  \A a \in Attempts :
    run[a] = "accepted" /\ intent[a].hold = "AWAITING_LAUNCH" ~> run[a] # "accepted" \/ dispatch = "off"

\* What SUPERVISOR.md says of every accepted attempt: it resumes after a
\* restart, as long as the daemon that recovers it lives and dispatches.
AcceptedResumes ==
  \A a \in Attempts :
    run[a] = "accepted" /\ job.op = "recover" ~> run[a] # "accepted" \/ dispatch = "off"

=============================================================================
