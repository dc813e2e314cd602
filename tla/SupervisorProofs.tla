-------------------------- MODULE SupervisorProofs --------------------------
(***************************************************************************)
(* One process per attempt and one writer per branch, whatever is sent,    *)
(* crashes and restarts, for any number of attempts and branches.          *)
(***************************************************************************)
EXTENDS Supervisor, TLAPS

----------------------------------------------------------------------------
(* The inductive invariant                                                 *)

\* The files of an attempt are written in their order, and hold together.
FilesFollow ==
  \A a \in Attempts :
    /\ order[a] # None => intent[a] # None /\ order[a] = intent[a].branch
    /\ run[a] # "absent" \/ launch[a] # "absent" \/ a \in watched => order[a] # None

\* A process has its launch marker and no second one; a receipt has a process
\* that works no more.
ProcessFollowsMarker ==
  \A a \in Attempts :
    /\ spawned[a] \in {0, 1}
    /\ spawned[a] = 0 => child[a] = "none"
    /\ spawned[a] = 1 => launch[a] \in {"spawn_attempted", "launched"}
    /\ completion[a] # "absent" => child[a] \in {"recorded", "exited", "died"}

\* A refusal that status reported as final is not taken back.
RefusalStays ==
  \A a \in disowned : intent[a] # None /\ intent[a].hold # "AWAITING_LAUNCH" /\ spawned[a] = 0

\* The owners of a branch's claims are one chain: it starts at None, who has a
\* successor has finished, and not two of them lack a successor.
Owns(a, b) == \E p \in Attempts \cup {None} : claim[b][p] = a
OneChain ==
  \A b \in Branches :
    /\ claim[b][None] = None => \A p \in Attempts : claim[b][p] = None
    /\ \A p \in Attempts : claim[b][p] # None => completion[p] # "absent"
    /\ \A a, c \in Attempts :
         Owns(a, b) /\ Owns(c, b) /\ claim[b][a] = None /\ claim[b][c] = None => a = c
OrdersAreOwned == \A a \in Attempts : order[a] # None => Owns(a, order[a])

\* What each handler knows.
InAccept == job.op = "accept" =>
  /\ intent[job.at] # None
  /\ job.todo # FromSubmit => \A a \in job.todo : intent[a] # None
  /\ job.step = "claim" /\ job.pred # None =>
       completion[job.pred] # "absent" /\ Owns(job.pred, intent[job.at].branch)
  /\ job.step = "order" => claim[intent[job.at].branch][job.pred] = job.at
  /\ job.step = "run" => order[job.at] # None
InLaunch == job.op = "launch" =>
  /\ order[job.at] # None /\ job.at \notin disowned
  /\ launch[job.at] = IF job.step = "mark" THEN "reserved" ELSE "spawn_attempted"
  /\ job.step \in {"mark", "spawn"} => spawned[job.at] = 0
  /\ job.step = "launched" => run[job.at] \in {"running", "hold"}
InFinish == job.op = "finish" => order[job.at] # None /\ completion[job.at] # "absent"
InRecovery ==
  /\ job.op = "intents" => \A a \in job.todo : intent[a] # None
  /\ job.op = "recover" =>
       /\ \A a \in job.todo : order[a] # None
       /\ job.step # "next" => job.at \in Attempts /\ order[job.at] # None
  /\ job.op = "stop" => \A a \in job.todo : order[a] # None

IInv ==
  /\ TypeOK /\ FilesFollow /\ ProcessFollowsMarker /\ RefusalStays
  /\ OneChain /\ OrdersAreOwned
  /\ InAccept /\ InLaunch /\ InFinish /\ InRecovery
  /\ SettledHasReceipt

----------------------------------------------------------------------------
(* The handlers the daemon can be in                                       *)

LEMMA JobShape ==
  ASSUME job \in Jobs
  PROVE  /\ job.op = "accept" =>
              /\ job.at \in Attempts /\ job.step \in {"claim", "order", "run"}
              /\ job.pred \in Attempts \cup {None} /\ job.todo \in (SUBSET Attempts) \cup {FromSubmit}
              /\ job = Accept(job.at, job.step, job.pred, job.todo)
         /\ job.op = "launch" =>
              /\ job.at \in Attempts /\ job.step \in {"mark", "spawn", "failed", "running", "launched"}
              /\ job = Launching(job.at, job.step)
         /\ job.op = "finish" => job.at \in Attempts /\ job.outcome \in Outcomes
         /\ job.op \in {"intents", "stop", "recover"} => job.todo \in SUBSET Attempts
         /\ job.op = "recover" => job.step \in {"next", "probe", "ambiguous"} /\ job.at \in Attempts \cup {None}
  BY DEF Jobs, Down, Idle, Accept, Launching, Finishing, Intents, Recovering, Stopping

LEMMA JobsBuilt ==
  /\ Down \in Jobs /\ Idle \in Jobs
  /\ \A a \in Attempts, s \in {"claim", "order", "run"}, pred \in Attempts \cup {None},
        todo \in (SUBSET Attempts) \cup {FromSubmit} : Accept(a, s, pred, todo) \in Jobs
  /\ \A a \in Attempts, s \in {"mark", "spawn", "failed", "running", "launched"} : Launching(a, s) \in Jobs
  /\ \A a \in Attempts, o \in Outcomes : Finishing(a, o) \in Jobs
  /\ \A todo \in SUBSET Attempts : Intents(todo) \in Jobs /\ Stopping(todo) \in Jobs
  /\ \A s \in {"next", "probe", "ambiguous"}, a \in Attempts \cup {None}, todo \in SUBSET Attempts :
        Recovering(s, a, todo) \in Jobs
  BY DEF Jobs

\* Nothing that was claimed, and nobody who has finished, changes.
LEMMA ChainKept ==
  ASSUME IInv, claim' = claim, \A a \in Attempts : completion[a] # "absent" => completion'[a] # "absent"
  PROVE  OneChain' /\ \A a \in Attempts \cup {None}, b \in Branches : Owns(a, b)' = Owns(a, b)
  BY DEF IInv, OneChain, Owns

LEMMA InitIsInductive == Init => IInv
<1>. SUFFICES ASSUME Init PROVE IInv
  OBVIOUS
<1>1. TypeOK
  BY JobsBuilt, CrashAssumption DEF Init, TypeOK, RunStatuses, LaunchPhases, ChildStates
<1>2. FilesFollow /\ ProcessFollowsMarker /\ RefusalStays /\ SettledHasReceipt /\ OrdersAreOwned
  BY DEF Init, FilesFollow, ProcessFollowsMarker, RefusalStays, SettledHasReceipt, OrdersAreOwned, Outcomes
<1>3. OneChain
  BY NoneAssumption DEF Init, OneChain, Owns
<1>4. InAccept /\ InLaunch /\ InFinish /\ InRecovery
  BY DEF Init, Down, InAccept, InLaunch, InFinish, InRecovery
<1>. QED  BY <1>1, <1>2, <1>3, <1>4 DEF IInv

----------------------------------------------------------------------------
(* Steps that write no file, or only a run                                 *)

\* The daemon turns to another handler.
LEMMA TurnPreserves ==
  ASSUME IInv, UNCHANGED <<fileVars, procVars, disowned>>,
         job' \in Jobs, scheduled' \in SUBSET Attempts, watched' \in SUBSET watched,
         crashes' \in 0 .. MaxCrashes, socket' \in {"absent", "bound"}, dispatch' \in {"on", "off"},
         InAccept', InLaunch', InFinish', InRecovery'
  PROVE  IInv'
<1>. USE DEF IInv, fileVars, procVars
<1>1. TypeOK'
  BY DEF TypeOK
<1>2. FilesFollow' /\ ProcessFollowsMarker' /\ RefusalStays' /\ SettledHasReceipt'
  BY DEF FilesFollow, ProcessFollowsMarker, RefusalStays, SettledHasReceipt
<1>3. OneChain' /\ OrdersAreOwned'
  BY DEF OneChain, OrdersAreOwned, Owns
<1>. QED  BY <1>1, <1>2, <1>3

\* The run of an admitted attempt is written.
LEMMA RunPreserves ==
  ASSUME IInv, NEW a \in Attempts, order[a] # None, NEW s \in RunStatuses, s # "absent", WriteRun(a, s),
         s \in Outcomes /\ launch[a] = "launched" => completion[a] # "absent",
         UNCHANGED <<intent, claim, order, launch, completion, procVars, hostVars, histVars>>,
         job' \in Jobs, scheduled' \in SUBSET Attempts, watched' \in SUBSET watched,
         InAccept', InLaunch', InFinish', InRecovery'
  PROVE  IInv'
<1>. USE DEF IInv, procVars, hostVars, histVars, WriteRun
<1>1. TypeOK'
  BY DEF TypeOK
<1>2. FilesFollow' /\ ProcessFollowsMarker' /\ RefusalStays' /\ SettledHasReceipt'
  BY DEF FilesFollow, ProcessFollowsMarker, RefusalStays, SettledHasReceipt, TypeOK
<1>3. OneChain' /\ OrdersAreOwned'
  BY DEF OneChain, OrdersAreOwned, Owns
<1>. QED  BY <1>1, <1>2, <1>3

\* Shutdown, crash and restart, the socket, and the frame of recovery.
LEMMA TurningPreserves ==
  ASSUME IInv,
         \/ Crash \/ Shutdown \/ Exit \/ RemoveSocket \/ Restart
         \/ RecoverAttempts \/ Recovered \/ Listen \/ \E a \in Attempts : RecoverIntent(a)
  PROVE  IInv'
<1>. USE JobShape, JobsBuilt DEF IInv, TypeOK, InAccept, InLaunch, InFinish, InRecovery, FilesFollow,
       fileVars, procVars, hostVars, histVars, memVars, Idle, Down, Intents
<1>1. ASSUME NEW s \in {"absent", "bound"}, Ends(s) PROVE IInv'
  <2>1. crashes' \in 0 .. MaxCrashes
    BY <1>1, CrashAssumption DEF Ends
  <2>. QED  BY <1>1, <2>1, TurnPreserves DEF Ends
<1>2. CASE Shutdown
  <2>1. PICK todo \in {watched, {}} : job' = Stopping(todo)
    BY <1>2 DEF Shutdown
  <2>2. job' \in Jobs /\ todo \in SUBSET watched
    BY <2>1
  <2>3. InAccept' /\ InLaunch' /\ InFinish' /\ InRecovery'
    BY <1>2, <2>1, <2>2 DEF Shutdown, Stopping
  <2>. QED  BY <1>2, <2>2, <2>3, TurnPreserves DEF Shutdown
<1>3. CASE Restart
  BY <1>3, TurnPreserves DEF Restart
<1>4. CASE RecoverAttempts
  BY <1>4, TurnPreserves DEF RecoverAttempts, Recovering
<1>5. CASE Recovered
  BY <1>5, TurnPreserves DEF Recovered
<1>6. ASSUME NEW a \in Attempts, RecoverIntent(a) PROVE IInv'
  BY <1>6, TurnPreserves DEF RecoverIntent, AcceptFrom, Accept
<1>7. CASE RemoveSocket \/ Listen
  <2>1. /\ socket' \in {"absent", "bound"}
        /\ UNCHANGED <<fileVars, memVars, procVars, dispatch, disowned, crashes>>
    BY <1>7 DEF RemoveSocket, Listen
  <2>2. InAccept' /\ InLaunch' /\ InFinish' /\ InRecovery'
    BY <2>1 DEF Owns
  <2>. QED  BY <2>1, <2>2, TurnPreserves
<1>. QED  BY <1>1, <1>2, <1>3, <1>4, <1>5, <1>6, <1>7 DEF Crash, Exit

\* The handlers that write a run.
LEMMA WritingRunPreserves ==
  ASSUME IInv,
         \/ SpawnFailed \/ RecordRunning \/ FinishRun \/ RecoverAmbiguous \/ RecoverProbe
         \/ \E a \in Attempts : HoldIncomplete(a) \/ TerminateChild(a)
  PROVE  IInv'
<1>. USE JobShape, JobsBuilt DEF IInv, TypeOK, InAccept, InLaunch, InFinish, InRecovery, FilesFollow,
       procVars, hostVars, histVars, memVars, Idle, RunStatuses, Outcomes
<1>1. CASE SpawnFailed
  BY <1>1, RunPreserves DEF SpawnFailed
<1>2. CASE RecordRunning
  <2>1. job' = Launching(job.at, "launched")
    BY <1>2 DEF RecordRunning, Launching
  <2>2. PICK s \in {"running", "hold"} : WriteRun(job.at, s)
    BY <1>2 DEF RecordRunning
  <2>3. InLaunch'
    BY <1>2, <2>1, <2>2 DEF RecordRunning, WriteRun, Launching
  <2>4. /\ job.at \in Attempts /\ order[job.at] # None /\ launch[job.at] # "launched"
        /\ UNCHANGED <<intent, claim, order, launch, completion, scheduled, watched, procVars, hostVars, histVars>>
    BY <1>2 DEF RecordRunning
  <2>5. job' \in Jobs /\ InAccept' /\ InFinish' /\ InRecovery'
    <3>1. job'.op = "launch"
      BY <2>1 DEF Launching
    <3>2. job' \in Jobs
      BY <2>1, <2>4
    <3>. QED  BY <3>1, <3>2
  <2>. QED  BY <2>2, <2>3, <2>4, <2>5, RunPreserves
<1>3. CASE FinishRun
  BY <1>3, RunPreserves DEF FinishRun
<1>4. CASE RecoverAmbiguous
  BY <1>4, RunPreserves DEF RecoverAmbiguous, Recovering
<1>5. CASE RecoverProbe
  <2>1. job' = Recovering("next", None, job.todo) /\ InRecovery'
    BY <1>5 DEF RecoverProbe, Recovering
  <2>2. job' \in Jobs /\ InAccept' /\ InLaunch' /\ InFinish'
    <3>1. job'.op = "recover"
      BY <2>1 DEF Recovering
    <3>2. job.todo \in SUBSET Attempts
      BY <1>5 DEF RecoverProbe
    <3>. QED  BY <2>1, <3>1, <3>2
  <2>3. CASE UNCHANGED run
    BY <1>5, <2>1, <2>2, <2>3, TurnPreserves DEF RecoverProbe, fileVars
  <2>4. CASE WriteRun(job.at, "hold")
    BY <1>5, <2>1, <2>2, <2>4, RunPreserves DEF RecoverProbe
  <2>. QED  BY <1>5, <2>3, <2>4 DEF RecoverProbe
<1>6. ASSUME NEW a \in Attempts, HoldIncomplete(a) PROVE IInv'
  BY <1>6, RunPreserves DEF HoldIncomplete
<1>7. ASSUME NEW a \in Attempts, TerminateChild(a) PROVE IInv'
  BY <1>7, RunPreserves DEF TerminateChild, Stopping
<1>. QED  BY <1>1, <1>2, <1>3, <1>4, <1>5, <1>6, <1>7

----------------------------------------------------------------------------
(* accept                                                                  *)

LEMMA SubmitPreserves ==
  ASSUME IInv, NEW a \in Attempts, NEW b \in Branches, Submit(a, b)
  PROVE  IInv'
<1>. USE NoneAssumption, NoIntentAssumption
     DEF IInv, TypeOK, Submit, procVars, hostVars, histVars, Idle, Intent, HoldCodes, PreAdmissionRefusals
<1>1. /\ intent' \in [Attempts -> Intent \cup {None}] /\ intent'[a] # None
      /\ \A c \in Attempts : intent[c] # None => intent'[c] = intent[c]
  BY DEF Intend
<1>2. job' = Accept(a, IF order[a] = None THEN "claim" ELSE "run", None, FromSubmit) /\ job' \in Jobs
  <2>1. job' = Accept(a, IF order[a] = None THEN "claim" ELSE "run", None, FromSubmit)
    BY DEF AcceptFrom
  <2>2. \A s \in {"claim", "run"} : Accept(a, s, None, FromSubmit) \in Jobs
    BY JobsBuilt
  <2>. QED  BY <2>1, <2>2
<1>3. TypeOK'
  BY <1>1, <1>2
<1>4. FilesFollow' /\ ProcessFollowsMarker' /\ RefusalStays' /\ SettledHasReceipt'
  BY <1>1 DEF FilesFollow, ProcessFollowsMarker, RefusalStays, SettledHasReceipt
<1>5. OneChain' /\ OrdersAreOwned'
  BY ChainKept DEF OrdersAreOwned
<1>6. InAccept' /\ InLaunch' /\ InFinish' /\ InRecovery'
  BY <1>1, <1>2 DEF InAccept, InLaunch, InFinish, InRecovery, Accept
<1>. QED  BY <1>3, <1>4, <1>5, <1>6

\* Back to whoever called accept.
LEMMA Returned ==
  ASSUME IInv, job.op = "accept", Return,
         \A a \in Attempts : intent[a] # None => intent'[a] # None
  PROVE  job' \in Jobs /\ InAccept' /\ InLaunch' /\ InFinish' /\ InRecovery'
<1>. USE DEF InAccept, InLaunch, InFinish, InRecovery
<1>1. CASE job.todo = FromSubmit
  BY <1>1, JobsBuilt DEF Return, Idle
<1>2. CASE job.todo # FromSubmit
  <2>1. job.todo \in SUBSET Attempts /\ job' = Intents(job.todo)
    BY <1>2, JobShape DEF Return, IInv, TypeOK
  <2>. QED  BY <1>2, <2>1, JobsBuilt DEF Intents, IInv
<1>. QED  BY <1>1, <1>2

LEMMA CreateOrderPreserves ==
  ASSUME IInv, CreateOrder
  PROVE  IInv'
<1>. DEFINE a == job.at
            b == intent[a].branch
<1>. USE DEF IInv, TypeOK, procVars, hostVars, histVars
<1>1. a \in Attempts /\ intent[a] # None /\ b \in Branches /\ claim[b][job.pred] = a /\ job.pred \in Attempts \cup {None}
  BY JobShape DEF CreateOrder, InAccept, Intent
<1>2. job' = Accept(a, "run", job.pred, job.todo) /\ job' \in Jobs
  BY JobShape, JobsBuilt DEF CreateOrder, Accept
<1>3. order' = [order EXCEPT ![a] = b] /\ UNCHANGED <<intent, claim, run, launch, completion, scheduled, watched, child, spawned, socket, dispatch, disowned, crashes>>
  BY DEF CreateOrder
<1>4. TypeOK'
  BY <1>1, <1>2, <1>3
<1>5. FilesFollow' /\ ProcessFollowsMarker' /\ RefusalStays' /\ SettledHasReceipt'
  BY <1>1, <1>3, NoneAssumption DEF FilesFollow, ProcessFollowsMarker, RefusalStays, SettledHasReceipt
<1>6. OneChain'
  <2>1. OneChain
    OBVIOUS
  <2>. QED  BY ONLY <1>3, <2>1 DEF OneChain, Owns
<1>7. OrdersAreOwned'
  BY <1>1, <1>3 DEF OrdersAreOwned, Owns
<1>8. InAccept'
  BY <1>1, <1>2, <1>3, NoneAssumption DEF InAccept, Accept, CreateOrder
<1>9. InLaunch' /\ InFinish' /\ InRecovery'
  BY <1>2 DEF InLaunch, InFinish, InRecovery, Accept
<1>. QED  BY <1>4, <1>5, <1>6, <1>7, <1>8, <1>9

LEMMA CreateRunPreserves ==
  ASSUME IInv, CreateRun
  PROVE  IInv'
<1>. USE DEF IInv, TypeOK, CreateRun, procVars, hostVars, histVars
<1>1. job.at \in Attempts /\ order[job.at] # None
  BY JobShape DEF InAccept
<1>2. job' \in Jobs /\ InAccept' /\ InLaunch' /\ InFinish' /\ InRecovery'
  BY Returned
<1>3. TypeOK'
  BY <1>1, <1>2 DEF RunStatuses
<1>4. FilesFollow' /\ ProcessFollowsMarker' /\ RefusalStays' /\ SettledHasReceipt'
  BY <1>1 DEF FilesFollow, ProcessFollowsMarker, RefusalStays, SettledHasReceipt, RunStatuses, Outcomes
<1>5. OneChain' /\ OrdersAreOwned'
  BY DEF OneChain, OrdersAreOwned, Owns
<1>. QED  BY <1>2, <1>3, <1>4, <1>5

\* The end of the chain is claimed: whoever has it now is its only end.
LEMMA ClaimKeepsChain ==
  ASSUME IInv, NEW b \in Branches, NEW p \in Attempts \cup {None}, NEW a \in Attempts,
         claim[b][p] = None, p # None => completion[p] # "absent" /\ Owns(p, b),
         claim' = [claim EXCEPT ![b][p] = a], completion' = completion
  PROVE  /\ OneChain' /\ claim' \in [Branches -> [Attempts \cup {None} -> Attempts \cup {None}]]
         /\ \A x \in Attempts, d \in Branches : Owns(x, d) => Owns(x, d)'
<1>1. claim \in [Branches -> [Attempts \cup {None} -> Attempts \cup {None}]] /\ a # None
  BY NoneAssumption DEF IInv, TypeOK
<1>2. /\ claim' \in [Branches -> [Attempts \cup {None} -> Attempts \cup {None}]]
      /\ claim'[b][p] = a /\ \A q \in Attempts \cup {None} : q # p => claim'[b][q] = claim[b][q]
      /\ \A d \in Branches : d # b => claim'[d] = claim[d]
  BY <1>1
<1>3. \A x \in Attempts, d \in Branches : Owns(x, d) => Owns(x, d)'
  BY <1>1, <1>2, NoneAssumption DEF Owns
<1>4. \A d \in Branches : d # b => \A x \in Attempts : Owns(x, d)' = Owns(x, d)
  BY <1>2 DEF Owns
<1>5. \A x \in Attempts : Owns(x, b)' => x = a \/ Owns(x, b)
  BY <1>2 DEF Owns
\* Nobody but a can be an end now.
<1>6. ASSUME NEW x \in Attempts, Owns(x, b)', claim'[b][x] = None PROVE x = a
  <2>. SUFFICES ASSUME x # a PROVE FALSE
    OBVIOUS
  <2>1. Owns(x, b) /\ x # p /\ claim[b][x] = None
    BY <1>1, <1>2, <1>5, <1>6
  <2>2. CASE p = None
    BY <1>1, <2>1, <2>2, NoneAssumption DEF IInv, OneChain, Owns
  <2>3. CASE p # None
    BY <2>1, <2>3 DEF IInv, OneChain
  <2>. QED  BY <2>2, <2>3
<1>7. claim'[b][None] # None
  <2>1. CASE p = None
    BY <1>1, <1>2, <2>1
  <2>2. CASE p # None
    <3>1. claim[b][None] # None
      BY <2>2, NoneAssumption DEF IInv, OneChain, Owns
    <3>. QED  BY <1>2, <2>2, <3>1
  <2>. QED  BY <2>1, <2>2
<1>8. \A q \in Attempts : claim'[b][q] # None => completion'[q] # "absent"
  BY <1>2, NoneAssumption DEF IInv, OneChain
<1>9. OneChain'
  <2>. SUFFICES ASSUME NEW d \in Branches
       PROVE /\ claim'[d][None] = None => \A q \in Attempts : claim'[d][q] = None
             /\ \A q \in Attempts : claim'[d][q] # None => completion'[q] # "absent"
             /\ \A x, y \in Attempts :
                  Owns(x, d)' /\ Owns(y, d)' /\ claim'[d][x] = None /\ claim'[d][y] = None => x = y
    BY DEF OneChain
  <2>1. CASE d = b
    BY <1>6, <1>7, <1>8, <2>1
  <2>2. CASE d # b
    BY <1>2, <1>4, <2>2 DEF IInv, OneChain
  <2>. QED  BY <2>1, <2>2
<1>. QED  BY <1>2, <1>3, <1>9

LEMMA ClaimBranchPreserves ==
  ASSUME IInv, ClaimBranch
  PROVE  IInv'
<1>. DEFINE a == job.at
            b == intent[a].branch
            p == job.pred
            owner == claim[b][p]
<1>1. /\ job.op = "accept" /\ job.step = "claim" /\ job = Accept(a, "claim", p, job.todo)
      /\ a \in Attempts /\ p \in Attempts \cup {None} /\ job.todo \in (SUBSET Attempts) \cup {FromSubmit}
      /\ intent[a] \in Intent /\ b \in Branches /\ owner \in Attempts \cup {None}
      /\ p # None => completion[p] # "absent" /\ Owns(p, b)
      /\ UNCHANGED <<order, run, launch, completion, scheduled, watched, child, spawned, socket, dispatch, disowned, crashes>>
  <2>1. /\ job.op = "accept" /\ job.step = "claim"
        /\ UNCHANGED <<order, run, launch, completion, scheduled, watched, child, spawned, socket, dispatch, disowned, crashes>>
    BY DEF ClaimBranch, procVars, hostVars, histVars
  <2>2. job \in Jobs /\ InAccept
    BY DEF IInv, TypeOK
  <2>3. /\ job = Accept(a, "claim", p, job.todo)
        /\ a \in Attempts /\ p \in Attempts \cup {None} /\ job.todo \in (SUBSET Attempts) \cup {FromSubmit}
    BY <2>1, <2>2, JobShape
  <2>4. intent[a] \in Intent /\ (p # None => completion[p] # "absent" /\ Owns(p, b))
    <3>1. intent[a] # None /\ (p # None => completion[p] # "absent" /\ Owns(p, b))
      BY <2>1, <2>2 DEF InAccept
    <3>2. intent[a] \in Intent \cup {None}
      BY <2>3 DEF IInv, TypeOK
    <3>. QED  BY <3>1, <3>2
  <2>5. b \in Branches
    BY <2>4 DEF Intent
  <2>6. owner \in Attempts \cup {None}
    BY <2>3, <2>5 DEF IInv, TypeOK
  <2>. QED  BY <2>1, <2>3, <2>4, <2>5, <2>6
<1>2. a # None /\ intent[a] # None
  BY <1>1, NoneAssumption, NoIntentAssumption
<1>3. CASE owner \in {None, a} /\ claim' = [claim EXCEPT ![b][p] = a]
           /\ job' = [job EXCEPT !.step = "order"] /\ intent' = intent
  <2>1. job' = Accept(a, "order", p, job.todo)
    BY <1>1, <1>3 DEF Accept
  <2>2. job' \in Jobs
    BY <1>1, <2>1, JobsBuilt
  <2>3. /\ OneChain' /\ claim' \in [Branches -> [Attempts \cup {None} -> Attempts \cup {None}]]
        /\ \A x \in Attempts, d \in Branches : Owns(x, d) => Owns(x, d)'
    <3>1. CASE owner = None
      BY <1>1, <1>3, <3>1, ClaimKeepsChain
    <3>2. CASE owner = a
      <4>1. claim' = claim
        BY <1>1, <1>3, <3>2 DEF IInv, TypeOK
      <4>. QED  BY <1>1, <4>1, ChainKept DEF IInv, TypeOK
    <3>. QED  BY <1>3, <3>1, <3>2
  <2>4. TypeOK'
    BY <1>1, <1>3, <2>2, <2>3 DEF IInv, TypeOK
  <2>5. FilesFollow' /\ ProcessFollowsMarker' /\ RefusalStays' /\ SettledHasReceipt'
    BY <1>1, <1>3 DEF IInv, FilesFollow, ProcessFollowsMarker, RefusalStays, SettledHasReceipt
  <2>6. OrdersAreOwned'
    BY <1>1, <2>3 DEF IInv, TypeOK, OrdersAreOwned
  <2>7. claim'[b][p] = a
    BY <1>1, <1>3 DEF IInv, TypeOK
  <2>8. InAccept' /\ InLaunch' /\ InFinish' /\ InRecovery'
    BY <1>1, <1>3, <2>1, <2>7 DEF IInv, InAccept, InLaunch, InFinish, InRecovery, Accept
  <2>. QED  BY <2>3, <2>4, <2>5, <2>6, <2>8 DEF IInv
<1>4. CASE owner \notin {None, a} /\ Finished(owner)
           /\ job' = [job EXCEPT !.pred = owner] /\ UNCHANGED <<intent, claim>>
  <2>1. job' = Accept(a, "claim", owner, job.todo)
    BY <1>1, <1>4 DEF Accept
  <2>2. job' \in Jobs
    BY <1>1, <2>1, JobsBuilt
  <2>3. completion[owner] # "absent" /\ Owns(owner, b)
    BY <1>1, <1>4 DEF Finished, Validated, Owns
  <2>4. InAccept' /\ InLaunch' /\ InFinish' /\ InRecovery'
    BY <1>1, <1>4, <2>1, <2>3 DEF IInv, InAccept, InLaunch, InFinish, InRecovery, Accept, Owns
  <2>. QED  BY <1>1, <1>4, <2>2, <2>4, TurnPreserves DEF IInv, TypeOK, fileVars, procVars
<1>5. CASE HoldIntent(a, IF run[owner] = "absent" THEN "MISSING_AUTHORITY" ELSE "BRANCH_OCCUPIED")
           /\ Return /\ claim' = claim
  <2>1. PICK code \in PreAdmissionRefusals : intent' = [intent EXCEPT ![a] = [intent[a] EXCEPT !.hold = code]]
    BY <1>5 DEF HoldIntent, PreAdmissionRefusals
  <2>2. [intent[a] EXCEPT !.hold = code] \in Intent
    BY <1>1 DEF Intent, HoldCodes
  <2>3. /\ intent' \in [Attempts -> Intent \cup {None}] /\ intent'[a] # None
        /\ intent'[a].branch = b /\ intent'[a].hold # "AWAITING_LAUNCH"
        /\ \A c \in Attempts : c # a => intent'[c] = intent[c]
    BY <1>1, <2>1, <2>2, NoIntentAssumption DEF IInv, TypeOK, PreAdmissionRefusals, Intent
  <2>4. job' \in Jobs /\ InAccept' /\ InLaunch' /\ InFinish' /\ InRecovery'
    BY <1>1, <1>5, <2>3, Returned
  <2>5. TypeOK'
    BY <1>1, <1>5, <2>3, <2>4 DEF IInv, TypeOK
  <2>6. FilesFollow' /\ ProcessFollowsMarker' /\ RefusalStays' /\ SettledHasReceipt'
    BY <1>1, <2>3 DEF IInv, TypeOK, FilesFollow, ProcessFollowsMarker, RefusalStays, SettledHasReceipt
  <2>7. OneChain' /\ OrdersAreOwned'
    BY <1>1, <1>5, ChainKept DEF IInv, TypeOK, OrdersAreOwned
  <2>. QED  BY <2>4, <2>5, <2>6, <2>7 DEF IInv
<1>. QED  BY <1>1, <1>3, <1>4, <1>5 DEF ClaimBranch

----------------------------------------------------------------------------
(* launch                                                                  *)

\* A step of a launch that leaves intents, claims, orders and receipts alone.
LEMMA LaunchStepPreserves ==
  ASSUME IInv, UNCHANGED <<intent, claim, order, run, completion, hostVars, histVars>>,
         TypeOK', FilesFollow', ProcessFollowsMarker',
         \A a \in disowned : spawned'[a] = spawned[a],
         \A a \in Attempts : launch'[a] = "launched" /\ launch[a] # "launched" => run[a] \notin Outcomes,
         InAccept', InLaunch', InFinish', InRecovery'
  PROVE  IInv'
<1>1. OneChain' /\ OrdersAreOwned'
  BY ChainKept DEF IInv, TypeOK, OrdersAreOwned
<1>2. RefusalStays' /\ SettledHasReceipt'
  BY DEF IInv, TypeOK, RefusalStays, SettledHasReceipt, hostVars, histVars
<1>. QED  BY <1>1, <1>2 DEF IInv

LEMMA LaunchPreserves ==
  ASSUME IInv, NEW a \in Attempts, Launch(a)
  PROVE  IInv'
<1>. USE DEF IInv, TypeOK, procVars, hostVars, histVars
<1>1. CASE /\ run[a] = "accepted" /\ launch[a] = "absent" /\ intent[a].hold = "AWAITING_LAUNCH"
           /\ launch' = [launch EXCEPT ![a] = "reserved"] /\ job' = Launching(a, "mark")
  <2>1. order[a] # None /\ spawned[a] = 0 /\ a \notin disowned
    BY <1>1 DEF FilesFollow, ProcessFollowsMarker, RefusalStays
  <2>2. TypeOK'
    BY <1>1, JobsBuilt DEF Launch, LaunchPhases
  <2>3. FilesFollow' /\ ProcessFollowsMarker'
    BY <1>1, <2>1 DEF Launch, FilesFollow, ProcessFollowsMarker
  <2>4. InAccept' /\ InLaunch' /\ InFinish' /\ InRecovery'
    BY <1>1, <2>1 DEF Launch, Launching, InAccept, InLaunch, InFinish, InRecovery
  <2>5. \A c \in Attempts : launch'[c] = "launched" => launch[c] = "launched"
    BY <1>1
  <2>6. UNCHANGED <<intent, claim, order, run, completion, hostVars, histVars>> /\ spawned' = spawned
    BY DEF Launch
  <2>. QED  BY <2>2, <2>3, <2>4, <2>5, <2>6, LaunchStepPreserves
<1>2. CASE UNCHANGED <<launch, job>>
  <2>1. InAccept' /\ InLaunch' /\ InFinish' /\ InRecovery'
    BY <1>2 DEF Launch, Idle, InAccept, InLaunch, InFinish, InRecovery
  <2>. QED  BY <1>2, <2>1, TurnPreserves DEF Launch, fileVars
<1>. QED  BY <1>1, <1>2 DEF Launch

LEMMA LaunchingPreserves ==
  ASSUME IInv, MarkSpawn \/ Spawn \/ RecordLaunched
  PROVE  IInv'
<1>. DEFINE a == job.at
<1>. USE DEF IInv, TypeOK, procVars, hostVars, histVars, fileVars
<1>1. job.op = "launch" /\ a \in Attempts /\ job = Launching(a, job.step)
      /\ order[a] # None /\ a \notin disowned
  BY JobShape DEF MarkSpawn, Spawn, RecordLaunched, InLaunch
<1>2. CASE MarkSpawn
  <2>1. job' = Launching(a, "spawn") /\ launch' = [launch EXCEPT ![a] = "spawn_attempted"] /\ spawned[a] = 0
    BY <1>1, <1>2 DEF MarkSpawn, Launching, InLaunch
  <2>2. TypeOK'
    <3>1. job' \in Jobs
      BY <1>1, <2>1, JobsBuilt
    <3>2. launch' \in [Attempts -> LaunchPhases]
      BY <2>1 DEF LaunchPhases
    <3>. QED  BY <1>2, <3>1, <3>2 DEF MarkSpawn
  <2>3. FilesFollow' /\ ProcessFollowsMarker'
    BY <1>1, <1>2, <2>1 DEF MarkSpawn, FilesFollow, ProcessFollowsMarker
  <2>4. InAccept' /\ InLaunch' /\ InFinish' /\ InRecovery'
    BY <1>1, <1>2, <2>1 DEF MarkSpawn, Launching, InAccept, InLaunch, InFinish, InRecovery
  <2>5. \A c \in Attempts : launch'[c] = "launched" => launch[c] = "launched"
    BY <2>1
  <2>6. UNCHANGED <<intent, claim, order, run, completion, hostVars, histVars>> /\ spawned' = spawned
    BY <1>2 DEF MarkSpawn
  <2>. QED  BY <2>2, <2>3, <2>4, <2>5, <2>6, LaunchStepPreserves
<1>3. CASE Spawn
  <2>1. /\ launch[a] = "spawn_attempted" /\ spawned[a] = 0 /\ UNCHANGED <<fileVars, scheduled, watched, hostVars, histVars>>
        /\ \/ /\ job' = Launching(a, "running")
              /\ child' = [child EXCEPT ![a] = "working"] /\ spawned' = [spawned EXCEPT ![a] = 1]
           \/ job' = Launching(a, "failed") /\ UNCHANGED procVars
    BY <1>1, <1>3 DEF Spawn, Launching, InLaunch
  <2>2. completion[a] = "absent"
    BY <1>1, <2>1 DEF ProcessFollowsMarker
  <2>3. child' \in [Attempts -> ChildStates] /\ spawned' \in [Attempts -> Nat]
    BY <2>1 DEF ChildStates
  <2>4. job' \in Jobs
    BY <1>1, <2>1, JobsBuilt
  <2>5. TypeOK'
    BY <2>1, <2>3, <2>4
  <2>6. FilesFollow' /\ ProcessFollowsMarker'
    BY <1>1, <2>1, <2>2 DEF FilesFollow, ProcessFollowsMarker
  <2>7. InAccept' /\ InLaunch' /\ InFinish' /\ InRecovery'
    BY <1>1, <2>1 DEF Launching, InAccept, InLaunch, InFinish, InRecovery
  <2>8. \A c \in disowned : spawned'[c] = spawned[c]
    BY <1>1, <2>1
  <2>. QED  BY <2>1, <2>5, <2>6, <2>7, <2>8, LaunchStepPreserves
<1>4. CASE RecordLaunched
  <2>1. /\ launch[a] = "spawn_attempted" /\ run[a] \in {"running", "hold"}
        /\ launch' = [launch EXCEPT ![a] = "launched"] /\ watched' = watched \cup {a} /\ job' = Idle
        /\ UNCHANGED <<intent, claim, order, run, completion, hostVars, histVars, scheduled, child, spawned>>
    BY <1>1, <1>4 DEF RecordLaunched, InLaunch
  <2>2. TypeOK'
    BY <1>1, <2>1, JobsBuilt DEF LaunchPhases
  <2>3. FilesFollow' /\ ProcessFollowsMarker'
    BY <1>1, <2>1 DEF FilesFollow, ProcessFollowsMarker
  <2>4. InAccept' /\ InLaunch' /\ InFinish' /\ InRecovery'
    BY <1>1, <2>1 DEF Idle, InAccept, InLaunch, InFinish, InRecovery
  <2>5. \A c \in Attempts : launch'[c] = "launched" /\ launch[c] # "launched" => run[c] \notin Outcomes
    BY <2>1 DEF Outcomes
  <2>. QED  BY <2>1, <2>2, <2>3, <2>4, <2>5, LaunchStepPreserves
<1>. QED  BY <1>2, <1>3, <1>4

----------------------------------------------------------------------------
(* Receipts and recovery                                                   *)

LEMMA ExitSeenPreserves ==
  ASSUME IInv, NEW a \in Attempts, ExitSeen(a)
  PROVE  IInv'
<1>. USE DEF IInv, TypeOK, procVars, hostVars, histVars
<1>1. PICK o \in Outcomes :
        /\ job' = Finishing(a, o)
        /\ completion' = IF completion[a] = "absent" THEN [completion EXCEPT ![a] = o] ELSE completion
  BY DEF ExitSeen, Outcomes
<1>2. /\ child[a] \in {"exited", "died"} /\ watched' = watched \ {a} /\ order[a] # None
      /\ UNCHANGED <<intent, claim, order, run, launch, scheduled, child, spawned, socket, dispatch, disowned, crashes>>
  BY DEF ExitSeen, FilesFollow
<1>3. completion'[a] # "absent" /\ \A c \in Attempts : c # a => completion'[c] = completion[c]
  BY <1>1 DEF Outcomes
<1>4. TypeOK'
  BY <1>1, <1>2, JobsBuilt
<1>5. FilesFollow' /\ ProcessFollowsMarker' /\ RefusalStays' /\ SettledHasReceipt'
  BY <1>2, <1>3 DEF FilesFollow, ProcessFollowsMarker, RefusalStays, SettledHasReceipt
<1>6. OneChain' /\ OrdersAreOwned'
  BY <1>2, <1>3, ChainKept DEF OrdersAreOwned
<1>7. InAccept' /\ InLaunch' /\ InFinish' /\ InRecovery'
  BY <1>1, <1>2, <1>3 DEF InAccept, InLaunch, InFinish, InRecovery, Finishing
<1>. QED  BY <1>4, <1>5, <1>6, <1>7

\* A worker's steps, at any point of a handler.
LEMMA WorkerPreserves ==
  ASSUME IInv, NEW a \in Attempts, Worker(a)
  PROVE  IInv'
<1>. USE DEF IInv, TypeOK, memVars, hostVars, histVars
<1>1. /\ child[a] \in {"working", "recorded"}
      /\ UNCHANGED <<intent, claim, order, run, launch, job, scheduled, watched, spawned, socket, dispatch, disowned, crashes>>
      /\ \E c \in {"recorded", "exited", "died"} : child' = [child EXCEPT ![a] = c]
      /\ \/ completion' = completion
         \/ \E o \in Outcomes : completion' = [completion EXCEPT ![a] = o]
  BY DEF Worker, WorkerRecords, WorkerExits, WorkerDies, fileVars
<1>2. /\ child' \in [Attempts -> ChildStates] /\ completion' \in [Attempts -> Outcomes \cup {"absent"}]
      /\ child'[a] \in {"recorded", "exited", "died"} /\ \A c \in Attempts : c # a => child'[c] = child[c]
      /\ \A c \in Attempts : completion[c] # "absent" => completion'[c] # "absent"
      /\ \A c \in Attempts : c # a => completion'[c] = completion[c]
  BY <1>1 DEF ChildStates, Outcomes
<1>3. TypeOK'
  BY <1>1, <1>2
<1>4. FilesFollow' /\ ProcessFollowsMarker' /\ RefusalStays' /\ SettledHasReceipt'
  BY <1>1, <1>2 DEF FilesFollow, ProcessFollowsMarker, RefusalStays, SettledHasReceipt
<1>5. OneChain' /\ \A x \in Attempts \cup {None}, b \in Branches : Owns(x, b)' = Owns(x, b)
  BY <1>1, <1>2, ChainKept
<1>6. OrdersAreOwned'
  BY <1>1, <1>5 DEF OrdersAreOwned
<1>7. InAccept'
  BY <1>1, <1>2, JobShape, NoneAssumption DEF InAccept, Owns
<1>8. InLaunch' /\ InFinish' /\ InRecovery'
  BY <1>1, <1>2, JobShape DEF InLaunch, InFinish, InRecovery
<1>. QED  BY <1>3, <1>4, <1>5, <1>6, <1>7, <1>8

LEMMA RecoverAttemptPreserves ==
  ASSUME IInv, NEW a \in Attempts, RecoverAttempt(a)
  PROVE  IInv'
<1>. DEFINE Rest(s) == Recovering(s, IF s = "next" THEN None ELSE a, job.todo \ {a})
<1>. USE DEF IInv, TypeOK, procVars, hostVars, histVars
<1>1. /\ job.op = "recover" /\ job.step = "next" /\ a \in job.todo /\ job.todo \in SUBSET Attempts
      /\ order[a] # None /\ intent[a] # None /\ intent[a] \in Intent
      /\ UNCHANGED <<claim, order, launch, completion, watched, procVars, hostVars, histVars>>
  BY JobShape DEF RecoverAttempt, InRecovery, FilesFollow
<1>2. \A s \in {"next", "probe", "ambiguous"} :
        job' = Rest(s) => job' \in Jobs /\ InAccept' /\ InLaunch' /\ InFinish' /\ InRecovery'
  <2>. SUFFICES ASSUME NEW s \in {"next", "probe", "ambiguous"}, job' = Rest(s)
                PROVE  job' \in Jobs /\ InAccept' /\ InLaunch' /\ InFinish' /\ InRecovery'
    OBVIOUS
  <2>1. (IF s = "next" THEN None ELSE a) \in Attempts \cup {None} /\ job.todo \ {a} \in SUBSET Attempts
    BY <1>1
  <2>2. job' \in Jobs
    BY <2>1, JobsBuilt
  <2>3. job'.op = "recover" /\ job'.step = s /\ job'.todo = job.todo \ {a} /\ (s # "next" => job'.at = a)
    BY DEF Recovering
  <2>. QED  BY <1>1, <2>2, <2>3 DEF InAccept, InLaunch, InFinish, InRecovery
<1>3. CASE completion[a] # "absent" /\ WriteRun(a, completion[a]) /\ job' = Rest("next")
           /\ UNCHANGED <<intent, scheduled>>
  <2>1. completion[a] \in Outcomes /\ completion[a] \in RunStatuses
    BY <1>3 DEF RunStatuses
  <2>. QED  BY <1>1, <1>2, <1>3, <2>1, RunPreserves
<1>4. CASE HoldIntent(a, "AMBIGUOUS_LAUNCH") /\ job' = Rest("ambiguous") /\ UNCHANGED <<run, scheduled>>
  <2>1. [intent[a] EXCEPT !.hold = "AMBIGUOUS_LAUNCH"] \in Intent
    BY <1>1 DEF Intent, HoldCodes
  <2>2. /\ intent' \in [Attempts -> Intent \cup {None}] /\ intent'[a] # None
        /\ intent'[a].branch = intent[a].branch /\ intent'[a].hold # "AWAITING_LAUNCH"
        /\ \A c \in Attempts : c # a => intent'[c] = intent[c]
    BY <1>1, <1>4, <2>1, NoIntentAssumption DEF HoldIntent, Intent
  <2>3. TypeOK'
    BY <1>1, <1>2, <1>4, <2>2
  <2>4. FilesFollow' /\ ProcessFollowsMarker' /\ RefusalStays' /\ SettledHasReceipt'
    BY <1>1, <1>4, <2>2 DEF FilesFollow, ProcessFollowsMarker, RefusalStays, SettledHasReceipt
  <2>5. OneChain' /\ OrdersAreOwned'
    BY <1>1, ChainKept DEF OrdersAreOwned
  <2>. QED  BY <1>2, <1>4, <2>3, <2>4, <2>5
<1>5. CASE WriteRun(a, "accepted") /\ job' = Rest("next") /\ scheduled' \in SUBSET Attempts /\ intent' = intent
  <2>1. "accepted" \in RunStatuses /\ "accepted" \notin Outcomes
    BY DEF RunStatuses, Outcomes
  <2>. QED  BY <1>1, <1>2, <1>5, <2>1, RunPreserves
<1>6. CASE (\E s \in {"next", "probe"} : job' = Rest(s)) /\ UNCHANGED <<intent, run, scheduled>>
  BY <1>1, <1>2, <1>6, TurnPreserves DEF fileVars
<1>7. scheduled' \in SUBSET Attempts
  BY DEF RecoverAttempt
<1>. QED  BY <1>1, <1>3, <1>4, <1>5, <1>6, <1>7 DEF RecoverAttempt

LEMMA StatusPreserves ==
  ASSUME IInv, NEW a \in Attempts, Status(a)
  PROVE  IInv'
<1>1. /\ job = Idle /\ disowned' = disowned \cup {a}
      /\ intent[a] # None /\ intent[a].hold # "AWAITING_LAUNCH" /\ spawned[a] = 0
      /\ UNCHANGED <<intent, claim, order, run, launch, completion, job, scheduled, watched, child, spawned, socket, dispatch, crashes>>
  BY DEF Status, RefusedWithoutRecord, PreAdmissionRefusals, IInv, ProcessFollowsMarker, fileVars, memVars, procVars, hostVars
<1>2. TypeOK' /\ FilesFollow' /\ ProcessFollowsMarker' /\ RefusalStays' /\ SettledHasReceipt'
  BY <1>1 DEF IInv, TypeOK, FilesFollow, ProcessFollowsMarker, RefusalStays, SettledHasReceipt
<1>3. OneChain' /\ OrdersAreOwned'
  BY <1>1, ChainKept DEF IInv, TypeOK, OrdersAreOwned
<1>4. InAccept' /\ InLaunch' /\ InFinish' /\ InRecovery'
  BY <1>1 DEF Idle, InAccept, InLaunch, InFinish, InRecovery
<1>. QED  BY <1>2, <1>3, <1>4 DEF IInv

LEMMA NextPreserves == IInv /\ [Next]_vars => IInv'
<1>. SUFFICES ASSUME IInv, [Next]_vars PROVE IInv'
  OBVIOUS
<1>1. ASSUME NEW a \in Attempts, NEW b \in Branches, Submit(a, b) PROVE IInv'
  BY <1>1, SubmitPreserves
<1>2. ASSUME NEW a \in Attempts,
             Status(a) \/ Launch(a) \/ ExitSeen(a) \/ HoldIncomplete(a) \/ Worker(a)
      PROVE  IInv'
  BY <1>2, StatusPreserves, LaunchPreserves, ExitSeenPreserves, WritingRunPreserves, WorkerPreserves
<1>3. CASE Continue
  <2>1. CASE ClaimBranch \/ CreateOrder \/ CreateRun
    BY <2>1, ClaimBranchPreserves, CreateOrderPreserves, CreateRunPreserves
  <2>2. CASE MarkSpawn \/ Spawn \/ RecordLaunched
    BY <2>2, LaunchingPreserves
  <2>3. CASE SpawnFailed \/ RecordRunning \/ FinishRun \/ RecoverAmbiguous \/ RecoverProbe
             \/ \E a \in Attempts : TerminateChild(a)
    BY <2>3, WritingRunPreserves
  <2>4. CASE RecoverAttempts \/ Recovered \/ \E a \in Attempts : RecoverIntent(a)
    BY <2>4, TurningPreserves
  <2>5. ASSUME NEW a \in Attempts, RecoverAttempt(a) PROVE IInv'
    BY <2>5, RecoverAttemptPreserves
  <2>. QED  BY <1>3, <2>1, <2>2, <2>3, <2>4, <2>5 DEF Continue
<1>4. CASE Listen \/ Crash \/ Shutdown \/ Exit \/ RemoveSocket \/ Restart
  BY <1>4, TurningPreserves
<1>5. CASE UNCHANGED vars
  <2>1. UNCHANGED <<fileVars, procVars, disowned, memVars, crashes, socket, dispatch>>
    BY <1>5 DEF vars, hostVars, histVars
  <2>2. InAccept' /\ InLaunch' /\ InFinish' /\ InRecovery'
    BY <2>1 DEF IInv, InAccept, InLaunch, InFinish, InRecovery, Owns, fileVars, procVars, memVars
  <2>. QED  BY <2>1, <2>2, TurnPreserves DEF memVars, IInv, TypeOK
<1>. QED  BY <1>1, <1>2, <1>3, <1>4, <1>5 DEF Next

----------------------------------------------------------------------------
(* What follows from it                                                    *)

\* supervisor.mjs: the order in which the files of an attempt are written, the
\* marker before the process, the chain of a branch's claims.
THEOREM Invariance == Spec => []IInv
  BY InitIsInductive, NextPreserves, PTL DEF Spec

\* Every file, handler and process has its type.
THEOREM TypeCorrect == Spec => []TypeOK
<1>1. IInv => TypeOK
  BY DEF IInv
<1>. QED  BY Invariance, <1>1, PTL

\* supervisor.mjs launch: no attempt gets a second process, however often it is
\* sent, queued and recovered.
THEOREM OneProcessHolds == Spec => []OneProcess
<1>1. ASSUME IInv, NEW a \in Attempts PROVE spawned[a] <= 1
  BY <1>1 DEF IInv, ProcessFollowsMarker
<1>2. IInv => OneProcess
  BY <1>1 DEF OneProcess
<1>. QED  BY Invariance, <1>2, PTL

\* supervisor.mjs accept: two processes never work on one branch.
THEOREM OneWriterPerBranchHolds == Spec => []OneWriterPerBranch
<1>1. ASSUME IInv PROVE OneWriterPerBranch
  <2>. SUFFICES ASSUME NEW a \in Attempts, NEW c \in Attempts,
                       child[a] = "working", child[c] = "working", order[a] = order[c]
                PROVE  a = c
    BY DEF OneWriterPerBranch
  <2>1. order[a] # None /\ order[a] \in Branches
    BY <1>1 DEF IInv, TypeOK, ProcessFollowsMarker, FilesFollow
  <2>2. completion[a] = "absent" /\ completion[c] = "absent"
    BY <1>1 DEF IInv, ProcessFollowsMarker
  <2>3. Owns(a, order[a]) /\ Owns(c, order[a])
    BY <1>1, <2>1 DEF IInv, OrdersAreOwned
  \* Neither has a successor, since neither has finished.
  <2>4. claim[order[a]][a] = None /\ claim[order[a]][c] = None
    BY <1>1, <2>1, <2>2 DEF IInv, OneChain
  <2>. QED  BY <1>1, <2>1, <2>3, <2>4 DEF IInv, OneChain
<1>. QED  BY Invariance, <1>1, PTL

\* supervisor.mjs refusedWithoutRecord: an attempt reported as never admitted
\* does not run later.
THEOREM DisownedNeverRunsHolds == Spec => []DisownedNeverRuns
<1>1. IInv => DisownedNeverRuns
  BY DEF IInv, RefusalStays, DisownedNeverRuns
<1>. QED  BY Invariance, <1>1, PTL

\* supervisor.mjs finish: a launched attempt is settled only with its receipt.
THEOREM SettledHasReceiptHolds == Spec => []SettledHasReceipt
<1>1. IInv => SettledHasReceipt
  BY DEF IInv
<1>. QED  BY Invariance, <1>1, PTL
=============================================================================
