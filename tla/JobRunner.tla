----------------------------- MODULE JobRunner -----------------------------
(***************************************************************************)
(* Runs of one registered job (packages/observability/src/jobs.ts) over the*)
(* lease and the log of runs in PostgreSQL (postgres-job-runs-store.ts).   *)
(* Every statement names the job, so jobs share nothing and one stands for *)
(* all.  Each run is a process of its own, started by the host's schedule. *)
(*                                                                         *)
(* The lease's clock is an action: Expires may happen whenever the lease is*)
(* unexpired, because a run that is late with its renewals, or whose       *)
(* database is slow, loses it.  A renewal therefore changes nothing here   *)
(* but the answer on its way back.                                         *)
(***************************************************************************)
EXTENDS FiniteSets

CONSTANTS
  Runs,   \* calls of runJob
  None    \* no run

VARIABLES
  lease,    \* the row of job_leases: [holder, live]
  log,      \* job_runs: the outcome recorded for a run, or None
  alerted,  \* the runs that emitted job_failed
  run,      \* the state of each runJob
  taken     \* history: was the lease taken over while the run worked, and
            \* was a granted renewal of its own then on its way back?

vars == <<lease, log, alerted, run, taken>>

----------------------------------------------------------------------------
(* State                                                                   *)

Free == [holder |-> None, live |-> FALSE]

Outcomes == {"succeeded", "failed", "refused_overlap"}

Stages == {"idle", "acquired", "refused", "work", "settle", "record", "release",
           "done", "dead"}

\* renewal: the one renewal that may be in flight.
RunType ==
  [stage : Stages, outcome : Outcomes \cup {None}, lost : BOOLEAN,
   renewal : {"none", "sent", "granted", "denied"}]

NewRun == [stage |-> "idle", outcome |-> None, lost |-> FALSE, renewal |-> "none"]

\* The lease was taken over while its owner worked, or was about to.
Working(r) == run[r].stage \in {"acquired", "work"}

Init ==
  /\ lease = Free
  /\ log = [r \in Runs |-> None]
  /\ alerted = {}
  /\ run = [r \in Runs |-> NewRun]
  /\ taken = [r \in Runs |-> "no"]

----------------------------------------------------------------------------
(* Starting                                                                *)

Takeover(r) ==
  [s \in Runs |->
     IF s = r \/ ~Working(s) THEN taken[s]
     ELSE IF run[s].renewal = "granted" /\ taken[s] # "plainly" THEN "behind a renewal"
     ELSE "plainly"]

\* acquire: insert, or take over an expired row; otherwise no row comes back.
Acquire(r) ==
  /\ run[r].stage = "idle"
  /\ \/ /\ ~lease.live
        /\ lease' = [holder |-> r, live |-> TRUE]
        /\ taken' = Takeover(r)
        /\ run' = [run EXCEPT ![r].stage = "acquired"]
     \/ /\ lease.live
        /\ run' = [run EXCEPT ![r].stage = "refused", ![r].outcome = "refused_overlap"]
        /\ UNCHANGED <<lease, taken>>
  /\ UNCHANGED <<log, alerted>>

\* The answer of acquire arrives, however late: the timer is set, work begins.
Begin(r) ==
  /\ run[r].stage = "acquired"
  /\ run' = [run EXCEPT ![r].stage = "work"]
  /\ UNCHANGED <<lease, log, alerted, taken>>

\* The answer of acquire is an error: nothing is recorded, the row stays.
AcquireThrows(r) ==
  /\ run[r].stage \in {"acquired", "refused"}
  /\ run' = [run EXCEPT ![r].stage = "done", ![r].outcome = None]
  /\ UNCHANGED <<lease, log, alerted, taken>>

\* stored is FALSE when the insert fails.
RecordRefusal(r, stored) ==
  /\ run[r].stage = "refused"
  /\ log' = [log EXCEPT ![r] = IF stored THEN "refused_overlap" ELSE @]
  /\ run' = [run EXCEPT ![r].stage = "done"]
  /\ UNCHANGED <<lease, alerted, taken>>

----------------------------------------------------------------------------
(* Renewing                                                                *)

\* The timer fires: nothing while a renewal is in flight or after an abort.
SendRenewal(r) ==
  /\ run[r].stage = "work" /\ run[r].renewal = "none" /\ ~run[r].lost
  /\ run' = [run EXCEPT ![r].renewal = "sent"]
  /\ UNCHANGED <<lease, log, alerted, taken>>

StillHeld(r) == lease.holder = r /\ lease.live

\* The UPDATE finds the row or it does not.
ServerRenews(r) ==
  /\ run[r].renewal = "sent"
  /\ run' = [run EXCEPT ![r].renewal = IF StillHeld(r) THEN "granted" ELSE "denied"]
  /\ UNCHANGED <<lease, log, alerted, taken>>

\* The answer is read.
RenewalAnswered(r) ==
  /\ run[r].renewal \in {"granted", "denied"}
  /\ run' = [run EXCEPT ![r].renewal = "none",
                        ![r].lost = @ \/ run[r].renewal = "denied"]
  /\ UNCHANGED <<lease, log, alerted, taken>>

\* The statement fails, before or after the server ran it.
RenewalThrows(r) ==
  /\ run[r].renewal # "none"
  /\ run' = [run EXCEPT ![r].renewal = "none", ![r].lost = TRUE]
  /\ UNCHANGED <<lease, log, alerted, taken>>

----------------------------------------------------------------------------
(* Ending                                                                  *)

\* Mutant: the work's end is not followed by a renewal.
FinalRenewalSkipped(r) == run[r].renewal

\* renew() once more: the renewal in flight, none after an abort, or a new one.
FinalRenewal(r) ==
  IF run[r].renewal = "none" /\ ~run[r].lost THEN "sent" ELSE run[r].renewal

\* The work ends.  It need not heed the abort: email_delivery does not.
WorkEnds(r, outcome) ==
  /\ run[r].stage = "work"
  /\ run' = [run EXCEPT ![r].stage = "settle", ![r].outcome = outcome,
                        ![r].renewal = FinalRenewal(r)]
  /\ UNCHANGED <<lease, log, alerted, taken>>

\* The final renewal has been awaited; a lost lease fails the run.
Settle(r) ==
  /\ run[r].stage = "settle" /\ run[r].renewal = "none"
  /\ run' = [run EXCEPT ![r].stage = "record",
                        ![r].outcome = IF run[r].lost THEN "failed" ELSE @]
  /\ UNCHANGED <<lease, log, alerted, taken>>

\* The outcome is inserted; an error of the insert does not stop the release.
Record(r, stored) ==
  /\ run[r].stage = "record"
  /\ log' = [log EXCEPT ![r] = IF stored THEN run[r].outcome ELSE @]
  /\ run' = [run EXCEPT ![r].stage = "release"]
  /\ UNCHANGED <<lease, alerted, taken>>

\* DELETE ... WHERE holder_run_id = the run.
Released(r) == IF lease.holder = r THEN Free ELSE lease

Alerts(r, deleted) == run[r].outcome = "failed"

\* deleted is FALSE when the DELETE fails; the alert goes out nevertheless.
Release(r, deleted) ==
  /\ run[r].stage = "release"
  /\ lease' = IF deleted THEN Released(r) ELSE lease
  /\ alerted' = IF Alerts(r, deleted) THEN alerted \cup {r} ELSE alerted
  /\ run' = [run EXCEPT ![r].stage = "done"]
  /\ UNCHANGED <<log, taken>>

----------------------------------------------------------------------------
(* Faults                                                                  *)

Expires ==
  /\ lease.live
  /\ lease' = [lease EXCEPT !.live = FALSE]
  /\ UNCHANGED <<log, alerted, run, taken>>

\* The process dies; a renewal it sent changes nothing any more.
Dies(r) ==
  /\ run[r].stage \notin {"idle", "done", "dead"}
  /\ run' = [run EXCEPT ![r].stage = "dead", ![r].renewal = "none"]
  /\ UNCHANGED <<lease, log, alerted, taken>>

Next ==
  \/ \E r \in Runs :
       \/ Acquire(r) \/ Begin(r) \/ AcquireThrows(r)
       \/ SendRenewal(r) \/ ServerRenews(r) \/ RenewalAnswered(r) \/ RenewalThrows(r)
       \/ \E o \in {"succeeded", "failed"} : WorkEnds(r, o)
       \/ Settle(r)
       \/ \E ok \in BOOLEAN : RecordRefusal(r, ok) \/ Record(r, ok) \/ Release(r, ok)
       \/ Dies(r)
  \/ Expires

Spec == Init /\ [][Next]_vars

----------------------------------------------------------------------------
(* Properties                                                              *)

\* The shapes of the variables (the type invariant).
TypeOK ==
  /\ lease \in [holder : Runs \cup {None}, live : BOOLEAN]
  /\ log \in [Runs -> Outcomes \cup {None}]
  /\ alerted \subseteq Runs
  /\ run \in [Runs -> RunType]
  /\ taken \in [Runs -> {"no", "plainly", "behind a renewal"}]

\* A run whose lease another run took over while it worked, and while no
\* granted renewal was on its way back to it, is never recorded as succeeded:
\* its next renewal, at the latest the one after the work, is denied.
SupersededFails ==
  \A r \in Runs : taken[r] = "plainly" => log[r] # "succeeded"

\* docs/observability.md says of job_failed: "A registered job run failed,
\* including loss of its lease".  A granted renewal whose answer is still on its
\* way when the lease runs out is all the final renewal waits for.
SucceededHeldTheLease ==
  \A r \in Runs : log[r] = "succeeded" => taken[r] = "no"

=============================================================================
