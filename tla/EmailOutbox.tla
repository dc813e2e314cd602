---------------------------- MODULE EmailOutbox ----------------------------
(***************************************************************************)
(* The delivery of queued e-mail: EmailOutboxService.processDue            *)
(* (packages/notifications/src/email-outbox.ts) over the outbox tables     *)
(* (packages/db/src/postgres-email-outbox-store.ts).  A worker is one call *)
(* of processDue after another.  Workers may overlap: the job's lease can  *)
(* be lost while the work goes on (see JobRunner), and the worker ignores  *)
(* the signal that says so.                                                *)
(*                                                                         *)
(* A row's next_attempt_at is a boolean, due: it turns true by ComesDue,   *)
(* when the retry's delay or the claim's lease has passed.  Production and *)
(* a configured provider are assumed; without them every message ends as   *)
(* not_sent before the provider is asked.                                  *)
(***************************************************************************)
EXTENDS Naturals, FiniteSets

CONSTANTS
  Messages,
  Workers,
  MaxAttempts,  \* EmailOutboxService.maxAttempts
  MaxFaults,    \* bound: crashes, failed statements, lost answers, stalls
  None

ASSUME MaxAttemptsIsPositive == MaxAttempts \in Nat \ {0}
ASSUME MaxFaultsIsNatural == MaxFaults \in Nat

VARIABLES
  row,        \* email_outbox
  wanted,     \* the messages whose recipient has not switched the class off
  log,        \* email_attempts: the recorded attempts of each message
  claims,     \* the rows each worker still has to process
  now,        \* what each worker does at the moment
  asked,      \* history: how often the provider was asked to send
  delivered,  \* history: how often the provider did
  disturbed,  \* history: the messages a fault has touched
  faults

tables == <<row, log>>
provider == <<asked, delivered>>
trouble == <<disturbed, faults>>
vars == <<tables, wanted, claims, now, provider, trouble>>

----------------------------------------------------------------------------
(* State                                                                   *)

Ends == {"sent", "failed", "not_sent", "suppressed"}

RowType ==
  [state : {"absent", "pending", "sending"} \cup Ends, attempts : Nat, due : BOOLEAN]

Attempt == [number : Nat, outcome : Ends]

Claim == [message : Messages, attempt : Nat, wanted : BOOLEAN]
ASSUME NoneIsNoClaim == None \notin Claim

\* What a worker does about one claim: send, or complete it with an outcome.
\* started: the provider has been asked; again: the row is to be retried;
\* last: a failure of this completion is swallowed.
Idle == [stage |-> "idle", claim |-> None, outcome |-> "failed",
         started |-> FALSE, again |-> FALSE, last |-> FALSE]

WorkType ==
  [stage : {"idle", "batch", "send", "complete"}, claim : Claim \cup {None},
   outcome : Ends, started : BOOLEAN, again : BOOLEAN, last : BOOLEAN]

Init ==
  /\ row = [m \in Messages |-> [state |-> "absent", attempts |-> 0, due |-> FALSE]]
  /\ wanted = Messages
  /\ log = [m \in Messages |-> {}]
  /\ claims = [w \in Workers |-> {}]
  /\ now = [w \in Workers |-> Idle]
  /\ asked = [m \in Messages |-> 0]
  /\ delivered = [m \in Messages |-> 0]
  /\ disturbed = {}
  /\ faults = 0

\* The messages a worker has in hand.
InHand(w) ==
  {c.message : c \in claims[w]} \cup
  (IF now[w].claim = None THEN {} ELSE {now[w].claim.message})

Fault(ms) ==
  /\ faults < MaxFaults
  /\ faults' = faults + 1
  /\ disturbed' = disturbed \cup ms

----------------------------------------------------------------------------
(* The outbox                                                              *)

\* enqueueTransactionalEmail: a second call with the key changes nothing.
Enqueue(m) ==
  /\ row[m].state = "absent"
  /\ row' = [row EXCEPT ![m].state = "pending", ![m].due = TRUE]
  /\ UNCHANGED <<wanted, log, claims, now, provider, trouble>>

\* The recipient switches the class of the message on or off.
SetPreference(m) ==
  /\ wanted' = IF m \in wanted THEN wanted \ {m} ELSE wanted \cup {m}
  /\ UNCHANGED <<tables, claims, now, provider, trouble>>

\* The time of a retry comes, or the lease of a claim whose worker is gone ends.
ComesDue(m) ==
  /\ row[m].state \in {"pending", "sending"} /\ ~row[m].due
  /\ row' = [row EXCEPT ![m].due = TRUE]
  /\ IF \E w \in Workers : m \in InHand(w)
       THEN Fault({m})      \* a worker slower than EMAIL_CLAIM_LEASE_SECONDS
       ELSE UNCHANGED trouble
  /\ UNCHANGED <<wanted, log, claims, now, provider>>

\* Mutant: only pending rows are handed out.
DuePending == {m \in Messages : row[m].due /\ row[m].state = "pending"}

Due == {m \in Messages : row[m].due /\ row[m].state \in {"pending", "sending"}}

\* Mutant: the row stays due while it is being sent.
ClaimedNoLease(m) ==
  [row[m] EXCEPT !.state = "sending", !.attempts = @ + 1]

Claimed(m) ==
  [state |-> "sending", attempts |-> row[m].attempts + 1, due |-> FALSE]

\* claim: the due rows no other transaction holds (SKIP LOCKED).
ClaimDue(w, ms, answered) ==
  /\ now[w].stage = "idle" /\ ms # {} /\ ms \subseteq Due
  /\ row' = [m \in Messages |-> IF m \in ms THEN Claimed(m) ELSE row[m]]
  /\ IF answered
       THEN /\ claims' = [claims EXCEPT ![w] =
                 {[message |-> m, attempt |-> row[m].attempts + 1,
                   wanted |-> m \in wanted] : m \in ms}]
            /\ now' = [now EXCEPT ![w] = [Idle EXCEPT !.stage = "batch"]]
            /\ UNCHANGED trouble
       ELSE Fault(ms) /\ UNCHANGED <<claims, now>>   \* committed, answer lost
  /\ UNCHANGED <<wanted, log, provider>>

----------------------------------------------------------------------------
(* One row of a batch                                                      *)

\* Mutant: one attempt too many.
SpentLate(c) == c.attempt > MaxAttempts + 1

Spent(c) == c.attempt > MaxAttempts

Completing(c, outcome, started, again) ==
  [stage |-> "complete", claim |-> c, outcome |-> outcome,
   started |-> started, again |-> again, last |-> FALSE]

\* What a claim can lack: a recipient's address, parameters that still validate.
Lacks == {"nothing", "address", "parameters"}

\* What becomes of a claim before anything is sent.  Parameters that do not
\* validate throw, and the catch block closes the row.
Decision(c, lack) ==
  IF Spent(c) THEN Completing(c, "failed", FALSE, FALSE)
  ELSE IF ~c.wanted THEN Completing(c, "suppressed", FALSE, FALSE)
  ELSE CASE lack = "nothing" -> [Idle EXCEPT !.stage = "send", !.claim = c]
         [] lack = "address" -> Completing(c, "failed", FALSE, FALSE)
         [] lack = "parameters" -> [Completing(c, "failed", FALSE, FALSE) EXCEPT !.last = TRUE]

Take(w, c, lack) ==
  /\ now[w].stage = "batch" /\ c \in claims[w]
  /\ claims' = [claims EXCEPT ![w] = @ \ {c}]
  /\ now' = [now EXCEPT ![w] = Decision(c, lack)]
  /\ UNCHANGED <<tables, wanted, provider, trouble>>

\* The provider's answers: sent, a refusal that is or is not safe to retry,
\* delivery_not_configured.
Answers == {"ok", "retry", "refuse", "unconfigured"}

AfterSend(c, answer) ==
  CASE answer = "ok" -> Completing(c, "sent", TRUE, FALSE)
    [] answer = "unconfigured" -> Completing(c, "not_sent", TRUE, FALSE)
    [] answer = "retry" -> Completing(c, "failed", TRUE, c.attempt < MaxAttempts)
    [] answer = "refuse" -> Completing(c, "failed", TRUE, FALSE)

Send(w, answer) ==
  LET c == now[w].claim
  IN /\ now[w].stage = "send"
     /\ asked' = [asked EXCEPT ![c.message] = @ + 1]
     /\ delivered' = [delivered EXCEPT ![c.message] = @ + IF answer = "ok" THEN 1 ELSE 0]
     /\ now' = [now EXCEPT ![w] = AfterSend(c, answer)]
     /\ UNCHANGED <<tables, wanted, claims, trouble>>

\* On to the next row, if there is one.
NextRow(w) ==
  /\ now' = [now EXCEPT ![w] =
       [Idle EXCEPT !.stage = IF claims[w] = {} THEN "idle" ELSE "batch"]]
  /\ UNCHANGED claims

\* The provider's call throws something else, delivered or not: the row stays
\* in sending until its claim runs out.
SendThrows(w, sent) ==
  LET c == now[w].claim
  IN /\ now[w].stage = "send" /\ Fault({c.message})
     /\ asked' = [asked EXCEPT ![c.message] = @ + 1]
     /\ delivered' = [delivered EXCEPT ![c.message] = @ + IF sent THEN 1 ELSE 0]
     /\ NextRow(w)
     /\ UNCHANGED <<tables, wanted>>

----------------------------------------------------------------------------
(* complete                                                                *)

\* WHERE id, attempts = the claim's and state = 'sending'.
Ours(c) == row[c.message].state = "sending" /\ row[c.message].attempts = c.attempt

\* The transaction's effect on the two tables; a retry has a later time.
Stored(c, outcome, again) ==
  /\ row' = [row EXCEPT ![c.message].state = IF again THEN "pending" ELSE outcome,
                        ![c.message].due = @ /\ ~again]
  /\ log' = [log EXCEPT ![c.message] =
       @ \cup {[number |-> c.attempt, outcome |-> outcome]}]

\* What a worker does when complete throws: before the send it tries once to
\* close the row as failed, after it the row is left alone.
CompleteThrew(w) ==
  IF now[w].started \/ now[w].last
    THEN NextRow(w)
    ELSE /\ now' = [now EXCEPT ![w].outcome = "failed", ![w].last = TRUE]
         /\ UNCHANGED claims

Complete(w) ==
  /\ now[w].stage = "complete" /\ Ours(now[w].claim)
  /\ Stored(now[w].claim, now[w].outcome, now[w].again)
  /\ NextRow(w)
  /\ UNCHANGED <<wanted, provider, trouble>>

\* "email claim lost": rolled back.
ClaimLost(w) ==
  /\ now[w].stage = "complete" /\ ~Ours(now[w].claim)
  /\ CompleteThrew(w)
  /\ UNCHANGED <<tables, wanted, provider, trouble>>

\* The transaction fails, or commits and its answer is lost.
CompleteFails(w, committed) ==
  LET c == now[w].claim
  IN /\ now[w].stage = "complete" /\ Fault({c.message})
     /\ IF committed
          THEN Ours(c) /\ Stored(c, now[w].outcome, now[w].again)
          ELSE UNCHANGED tables
     /\ CompleteThrew(w)
     /\ UNCHANGED <<wanted, provider>>

\* The process dies; its rows stay in sending until their claims run out.
Dies(w) ==
  /\ now[w].stage # "idle" /\ Fault(InHand(w))
  /\ now' = [now EXCEPT ![w] = Idle]
  /\ claims' = [claims EXCEPT ![w] = {}]
  /\ UNCHANGED <<tables, wanted, provider>>

----------------------------------------------------------------------------

Progress(w) ==
  \/ \E c \in claims[w], lack \in Lacks : Take(w, c, lack)
  \/ \E a \in Answers : Send(w, a)
  \/ Complete(w)
  \/ ClaimLost(w)

Next ==
  \/ \E m \in Messages : Enqueue(m) \/ SetPreference(m) \/ ComesDue(m)
  \/ \E w \in Workers :
       \/ \E ms \in SUBSET Messages, answered \in BOOLEAN : ClaimDue(w, ms, answered)
       \/ Progress(w)
       \/ \E b \in BOOLEAN : SendThrows(w, b) \/ CompleteFails(w, b)
       \/ Dies(w)

Spec == Init /\ [][Next]_vars

\* Workers that have begun go on, the clock advances, and the schedule starts
\* one again and again, which then claims whatever is due and unlocked.
FairSpec ==
  /\ Spec
  /\ \A w \in Workers : WF_vars(Progress(w))
  /\ \A m \in Messages :
       /\ WF_vars(ComesDue(m))
       /\ SF_vars(\E w \in Workers, ms \in SUBSET Messages :
                    m \in ms /\ ClaimDue(w, ms, TRUE))

----------------------------------------------------------------------------
(* Properties                                                              *)

Closed(m) == row[m].state \in Ends

\* Every variable has its type; a message in hand has been claimed.
TypeOK ==
  /\ row \in [Messages -> RowType]
  /\ wanted \subseteq Messages
  /\ log \in [Messages -> SUBSET Attempt]
  /\ claims \in [Workers -> SUBSET Claim]
  /\ now \in [Workers -> WorkType]
  /\ asked \in [Messages -> Nat] /\ delivered \in [Messages -> Nat]
  /\ disturbed \subseteq Messages /\ faults \in 0 .. MaxFaults
  /\ \A w \in Workers : \A m \in InHand(w) : row[m].attempts > 0

\* However often workers die, stall and overlap, the provider is asked at most
\* once per claim and at most MaxAttempts times for a message: claims past
\* maxAttempts close the row without another send.  And "sent paths cannot
\* double-send" (postgres-email-outbox.test.ts): a message that no crash, stall,
\* failed statement or unexpected error touched is delivered at most once,
\* whatever the workers' interleaving.
BoundedSends ==
  \A m \in Messages :
    /\ asked[m] <= row[m].attempts /\ asked[m] <= MaxAttempts
    /\ delivered[m] > 1 => m \in disturbed

\* Every queued message is closed eventually, even when its worker dies.
EveryMessageEnds ==
  \A m \in Messages : row[m].state = "pending" ~> Closed(m)

=============================================================================
