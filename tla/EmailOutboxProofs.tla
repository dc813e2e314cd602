------------------------- MODULE EmailOutboxProofs -------------------------
(***************************************************************************)
(* How often the provider is asked to send a message, and when it may have *)
(* delivered one twice, for any number of messages, workers and faults.    *)
(***************************************************************************)
EXTENDS EmailOutbox, TLAPS, FiniteSetTheorems

----------------------------------------------------------------------------
(* The inductive invariant                                                 *)

Held(w) == claims[w] \cup ({now[w].claim} \ {None})

\* A claim in hand is one the worker is sending or completing; a worker between
\* batches has none, and one that is spent is never sent.
Stages ==
  \A w \in Workers :
    /\ now[w].claim # None <=> now[w].stage \in {"send", "complete"}
    /\ now[w].stage = "idle" => claims[w] = {}
    /\ now[w].stage = "send" => now[w].claim.attempt <= MaxAttempts

\* Two workers, or one twice, never hold the same attempt of a message.
AttemptsAreOwn ==
  \A w, v \in Workers : \A c \in Held(w), d \in Held(v) :
    c.message = d.message /\ c.attempt = d.attempt => w = v /\ c = d

HeldIsClaimed ==
  \A w \in Workers :
    /\ now[w].claim \notin claims[w]
    /\ \A c \in Held(w) : c.attempt \in 1 .. row[c.message].attempts

\* The attempts that may still be sent.
Unasked(w) == claims[w] \cup (IF now[w].stage = "send" THEN {now[w].claim} ELSE {})
Open(m) ==
  {a \in 1 .. MaxAttempts : \E w \in Workers : \E c \in Unasked(w) : c.message = m /\ c.attempt = a}

\* Every request that was made, and every one that still may be, is paid for by
\* a claim, the first MaxAttempts of them.
Budget ==
  \A m \in Messages :
    /\ asked[m] + Cardinality(Open(m)) <= row[m].attempts
    /\ asked[m] + Cardinality(Open(m)) <= MaxAttempts

\* A message that nothing has disturbed is in the hands of whoever claimed it
\* last, and not due; once it is delivered it is sent, or about to be.
Delivering(m) == \E w \in Workers :
  /\ now[w].stage = "complete" /\ now[w].claim.message = m
  /\ now[w].outcome = "sent" /\ ~now[w].again
Undisturbed(m) ==
  /\ \A w \in Workers : \A c \in Held(w) : c.message = m =>
       row[m].state = "sending" /\ row[m].attempts = c.attempt /\ ~row[m].due
  /\ delivered[m] <= 1
  /\ delivered[m] = 1 => row[m].state = "sent" \/ Delivering(m)

IInv ==
  /\ TypeOK /\ Stages /\ AttemptsAreOwn /\ HeldIsClaimed /\ Budget
  /\ \A m \in Messages \ disturbed : Undisturbed(m)

----------------------------------------------------------------------------
(* What the steps share                                                    *)

LEMMA OpenIsFinite ==
  ASSUME NEW S \in SUBSET (1 .. MaxAttempts)
  PROVE  IsFiniteSet(S) /\ Cardinality(S) \in Nat
<1>1. IsFiniteSet(1 .. MaxAttempts)
  BY FS_Interval, MaxAttemptsIsPositive
<1>2. IsFiniteSet(S)
  BY <1>1, FS_Subset
<1>. QED  BY <1>2, FS_CardinalityType

\* Fewer attempts are open.
LEMMA OpenShrinks ==
  ASSUME NEW T \in SUBSET (1 .. MaxAttempts), NEW S \in SUBSET T
  PROVE  Cardinality(S) <= Cardinality(T)
  BY OpenIsFinite, FS_Subset

LEMMA InHandIsHeld ==
  ASSUME NEW w \in Workers
  PROVE  InHand(w) = {c.message : c \in Held(w)}
  BY DEF InHand, Held

\* What a worker's own step, which claims nothing, leaves true.
LEMMA WorkerStepKeeps ==
  ASSUME IInv, NEW w \in Workers, NEW x \in WorkType, NEW K \in SUBSET claims[w],
         now' = [now EXCEPT ![w] = x], claims' = [claims EXCEPT ![w] = K],
         x.claim # None => x.claim \in Held(w) /\ x.claim \notin K,
         x.claim # None <=> x.stage \in {"send", "complete"},
         x.stage = "idle" => K = {},
         x.stage = "send" => x.claim.attempt <= MaxAttempts,
         \A m \in Messages : row'[m].attempts = row[m].attempts
  PROVE  /\ claims' \in [Workers -> SUBSET Claim] /\ now' \in [Workers -> WorkType]
         /\ Stages' /\ AttemptsAreOwn' /\ HeldIsClaimed'
         /\ \A v \in Workers : Held(v)' \subseteq Held(v) /\ (v # w => Unasked(v)' = Unasked(v))
         /\ Unasked(w)' = K \cup (IF x.stage = "send" THEN {x.claim} ELSE {})
         /\ Held(w)' = K \cup ({x.claim} \ {None})
<1>1. claims' \in [Workers -> SUBSET Claim] /\ now' \in [Workers -> WorkType]
  BY DEF IInv, TypeOK
<1>2. \A v \in Workers : v # w => now'[v] = now[v] /\ claims'[v] = claims[v]
  BY DEF IInv, TypeOK
<1>3. now'[w] = x /\ claims'[w] = K
  BY DEF IInv, TypeOK
<1>4. Stages'
  BY <1>2, <1>3 DEF IInv, Stages
<1>5. \A v \in Workers : Held(v)' \subseteq Held(v) /\ (v # w => Unasked(v)' = Unasked(v))
  BY <1>2, <1>3 DEF Held, Unasked
<1>6. Unasked(w)' = K \cup (IF x.stage = "send" THEN {x.claim} ELSE {}) /\ Held(w)' = K \cup ({x.claim} \ {None})
  BY <1>3 DEF Held, Unasked
<1>7. AttemptsAreOwn'
  BY <1>5 DEF IInv, AttemptsAreOwn
<1>8. \A v \in Workers : \A c \in Held(v) : c \in Claim /\ c.message \in Messages
  BY DEF IInv, TypeOK, Held, WorkType, Claim
<1>9. \A v \in Workers : \A c \in Held(v)' : c.attempt \in 1 .. row'[c.message].attempts
  BY <1>5, <1>8 DEF IInv, HeldIsClaimed
<1>10. \A v \in Workers : now'[v].claim \notin claims'[v]
  <2>1. x.claim \notin K
    BY NoneIsNoClaim DEF IInv, TypeOK
  <2>. QED  BY <2>1, <1>2, <1>3 DEF IInv, HeldIsClaimed
<1>11. HeldIsClaimed'
  BY <1>9, <1>10 DEF HeldIsClaimed
<1>. QED  BY <1>1, <1>4, <1>5, <1>6, <1>7, <1>11

\* A message that is not asked for, and whose claims are not more.
LEMMA BudgetKept ==
  ASSUME IInv, NEW m \in Messages, Open(m)' \subseteq Open(m),
         asked'[m] = asked[m], row'[m].attempts >= row[m].attempts, row'[m].attempts \in Nat
  PROVE  /\ asked'[m] + Cardinality(Open(m)') <= row'[m].attempts
         /\ asked'[m] + Cardinality(Open(m)') <= MaxAttempts
<1>1. Open(m) \in SUBSET (1 .. MaxAttempts) /\ Open(m)' \in SUBSET Open(m)
  BY DEF Open
<1>2. Cardinality(Open(m)') <= Cardinality(Open(m)) /\ Cardinality(Open(m)) \in Nat /\ Cardinality(Open(m)') \in Nat
  BY <1>1, OpenIsFinite, OpenShrinks
<1>3. asked[m] \in Nat /\ row[m].attempts \in Nat
  BY DEF IInv, TypeOK, RowType
<1>. QED  BY <1>2, <1>3, MaxAttemptsIsPositive DEF IInv, Budget

\* An undisturbed message whose row and deliveries stay as they are.
LEMMA UndisturbedKept ==
  ASSUME IInv, NEW m \in Messages, Undisturbed(m),
         row'[m] = row[m], delivered'[m] = delivered[m],
         \A w \in Workers : \A c \in Held(w)' : c.message = m => c \in Held(w),
         Delivering(m) => Delivering(m)'
  PROVE  Undisturbed(m)'
  BY DEF Undisturbed

\* An undisturbed message is in one worker's hands.
LEMMA OneHolder ==
  ASSUME IInv, NEW m \in Messages, Undisturbed(m), NEW w \in Workers, NEW v \in Workers,
         NEW c \in Held(w), NEW d \in Held(v), c.message = m, d.message = m
  PROVE  v = w /\ d = c
  BY DEF IInv, AttemptsAreOwn, Undisturbed

LEMMA HeldTypes ==
  ASSUME TypeOK, NEW w \in Workers, NEW c \in Held(w)
  PROVE  /\ c \in Claim /\ c.message \in Messages /\ c.attempt \in Nat
         /\ c.message \in InHand(w)
  BY DEF TypeOK, Held, WorkType, Claim, InHand

LEMMA InitIsInductive == Init => IInv
<1>. SUFFICES ASSUME Init PROVE IInv
  OBVIOUS
<1>1. \A w \in Workers : Held(w) = {} /\ Unasked(w) = {} /\ InHand(w) = {}
  BY DEF Init, Held, Unasked, InHand, Idle
<1>2. TypeOK
  BY <1>1, MaxFaultsIsNatural DEF Init, TypeOK, RowType, WorkType, Idle, Ends
<1>3. Stages
  BY DEF Init, Stages, Idle
<1>4. AttemptsAreOwn
  BY <1>1 DEF AttemptsAreOwn
<1>5. HeldIsClaimed
  BY <1>1 DEF HeldIsClaimed, Init
<1>6. \A m \in Messages : Open(m) = {}
  BY <1>1 DEF Open
<1>7. Budget
  <2>1. \A m \in Messages : Cardinality(Open(m)) = 0
    BY <1>6, FS_EmptySet
  <2>2. \A m \in Messages : asked[m] = 0 /\ row[m].attempts = 0
    BY DEF Init
  <2>. QED  BY <2>1, <2>2, MaxAttemptsIsPositive DEF Budget
<1>8. \A m \in Messages : Undisturbed(m)
  BY <1>1 DEF Undisturbed, Init
<1>. QED  BY <1>2, <1>3, <1>4, <1>5, <1>7, <1>8 DEF IInv

----------------------------------------------------------------------------
(* Every step preserves it                                                 *)

\* Steps of the outbox that leave the workers and the provider alone.
LEMMA OutboxStepPreserves ==
  ASSUME IInv, NEW m \in Messages, Enqueue(m) \/ SetPreference(m) \/ ComesDue(m)
  PROVE  IInv'
<1>1. UNCHANGED <<log, claims, now, provider>> /\ disturbed \subseteq disturbed'
  BY DEF Enqueue, SetPreference, ComesDue, tables, trouble, Fault, provider
<1>2. /\ \A w \in Workers : Held(w)' = Held(w) /\ InHand(w)' = InHand(w)
      /\ \A n \in Messages : Open(n)' = Open(n) /\ (Delivering(n) => Delivering(n)')
  BY <1>1 DEF Held, Open, Unasked, Delivering, InHand
<1>3. row' \in [Messages -> RowType] /\ \A n \in Messages : row'[n].attempts = row[n].attempts
  <2>1. CASE Enqueue(m)
    <3>1. row' = [row EXCEPT ![m] = [row[m] EXCEPT !.state = "pending", !.due = TRUE]]
      BY <2>1 DEF Enqueue
    <3>2. [row[m] EXCEPT !.state = "pending", !.due = TRUE] \in RowType
      BY DEF IInv, TypeOK, RowType
    <3>. QED  BY <3>1, <3>2 DEF IInv, TypeOK, RowType
  <2>2. CASE SetPreference(m)
    BY <2>2 DEF SetPreference, IInv, TypeOK, tables
  <2>3. CASE ComesDue(m)
    <3>1. row' = [row EXCEPT ![m] = [row[m] EXCEPT !.due = TRUE]]
      BY <2>3 DEF ComesDue
    <3>2. [row[m] EXCEPT !.due = TRUE] \in RowType
      BY DEF IInv, TypeOK, RowType
    <3>. QED  BY <3>1, <3>2 DEF IInv, TypeOK, RowType
  <2>. QED  BY <2>1, <2>2, <2>3
<1>4. TypeOK'
  <2>1. wanted' \subseteq Messages
    BY DEF Enqueue, SetPreference, ComesDue, IInv, TypeOK
  <2>2. disturbed' \subseteq Messages /\ faults' \in 0 .. MaxFaults
    BY MaxFaultsIsNatural DEF Enqueue, SetPreference, ComesDue, IInv, TypeOK, trouble, Fault
  <2>3. \A w \in Workers : \A n \in InHand(w)' : n \in Messages /\ row'[n].attempts > 0
    BY <1>2, <1>3, InHandIsHeld, HeldTypes DEF IInv, TypeOK
  <2>. QED  BY <1>1, <1>3, <2>1, <2>2, <2>3 DEF IInv, TypeOK, provider
<1>5. Stages' /\ AttemptsAreOwn' /\ HeldIsClaimed'
  <2>1. \A w \in Workers : \A c \in Held(w) : c.message \in Messages
    BY HeldTypes DEF IInv
  <2>. QED  BY <1>1, <1>2, <1>3, <2>1 DEF IInv, Stages, AttemptsAreOwn, HeldIsClaimed
<1>6. Budget'
  BY <1>1, <1>2, <1>3, BudgetKept DEF Budget, IInv, TypeOK, RowType, provider
<1>7. ASSUME NEW n \in Messages \ disturbed' PROVE Undisturbed(n)'
  <2>1. Undisturbed(n) /\ delivered'[n] = delivered[n]
    BY <1>1, <1>7 DEF IInv, provider
  <2>2. CASE row'[n] = row[n]
    BY <1>2, <2>1, <2>2, UndisturbedKept
  <2>3. CASE row'[n] # row[n]
    <3>1. n = m /\ \A w \in Workers : m \notin InHand(w)
      <4>1. n = m
        BY <2>3 DEF Enqueue, SetPreference, ComesDue, tables, IInv, TypeOK
      <4>2. CASE Enqueue(m)
        <5>1. row[m].state = "absent"
          BY <4>2 DEF Enqueue
        <5>. QED  BY <4>1, <5>1, <2>1, InHandIsHeld DEF Undisturbed
      <4>3. CASE ComesDue(m)
        BY <4>1, <4>3, <1>7 DEF ComesDue, Fault
      <4>. QED  BY <4>1, <4>2, <4>3, <2>3 DEF SetPreference, tables
    <3>2. \A w \in Workers : \A c \in Held(w)' : c.message # m
      BY <1>2, <3>1, InHandIsHeld
    <3>3. delivered[m] = 1 => row[m].state = "sent" \/ Delivering(m)'
      BY <1>2, <2>1, <3>1 DEF Undisturbed
    <3>4. row[m].state # "sent"
      BY <2>3, <3>1 DEF Enqueue, SetPreference, ComesDue, tables
    <3>. QED  BY <2>1, <3>1, <3>2, <3>3, <3>4 DEF Undisturbed
  <2>. QED  BY <2>2, <2>3
<1>. QED  BY <1>4, <1>5, <1>6, <1>7 DEF IInv

\* A claim of due rows, its answer lost or not.
LEMMA ClaimPreserves ==
  ASSUME IInv, NEW w \in Workers, NEW ms \in SUBSET Messages, NEW answered \in BOOLEAN,
         ClaimDue(w, ms, answered)
  PROVE  IInv'
<1>. DEFINE New == {[message |-> m, attempt |-> row[m].attempts + 1, wanted |-> m \in wanted] : m \in ms}
<1>1. /\ ms \subseteq Due /\ UNCHANGED <<wanted, log, provider>>
      /\ disturbed \subseteq disturbed' /\ (~answered => ms \subseteq disturbed')
      /\ disturbed' \subseteq Messages /\ faults' \in 0 .. MaxFaults
  BY MaxFaultsIsNatural DEF ClaimDue, IInv, TypeOK, trouble, Fault
<1>2. Held(w) = {} /\ Unasked(w) = {} /\ claims[w] = {} /\ now[w].claim = None
  BY DEF ClaimDue, IInv, Stages, Held, Unasked
<1>3. /\ row' \in [Messages -> RowType]
      /\ \A m \in ms : row'[m].state = "sending" /\ row'[m].attempts = row[m].attempts + 1 /\ ~row'[m].due
      /\ \A m \in Messages \ ms : row'[m] = row[m]
  <2>1. \A m \in Messages : row[m] \in RowType
    BY DEF IInv, TypeOK
  <2>3. \A m \in Messages : Claimed(m) \in RowType
    <3>1. \A m \in Messages : row[m].attempts + 1 \in Nat
      BY <2>1 DEF RowType
    <3>. QED  BY <3>1 DEF RowType, Claimed
  <2>4. row' = [m \in Messages |-> IF m \in ms THEN Claimed(m) ELSE row[m]]
    BY DEF ClaimDue
  <2>5. row' \in [Messages -> RowType]
    BY <2>1, <2>3, <2>4
  <2>. QED  BY <2>4, <2>5 DEF Claimed
<1>4. \A v \in Workers : v # w => now'[v] = now[v] /\ claims'[v] = claims[v]
  BY DEF ClaimDue, IInv, TypeOK
<1>5. now' \in [Workers -> WorkType] /\ claims' \in [Workers -> SUBSET Claim]
  <2>1. New \in SUBSET Claim
    <3>1. \A m \in ms : row[m].attempts + 1 \in Nat
      BY DEF IInv, TypeOK, RowType
    <3>2. \A m \in ms : [message |-> m, attempt |-> row[m].attempts + 1, wanted |-> m \in wanted] \in Claim
      BY <3>1 DEF Claim
    <3>. QED  BY <3>2
  <2>2. [Idle EXCEPT !.stage = "batch"] \in WorkType
    BY DEF Idle, WorkType, Ends
  <2>. QED  BY <2>1, <2>2 DEF ClaimDue, IInv, TypeOK
<1>6. now'[w].claim = None /\ now'[w].stage \in {"idle", "batch"} /\ claims'[w] = IF answered THEN New ELSE {}
  <2>1. CASE answered
    <3>1. claims' = [claims EXCEPT ![w] = New] /\ now' = [now EXCEPT ![w] = [Idle EXCEPT !.stage = "batch"]]
      BY <2>1 DEF ClaimDue
    <3>. QED  BY <2>1, <3>1 DEF IInv, TypeOK, Idle
  <2>2. CASE ~answered
    BY <1>2, <2>2 DEF ClaimDue
  <2>. QED  BY <2>1, <2>2
<1>7. /\ \A v \in Workers : v # w => Held(v)' = Held(v) /\ Unasked(v)' = Unasked(v)
      /\ Held(w)' = claims'[w] /\ Unasked(w)' = claims'[w]
  BY <1>4, <1>6 DEF Held, Unasked
<1>8. \A c \in claims'[w] : c.message \in ms /\ c.attempt = row[c.message].attempts + 1
  BY <1>6
<1>9. \A v \in Workers : \A c \in Held(v) :
        c.message \in Messages /\ c.attempt \in Nat /\ c.attempt <= row[c.message].attempts /\ c.attempt >= 1
  BY HeldTypes DEF IInv, TypeOK, RowType, HeldIsClaimed
<1>10. \A m \in Messages : row[m].attempts \in Nat
  BY DEF IInv, TypeOK, RowType
<1>11. Stages'
  <2>1. now'[w].stage = "idle" => claims'[w] = {}
    BY <1>6 DEF ClaimDue, IInv, TypeOK, Idle
  <2>. QED  BY <1>4, <1>6, <2>1 DEF IInv, Stages
<1>12. AttemptsAreOwn'
  <2>1. \A c, d \in claims'[w] : c.message = d.message => c = d
    BY <1>6
  <2>2. \A v \in Workers : \A c \in Held(v), d \in claims'[w] :
          c.message = d.message => c.attempt # d.attempt
    BY <1>8, <1>9, <1>10
  <2>. QED  BY <2>1, <2>2, <1>7 DEF IInv, AttemptsAreOwn
<1>13. \A v \in Workers : \A c \in Held(v)' : c.message \in Messages /\ c.attempt \in 1 .. row'[c.message].attempts
  <2>1. \A c \in claims'[w] : c.message \in Messages /\ c.attempt \in 1 .. row'[c.message].attempts
    BY <1>3, <1>8, <1>10
  <2>2. \A v \in Workers : \A c \in Held(v) : c.attempt \in 1 .. row'[c.message].attempts
    BY <1>3, <1>9, <1>10
  <2>. QED  BY <2>1, <2>2, <1>7, <1>9
<1>14. HeldIsClaimed'
  <2>1. \A v \in Workers : now'[v].claim \notin claims'[v]
    BY <1>4, <1>5, <1>6, NoneIsNoClaim DEF IInv, HeldIsClaimed
  <2>. QED  BY <1>13, <2>1 DEF HeldIsClaimed
<1>15. TypeOK'
  <2>1. \A v \in Workers : \A m \in InHand(v)' : \E c \in Held(v)' : c.message = m
    BY DEF InHand, Held
  <2>2. \A v \in Workers : \A m \in InHand(v)' : row'[m].attempts > 0
    BY <2>1, <1>3, <1>13 DEF RowType
  <2>. QED  BY <2>2, <1>1, <1>3, <1>5 DEF IInv, TypeOK, provider
<1>16. Budget'
  <2>. SUFFICES ASSUME NEW m \in Messages
                PROVE  /\ asked'[m] + Cardinality(Open(m)') <= row'[m].attempts
                       /\ asked'[m] + Cardinality(Open(m)') <= MaxAttempts
    BY DEF Budget
  <2>1. asked'[m] = asked[m] /\ asked[m] \in Nat
    BY <1>1 DEF IInv, TypeOK, provider
  <2>. DEFINE a == row[m].attempts + 1
  <2>2. Open(m) \in SUBSET (1 .. MaxAttempts) /\ Open(m)' \in SUBSET (1 .. MaxAttempts)
    BY DEF Open
  <2>3. Open(m)' \subseteq Open(m) \cup (IF m \in ms THEN {a} ELSE {})
    <3>1. ASSUME NEW v \in Workers, NEW c \in Unasked(v)', c.message = m
          PROVE  (\E u \in Workers : c \in Unasked(u)) \/ (m \in ms /\ c.attempt = a)
      BY <1>7, <1>8, <3>1
    <3>. QED  BY <3>1 DEF Open
  <2>4. CASE m \notin ms \/ a > MaxAttempts
    <3>1. Open(m)' \subseteq Open(m)
      BY <2>2, <2>3, <2>4, <1>10, MaxAttemptsIsPositive
    <3>2. row'[m].attempts >= row[m].attempts /\ row'[m].attempts \in Nat
      BY <1>3, <1>10
    <3>. QED  BY <3>1, <3>2, <2>1, BudgetKept
  <2>5. CASE m \in ms /\ a <= MaxAttempts
    <3>1. Open(m) \cup {a} \in SUBSET (1 .. MaxAttempts)
      BY <2>2, <2>5, <1>10
    <3>2. Cardinality(Open(m)') <= Cardinality(Open(m) \cup {a})
      BY <2>3, <2>5, <3>1, OpenShrinks
    <3>3. Cardinality(Open(m) \cup {a}) <= Cardinality(Open(m)) + 1
      <4>1. IsFiniteSet(Open(m)) /\ Cardinality(Open(m)) \in Nat
        BY <2>2, OpenIsFinite
      <4>2. Cardinality(Open(m) \cup {a}) = IF a \in Open(m) THEN Cardinality(Open(m)) ELSE Cardinality(Open(m)) + 1
        BY <4>1, FS_AddElement
      <4>. QED  BY <4>1, <4>2
    <3>4. asked[m] + Cardinality(Open(m)) <= row[m].attempts
      BY DEF IInv, Budget
    <3>5. Cardinality(Open(m)) \in Nat /\ Cardinality(Open(m)') \in Nat /\ Cardinality(Open(m) \cup {a}) \in Nat
      BY <2>2, <3>1, OpenIsFinite
    <3>6. row'[m].attempts = row[m].attempts + 1
      BY <1>3, <2>5
    <3>. QED  BY <2>1, <2>5, <3>2, <3>3, <3>4, <3>5, <3>6, <1>10, MaxAttemptsIsPositive
  <2>. QED  BY <2>4, <2>5, <1>10, MaxAttemptsIsPositive
<1>17. ASSUME NEW m \in Messages \ disturbed' PROVE Undisturbed(m)'
  <2>1. Undisturbed(m) /\ delivered'[m] = delivered[m]
    BY <1>1, <1>17 DEF IInv, provider
  <2>2. CASE m \notin ms
    <3>1. \A v \in Workers : \A c \in Held(v)' : c.message = m => c \in Held(v)
      BY <2>2, <1>7, <1>8
    <3>2. Delivering(m) => Delivering(m)'
      BY <1>4 DEF Delivering, ClaimDue
    <3>. QED  BY <2>1, <2>2, <3>1, <3>2, <1>3, UndisturbedKept
  <2>3. CASE m \in ms
    <3>1. row[m].due /\ row[m].state # "sent"
      BY <1>1, <2>3 DEF Due
    <3>2. \A v \in Workers : \A c \in Held(v) : c.message # m
      BY <2>1, <3>1 DEF Undisturbed
    <3>3. ~ Delivering(m)
      <4>1. ASSUME NEW v \in Workers, now[v].stage = "complete" PROVE now[v].claim \in Held(v)
        BY <4>1 DEF IInv, Stages, Held
      <4>. QED  BY <3>2, <4>1 DEF Delivering
    <3>4. \A v \in Workers : \A c \in Held(v)' : c.message = m => c.attempt = row[m].attempts + 1
      BY <3>2, <1>7, <1>8
    <3>. QED  BY <2>1, <2>3, <3>1, <3>3, <3>4, <1>3 DEF Undisturbed
  <2>. QED  BY <2>2, <2>3
<1>. QED  BY <1>11, <1>12, <1>14, <1>15, <1>16, <1>17 DEF IInv

\* A worker's own step asks for nothing: fewer attempts are open.
LEMMA QuietBudget ==
  ASSUME IInv, \A v \in Workers : Unasked(v)' \subseteq Unasked(v), asked' = asked,
         \A m \in Messages : row'[m].attempts = row[m].attempts
  PROVE  Budget'
<1>1. \A m \in Messages : Open(m)' \subseteq Open(m)
  BY DEF Open
<1>2. \A m \in Messages : row[m].attempts \in Nat
  BY DEF IInv, TypeOK, RowType
<1>. QED  BY <1>1, <1>2, BudgetKept DEF Budget

\* The request that a worker makes for its claim uses that attempt up.
LEMMA AskingBudget ==
  ASSUME IInv, NEW w \in Workers, now[w].stage = "send",
         Unasked(w)' \subseteq claims[w], \A v \in Workers : v # w => Unasked(v)' = Unasked(v),
         asked' = [asked EXCEPT ![now[w].claim.message] = @ + 1],
         \A m \in Messages : row'[m].attempts = row[m].attempts
  PROVE  Budget'
<1>. DEFINE c == now[w].claim
<1>1. c \in Held(w) /\ c \notin claims[w] /\ c.attempt \in Nat /\ c.attempt <= MaxAttempts /\ c.attempt >= 1
  <2>1. c \in Held(w) /\ c.attempt <= MaxAttempts /\ c \notin claims[w]
    BY DEF IInv, Stages, Held, HeldIsClaimed
  <2>2. c.attempt \in 1 .. row[c.message].attempts /\ row[c.message].attempts \in Nat
    BY <2>1, HeldTypes DEF IInv, HeldIsClaimed, TypeOK, RowType
  <2>. QED  BY <2>1, <2>2
<1>2. c.message \in Messages /\ \A m \in Messages : row[m].attempts \in Nat /\ asked[m] \in Nat
  BY <1>1, HeldTypes DEF IInv, TypeOK, RowType
<1>3. \A v \in Workers : Unasked(v) \subseteq Held(v) /\ Unasked(v)' \subseteq Unasked(v)
  BY DEF Unasked, Held, IInv, Stages
<1>. SUFFICES ASSUME NEW m \in Messages
              PROVE  /\ asked'[m] + Cardinality(Open(m)') <= row'[m].attempts
                     /\ asked'[m] + Cardinality(Open(m)') <= MaxAttempts
  BY DEF Budget
<1>4. Open(m)' \subseteq Open(m)
  BY <1>3 DEF Open
<1>5. CASE m # c.message
  <2>1. asked'[m] = asked[m]
    BY <1>5 DEF IInv, TypeOK
  <2>. QED  BY <1>2, <1>4, <2>1, BudgetKept
<1>6. CASE m = c.message
  <2>1. c.attempt \notin Open(m)'
    <3>1. ASSUME NEW v \in Workers, NEW d \in Unasked(v)', d.message = m, d.attempt = c.attempt
          PROVE  FALSE
      <4>1. d \in Held(v)
        BY <1>3
      <4>2. v = w /\ d = c
        BY <4>1, <1>1, <1>6, <3>1 DEF IInv, AttemptsAreOwn
      <4>. QED  BY <4>2, <1>1
    <3>. QED  BY <3>1 DEF Open
  <2>2. c.attempt \in Open(m)
    BY <1>1, <1>6, MaxAttemptsIsPositive DEF Open, Unasked
  <2>. HIDE DEF c
  <2>3. Open(m) \in SUBSET (1 .. MaxAttempts) /\ Open(m) \ {c.attempt} \in SUBSET (1 .. MaxAttempts)
        /\ Open(m)' \in SUBSET (Open(m) \ {c.attempt})
    BY <1>4, <2>1 DEF Open
  <2>4. Cardinality(Open(m)') <= Cardinality(Open(m) \ {c.attempt})
    BY <2>3, OpenShrinks
  <2>5. IsFiniteSet(Open(m)) /\ Cardinality(Open(m)) \in Nat /\ Cardinality(Open(m) \ {c.attempt}) \in Nat
        /\ Open(m)' \in SUBSET (1 .. MaxAttempts)
    BY <2>3, OpenIsFinite
  <2>6. Cardinality(Open(m)') \in Nat
    BY <2>5, OpenIsFinite
  <2>7. Cardinality(Open(m) \ {c.attempt}) = Cardinality(Open(m)) - 1
    BY <2>2, <2>5, FS_RemoveElement
  <2>8. asked'[m] = asked[m] + 1 /\ row'[m].attempts = row[m].attempts
    BY <1>6 DEF IInv, TypeOK, c
  <2>9. /\ asked[m] + Cardinality(Open(m)) <= row[m].attempts
        /\ asked[m] + Cardinality(Open(m)) <= MaxAttempts
    BY DEF IInv, Budget
  <2>10. asked[m] \in Nat /\ row[m].attempts \in Nat
    BY <1>2
  <2>. QED  BY <2>4, <2>5, <2>6, <2>7, <2>8, <2>9, <2>10, MaxAttemptsIsPositive
<1>. QED  BY <1>5, <1>6

\* A message that the worker's step is not about.
LEMMA OthersKept ==
  ASSUME IInv, NEW w \in Workers, \A v \in Workers : Held(v)' \subseteq Held(v),
         \A v \in Workers : v # w => now'[v] = now[v],
         NEW m \in Messages, Undisturbed(m), now[w].claim = None \/ now[w].claim.message # m,
         row'[m] = row[m], delivered'[m] = delivered[m]
  PROVE  Undisturbed(m)'
<1>1. Delivering(m) => Delivering(m)'
  BY DEF Delivering, IInv, Stages
<1>. QED  BY <1>1, UndisturbedKept

\* What is left to show of a worker's own step.
LEMMA WorkerStepPreserves ==
  ASSUME IInv, \A v \in Workers : Held(v)' \subseteq Held(v),
         claims' \in [Workers -> SUBSET Claim], now' \in [Workers -> WorkType],
         row' \in [Messages -> RowType], \A m \in Messages : row'[m].attempts = row[m].attempts,
         log' \in [Messages -> SUBSET Attempt], wanted' = wanted,
         asked' \in [Messages -> Nat], delivered' \in [Messages -> Nat],
         disturbed' \subseteq Messages, faults' \in 0 .. MaxFaults,
         Stages', AttemptsAreOwn', HeldIsClaimed', Budget',
         \A m \in Messages \ disturbed' : Undisturbed(m)'
  PROVE  IInv'
<1>1. \A v \in Workers : \A m \in InHand(v)' : \E c \in Held(v) : c.message = m
  BY DEF InHand, Held
<1>2. \A v \in Workers : \A m \in InHand(v)' : m \in Messages /\ m \in InHand(v)
  BY <1>1, HeldTypes DEF IInv
<1>3. TypeOK'
  BY <1>2 DEF IInv, TypeOK
<1>. QED  BY <1>3 DEF IInv

LEMMA TakePreserves ==
  ASSUME IInv, NEW w \in Workers, NEW c \in claims[w], NEW lack \in Lacks, Take(w, c, lack)
  PROVE  IInv'
<1>. DEFINE x == Decision(c, lack)
            K == claims[w] \ {c}
<1>1. /\ now' = [now EXCEPT ![w] = x] /\ claims' = [claims EXCEPT ![w] = K]
      /\ UNCHANGED <<row, log, wanted, asked, delivered, disturbed, faults>> /\ now[w].stage = "batch"
  BY DEF Take, tables, provider, trouble
<1>2. c \in Held(w) /\ c \in Claim /\ c # None /\ now[w].claim = None
  BY <1>1, NoneIsNoClaim DEF Held, IInv, TypeOK, Stages
<1>3. x \in WorkType /\ x.claim = c /\ x.stage \in {"send", "complete"} /\ (x.stage = "send" => ~Spent(c))
  <2>1. CASE Spent(c) \/ ~c.wanted
    BY <1>2, <2>1 DEF Decision, Completing, WorkType, Ends
  <2>2. CASE ~Spent(c) /\ c.wanted
    <3>1. CASE lack = "nothing"
      BY <1>2, <2>2, <3>1 DEF Decision, Idle, WorkType, Ends
    <3>2. CASE lack = "address"
      BY <1>2, <2>2, <3>2 DEF Decision, Completing, WorkType, Ends
    <3>3. CASE lack = "parameters"
      BY <1>2, <2>2, <3>3 DEF Decision, Completing, WorkType, Ends
    <3>. QED  BY <3>1, <3>2, <3>3 DEF Lacks
  <2>. QED  BY <2>1, <2>2
<1>4. c.attempt \in Nat
  BY <1>2 DEF Claim
<1>5. x.stage = "send" => x.claim.attempt <= MaxAttempts
  BY <1>3, <1>4, MaxAttemptsIsPositive DEF Spent
<1>. HIDE DEF x
<1>6. /\ claims' \in [Workers -> SUBSET Claim] /\ now' \in [Workers -> WorkType]
      /\ Stages' /\ AttemptsAreOwn' /\ HeldIsClaimed'
      /\ \A v \in Workers : Held(v)' \subseteq Held(v) /\ (v # w => Unasked(v)' = Unasked(v))
      /\ Unasked(w)' = K \cup (IF x.stage = "send" THEN {x.claim} ELSE {})
  <2>1. x.claim \in Held(w) /\ x.claim \notin K /\ x.claim # None /\ K \in SUBSET claims[w]
    BY <1>2, <1>3
  <2>2. \A m \in Messages : row'[m].attempts = row[m].attempts
    BY <1>1
  <2>. QED  BY <1>1, <1>3, <1>5, <2>1, <2>2, WorkerStepKeeps
<1>7. \A v \in Workers : Unasked(v)' \subseteq Unasked(v)
  BY <1>3, <1>6 DEF Unasked
<1>8. Budget'
  BY <1>1, <1>7, QuietBudget
<1>9. ASSUME NEW m \in Messages \ disturbed' PROVE Undisturbed(m)'
  <2>1. Undisturbed(m) /\ row' = row /\ delivered' = delivered
    BY <1>1, <1>9 DEF IInv
  <2>2. \A v \in Workers : v # w => now'[v] = now[v]
    BY <1>1 DEF IInv, TypeOK
  <2>. QED  BY <1>2, <1>6, <2>1, <2>2, OthersKept
<1>. QED  BY <1>1, <1>6, <1>8, <1>9, WorkerStepPreserves DEF IInv, TypeOK

\* The claim a worker sends or completes.
LEMMA ClaimInWork ==
  ASSUME IInv, NEW w \in Workers, now[w].stage \in {"send", "complete"}
  PROVE  /\ now[w].claim \in Held(w) /\ now[w].claim \in Claim /\ now[w].claim # None
         /\ now[w].claim.message \in Messages /\ now[w].claim.message \in InHand(w)
         /\ now[w].claim \notin claims[w]
<1>1. now[w].claim \in Held(w) /\ now[w].claim # None
  BY DEF IInv, Stages, Held
<1>. QED  BY <1>1, HeldTypes DEF IInv, HeldIsClaimed

LEMMA SendPreserves ==
  ASSUME IInv, NEW w \in Workers, NEW answer \in Answers, Send(w, answer)
  PROVE  IInv'
<1>. DEFINE c == now[w].claim
            x == AfterSend(c, answer)
<1>1. /\ now[w].stage = "send" /\ now' = [now EXCEPT ![w] = x]
      /\ UNCHANGED <<row, log, wanted, claims, disturbed, faults>>
      /\ asked' = [asked EXCEPT ![c.message] = @ + 1]
      /\ delivered' = [delivered EXCEPT ![c.message] = @ + IF answer = "ok" THEN 1 ELSE 0]
  BY DEF Send, tables, trouble
<1>2. c \in Held(w) /\ c \in Claim /\ c # None /\ c.message \in Messages /\ c \notin claims[w]
  BY <1>1, ClaimInWork
<1>3. x \in WorkType /\ x.claim = c /\ x.stage = "complete" /\ (answer = "ok" => x.outcome = "sent" /\ ~x.again)
  <2>1. (c.attempt < MaxAttempts) \in BOOLEAN
    OBVIOUS
  <2>. QED  BY <1>2, <2>1 DEF AfterSend, Completing, WorkType, Ends, Answers
<1>. HIDE DEF x
<1>4. claims' = [claims EXCEPT ![w] = claims[w]] /\ claims[w] \in SUBSET claims[w]
  BY <1>1 DEF IInv, TypeOK
<1>5. /\ claims' \in [Workers -> SUBSET Claim] /\ now' \in [Workers -> WorkType]
      /\ Stages' /\ AttemptsAreOwn' /\ HeldIsClaimed'
      /\ \A v \in Workers : Held(v)' \subseteq Held(v) /\ (v # w => Unasked(v)' = Unasked(v))
      /\ Unasked(w)' = claims[w] \cup (IF x.stage = "send" THEN {x.claim} ELSE {})
  <2>1. /\ x.claim # None => x.claim \in Held(w) /\ x.claim \notin claims[w]
        /\ x.claim # None <=> x.stage \in {"send", "complete"}
        /\ x.stage = "idle" => claims[w] = {}
        /\ x.stage = "send" => x.claim.attempt <= MaxAttempts
        /\ \A m \in Messages : row'[m].attempts = row[m].attempts
    BY <1>1, <1>2, <1>3
  <2>2. x \in WorkType /\ now' = [now EXCEPT ![w] = x]
    BY <1>1, <1>3
  <2>. QED  BY <1>4, <2>1, <2>2, WorkerStepKeeps
<1>6. Budget'
  <2>1. Unasked(w)' \subseteq claims[w] /\ \A m \in Messages : row'[m].attempts = row[m].attempts
    BY <1>1, <1>3, <1>5
  <2>. QED  BY <1>1, <1>5, <2>1, AskingBudget
<1>7. asked' \in [Messages -> Nat] /\ delivered' \in [Messages -> Nat]
  BY <1>1, <1>2 DEF IInv, TypeOK
<1>8. ASSUME NEW m \in Messages \ disturbed' PROVE Undisturbed(m)'
  <2>1. Undisturbed(m) /\ row' = row
    BY <1>1, <1>8 DEF IInv
  <2>2. now'[w] = x /\ \A v \in Workers : v # w => now'[v] = now[v]
    BY <1>1 DEF IInv, TypeOK
  <2>3. CASE m # c.message
    <3>1. delivered'[m] = delivered[m]
      BY <1>1, <2>3 DEF IInv, TypeOK
    <3>. QED  BY <1>2, <1>5, <2>1, <2>2, <2>3, <3>1, OthersKept
  <2>4. CASE m = c.message
    <3>1. row[m].state = "sending"
      BY <1>2, <2>1, <2>4 DEF Undisturbed
    <3>2. ~Delivering(m)
      <4>1. ASSUME NEW v \in Workers, now[v].stage = "complete", now[v].claim.message = m PROVE FALSE
        <5>1. now[v].claim \in Held(v)
          BY <4>1, ClaimInWork
        <5>2. v = w
          BY <1>2, <2>1, <2>4, <4>1, <5>1, OneHolder
        <5>. QED  BY <1>1, <4>1, <5>2
      <4>. QED  BY <4>1 DEF Delivering
    <3>3. delivered[m] = 0
      BY <2>1, <3>1, <3>2 DEF Undisturbed, IInv, TypeOK
    <3>4. delivered'[m] <= 1 /\ (delivered'[m] = 1 => answer = "ok")
      BY <1>1, <2>4, <3>3 DEF IInv, TypeOK
    <3>5. answer = "ok" => Delivering(m)'
      BY <1>2, <1>3, <2>2, <2>4 DEF Delivering
    <3>6. \A v \in Workers : \A d \in Held(v)' : d.message = m =>
            row'[m].state = "sending" /\ row'[m].attempts = d.attempt /\ ~row'[m].due
      BY <1>5, <2>1 DEF Undisturbed
    <3>. QED  BY <3>4, <3>5, <3>6 DEF Undisturbed
  <2>. QED  BY <2>3, <2>4
<1>. QED  BY <1>1, <1>5, <1>6, <1>7, <1>8, WorkerStepPreserves DEF IInv, TypeOK

\* The worker leaves its claim and goes on to the next.
LEMMA NextRowKeeps ==
  ASSUME IInv, NEW w \in Workers, NextRow(w), \A m \in Messages : row'[m].attempts = row[m].attempts
  PROVE  /\ claims' \in [Workers -> SUBSET Claim] /\ now' \in [Workers -> WorkType]
         /\ Stages' /\ AttemptsAreOwn' /\ HeldIsClaimed'
         /\ \A v \in Workers : Held(v)' \subseteq Held(v)
         /\ \A v \in Workers : v # w => now'[v] = now[v] /\ Unasked(v)' = Unasked(v)
         /\ Unasked(w)' \subseteq claims[w] /\ Held(w)' \subseteq claims[w] /\ now'[w].claim = None
<1>. DEFINE x == [Idle EXCEPT !.stage = IF claims[w] = {} THEN "idle" ELSE "batch"]
<1>1. x \in WorkType /\ x.claim = None /\ x.stage = IF claims[w] = {} THEN "idle" ELSE "batch"
  BY DEF Idle, WorkType, Ends
<1>2. now' = [now EXCEPT ![w] = x] /\ claims' = [claims EXCEPT ![w] = claims[w]]
  BY DEF NextRow, IInv, TypeOK
<1>. HIDE DEF x
<1>3. claims[w] \in SUBSET claims[w] /\ (x.claim # None <=> x.stage \in {"send", "complete"})
      /\ (x.stage = "idle" => claims[w] = {}) /\ x.stage # "send"
  BY <1>1
<1>4. \A v \in Workers : v # w => now'[v] = now[v]
  BY <1>2 DEF IInv, TypeOK
<1>5. now'[w] = x
  BY <1>2 DEF IInv, TypeOK
<1>6. x.claim # None => x.claim \in Held(w) /\ x.claim \notin claims[w]
  BY <1>1
<1>7. /\ claims' \in [Workers -> SUBSET Claim] /\ now' \in [Workers -> WorkType]
      /\ Stages' /\ AttemptsAreOwn' /\ HeldIsClaimed'
      /\ \A v \in Workers : Held(v)' \subseteq Held(v) /\ (v # w => Unasked(v)' = Unasked(v))
      /\ Unasked(w)' = claims[w] \cup (IF x.stage = "send" THEN {x.claim} ELSE {})
      /\ Held(w)' = claims[w] \cup ({x.claim} \ {None})
  BY <1>1, <1>2, <1>3, <1>6, WorkerStepKeeps
<1>. QED  BY <1>1, <1>3, <1>4, <1>5, <1>7

\* A completion threw: the worker goes on, or closes the row as failed.
LEMMA CompleteThrewKeeps ==
  ASSUME IInv, NEW w \in Workers, now[w].stage = "complete", CompleteThrew(w),
         \A m \in Messages : row'[m].attempts = row[m].attempts
  PROVE  /\ claims' \in [Workers -> SUBSET Claim] /\ now' \in [Workers -> WorkType]
         /\ Stages' /\ AttemptsAreOwn' /\ HeldIsClaimed'
         /\ \A v \in Workers : Held(v)' \subseteq Held(v) /\ Unasked(v)' \subseteq Unasked(v)
         /\ \A v \in Workers : v # w => now'[v] = now[v]
<1>1. CASE NextRow(w)
  BY <1>1, NextRowKeeps DEF Unasked
<1>2. CASE claims' = claims /\ now' = [now EXCEPT ![w].outcome = "failed", ![w].last = TRUE]
  <2>. DEFINE x == [now[w] EXCEPT !.outcome = "failed", !.last = TRUE]
  <2>1. now[w] \in WorkType
    BY DEF IInv, TypeOK
  <2>2. x \in WorkType /\ x.claim = now[w].claim /\ x.stage = "complete"
    BY <2>1 DEF WorkType, Ends
  <2>3. now' = [now EXCEPT ![w] = x] /\ claims' = [claims EXCEPT ![w] = claims[w]]
    BY <1>2 DEF IInv, TypeOK
  <2>4. now[w].claim \in Held(w) /\ now[w].claim \notin claims[w] /\ now[w].claim # None
    BY ClaimInWork
  <2>. HIDE DEF x
  <2>5. /\ x.claim # None => x.claim \in Held(w) /\ x.claim \notin claims[w]
        /\ x.claim # None <=> x.stage \in {"send", "complete"}
        /\ x.stage # "idle" /\ x.stage # "send"
    BY <2>2, <2>4
  <2>6. \A v \in Workers : v # w => now'[v] = now[v]
    BY <2>3 DEF IInv, TypeOK
  <2>. QED  BY <2>2, <2>3, <2>5, <2>6, WorkerStepKeeps DEF Unasked
<1>. QED  BY <1>1, <1>2 DEF CompleteThrew

LEMMA StoredTypes ==
  ASSUME IInv, NEW c \in Claim, NEW outcome \in Ends, NEW again \in BOOLEAN, Stored(c, outcome, again)
  PROVE  /\ row' \in [Messages -> RowType] /\ log' \in [Messages -> SUBSET Attempt]
         /\ \A m \in Messages : row'[m].attempts = row[m].attempts
         /\ \A m \in Messages : m # c.message => row'[m] = row[m]
         /\ row'[c.message].state = IF again THEN "pending" ELSE outcome
<1>1. c.message \in Messages /\ c.attempt \in Nat
  BY DEF Claim
<1>. DEFINE m == c.message
            e == IF again THEN "pending" ELSE outcome
            d == row[m].due /\ ~again
            r == [row[m] EXCEPT !.state = e, !.due = d]
<1>2. row' = [row EXCEPT ![m] = r]
  BY DEF Stored
<1>3. row[m] \in RowType /\ d \in BOOLEAN /\ e \in {"pending"} \cup Ends
  BY <1>1 DEF IInv, TypeOK, RowType
<1>4. r \in RowType /\ r.attempts = row[m].attempts /\ r.state = e
  <2>. HIDE DEF m, e, d
  <2>. QED  BY <1>3 DEF RowType
<1>5. log' \in [Messages -> SUBSET Attempt]
  <2>1. [number |-> c.attempt, outcome |-> outcome] \in Attempt
    BY <1>1 DEF Attempt
  <2>. QED  BY <1>1, <2>1 DEF Stored, IInv, TypeOK
<1>. QED  BY <1>1, <1>2, <1>4, <1>5 DEF IInv, TypeOK

LEMMA SendThrowsPreserves ==
  ASSUME IInv, NEW w \in Workers, NEW sent \in BOOLEAN, SendThrows(w, sent)
  PROVE  IInv'
<1>. DEFINE c == now[w].claim
<1>1. /\ now[w].stage = "send" /\ NextRow(w) /\ UNCHANGED <<row, log, wanted>>
      /\ disturbed' = disturbed \cup {c.message} /\ faults < MaxFaults /\ faults' = faults + 1
      /\ asked' = [asked EXCEPT ![c.message] = @ + 1]
      /\ delivered' = [delivered EXCEPT ![c.message] = @ + IF sent THEN 1 ELSE 0]
  BY DEF SendThrows, tables, Fault
<1>2. c.message \in Messages
  BY <1>1, ClaimInWork
<1>3. /\ claims' \in [Workers -> SUBSET Claim] /\ now' \in [Workers -> WorkType]
      /\ Stages' /\ AttemptsAreOwn' /\ HeldIsClaimed'
      /\ \A v \in Workers : Held(v)' \subseteq Held(v)
      /\ \A v \in Workers : v # w => now'[v] = now[v] /\ Unasked(v)' = Unasked(v)
      /\ Unasked(w)' \subseteq claims[w]
  BY <1>1, NextRowKeeps
<1>4. Budget'
  BY <1>1, <1>3, AskingBudget
<1>5. asked' \in [Messages -> Nat] /\ delivered' \in [Messages -> Nat]
      /\ disturbed' \subseteq Messages /\ faults' \in 0 .. MaxFaults
  BY <1>1, <1>2, MaxFaultsIsNatural DEF IInv, TypeOK
<1>6. ASSUME NEW m \in Messages \ disturbed' PROVE Undisturbed(m)'
  <2>1. Undisturbed(m) /\ row' = row /\ m # c.message /\ delivered'[m] = delivered[m]
    BY <1>1, <1>6 DEF IInv, TypeOK
  <2>. QED  BY <1>3, <2>1, OthersKept
<1>. QED  BY <1>1, <1>3, <1>4, <1>5, <1>6, WorkerStepPreserves DEF IInv, TypeOK

LEMMA CompletePreserves ==
  ASSUME IInv, NEW w \in Workers, Complete(w)
  PROVE  IInv'
<1>. DEFINE c == now[w].claim
<1>1. /\ now[w].stage = "complete" /\ Ours(c) /\ Stored(c, now[w].outcome, now[w].again) /\ NextRow(w)
      /\ UNCHANGED <<wanted, asked, delivered, disturbed, faults>>
  BY DEF Complete, provider, trouble
<1>2. c \in Claim /\ c \in Held(w) /\ c \notin claims[w] /\ c.message \in Messages
  BY <1>1, ClaimInWork
<1>3. now[w].outcome \in Ends /\ now[w].again \in BOOLEAN
  BY DEF IInv, TypeOK, WorkType
<1>4. /\ row' \in [Messages -> RowType] /\ log' \in [Messages -> SUBSET Attempt]
      /\ \A m \in Messages : row'[m].attempts = row[m].attempts
      /\ \A m \in Messages : m # c.message => row'[m] = row[m]
      /\ row'[c.message].state = IF now[w].again THEN "pending" ELSE now[w].outcome
  BY <1>1, <1>2, <1>3, StoredTypes
<1>5. /\ claims' \in [Workers -> SUBSET Claim] /\ now' \in [Workers -> WorkType]
      /\ Stages' /\ AttemptsAreOwn' /\ HeldIsClaimed'
      /\ \A v \in Workers : Held(v)' \subseteq Held(v)
      /\ \A v \in Workers : v # w => now'[v] = now[v] /\ Unasked(v)' = Unasked(v)
      /\ Unasked(w)' \subseteq claims[w] /\ Held(w)' \subseteq claims[w]
  BY <1>1, <1>4, NextRowKeeps
<1>6. Budget'
  BY <1>1, <1>4, <1>5, QuietBudget DEF Unasked
<1>7. ASSUME NEW m \in Messages \ disturbed' PROVE Undisturbed(m)'
  <2>1. Undisturbed(m) /\ delivered'[m] = delivered[m]
    BY <1>1, <1>7 DEF IInv
  <2>2. CASE m # c.message
    BY <1>4, <1>5, <2>1, <2>2, OthersKept
  <2>3. CASE m = c.message
    \* Nobody else has it, and the worker lets go of it.
    <3>1. \A v \in Workers : \A d \in Held(v)' : d.message # m
      <4>1. ASSUME NEW v \in Workers, NEW d \in Held(v)', d.message = m PROVE FALSE
        <5>1. d \in Held(v)
          BY <1>5, <4>1
        <5>2. v = w /\ d = c
          BY <1>2, <2>1, <2>3, <4>1, <5>1, OneHolder
        <5>. QED  BY <1>2, <1>5, <4>1, <5>2
      <4>. QED  BY <4>1
    <3>2. ASSUME delivered[m] = 1 PROVE row'[m].state = "sent"
      <4>1. Delivering(m)
        <5>1. row[m].state # "sent"
          BY <1>1, <2>3 DEF Ours
        <5>. QED  BY <2>1, <3>2, <5>1 DEF Undisturbed
      <4>2. PICK v \in Workers : now[v].stage = "complete" /\ now[v].claim.message = m
                                 /\ now[v].outcome = "sent" /\ ~now[v].again
        BY <4>1 DEF Delivering
      <4>3. v = w
        BY <1>2, <2>1, <2>3, <4>2, ClaimInWork, OneHolder
      <4>. QED  BY <1>4, <2>3, <4>2, <4>3
    <3>. QED  BY <2>1, <3>1, <3>2 DEF Undisturbed
  <2>. QED  BY <2>2, <2>3
<1>. QED  BY <1>1, <1>4, <1>5, <1>6, <1>7, WorkerStepPreserves DEF IInv, TypeOK

LEMMA ClaimLostPreserves ==
  ASSUME IInv, NEW w \in Workers, ClaimLost(w)
  PROVE  IInv'
<1>. DEFINE c == now[w].claim
<1>1. /\ now[w].stage = "complete" /\ ~Ours(c) /\ CompleteThrew(w)
      /\ UNCHANGED <<row, log, wanted, asked, delivered, disturbed, faults>>
  BY DEF ClaimLost, tables, provider, trouble
<1>2. c \in Held(w)
  BY <1>1, ClaimInWork
<1>3. /\ claims' \in [Workers -> SUBSET Claim] /\ now' \in [Workers -> WorkType]
      /\ Stages' /\ AttemptsAreOwn' /\ HeldIsClaimed'
      /\ \A v \in Workers : Held(v)' \subseteq Held(v) /\ Unasked(v)' \subseteq Unasked(v)
      /\ \A v \in Workers : v # w => now'[v] = now[v]
  BY <1>1, CompleteThrewKeeps
<1>4. Budget'
  BY <1>1, <1>3, QuietBudget
<1>5. ASSUME NEW m \in Messages \ disturbed' PROVE Undisturbed(m)'
  <2>1. Undisturbed(m) /\ row'[m] = row[m] /\ delivered'[m] = delivered[m]
    BY <1>1, <1>5 DEF IInv
  \* A claim on an undisturbed message is not lost.
  <2>2. c.message # m
    BY <1>1, <1>2, <2>1 DEF Undisturbed, Ours
  <2>. QED  BY <1>3, <2>1, <2>2, OthersKept
<1>. QED  BY <1>1, <1>3, <1>4, <1>5, WorkerStepPreserves DEF IInv, TypeOK

LEMMA CompleteFailsPreserves ==
  ASSUME IInv, NEW w \in Workers, NEW committed \in BOOLEAN, CompleteFails(w, committed)
  PROVE  IInv'
<1>. DEFINE c == now[w].claim
<1>1. /\ now[w].stage = "complete" /\ CompleteThrew(w) /\ UNCHANGED <<wanted, asked, delivered>>
      /\ disturbed' = disturbed \cup {c.message} /\ faults < MaxFaults /\ faults' = faults + 1
      /\ Stored(c, now[w].outcome, now[w].again) \/ UNCHANGED <<row, log>>
  BY DEF CompleteFails, tables, Fault, provider
<1>2. c \in Claim /\ c.message \in Messages
  BY <1>1, ClaimInWork
<1>3. now[w].outcome \in Ends /\ now[w].again \in BOOLEAN
  BY DEF IInv, TypeOK, WorkType
<1>4. /\ row' \in [Messages -> RowType] /\ log' \in [Messages -> SUBSET Attempt]
      /\ \A m \in Messages : row'[m].attempts = row[m].attempts
      /\ \A m \in Messages : m # c.message => row'[m] = row[m]
  <2>1. CASE Stored(c, now[w].outcome, now[w].again)
    BY <1>2, <1>3, <2>1, StoredTypes
  <2>2. CASE UNCHANGED <<row, log>>
    BY <2>2 DEF IInv, TypeOK
  <2>. QED  BY <1>1, <2>1, <2>2
<1>5. /\ claims' \in [Workers -> SUBSET Claim] /\ now' \in [Workers -> WorkType]
      /\ Stages' /\ AttemptsAreOwn' /\ HeldIsClaimed'
      /\ \A v \in Workers : Held(v)' \subseteq Held(v) /\ Unasked(v)' \subseteq Unasked(v)
      /\ \A v \in Workers : v # w => now'[v] = now[v]
  BY <1>1, <1>4, CompleteThrewKeeps
<1>6. Budget'
  BY <1>1, <1>4, <1>5, QuietBudget
<1>7. disturbed' \subseteq Messages /\ faults' \in 0 .. MaxFaults
  BY <1>1, <1>2, MaxFaultsIsNatural DEF IInv, TypeOK
<1>8. ASSUME NEW m \in Messages \ disturbed' PROVE Undisturbed(m)'
  <2>1. Undisturbed(m) /\ m # c.message /\ delivered'[m] = delivered[m]
    BY <1>1, <1>8 DEF IInv
  <2>. QED  BY <1>4, <1>5, <2>1, OthersKept
<1>. QED  BY <1>1, <1>4, <1>5, <1>6, <1>7, <1>8, WorkerStepPreserves DEF IInv, TypeOK

LEMMA DiesPreserves ==
  ASSUME IInv, NEW w \in Workers, Dies(w)
  PROVE  IInv'
<1>1. /\ now' = [now EXCEPT ![w] = Idle] /\ claims' = [claims EXCEPT ![w] = {}]
      /\ UNCHANGED <<row, log, wanted, asked, delivered>>
      /\ disturbed' = disturbed \cup InHand(w) /\ faults < MaxFaults /\ faults' = faults + 1
  BY DEF Dies, tables, Fault, provider
<1>2. Idle \in WorkType /\ Idle.claim = None /\ Idle.stage = "idle"
  BY DEF Idle, WorkType, Ends
<1>3. /\ claims' \in [Workers -> SUBSET Claim] /\ now' \in [Workers -> WorkType]
      /\ Stages' /\ AttemptsAreOwn' /\ HeldIsClaimed'
      /\ \A v \in Workers : Held(v)' \subseteq Held(v) /\ (v # w => Unasked(v)' = Unasked(v))
      /\ Unasked(w)' = {} \cup (IF Idle.stage = "send" THEN {Idle.claim} ELSE {})
  <2>1. /\ Idle.claim # None => Idle.claim \in Held(w) /\ Idle.claim \notin {}
        /\ Idle.claim # None <=> Idle.stage \in {"send", "complete"}
        /\ Idle.stage # "send" /\ {} \in SUBSET claims[w]
        /\ \A m \in Messages : row'[m].attempts = row[m].attempts
    BY <1>1, <1>2
  <2>. QED  BY <1>1, <1>2, <2>1, WorkerStepKeeps
<1>4. Budget'
  BY <1>1, <1>2, <1>3, QuietBudget
<1>5. disturbed' \subseteq Messages /\ faults' \in 0 .. MaxFaults
  <2>1. InHand(w) \subseteq Messages
    BY InHandIsHeld, HeldTypes DEF IInv
  <2>. QED  BY <1>1, <2>1, MaxFaultsIsNatural DEF IInv, TypeOK
<1>6. ASSUME NEW m \in Messages \ disturbed' PROVE Undisturbed(m)'
  <2>1. Undisturbed(m) /\ row'[m] = row[m] /\ delivered'[m] = delivered[m] /\ m \notin InHand(w)
    BY <1>1, <1>6 DEF IInv
  <2>2. now[w].claim = None \/ now[w].claim.message # m
    BY <2>1 DEF InHand
  <2>3. \A v \in Workers : v # w => now'[v] = now[v]
    BY <1>1 DEF IInv, TypeOK
  <2>. QED  BY <1>3, <2>1, <2>2, <2>3, OthersKept
<1>. QED  BY <1>1, <1>3, <1>4, <1>5, <1>6, WorkerStepPreserves DEF IInv, TypeOK

LEMMA StutterPreserves ==
  ASSUME IInv, UNCHANGED vars
  PROVE  IInv'
<1>1. UNCHANGED <<row, log, wanted, claims, now, asked, delivered, disturbed, faults>>
  BY DEF vars, tables, provider, trouble
<1>2. /\ \A v \in Workers : Held(v)' = Held(v) /\ InHand(v)' = InHand(v)
      /\ \A m \in Messages : Open(m)' = Open(m) /\ (Undisturbed(m) => Undisturbed(m)')
  BY <1>1 DEF Held, InHand, Open, Unasked, Undisturbed, Delivering
<1>. QED  BY <1>1, <1>2 DEF IInv, TypeOK, Stages, AttemptsAreOwn, HeldIsClaimed, Budget

LEMMA NextPreserves == IInv /\ [Next]_vars => IInv'
<1>. SUFFICES ASSUME IInv, [Next]_vars PROVE IInv'
  OBVIOUS
<1>1. CASE \E m \in Messages : Enqueue(m) \/ SetPreference(m) \/ ComesDue(m)
  BY <1>1, OutboxStepPreserves
<1>2. CASE \E w \in Workers, ms \in SUBSET Messages, answered \in BOOLEAN : ClaimDue(w, ms, answered)
  BY <1>2, ClaimPreserves
<1>3. CASE \E w \in Workers : Progress(w)
  BY <1>3, TakePreserves, SendPreserves, CompletePreserves, ClaimLostPreserves DEF Progress
<1>4. CASE \E w \in Workers, b \in BOOLEAN : SendThrows(w, b) \/ CompleteFails(w, b)
  BY <1>4, SendThrowsPreserves, CompleteFailsPreserves
<1>5. CASE \E w \in Workers : Dies(w)
  BY <1>5, DiesPreserves
<1>6. CASE UNCHANGED vars
  BY <1>6, StutterPreserves
<1>. QED  BY <1>1, <1>2, <1>3, <1>4, <1>5, <1>6 DEF Next

----------------------------------------------------------------------------
(* What follows from it                                                    *)

\* email-outbox.ts, postgres-email-outbox-store.ts: the attempts that workers
\* hold are their own, every request has its claim, and an undisturbed message
\* is in one worker's hands.
THEOREM Invariance == Spec => []IInv
  BY InitIsInductive, NextPreserves, PTL DEF Spec

\* Every variable of the outbox has its type.
THEOREM TypeCorrect == Spec => []TypeOK
<1>1. IInv => TypeOK
  BY DEF IInv
<1>. QED  BY Invariance, <1>1, PTL

\* email-outbox.ts: the provider is asked at most once per claim and at most
\* maxAttempts times for a message, and a message that no fault touched is
\* delivered at most once.
THEOREM BoundedSendsHolds == Spec => []BoundedSends
<1>1. ASSUME IInv PROVE BoundedSends
  <2>. SUFFICES ASSUME NEW m \in Messages
                PROVE  /\ asked[m] <= row[m].attempts /\ asked[m] <= MaxAttempts
                       /\ delivered[m] > 1 => m \in disturbed
    BY DEF BoundedSends
  <2>1. Cardinality(Open(m)) \in Nat
    BY OpenIsFinite DEF Open
  <2>2. asked[m] \in Nat /\ delivered[m] \in Nat /\ row[m].attempts \in Nat
    BY <1>1 DEF IInv, TypeOK, RowType
  <2>3. asked[m] <= row[m].attempts /\ asked[m] <= MaxAttempts
    BY <1>1, <2>1, <2>2, MaxAttemptsIsPositive DEF IInv, Budget
  <2>4. m \notin disturbed => delivered[m] <= 1
    BY <1>1 DEF IInv, Undisturbed
  <2>. QED  BY <2>2, <2>3, <2>4
<1>. QED  BY Invariance, <1>1, PTL
=============================================================================
