--------------------------- MODULE CrewTaskProofs ---------------------------
(***************************************************************************)
(* Proofs about one crew task, for any settings in their ranges, any       *)
(* number of retries and redeliveries and any stall of the request.        *)
(***************************************************************************)
EXTENDS CrewTask, TLAPS

Delivery ==
  [pc : {"free", "queued", "analysis", "processing"}, retries : Nat, expires : Int,
   eta : Nat, permitted : Nat, elapsed : Nat]

Statuses == Executed \cup {"PENDING", "REVOKED"}

TypeOK ==
  /\ api \in [pc : {"new", "dispatch", "answer", "ended"}, stall : Nat]
  /\ owner \in [tenant : Tenants \cup {NoOwner}, ttl : Nat]
  /\ deliveries \in [Slots -> Delivery]
  /\ backend \in [status : Statuses, ttl : Nat]

\* Before the send there is no message and nothing is stored, and the key has
\* aged by the stall of the request.
Unsent ==
  api.pc \in {"new", "dispatch"} =>
    /\ \A d \in Slots : At(d, "free")
    /\ backend.status \notin Executed
    /\ api.pc = "new" => api.stall = 0
    /\ api.pc = "dispatch" => api.stall <= MaxStall /\ owner.ttl + api.stall >= OwnerTTL

\* The key lives as long as a message may still be started, run to its limit and
\* have its result stored.
MessageCovered(d) ==
  ~At(d, "free") /\ deliveries[d].expires >= 0 =>
    owner.ttl >= deliveries[d].expires + RunLimit + ResultTTL

AttemptCovered(d) ==
  Running(d) =>
    /\ deliveries[d].elapsed <= RunLimit
    /\ owner.ttl + deliveries[d].elapsed >= RunLimit + ResultTTL

ResultCovered ==
  backend.status \in Executed => backend.ttl > 0 /\ owner.ttl >= backend.ttl

KeyIsSubmitters == owner.ttl > 0 => owner.tenant = Submitter

\* The inductive invariant.
IInv ==
  /\ TypeOK /\ Unsent /\ ResultCovered /\ KeyIsSubmitters
  /\ \A d \in Slots : MessageCovered(d) /\ AttemptCovered(d)

-----------------------------------------------------------------------------
\* The settings are numbers, and the key outlives a stalled request, the queue,
\* an attempt and its result together.
LEMMA SettingsTypes ==
  /\ QueueTTL \in Nat /\ ResultTTL \in Nat /\ RunLimit \in Nat /\ OwnerTTL \in Nat
  /\ QueueTTL > 0 /\ ResultTTL > 0 /\ RunLimit > 0
  /\ MaxStall \in Nat /\ MaxWait \in Nat /\ MaxJitter \in Nat
  /\ RetryAfters \subseteq Nat
  /\ OwnerTTL >= MaxStall + QueueTTL + RunLimit + ResultTTL
  /\ Submitter \in Tenants
  BY CrewConstants

\* A slot without a message is well-typed.
LEMMA FreeType == Free \in Delivery
  BY DEF Free, Delivery

\* Before the request nothing is sent, stored or owned.
LEMMA InitIInv == Init => IInv
  BY SettingsTypes, FreeType
     DEF Init, IInv, TypeOK, Unsent, MessageCovered, AttemptCovered, ResultCovered,
         KeyIsSubmitters, At, Running, Free, Delivery, NoMeta, Executed, Statuses

\* A step stores nothing, or a state that the key covers.
StoreCovered ==
  \/ backend' = backend
  \/ \E s \in Statuses :
       /\ backend' = [status |-> s, ttl |-> ResultTTL]
       /\ s \in Executed => owner.ttl >= ResultTTL

\* What the worker and the broker do keeps the invariant: one copy of the message
\* changes, within the cover of the key, and a result is stored only then.
LEMMA DeliveryStep ==
  ASSUME IInv, api.pc \notin {"new", "dispatch"}, NEW d \in Slots, NEW x \in Delivery,
         deliveries' = [deliveries EXCEPT ![d] = x], UNCHANGED <<api, owner>>,
         x.pc # "free" /\ x.expires >= 0 => owner.ttl >= x.expires + RunLimit + ResultTTL,
         x.pc \in {"analysis", "processing"} =>
           x.elapsed <= RunLimit /\ owner.ttl + x.elapsed >= RunLimit + ResultTTL,
         StoreCovered
  PROVE  IInv'
<1>1. TypeOK'
  BY SettingsTypes DEF IInv, TypeOK, StoreCovered
<1>2. Unsent' /\ KeyIsSubmitters'
  BY DEF IInv, Unsent, KeyIsSubmitters
<1>3. ResultCovered'
  BY SettingsTypes DEF IInv, TypeOK, ResultCovered, StoreCovered
<1>4. ASSUME NEW e \in Slots
      PROVE  MessageCovered(e)' /\ AttemptCovered(e)'
  <2>1. CASE e = d
    BY <2>1 DEF IInv, TypeOK, MessageCovered, AttemptCovered, At, Running
  <2>2. CASE e # d
    BY <2>2 DEF IInv, TypeOK, MessageCovered, AttemptCovered, At, Running
  <2> QED
    BY <2>1, <2>2
<1> QED
  BY <1>1, <1>2, <1>3, <1>4 DEF IInv

\* A copy of the message exists only after the send.
LEMMA Sent ==
  ASSUME IInv, NEW d \in Slots, ~At(d, "free")
  PROVE  api.pc \notin {"new", "dispatch"}
  BY DEF IInv, Unsent

\* What Stored leaves in the backend is covered when the state written is.
LEMMA StoredIsCovered ==
  ASSUME NEW s \in Statuses, backend' = Stored(s), s \in Executed => owner.ttl >= ResultTTL
  PROVE  StoreCovered
  BY DEF Stored, StoreCovered

\* Every step of a worker keeps the invariant.
LEMMA WorkerIInv ==
  ASSUME IInv, NEW d \in Slots, Worker(d)
  PROVE  IInv'
<1> DEFINE row == deliveries[d]
<1>0. row \in Delivery /\ owner.ttl \in Nat
  BY DEF IInv, TypeOK
<1>1. ~At(d, "free")
  BY DEF Worker, Expire, Start, Analysed, Succeed, Fail, TimeLimit, Lose, Retry, At, Running
<1>2. api.pc \notin {"new", "dispatch"}
  BY <1>1, Sent
<1>3. Running(d) => owner.ttl >= ResultTTL
  BY <1>0, SettingsTypes DEF IInv, AttemptCovered, Delivery
<1>4. CASE Expire(d)
  <2>1. StoreCovered
    BY <1>4, StoredIsCovered DEF Expire, Statuses, Executed
  <2> QED
    BY <1>2, <1>4, <2>1, FreeType, DeliveryStep DEF Expire, Ack, Free
<1>5. CASE Start(d)
  <2> DEFINE x == [row EXCEPT !.pc = "analysis", !.elapsed = 0]
  <2>1. x \in Delivery /\ x.pc = "analysis" /\ x.elapsed = 0 /\ x.expires = row.expires
    BY <1>0 DEF Delivery
  <2>2. deliveries' = [deliveries EXCEPT ![d] = x] /\ UNCHANGED <<api, owner>>
    BY <1>5 DEF Start, IInv, TypeOK
  <2>3. row.expires >= 0 /\ owner.ttl >= row.expires + RunLimit + ResultTTL
    BY <1>1, <1>5 DEF Start, IInv, MessageCovered
  <2>4. /\ owner.ttl >= ResultTTL /\ x.elapsed <= RunLimit
        /\ owner.ttl + x.elapsed >= RunLimit + ResultTTL
    BY <1>0, <2>1, <2>3, SettingsTypes DEF Delivery
  <2>5. StoreCovered
    BY <1>5, <2>4, StoredIsCovered DEF Start, Statuses, Executed
  <2> HIDE DEF x
  <2> QED
    BY <1>2, <2>1, <2>2, <2>3, <2>4, <2>5, DeliveryStep
<1>6. CASE Analysed(d)
  <2> DEFINE x == [row EXCEPT !.pc = "processing"]
  <2>1. x \in Delivery /\ x.elapsed = row.elapsed /\ x.expires = row.expires
    BY <1>0 DEF Delivery
  <2>2. deliveries' = [deliveries EXCEPT ![d] = x] /\ UNCHANGED <<api, owner, backend>>
    BY <1>6 DEF Analysed, IInv, TypeOK
  <2>0. StoreCovered
    BY <2>2 DEF StoreCovered
  <2>3. row.expires >= 0 => owner.ttl >= row.expires + RunLimit + ResultTTL
    BY <1>1 DEF IInv, MessageCovered
  <2>4. row.elapsed <= RunLimit /\ owner.ttl + row.elapsed >= RunLimit + ResultTTL
    BY <1>6 DEF IInv, AttemptCovered, Analysed, At, Running
  <2> HIDE DEF x
  <2> QED
    BY <1>2, <2>0, <2>1, <2>2, <2>3, <2>4, DeliveryStep
<1>7. ASSUME NEW s \in {"SUCCESS", "FAILURE"}, Running(d), Ack(d), backend' = Stored(s),
             UNCHANGED <<api, owner>>
      PROVE  IInv'
  <2>1. StoreCovered
    BY <1>3, <1>7, StoredIsCovered DEF Statuses, Executed
  <2> QED
    BY <1>2, <1>7, <2>1, FreeType, DeliveryStep DEF Ack, Free
<1>8. CASE Succeed(d)
  BY <1>7, <1>8 DEF Succeed, At, Running
<1>9. CASE Fail(d) \/ TimeLimit(d)
  BY <1>7, <1>9 DEF Fail, TimeLimit
<1>10. CASE Lose(d)
  BY <1>2, <1>10, FreeType, DeliveryStep DEF Lose, Ack, Free, StoreCovered
<1>11. ASSUME NEW delay \in Nat, NEW wait \in Nat, Retry(d, delay, wait)
       PROVE  IInv'
  <2> DEFINE n == row.retries + 1
             x == [row EXCEPT !.pc = "queued", !.retries = n, !.eta = delay,
                              !.permitted = wait, !.elapsed = 0]
  <2>0. n \in Nat
    BY <1>0 DEF Delivery
  <2>1. x \in Delivery /\ x.pc = "queued" /\ x.expires = row.expires
    <3> HIDE DEF n, row
    <3> QED
      BY <1>0, <1>11, <2>0 DEF Delivery
  <2>2. deliveries' = [deliveries EXCEPT ![d] = x] /\ UNCHANGED <<api, owner>>
    BY <1>11 DEF Retry
  <2>3. row.expires >= 0 => owner.ttl >= row.expires + RunLimit + ResultTTL
    BY <1>1 DEF IInv, MessageCovered
  <2>4. StoreCovered
    BY <1>3, <1>11, StoredIsCovered DEF Retry, Statuses, Executed
  <2> HIDE DEF x
  <2> QED
    BY <1>2, <2>1, <2>2, <2>3, <2>4, DeliveryStep
<1>12. CASE \E wait \in RetryAfters : \E delay \in RetryDelays(wait) : Retry(d, delay, wait)
  BY <1>11, <1>12, SettingsTypes DEF RetryDelays
<1>13. CASE \E delay \in Jitter(d) : Retry(d, delay, 0)
  BY <1>11, <1>13, SettingsTypes DEF Jitter
<1> QED
  BY <1>4, <1>5, <1>6, <1>8, <1>9, <1>10, <1>12, <1>13 DEF Worker

\* The broker repeats a message with its expiry: what the key covered it covers.
LEMMA BrokerIInv ==
  ASSUME IInv, NEW d \in Slots, NEW e \in Slots, Crash(d) \/ Restore(d, e)
  PROVE  IInv'
<1>0. deliveries[d] \in Delivery
  BY DEF IInv, TypeOK
<1>1. ~At(d, "free")
  BY DEF Crash, Restore, At, Running
<1>2. api.pc \notin {"new", "dispatch"}
  BY <1>1, Sent
<1>3. PICK f \in Slots : deliveries' = [deliveries EXCEPT ![f] = Again(d)]
  BY DEF Crash, Restore
<1>4. /\ Again(d) \in Delivery /\ Again(d).pc = "queued"
      /\ Again(d).expires = deliveries[d].expires
  BY <1>0 DEF Again, Delivery
<1>5. deliveries[d].expires >= 0 =>
        owner.ttl >= deliveries[d].expires + RunLimit + ResultTTL
  BY <1>1 DEF IInv, MessageCovered
<1>6. UNCHANGED <<api, owner>> /\ StoreCovered
  BY DEF Crash, Restore, StoreCovered
<1> QED
  BY <1>2, <1>3, <1>4, <1>5, <1>6, DeliveryStep

\* Time passes: the key loses as much as what it covers, and an attempt cannot
\* outlast its limit.
LEMMA TickIInv == IInv /\ Tick => IInv'
<1> SUFFICES ASSUME IInv, Tick PROVE IInv'
  OBVIOUS
<1>0. /\ owner.ttl \in Nat /\ backend.ttl \in Nat /\ api.stall \in Nat
      /\ owner' = [tenant |-> IF owner.ttl > 1 THEN owner.tenant ELSE NoOwner,
                   ttl |-> Less(owner.ttl)]
  BY DEF IInv, TypeOK, Tick
<1>1. /\ api' = [api EXCEPT !.stall = IF api.pc = "dispatch" THEN api.stall + 1 ELSE 0]
      /\ api'.pc = api.pc
      /\ api.pc = "dispatch" => api'.stall = api.stall + 1 /\ api.stall < MaxStall
      /\ api.pc # "dispatch" => api'.stall = 0
      /\ api'.stall \in Nat
  <2>1. api' = [api EXCEPT !.stall = IF api.pc = "dispatch" THEN api.stall + 1 ELSE 0]
        /\ (api.pc = "dispatch" => api.stall < MaxStall)
    BY DEF Tick
  <2>2. CASE api.pc = "dispatch"
    BY <1>0, <2>1, <2>2 DEF IInv, TypeOK
  <2>3. CASE api.pc # "dispatch"
    BY <1>0, <2>1, <2>3 DEF IInv, TypeOK
  <2> QED
    BY <2>1, <2>2, <2>3
<1>2. /\ backend.ttl > 1 => backend' = [backend EXCEPT !.ttl = backend.ttl - 1]
      /\ ~(backend.ttl > 1) => backend' = NoMeta
  BY DEF Tick
<1>3. /\ owner'.ttl = Less(owner.ttl) /\ Less(owner.ttl) \in Nat
      /\ Less(owner.ttl) >= owner.ttl - 1
  BY <1>0 DEF Less
<1>4. ASSUME NEW d \in Slots, ~At(d, "free")
      PROVE  /\ deliveries'[d] \in Delivery /\ deliveries'[d].pc = deliveries[d].pc
             /\ deliveries'[d].expires = IF deliveries[d].expires >= 0
                                         THEN deliveries[d].expires - 1
                                         ELSE deliveries[d].expires
             /\ Running(d) => deliveries'[d].elapsed = deliveries[d].elapsed + 1
  <2>1. deliveries[d] \in Delivery
    BY DEF IInv, TypeOK
  <2>2. deliveries'[d] = [deliveries[d] EXCEPT
            !.expires = IF deliveries[d].expires >= 0 THEN deliveries[d].expires - 1
                                                      ELSE deliveries[d].expires,
            !.eta = Less(deliveries[d].eta), !.permitted = Less(deliveries[d].permitted),
            !.elapsed = IF Running(d) THEN deliveries[d].elapsed + 1 ELSE 0]
    BY <1>4, <2>1 DEF Tick, Delivery
  <2>3. /\ Less(deliveries[d].eta) \in Nat /\ Less(deliveries[d].permitted) \in Nat
        /\ deliveries[d].expires \in Int /\ deliveries[d].elapsed + 1 \in Nat
    BY <2>1 DEF Delivery, Less
  <2> DEFINE expires == IF deliveries[d].expires >= 0 THEN deliveries[d].expires - 1
                                                      ELSE deliveries[d].expires
             elapsed == IF Running(d) THEN deliveries[d].elapsed + 1 ELSE 0
             eta == Less(deliveries[d].eta)
             permitted == Less(deliveries[d].permitted)
  <2>4. expires \in Int /\ elapsed \in Nat /\ eta \in Nat /\ permitted \in Nat
    BY <2>3
  <2>5. Running(d) => elapsed = deliveries[d].elapsed + 1
    OBVIOUS
  <2>6. deliveries'[d] = [deliveries[d] EXCEPT !.expires = expires, !.eta = eta,
                                               !.permitted = permitted, !.elapsed = elapsed]
    BY <2>2
  <2>7. expires = IF deliveries[d].expires >= 0 THEN deliveries[d].expires - 1
                                                ELSE deliveries[d].expires
    OBVIOUS
  <2> HIDE DEF expires, elapsed, eta, permitted
  <2>8. /\ deliveries'[d] \in Delivery /\ deliveries'[d].pc = deliveries[d].pc
        /\ deliveries'[d].expires = expires /\ deliveries'[d].elapsed = elapsed
    BY <2>1, <2>4, <2>6 DEF Delivery
  <2> QED
    BY <2>5, <2>7, <2>8
<1>5. ASSUME NEW d \in Slots, At(d, "free")
      PROVE  deliveries'[d] = Free
  BY <1>5 DEF Tick
<1>6. deliveries' \in [Slots -> Delivery]
  BY <1>4, <1>5, FreeType DEF Tick
<1>7. TypeOK'
  <2>1. api' \in [pc : {"new", "dispatch", "answer", "ended"}, stall : Nat]
    BY <1>1 DEF IInv, TypeOK
  <2>2. owner' \in [tenant : Tenants \cup {NoOwner}, ttl : Nat]
    BY <1>0, <1>3 DEF IInv, TypeOK
  <2>3. backend' \in [status : Statuses, ttl : Nat]
    <3>1. CASE backend.ttl > 1
      BY <1>0, <1>2, <3>1 DEF IInv, TypeOK
    <3>2. CASE ~(backend.ttl > 1)
      BY <1>2, <3>2 DEF NoMeta, Statuses
    <3> QED
      BY <3>1, <3>2
  <2> QED
    BY <1>6, <2>1, <2>2, <2>3 DEF TypeOK
<1>8. Unsent'
  <2>1. ASSUME api'.pc \in {"new", "dispatch"}
        PROVE  \A d \in Slots : At(d, "free")'
    BY <1>5, <2>1 DEF IInv, TypeOK, Unsent, Tick, At, Free
  <2>2. ASSUME api'.pc \in {"new", "dispatch"}
        PROVE  backend'.status \notin Executed
    BY <2>2 DEF IInv, TypeOK, Unsent, Tick, NoMeta, Executed
  <2>3. ASSUME api'.pc = "dispatch"
        PROVE  api'.stall <= MaxStall /\ owner'.ttl + api'.stall >= OwnerTTL
    BY <1>0, <1>3, <1>1, <2>3, SettingsTypes DEF IInv, Unsent
  <2> QED
    BY <1>1, <2>1, <2>2, <2>3 DEF Unsent
<1>9. ResultCovered'
  <2>1. CASE backend.ttl > 1
    <3>1. backend'.status = backend.status /\ backend'.ttl = backend.ttl - 1
      BY <1>2, <2>1 DEF IInv, TypeOK
    <3> QED
      BY <1>0, <1>3, <2>1, <3>1 DEF IInv, ResultCovered
  <2>2. CASE ~(backend.ttl > 1)
    BY <1>2, <2>2 DEF ResultCovered, NoMeta, Executed
  <2> QED
    BY <2>1, <2>2
<1>10. KeyIsSubmitters'
  BY <1>0, <1>3 DEF IInv, KeyIsSubmitters, Less
<1>11. ASSUME NEW d \in Slots
      PROVE  MessageCovered(d)' /\ AttemptCovered(d)'
  <2>1. CASE At(d, "free")
    BY <1>5, <2>1 DEF MessageCovered, AttemptCovered, At, Running, Free
  <2>2. CASE ~At(d, "free")
    <3>0. deliveries[d] \in Delivery /\ deliveries[d].expires \in Int
          /\ deliveries[d].elapsed \in Nat
      BY DEF IInv, TypeOK, Delivery
    <3>1. MessageCovered(d)'
      BY <1>0, <1>3, <1>4, <2>2, <3>0, SettingsTypes DEF IInv, MessageCovered, At
    <3>2. AttemptCovered(d)'
      <4>1. Running(d)' => Running(d)
        BY <1>4, <2>2 DEF Running
      <4>2. Running(d) => deliveries[d].elapsed < RunLimit
        BY DEF Tick
      <4>3. Running(d) => owner.ttl + deliveries[d].elapsed >= RunLimit + ResultTTL
        BY DEF IInv, AttemptCovered
      <4>4. Running(d) => deliveries'[d].elapsed = deliveries[d].elapsed + 1
        BY <1>4, <2>2
      <4> QED
        BY <1>0, <1>3, <3>0, <4>1, <4>2, <4>3, <4>4, SettingsTypes DEF AttemptCovered
    <3> QED
      BY <3>1, <3>2
  <2> QED
    BY <2>1, <2>2
<1> QED
  BY <1>7, <1>8, <1>9, <1>10, <1>11 DEF IInv

\* The steps of the request keep the invariant: the key is registered with its
\* whole life, and the message is sent while the stall is all it has lost.
LEMMA RequestIInv == IInv /\ (Register \/ Dispatch \/ Answer \/ Abandon) => IInv'
<1> SUFFICES ASSUME IInv, Register \/ Dispatch \/ Answer \/ Abandon PROVE IInv'
  OBVIOUS
<1> USE DEF IInv
<1>1. CASE Register
  <2>1. TypeOK'
    BY <1>1, SettingsTypes DEF Register, TypeOK
  <2>2. api'.pc = "dispatch" /\ api'.stall = api.stall /\ api.stall \in Nat
        /\ owner'.tenant = Submitter /\ owner'.ttl = OwnerTTL /\ api.stall = 0
    BY <1>1 DEF Register, TypeOK, Unsent
  <2>3. \A d \in Slots : At(d, "free")
    BY <1>1 DEF Register, Unsent
  <2>4. \A d \in Slots : MessageCovered(d)' /\ AttemptCovered(d)'
    BY <1>1, <2>3 DEF Register, MessageCovered, AttemptCovered, At, Running
  <2> QED
    BY <1>1, <2>1, <2>2, <2>3, <2>4, SettingsTypes
       DEF Register, Unsent, ResultCovered, KeyIsSubmitters, At
<1>2. CASE Dispatch
  <2> DEFINE x == [Free EXCEPT !.pc = "queued", !.expires = QueueTTL]
  <2>1. x \in Delivery /\ x.pc = "queued" /\ x.expires = QueueTTL
    <3>1. QueueTTL \in Int
      BY SettingsTypes
    <3> QED
      BY <3>1, FreeType DEF Delivery
  <2>2. /\ deliveries' = [deliveries EXCEPT ![0] = x] /\ UNCHANGED <<owner, backend>>
        /\ api' = [api EXCEPT !.pc = "answer"]
    BY <1>2 DEF Dispatch
  <2>3. /\ owner.ttl \in Nat /\ api.stall \in Nat
        /\ api.stall <= MaxStall /\ owner.ttl + api.stall >= OwnerTTL
        /\ \A d \in Slots : At(d, "free")
    BY <1>2 DEF Dispatch, TypeOK, Unsent
  <2>4. owner.ttl >= QueueTTL + RunLimit + ResultTTL
    BY <2>3, SettingsTypes
  <2> HIDE DEF x
  <2>5. TypeOK' /\ api'.pc = "answer"
    BY <2>1, <2>2 DEF TypeOK
  <2>6. ASSUME NEW d \in Slots
        PROVE  MessageCovered(d)' /\ AttemptCovered(d)'
    BY <2>1, <2>2, <2>3, <2>4 DEF TypeOK, MessageCovered, AttemptCovered, At, Running
  <2> QED
    BY <2>2, <2>5, <2>6 DEF Unsent, ResultCovered, KeyIsSubmitters
<1>3. CASE Answer \/ Abandon
  <2>1. api' = [api EXCEPT !.pc = "ended"] /\ UNCHANGED <<owner, deliveries, backend>>
    BY <1>3 DEF Answer, Abandon
  <2> QED
    BY <2>1 DEF TypeOK, Unsent, ResultCovered, KeyIsSubmitters, MessageCovered,
                AttemptCovered, At, Running
<1> QED
  BY <1>1, <1>2, <1>3

\* A read of the status, and a step of no component, leave what the invariant is
\* about alone.
LEMMA QuietIInv ==
  ASSUME IInv, UNCHANGED <<api, owner, deliveries, backend>>
  PROVE  IInv'
  BY DEF IInv, TypeOK, Unsent, ResultCovered, KeyIsSubmitters, MessageCovered,
         AttemptCovered, At, Running

\* The cover of the key is an invariant of the specification.
THEOREM CrewInductive == Spec => []IInv
<1>1. IInv /\ [Next]_vars => IInv'
  <2> SUFFICES ASSUME IInv, [Next]_vars PROVE IInv'
    OBVIOUS
  <2>1. CASE Register \/ Dispatch \/ Answer \/ Abandon
    BY <2>1, RequestIInv
  <2>2. CASE \E d \in Slots : Worker(d)
    BY <2>2, WorkerIInv
  <2>3. CASE \E d, e \in Slots : Crash(d) \/ Restore(d, e)
    BY <2>3, BrokerIInv
  <2>4. CASE Tick
    BY <2>4, TickIInv
  <2>5. CASE GetTaskStatus \/ UNCHANGED vars
    BY <2>5, QuietIInv DEF GetTaskStatus, RequireOwner, ReadState, vars
  <2> QED
    BY <2>1, <2>2, <2>3, <2>4, <2>5 DEF Next
<1> QED
  BY <1>1, InitIInv, PTL DEF Spec

\* The submitter passes require_owner (task_ownership.py) for as long as the task
\* may still run or its result can be read, whatever the settings are within
\* their ranges, the number of redeliveries and the stall of the request.
THEOREM OwnershipOutlives == Spec => []OwnerOutlivesTask
<1>1. IInv => OwnerOutlivesTask
  <2> SUFFICES ASSUME IInv,
                      \/ \E d \in Slots : Running(d) \/ (At(d, "queued") /\ deliveries[d].expires >= 0)
                      \/ backend.status \in Executed
               PROVE  Accessible(Submitter)
    BY DEF OwnerOutlivesTask
  <2>0. owner.ttl \in Nat /\ backend.ttl \in Nat
    BY DEF IInv, TypeOK
  <2>1. ASSUME NEW d \in Slots, Running(d) PROVE owner.ttl > 0
    <3>1. /\ deliveries[d].elapsed \in Nat /\ deliveries[d].elapsed <= RunLimit
          /\ owner.ttl + deliveries[d].elapsed >= RunLimit + ResultTTL
      BY <2>1 DEF IInv, TypeOK, Delivery, AttemptCovered
    <3> QED
      BY <2>0, <3>1, SettingsTypes
  <2>2. ASSUME NEW d \in Slots, At(d, "queued"), deliveries[d].expires >= 0
        PROVE  owner.ttl > 0
    <3>1. /\ deliveries[d].expires \in Int
          /\ owner.ttl >= deliveries[d].expires + RunLimit + ResultTTL
      BY <2>2 DEF IInv, TypeOK, Delivery, MessageCovered, At
    <3> QED
      BY <2>0, <2>2, <3>1, SettingsTypes
  <2>3. ASSUME backend.status \in Executed PROVE owner.ttl > 0
    BY <2>0, <2>3 DEF IInv, ResultCovered
  <2> QED
    BY <2>1, <2>2, <2>3 DEF IInv, KeyIsSubmitters, Accessible
<1> QED
  BY <1>1, CrewInductive, PTL

-----------------------------------------------------------------------------
Answers ==
  Statuses \cup {"pending", "running", "retrying", "succeeded", "failed", "revoked"}

\* A tenant that passed require_owner is the submitter, and so is every tenant
\* with an answer.
ReaderInv ==
  /\ reader \in [pc : {"idle", "backend"}, tenant : Tenants,
                 answer : Answers \cup {"none", "unavailable"}]
  /\ owner.tenant \in {Submitter, NoOwner}
  /\ FoundIsOwned

\* Only the tenant that submitted a task is told its state (TaskStatusReader of
\* task_status_reader.py): the key names the submitter or nobody, and a missing
\* key refuses everybody.
THEOREM ReaderFailsClosed == Spec => []FoundIsOwned
<1>1. Init => ReaderInv
  BY CrewConstants DEF Init, ReaderInv, FoundIsOwned
<1>2. IInv /\ ReaderInv /\ [Next]_vars => ReaderInv'
  <2> SUFFICES ASSUME TypeOK, ReaderInv, [Next]_vars PROVE ReaderInv'
    BY DEF IInv
  <2>1. CASE \E n \in Tenants : RequireOwner(n)
    <3>1. PICK n \in Tenants : RequireOwner(n)
      BY <2>1
    <3>2. CASE Accessible(n)
      <4>1. n = Submitter
        BY <3>2, CrewConstants DEF Accessible, ReaderInv
      <4> QED
        BY <3>1, <3>2, <4>1 DEF RequireOwner, ReaderInv, FoundIsOwned
    <3>3. CASE ~Accessible(n)
      BY <3>1, <3>3 DEF RequireOwner, ReaderInv, FoundIsOwned
    <3> QED
      BY <3>2, <3>3
  <2>2. CASE ReadState
    <3>1. backend.status \in Answers
      BY DEF TypeOK, Answers
    <3>2. AgentTaskStatus[backend.status] \in Answers
      BY DEF TypeOK, Statuses, Executed, Answers, AgentTaskStatus
    <3> QED
      BY <2>2, <3>1, <3>2 DEF ReadState, ReaderInv, FoundIsOwned
  <2>3. ASSUME UNCHANGED reader, owner'.tenant \in {owner.tenant, Submitter, NoOwner}
        PROVE  ReaderInv'
    BY <2>3 DEF ReaderInv, FoundIsOwned
  <2>4. CASE Register
    BY <2>3, <2>4 DEF Register
  <2>9. CASE Tick
    <3>1. PICK n : owner' = [tenant |-> n, ttl |-> Less(owner.ttl)]
                   /\ n = IF owner.ttl > 1 THEN owner.tenant ELSE NoOwner
      BY <2>9 DEF Tick
    <3>2. owner'.tenant = n
      BY <3>1
    <3>3. n \in {owner.tenant, NoOwner}
      BY <3>1, Zenon
    <3>4. UNCHANGED reader
      BY <2>9 DEF Tick
    <3> QED
      BY <2>3, <3>2, <3>3, <3>4
  <2>5. CASE UNCHANGED <<owner, reader>>
    BY <2>3, <2>5
  <2>6. CASE \E d \in Slots : Worker(d)
    BY <2>5, <2>6 DEF Worker, Expire, Start, Analysed, Succeed, Fail, TimeLimit, Lose, Retry
  <2>7. CASE \E d, e \in Slots : Crash(d) \/ Restore(d, e)
    BY <2>5, <2>7 DEF Crash, Restore
  <2>8. CASE Dispatch \/ Answer \/ Abandon \/ UNCHANGED vars
    BY <2>5, <2>8 DEF Dispatch, Answer, Abandon, vars
  <2> QED
    BY <2>1, <2>2, <2>4, <2>6, <2>7, <2>8, <2>9 DEF Next, GetTaskStatus
<1>3. ReaderInv => FoundIsOwned
  BY DEF ReaderInv
<1> QED
  BY <1>1, <1>2, <1>3, CrewInductive, PTL DEF Spec

-----------------------------------------------------------------------------
\* A message waits at least as long as the provider asked for, and its attempt
\* starts when nothing of the wait is left.
WaitObeyed(x) ==
  /\ x.permitted <= x.eta
  /\ x.pc \in {"analysis", "processing"} => x.permitted = 0

PermittedInv == \A d \in Slots : WaitObeyed(deliveries[d])

\* A step that changes one copy of the message to one that obeys the wait.
LEMMA PermittedStep ==
  ASSUME TypeOK, PermittedInv, NEW d \in Slots, NEW x, WaitObeyed(x),
         deliveries' = [deliveries EXCEPT ![d] = x]
  PROVE  PermittedInv'
  BY DEF TypeOK, PermittedInv

\* A slot without a message waits for nothing.
LEMMA FreeWaits == WaitObeyed(Free)
  BY DEF WaitObeyed, Free

\* The wait the provider asked for passes before the next attempt: a retry keeps
\* it or there is none (retry_delay of utils/retry.py), and neither the queue nor
\* a redelivery shortens it.
THEOREM ProviderIsObeyed == Spec => []RetryIsPermitted
<1>1. Init => PermittedInv
  BY FreeWaits DEF Init, PermittedInv
<1>2. IInv /\ PermittedInv /\ [Next]_vars => PermittedInv'
  <2> SUFFICES ASSUME TypeOK, PermittedInv, [Next]_vars PROVE PermittedInv'
    BY DEF IInv
  <2>0. ASSUME NEW d \in Slots
        PROVE  deliveries[d] \in Delivery /\ WaitObeyed(deliveries[d])
    BY DEF TypeOK, PermittedInv
  <2>1. ASSUME NEW d \in Slots, Ack(d) PROVE PermittedInv'
    BY <2>1, PermittedStep, FreeWaits DEF Ack
  <2>2. ASSUME NEW d \in Slots, Start(d) PROVE PermittedInv'
    <3>1. WaitObeyed([deliveries[d] EXCEPT !.pc = "analysis", !.elapsed = 0])
      BY <2>0, <2>2 DEF Start, WaitObeyed, Delivery
    <3> QED
      BY <2>2, <3>1, PermittedStep DEF Start, TypeOK
  <2>3. ASSUME NEW d \in Slots, Analysed(d) PROVE PermittedInv'
    <3>1. WaitObeyed([deliveries[d] EXCEPT !.pc = "processing"])
      BY <2>0, <2>3 DEF Analysed, At, WaitObeyed, Delivery
    <3> QED
      BY <2>3, <3>1, PermittedStep DEF Analysed, TypeOK
  <2>4. ASSUME NEW d \in Slots, NEW delay \in Nat, NEW wait \in Nat, wait <= delay,
               Retry(d, delay, wait)
        PROVE  PermittedInv'
    <3> DEFINE n == deliveries[d].retries + 1
               x == [deliveries[d] EXCEPT !.pc = "queued", !.retries = n, !.eta = delay,
                                          !.permitted = wait, !.elapsed = 0]
    <3>1. WaitObeyed(x)
      <4> HIDE DEF n
      <4> QED
        BY <2>0, <2>4 DEF WaitObeyed, Delivery
    <3>2. deliveries' = [deliveries EXCEPT ![d] = x]
      BY <2>4 DEF Retry
    <3> QED
      BY <3>1, <3>2, PermittedStep
  <2>5. ASSUME NEW d \in Slots, Worker(d) PROVE PermittedInv'
    <3>1. CASE Expire(d) \/ Succeed(d) \/ Fail(d) \/ TimeLimit(d) \/ Lose(d)
      BY <2>1, <3>1 DEF Expire, Succeed, Fail, TimeLimit, Lose
    <3>2. CASE \E wait \in RetryAfters : \E delay \in RetryDelays(wait) : Retry(d, delay, wait)
      BY <2>4, <3>2, SettingsTypes DEF RetryDelays
    <3>3. CASE \E delay \in Jitter(d) : Retry(d, delay, 0)
      BY <2>4, <3>3, SettingsTypes DEF Jitter
    <3> QED
      BY <2>2, <2>3, <2>5, <3>1, <3>2, <3>3 DEF Worker
  <2>6. ASSUME NEW d \in Slots, NEW e \in Slots, Crash(d) \/ Restore(d, e)
        PROVE  PermittedInv'
    <3>1. WaitObeyed(Again(d))
      BY <2>0, <2>6 DEF Again, WaitObeyed, Delivery
    <3> QED
      BY <2>6, <3>1, PermittedStep DEF Crash, Restore
  <2>7. ASSUME Tick PROVE PermittedInv'
    <3> SUFFICES ASSUME NEW d \in Slots PROVE WaitObeyed(deliveries'[d])
      BY DEF PermittedInv
    <3>1. CASE At(d, "free")
      BY <2>7, <3>1, FreeWaits DEF Tick
    <3>2. CASE ~At(d, "free")
      <4> DEFINE row == deliveries[d]
                 expires == IF row.expires >= 0 THEN row.expires - 1 ELSE row.expires
                 elapsed == IF Running(d) THEN row.elapsed + 1 ELSE 0
      <4>1. deliveries'[d] = [row EXCEPT !.expires = expires, !.eta = Less(row.eta),
                                !.permitted = Less(row.permitted), !.elapsed = elapsed]
        BY <2>0, <2>7, <3>2 DEF Tick, Delivery
      <4>2. row \in Delivery /\ WaitObeyed(row)
        BY <2>0
      <4> HIDE DEF row, expires, elapsed
      <4>3. /\ deliveries'[d].pc = row.pc /\ deliveries'[d].eta = Less(row.eta)
            /\ deliveries'[d].permitted = Less(row.permitted)
        BY <4>1, <4>2 DEF Delivery
      <4>4. row.eta \in Nat /\ row.permitted \in Nat
        BY <4>2 DEF Delivery
      <4> QED
        BY <4>2, <4>3, <4>4 DEF WaitObeyed, Less
    <3> QED
      BY <3>1, <3>2
  <2>8. CASE Dispatch
    <3>1. WaitObeyed([Free EXCEPT !.pc = "queued", !.expires = QueueTTL])
      BY DEF WaitObeyed, Free
    <3>2. 0 \in Slots
      BY CrewConstants DEF Slots
    <3> QED
      BY <2>8, <3>1, <3>2, PermittedStep DEF Dispatch
  <2>9. CASE UNCHANGED deliveries
    BY <2>9 DEF PermittedInv
  <2>10. CASE Register \/ Answer \/ Abandon \/ GetTaskStatus \/ UNCHANGED vars
    BY <2>9, <2>10 DEF Register, Answer, Abandon, GetTaskStatus, RequireOwner, ReadState, vars
  <2> QED
    BY <2>5, <2>6, <2>7, <2>8, <2>10 DEF Next
<1>3. PermittedInv => RetryIsPermitted
  BY DEF PermittedInv, WaitObeyed, RetryIsPermitted, Running
<1> QED
  BY <1>1, <1>2, <1>3, CrewInductive, PTL DEF Spec

-----------------------------------------------------------------------------
(* How often the workflow is started.                                      *)

\* The starts that a copy of the message can still lead to by itself.
Left(x) ==
  IF x.pc = "free" THEN 0
  ELSE IF x.pc = "queued" THEN MaxRetries + 1 - x.retries ELSE MaxRetries - x.retries

\* s are the partial sums of what is left, over the slots.
Sums(left, s) ==
  /\ s \in [Slots -> Nat] /\ s[0] = left[0]
  /\ \A d \in Slots \ {0} : s[d] = s[d - 1] + left[d]
  /\ \A d, e \in Slots : d <= e => s[d] <= s[e]

\* What has been started and can still be started, the first message included
\* while it is not sent, is paid for by the deliveries.
BudgetInv ==
  /\ kickoffs \in Nat /\ redelivered \in Nat
  /\ \A d \in Slots : deliveries[d].retries <= MaxRetries
  /\ \E s : /\ Sums([d \in Slots |-> Left(deliveries[d])], s)
            /\ kickoffs + s[MaxRedeliveries]
                 + (IF api.pc \in {"new", "dispatch"} THEN MaxRetries + 1 ELSE 0)
                 <= (MaxRetries + 1) * (redelivered + 1)

\* Changing what one copy has left changes the sum by the difference.
LEMMA SumsStep ==
  ASSUME NEW left \in [Slots -> Nat], NEW s, Sums(left, s), NEW d \in Slots, NEW n \in Nat
  PROVE  \E t : /\ Sums([left EXCEPT ![d] = n], t)
                /\ t[MaxRedeliveries] = s[MaxRedeliveries] - left[d] + n
<1> DEFINE t == [e \in Slots |-> IF e < d THEN s[e] ELSE s[e] - left[d] + n]
           new == [left EXCEPT ![d] = n]
<1>0. MaxRedeliveries \in Nat /\ Slots = 0 .. MaxRedeliveries
  BY CrewConstants DEF Slots
<1>1. /\ s \in [Slots -> Nat] /\ s[0] = left[0]
      /\ \A e \in Slots \ {0} : s[e] = s[e - 1] + left[e]
      /\ \A e, f \in Slots : e <= f => s[e] <= s[f]
  BY DEF Sums
<1>2. s[d] >= left[d] /\ left[d] \in Nat
  <2>1. CASE d = 0
    BY <1>0, <1>1, <2>1
  <2>2. CASE d # 0
    <3>1. d - 1 \in Slots /\ s[d] = s[d - 1] + left[d]
      BY <1>0, <1>1, <2>2
    <3> QED
      BY <1>1, <3>1
  <2> QED
    BY <2>1, <2>2
<1>3. \A e \in Slots : e < d => s[e] <= s[d] - left[d]
  <2> SUFFICES ASSUME NEW e \in Slots, e < d PROVE s[e] <= s[d] - left[d]
    OBVIOUS
  <2>1. d # 0 /\ d - 1 \in Slots /\ e <= d - 1
    BY <1>0
  <2>2. s[d] = s[d - 1] + left[d] /\ s[e] <= s[d - 1]
    BY <1>1, <2>1
  <2> QED
    BY <1>1, <1>2, <2>1, <2>2
<1>4. t \in [Slots -> Nat]
  <2> SUFFICES ASSUME NEW e \in Slots PROVE (IF e < d THEN s[e] ELSE s[e] - left[d] + n) \in Nat
    OBVIOUS
  <2>1. s[e] \in Nat /\ (~(e < d) => s[d] <= s[e])
    BY <1>0, <1>1
  <2> QED
    BY <1>1, <1>2, <2>1
<1>5. t[0] = new[0]
  BY <1>0, <1>1, <1>2
<1>6. ASSUME NEW e \in Slots \ {0} PROVE t[e] = t[e - 1] + new[e]
  <2>1. e \in Slots /\ e - 1 \in Slots /\ s[e] = s[e - 1] + left[e]
    BY <1>0, <1>1, <1>6
  <2>2. s[e] \in Nat /\ s[e - 1] \in Nat /\ left[e] \in Nat /\ e \in Nat /\ d \in Nat
    BY <1>0, <1>1, <2>1
  <2>3. CASE e < d
    BY <1>0, <2>1, <2>2, <2>3
  <2>4. CASE e = d
    BY <1>0, <2>1, <2>2, <2>4
  <2>5. CASE e > d
    BY <1>0, <2>1, <2>2, <2>5, <1>2
  <2> QED
    BY <2>2, <2>3, <2>4, <2>5
<1>7. ASSUME NEW e \in Slots, NEW f \in Slots, e <= f PROVE t[e] <= t[f]
  <2>1. s[e] <= s[f] /\ s[e] \in Nat /\ s[f] \in Nat /\ s[d] \in Nat
    BY <1>1, <1>7
  <2>2. CASE e < d /\ ~(f < d)
    <3>1. s[d] <= s[f]
      BY <1>0, <1>1, <2>2
    <3> QED
      BY <1>2, <1>3, <2>1, <2>2, <3>1
  <2>3. CASE (e < d) = (f < d)
    BY <1>2, <2>1, <2>3
  <2> QED
    BY <1>0, <1>7, <2>2, <2>3
<1>8. t[MaxRedeliveries] = s[MaxRedeliveries] - left[d] + n
  BY <1>0
<1>9. Sums(new, t)
  <2> HIDE DEF t, new
  <2> QED
    BY <1>4, <1>5, <1>6, <1>7 DEF Sums
<1> HIDE DEF t
<1> QED
  BY <1>8, <1>9

\* A step that replaces one copy of the message pays for what it starts and for
\* what the new copy has left, or is a delivery that pays for a whole chain.
LEMMA BudgetStep ==
  ASSUME TypeOK, BudgetInv, NEW d \in Slots, NEW x \in Delivery, x.retries <= MaxRetries,
         deliveries' = [deliveries EXCEPT ![d] = x],
         kickoffs' \in Nat, redelivered' \in {redelivered, redelivered + 1},
         api.pc \notin {"new", "dispatch"} => UNCHANGED api,
         api.pc \in {"new", "dispatch"} => api'.pc \notin {"new", "dispatch"},
         kickoffs' + Left(x)
           <= kickoffs + Left(deliveries[d])
                + (IF api.pc \in {"new", "dispatch"} THEN MaxRetries + 1 ELSE 0)
                + (IF redelivered' = redelivered THEN 0 ELSE MaxRetries + 1)
  PROVE  BudgetInv'
<1> DEFINE left == [e \in Slots |-> Left(deliveries[e])]
           start == IF api.pc \in {"new", "dispatch"} THEN MaxRetries + 1 ELSE 0
           more == IF redelivered' = redelivered THEN 0 ELSE MaxRetries + 1
           N == MaxRetries + 1
<1>0. N \in Nat /\ N > 0 /\ MaxRetries \in Nat /\ MaxRedeliveries \in Slots
  BY CrewConstants DEF Slots
<1>1. PICK s : Sums(left, s) /\ kickoffs + s[MaxRedeliveries] + start <= N * (redelivered + 1)
  BY DEF BudgetInv
<1>2. ASSUME NEW e \in Slots PROVE Left(deliveries[e]) \in Nat
  <2>1. deliveries[e].retries \in Nat /\ deliveries[e].retries <= MaxRetries
    BY DEF TypeOK, Delivery, BudgetInv
  <2> QED
    BY <1>0, <2>1 DEF Left
<1>3. left \in [Slots -> Nat]
  BY <1>2
<1>4. Left(x) \in Nat
  BY <1>0 DEF Left, Delivery
<1>5. PICK t : /\ Sums([left EXCEPT ![d] = Left(x)], t)
               /\ t[MaxRedeliveries] = s[MaxRedeliveries] - left[d] + Left(x)
  <2> HIDE DEF left
  <2> QED
    BY <1>1, <1>3, <1>4, SumsStep
<1>6. [e \in Slots |-> Left(deliveries'[e])] = [left EXCEPT ![d] = Left(x)]
  BY DEF TypeOK
<1>7. s[MaxRedeliveries] \in Nat /\ t[MaxRedeliveries] \in Nat
  BY <1>0, <1>1, <1>5 DEF Sums
<1>8. kickoffs \in Nat /\ redelivered \in Nat /\ redelivered' \in Nat
  BY DEF BudgetInv
<1>9. N * (redelivered' + 1) = N * (redelivered + 1) + more
  <2>1. CASE redelivered' = redelivered
    <3>1. more = 0 /\ N * (redelivered + 1) \in Int
      BY <1>0, <1>8, <2>1
    <3> QED
      BY <2>1, <3>1
  <2>2. CASE redelivered' # redelivered
    <3>1. more = N /\ redelivered' = redelivered + 1
      BY <2>2
    <3> HIDE DEF more, N
    <3>2. N * ((redelivered + 1) + 1) = N * (redelivered + 1) + N
      BY <1>0, <1>8
    <3> QED
      BY <3>1, <3>2
  <2> QED
    BY <2>1, <2>2
<1>10. kickoffs' + t[MaxRedeliveries] <= N * (redelivered' + 1)
  <2> DEFINE B == N * (redelivered + 1)
  <2>1. B \in Int
    BY <1>0, <1>8
  <2>2. start \in Nat /\ more \in Nat /\ left[d] \in Nat /\ left[d] = Left(deliveries[d])
    BY <1>0, <1>2
  <2>3. kickoffs' + Left(x) <= kickoffs + left[d] + start + more
    BY <2>2
  <2>4. kickoffs + s[MaxRedeliveries] + start <= B
    BY <1>1
  <2> HIDE DEF B, start, more, left, N
  <2>5. kickoffs' + t[MaxRedeliveries] <= B + more
    BY <1>4, <1>5, <1>7, <1>8, <2>1, <2>2, <2>3, <2>4
  <2> QED
    BY <1>9, <2>5 DEF B
<1>11. api'.pc \notin {"new", "dispatch"}
  OBVIOUS
<1>12. \A e \in Slots : deliveries'[e].retries <= MaxRetries
  BY DEF TypeOK, BudgetInv
<1>13. kickoffs' + t[MaxRedeliveries]
         + (IF api'.pc \in {"new", "dispatch"} THEN MaxRetries + 1 ELSE 0)
         <= (MaxRetries + 1) * (redelivered' + 1)
  <2>1. kickoffs' + t[MaxRedeliveries] + 0 = kickoffs' + t[MaxRedeliveries]
    BY <1>7
  <2> QED
    BY <1>10, <1>11, <2>1
<1>14. Sums([e \in Slots |-> Left(deliveries'[e])], t)
  BY <1>5, <1>6
<1> QED
  BY <1>8, <1>12, <1>13, <1>14 DEF BudgetInv

\* A step that starts nothing and leaves every copy what it had.
LEMMA BudgetKept ==
  ASSUME TypeOK, BudgetInv, UNCHANGED <<kickoffs, redelivered>>,
         \A d \in Slots : /\ Left(deliveries'[d]) = Left(deliveries[d])
                          /\ deliveries'[d].retries <= MaxRetries,
         api'.pc \in {"new", "dispatch"} => api.pc \in {"new", "dispatch"}
  PROVE  BudgetInv'
<1>1. PICK s : /\ Sums([d \in Slots |-> Left(deliveries[d])], s)
               /\ kickoffs + s[MaxRedeliveries]
                    + (IF api.pc \in {"new", "dispatch"} THEN MaxRetries + 1 ELSE 0)
                    <= (MaxRetries + 1) * (redelivered + 1)
  BY DEF BudgetInv
<1>2. [d \in Slots |-> Left(deliveries'[d])] = [d \in Slots |-> Left(deliveries[d])]
  OBVIOUS
<1>3. Sums([d \in Slots |-> Left(deliveries'[d])], s)
  BY <1>1, <1>2
<1>4. kickoffs' + s[MaxRedeliveries]
        + (IF api'.pc \in {"new", "dispatch"} THEN MaxRetries + 1 ELSE 0)
        <= (MaxRetries + 1) * (redelivered' + 1)
  <2> DEFINE B == (MaxRetries + 1) * (redelivered + 1)
  <2>1. MaxRetries \in Nat /\ kickoffs \in Nat /\ s[MaxRedeliveries] \in Nat /\ B \in Int
    BY <1>1, CrewConstants DEF BudgetInv, Sums, Slots
  <2>2. /\ kickoffs + s[MaxRedeliveries]
             + (IF api.pc \in {"new", "dispatch"} THEN MaxRetries + 1 ELSE 0) <= B
        /\ kickoffs' = kickoffs /\ (MaxRetries + 1) * (redelivered' + 1) = B
    BY <1>1
  <2> HIDE DEF B
  <2> QED
    BY <2>1, <2>2
<1>5. kickoffs' \in Nat /\ redelivered' \in Nat
  BY DEF BudgetInv
<1> QED
  BY <1>3, <1>4, <1>5 DEF BudgetInv

\* No redelivery feeds a second chain of retries: a start is paid for by the copy
\* that is started, a retry by the attempt that asks for it (retries is kept by
\* the message, self.retry of workers/crew_task.py), and only a delivery adds more.
THEOREM AttemptsStayBounded == Spec => []AttemptsAreBounded
<1>0. MaxRetries \in Nat /\ MaxRedeliveries \in Nat /\ QueueTTL \in Int /\ 0 \in Slots
  BY CrewConstants DEF Slots
<1>1. Init => BudgetInv
  <2> SUFFICES ASSUME Init PROVE BudgetInv
    OBVIOUS
  <2>1. kickoffs = 0 /\ redelivered = 0 /\ api.pc = "new" /\ \A d \in Slots : deliveries[d] = Free
    BY DEF Init
  <2>2. Left(Free) = 0 /\ Free.retries = 0
    BY DEF Left, Free
  <2>3. [d \in Slots |-> Left(deliveries[d])] = [d \in Slots |-> 0]
    BY <2>1, <2>2
  <2>4. Sums([d \in Slots |-> 0], [d \in Slots |-> 0])
    BY <1>0 DEF Sums, Slots
  <2>5. [d \in Slots |-> 0][MaxRedeliveries] = 0
    BY <1>0 DEF Slots
  <2>6. 0 + 0 + (MaxRetries + 1) <= (MaxRetries + 1) * (0 + 1)
    BY <1>0
  <2>7. \A d \in Slots : deliveries[d].retries <= MaxRetries
    BY <1>0, <2>1, <2>2
  <2> QED
    BY <2>1, <2>3, <2>4, <2>5, <2>6, <2>7 DEF BudgetInv
<1>2. IInv /\ BudgetInv /\ [Next]_vars => BudgetInv'
  <2> SUFFICES ASSUME IInv, BudgetInv, [Next]_vars PROVE BudgetInv'
    OBVIOUS
  <2>0. TypeOK
    BY DEF IInv
  <2>1. ASSUME NEW d \in Slots
        PROVE  /\ deliveries[d] \in Delivery /\ deliveries[d].retries \in 0 .. MaxRetries
               /\ Left(deliveries[d]) \in Nat
    <3>1. deliveries[d] \in Delivery /\ deliveries[d].retries \in Nat
          /\ deliveries[d].retries <= MaxRetries
      BY <2>0 DEF TypeOK, Delivery, BudgetInv
    <3> QED
      BY <1>0, <3>1 DEF Left
  <2>2. Free \in Delivery /\ Left(Free) = 0 /\ Free.retries = 0
    BY FreeType DEF Left, Free
  <2>3. kickoffs \in Nat /\ redelivered \in Nat
    BY DEF BudgetInv
  <2>4. ASSUME NEW d \in Slots, Ack(d), ~At(d, "free"), UNCHANGED <<api, redelivered, kickoffs>>
        PROVE  BudgetInv'
    <3>1. api.pc \notin {"new", "dispatch"}
      BY <2>4, Sent
    <3>2. kickoffs' + Left(Free) <= kickoffs + Left(deliveries[d]) + 0 + 0
      BY <2>1, <2>2, <2>3, <2>4
    <3>3. /\ kickoffs' \in Nat /\ redelivered' = redelivered /\ UNCHANGED api
          /\ deliveries' = [deliveries EXCEPT ![d] = Free]
      BY <2>3, <2>4 DEF Ack
    <3>4. Free.retries <= MaxRetries
      BY <1>0, <2>2
    <3> QED
      BY <2>0, <2>2, <3>1, <3>2, <3>3, <3>4, BudgetStep
  <2>5. ASSUME NEW d \in Slots, Start(d) PROVE BudgetInv'
    <3> DEFINE x == [deliveries[d] EXCEPT !.pc = "analysis", !.elapsed = 0]
    <3>1. api.pc \notin {"new", "dispatch"}
      BY <2>5, Sent DEF Start, At
    <3>2. x \in Delivery /\ x.retries = deliveries[d].retries /\ x.pc = "analysis"
      BY <2>1 DEF Delivery
    <3>3. deliveries' = [deliveries EXCEPT ![d] = x]
      BY <2>0, <2>5 DEF Start, TypeOK
    <3>4. kickoffs' = kickoffs + 1 /\ UNCHANGED <<api, redelivered>>
      BY <2>5 DEF Start
    <3> HIDE DEF x
    <3>5. Left(deliveries[d]) = MaxRetries + 1 - deliveries[d].retries
      BY <2>5 DEF Start, At, Left
    <3>6. Left(x) = MaxRetries - deliveries[d].retries
      BY <3>2 DEF Left
    <3>7. kickoffs' + Left(x) <= kickoffs + Left(deliveries[d]) + 0 + 0
      BY <1>0, <2>1, <2>3, <3>4, <3>5, <3>6
    <3>8. kickoffs' \in Nat /\ x.retries <= MaxRetries
      BY <1>0, <2>1, <2>3, <3>2, <3>4
    <3> QED
      BY <2>0, <3>1, <3>2, <3>3, <3>4, <3>7, <3>8, BudgetStep
  <2>6. ASSUME NEW d \in Slots, Analysed(d) PROVE BudgetInv'
    <3> DEFINE x == [deliveries[d] EXCEPT !.pc = "processing"]
    <3>1. x.retries = deliveries[d].retries /\ x.pc = "processing"
      BY <2>1 DEF Delivery
    <3>2. deliveries' = [deliveries EXCEPT ![d] = x]
      BY <2>0, <2>6 DEF Analysed, TypeOK
    <3> HIDE DEF x
    <3>3. Left(x) = Left(deliveries[d])
      BY <2>6, <3>1 DEF Analysed, At, Left
    <3>4. \A e \in Slots : /\ Left(deliveries'[e]) = Left(deliveries[e])
                           /\ deliveries'[e].retries <= MaxRetries
      BY <1>0, <2>0, <2>1, <3>1, <3>2, <3>3 DEF TypeOK
    <3> QED
      BY <2>0, <2>6, <3>4, BudgetKept DEF Analysed
  <2>7. ASSUME NEW d \in Slots, NEW delay \in Nat, NEW wait \in Nat, Retry(d, delay, wait)
        PROVE  BudgetInv'
    <3> DEFINE n == deliveries[d].retries + 1
               x == [deliveries[d] EXCEPT !.pc = "queued", !.retries = n, !.eta = delay,
                                          !.permitted = wait, !.elapsed = 0]
    <3>0. Running(d) /\ deliveries[d].retries < MaxRetries
      BY <2>7 DEF Retry, MayRetry
    <3>1. n \in Nat /\ n <= MaxRetries
      BY <1>0, <2>1, <3>0
    <3>2. deliveries' = [deliveries EXCEPT ![d] = x]
      BY <2>7 DEF Retry
    <3>3. x \in Delivery /\ x.retries = n /\ x.pc = "queued"
      <4> HIDE DEF n
      <4> QED
        BY <2>1, <3>1 DEF Delivery
    <3> HIDE DEF x
    <3>4. Left(x) = Left(deliveries[d])
      BY <1>0, <2>1, <3>0, <3>3 DEF Left, Running
    <3>5. \A e \in Slots : /\ Left(deliveries'[e]) = Left(deliveries[e])
                           /\ deliveries'[e].retries <= MaxRetries
      BY <1>0, <2>0, <2>1, <3>1, <3>2, <3>3, <3>4 DEF TypeOK
    <3> QED
      BY <2>0, <2>7, <3>5, BudgetKept DEF Retry
  <2>8. ASSUME NEW d \in Slots, Worker(d) PROVE BudgetInv'
    <3>1. CASE Expire(d) \/ Succeed(d) \/ Fail(d) \/ TimeLimit(d) \/ Lose(d)
      BY <2>4, <3>1 DEF Expire, Succeed, Fail, TimeLimit, Lose, Running, At
    <3>2. CASE \E wait \in RetryAfters : \E delay \in RetryDelays(wait) : Retry(d, delay, wait)
      BY <2>7, <3>2, SettingsTypes DEF RetryDelays
    <3>3. CASE \E delay \in Jitter(d) : Retry(d, delay, 0)
      BY <2>7, <3>3, SettingsTypes DEF Jitter
    <3> QED
      BY <2>5, <2>6, <2>8, <3>1, <3>2, <3>3 DEF Worker
  <2>9. ASSUME NEW d \in Slots, NEW e \in Slots, Crash(d) \/ Restore(d, e)
        PROVE  BudgetInv'
    <3>1. Running(d) /\ redelivered' = redelivered + 1 /\ UNCHANGED <<api, kickoffs>>
      BY <2>9 DEF Crash, Restore
    <3>2. PICK f \in Slots : deliveries' = [deliveries EXCEPT ![f] = Again(d)]
      BY <2>9 DEF Crash, Restore
    <3>3. api.pc \notin {"new", "dispatch"}
      BY <3>1, Sent DEF Running, At
    <3>4. /\ Again(d) \in Delivery /\ Again(d).retries = deliveries[d].retries
          /\ Again(d).pc = "queued"
      BY <2>1 DEF Again, Delivery
    <3>5. Left(Again(d)) <= MaxRetries + 1 /\ Left(Again(d)) \in Nat
      BY <1>0, <2>1, <3>4 DEF Left
    <3>6. redelivered' # redelivered /\ kickoffs' \in Nat
      BY <2>3, <3>1
    <3>7. kickoffs' + Left(Again(d)) <= kickoffs + Left(deliveries[f]) + 0 + (MaxRetries + 1)
      BY <1>0, <2>1, <2>3, <3>1, <3>5
    <3>8. Again(d).retries <= MaxRetries
      BY <1>0, <2>1, <3>4
    <3> QED
      BY <2>0, <3>1, <3>2, <3>3, <3>4, <3>6, <3>7, <3>8, BudgetStep
  <2>10. CASE Tick
    <3>1. ASSUME NEW d \in Slots
          PROVE  /\ Left(deliveries'[d]) = Left(deliveries[d])
                 /\ deliveries'[d].retries <= MaxRetries
      <4>1. CASE At(d, "free")
        <5>1. deliveries'[d] = Free
          BY <2>10, <4>1 DEF Tick
        <5> QED
          BY <1>0, <2>2, <4>1, <5>1 DEF At, Left
      <4>2. CASE ~At(d, "free")
        <5>1. /\ deliveries'[d].pc = deliveries[d].pc
              /\ deliveries'[d].retries = deliveries[d].retries
          BY <2>1, <2>10, <4>2 DEF Tick, Delivery
        <5> QED
          BY <1>0, <2>1, <5>1 DEF Left
      <4> QED
        BY <4>1, <4>2
    <3>2. api'.pc = api.pc /\ UNCHANGED <<kickoffs, redelivered>>
      BY <2>0, <2>10 DEF Tick, TypeOK
    <3> QED
      BY <2>0, <3>1, <3>2, BudgetKept
  <2>11. CASE Dispatch
    <3> DEFINE x == [Free EXCEPT !.pc = "queued", !.expires = QueueTTL]
    <3>1. x \in Delivery /\ x.retries = Free.retries /\ x.pc = "queued"
      BY <1>0, <2>2 DEF Delivery
    <3>2. /\ api.pc = "dispatch" /\ api'.pc = "answer" /\ UNCHANGED <<kickoffs, redelivered>>
          /\ deliveries' = [deliveries EXCEPT ![0] = x]
      BY <2>0, <2>11 DEF Dispatch, TypeOK
    <3> HIDE DEF x
    <3>3. Left(x) = MaxRetries + 1
      BY <1>0, <2>2, <3>1 DEF Left
    <3>4. kickoffs' + Left(x) <= kickoffs + Left(deliveries[0]) + (MaxRetries + 1) + 0
      BY <1>0, <2>1, <2>3, <3>2, <3>3
    <3>5. kickoffs' \in Nat /\ redelivered' = redelivered /\ x.retries <= MaxRetries
      BY <1>0, <2>2, <2>3, <3>1, <3>2
    <3> QED
      BY <1>0, <2>0, <3>1, <3>2, <3>4, <3>5, BudgetStep
  <2>12. CASE Register \/ Answer \/ Abandon \/ GetTaskStatus \/ UNCHANGED vars
    <3>1. UNCHANGED <<deliveries, kickoffs, redelivered>>
      BY <2>12 DEF Register, Answer, Abandon, GetTaskStatus, RequireOwner, ReadState, vars
    <3>2. api'.pc \in {"new", "dispatch"} => api.pc \in {"new", "dispatch"}
      BY <2>0, <2>12 DEF Register, Answer, Abandon, GetTaskStatus, RequireOwner, ReadState,
                        vars, TypeOK
    <3>3. \A d \in Slots : /\ Left(deliveries'[d]) = Left(deliveries[d])
                           /\ deliveries'[d].retries <= MaxRetries
      BY <1>0, <2>1, <3>1
    <3> QED
      BY <2>0, <3>1, <3>2, <3>3, BudgetKept
  <2> QED
    BY <2>8, <2>9, <2>10, <2>11, <2>12 DEF Next
<1>3. BudgetInv => AttemptsAreBounded
  <2> SUFFICES ASSUME BudgetInv PROVE AttemptsAreBounded
    OBVIOUS
  <2> DEFINE B == (MaxRetries + 1) * (redelivered + 1)
             start == IF api.pc \in {"new", "dispatch"} THEN MaxRetries + 1 ELSE 0
  <2>1. PICK s : /\ Sums([d \in Slots |-> Left(deliveries[d])], s)
                 /\ kickoffs + s[MaxRedeliveries] + start <= B
    BY DEF BudgetInv
  <2>2. kickoffs \in Nat /\ start \in Nat /\ B \in Int /\ s[MaxRedeliveries] \in Nat
    BY <1>0, <2>1 DEF BudgetInv, Sums, Slots
  <2>3. kickoffs <= B
    <3> HIDE DEF B, start
    <3> QED
      BY <2>1, <2>2
  <2> QED
    BY <2>3 DEF AttemptsAreBounded
<1> QED
  BY <1>1, <1>2, <1>3, CrewInductive, PTL DEF Spec
=============================================================================
