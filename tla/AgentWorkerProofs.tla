-------------------------- MODULE AgentWorkerProofs --------------------------
(***************************************************************************)
(* Proofs about the workers, for every number of runs, workers, attempts,  *)
(* decisions and deployments, and every token estimate.  Each layer of the *)
(* invariant is kept by every kind of step, and gives the properties that  *)
(* rest on it.                                                             *)
(***************************************************************************)
EXTENDS AgentWorkerSteps

-----------------------------------------------------------------------------
(* The first layer: types and copies.                                      *)

Tally == [calls : [Steps -> Nat], effects : [Steps -> Nat], spent : Nat]

\* A step of a worker is a step of the store or leaves it alone.
LEMMA KindOfStore ==
  ASSUME Copies, NEW w \in Workers, Kinds(w)
  PROVE  Store!Next \/ UNCHANGED stored
<1> DEFINE me == workers[w]
           n == Row(w).tenant
<1>1. Busy(w) => me.token \in Store!Tokens(me.run)
  BY WorkerRow, StoreRow DEF Store!Tokens, Copies, Row
<1>2. me.run \in RunIds /\ n \in Tenants
  BY WorkerRow
<1>3. ASSUME NEW new, Moves(w, new)
      PROVE  Store!Next \/ UNCHANGED stored
  <2>1. Busy(w)
    BY <1>3 DEF Moves, MoveOK, Goes, Busy, At
  <2> QED
    BY <1>1, <1>2, <1>3, <2>1 DEF Moves, Store!Next, Store!OwnerStep
<1>4. ASSUME NEW new, Asks(w, new) \/ Acts(w, new)
      PROVE  UNCHANGED stored
  BY <1>4 DEF Asks, Acts
<1>5. ASSUME NEW cp, NEW new, Saves(w, cp, new)
      PROVE  Store!Next
  <2>1. Busy(w) /\ cp \in Checkpoints
    BY <1>5 DEF Saves, SaveOK, Goes, Busy, At, LocalOK, CpOK
  <2> QED
    BY <1>1, <1>2, <1>5, <2>1 DEF Saves, Store!Next, Store!OwnerStep
<1>6. ASSUME NEW r \in RunIds, NEW new, Starts(w, r, new)
      PROVE  Store!Next
  <2>1. agent_runs[r].tenant \in Tenants /\ agent_runs[r].input \in Inputs
    BY StoreRow DEF Copies, Store!Run
  <2> QED
    BY <1>6, <2>1 DEF Starts, Store!Next
<1>7. ASSUME NEW s, NEW res, Reports(w, s, res)
      PROVE  Store!Next
  <2>1. CASE s = "succeeded"
    <3>1. res \in Steps
      <4>1. me.pc = "finish" /\ res = me.cp.final
        BY <1>7, <2>1 DEF Reports
      <4> QED
        BY <4>1, WorkerRow, CpFields DEF LocalOK
    <3> QED
      BY <1>1, <1>2, <1>7, <2>1, <3>1 DEF Reports, Store!Next, Store!OwnerStep
  <2>2. CASE s # "succeeded"
    <3>1. res = None /\ s \in Store!FinishStates \ {"succeeded"}
      BY <1>7, <2>2 DEF Reports
    <3> QED
      BY <1>1, <1>2, <1>7, <3>1 DEF Reports, Store!Next, Store!OwnerStep
  <2> QED
    BY <2>1, <2>2
<1> QED
  BY <1>3, <1>4, <1>5, <1>6, <1>7 DEF Kinds, Stops

\* A step of one worker leaves the others alone.
LEMMA SetWorker ==
  ASSUME Copies, NEW w \in Workers, NEW new \in Worker, Set(w, new)
  PROVE  /\ workers' \in [Workers -> Worker] /\ workers'[w] = new
         /\ \A v \in Workers : v # w => workers'[v] = workers[v]
  BY DEF Copies, TypeOK, Set

\* The same checkpoints, and workers that stay as they are, move or stop.
LEMMA KeptCopies ==
  ASSUME Copies, Store!IInv', \A q \in RunIds : Kept(q),
         workers' \in [Workers -> Worker], world' \in [RunIds -> Tally],
         \A v \in Workers :
           /\ LocalOK(workers'[v])
           /\ \/ workers'[v] = workers[v]
              \/ workers'[v].pc = "idle"
              \/ /\ Goes(workers[v], workers'[v])
                 /\ workers'[v].pc = "fail" \/ workers'[v].cp = workers[v].cp
  PROVE  Copies'
<1>1. TypeOK'
  BY DEF Store!IInv, TypeOK, Tally
<1>2. \A r \in RunIds : /\ CpOK(agent_runs'[r].checkpoint)
                        /\ agent_runs'[r].state = "absent" =>
                             agent_runs'[r].checkpoint = EmptyCheckpoint
  BY DEF Copies, Kept
<1>3. \A v \in Workers : workers'[v].pc # "idle" =>
        /\ workers[v].pc # "idle"
        /\ workers'[v].run = workers[v].run /\ workers'[v].token = workers[v].token
        /\ workers[v].run \in RunIds
        /\ workers'[v].pc # "fail" =>
             workers[v].pc # "fail" /\ workers'[v].cp = workers[v].cp
  BY WorkerRow DEF Goes
<1>4. TokensIssued'
  BY <1>3 DEF Copies, TokensIssued, Busy, At, Row, Kept
<1>5. TokensUnique'
  BY <1>3 DEF Copies, TokensUnique, Busy, At
<1>6. LocalMirrorsStored'
  BY <1>3 DEF Copies, LocalMirrorsStored, Current, Row, Kept
<1>7. \A v \in Workers : LocalOK(workers[v])'
  BY DEF LocalOK, CpOK, Store!UnsafePending
<1> QED
  BY <1>1, <1>2, <1>4, <1>5, <1>6, <1>7 DEF Copies, CpOK

\* What a model call and an unsafe effect add to the tally of the run.
LEMMA AskWorld ==
  ASSUME Copies, NEW w \in Workers, NEW new, Asks(w, new)
  PROVE  LET me == workers[w] r == me.run d == me.cp.decisions IN
         /\ world' \in [RunIds -> Tally] /\ d \in Steps /\ r \in RunIds
         /\ \A q \in RunIds : q # r => world'[q] = world[q]
         /\ world'[r].spent = world[r].spent + me.estimate
         /\ world'[r].effects = world[r].effects
         /\ \A s \in Steps : s # d => world'[r].calls[s] = world[r].calls[s]
         /\ world'[r].calls[d] = IF me.call = "decide" THEN world[r].calls[d] + 1
                                 ELSE world[r].calls[d]
<1> DEFINE me == workers[w]
           r == me.run
           d == me.cp.decisions
           old == world[r]
           calls == [old.calls EXCEPT ![d] = IF me.call = "decide" THEN @ + 1 ELSE @]
           spent == old.spent + me.estimate
           tally == [old EXCEPT !.spent = spent, !.calls = calls]
<1>1. r \in RunIds /\ me.estimate \in Nat /\ world \in [RunIds -> Tally]
  BY WorkerRow DEF Copies, TypeOK, Tally
<1>2. d \in Steps
  <2>1. me.pc = "invoke" /\ LocalOK(me)
    BY WorkerRow DEF Asks, AskOK
  <2>2. d > 0 /\ d <= MaxDecisions /\ d \in Nat
    BY <2>1, CpFields DEF LocalOK, CpOK
  <2> QED
    BY <2>2, WorkerConstants DEF Steps
<1>3. old \in Tally
  BY <1>1
<1>4. world' = [world EXCEPT ![r] = tally]
  BY <1>1, <1>3 DEF Asks, Tally
<1> HIDE DEF old
<1>5. old.calls \in [Steps -> Nat] /\ old.spent \in Nat
  BY <1>3 DEF Tally
<1>6. /\ calls \in [Steps -> Nat]
      /\ \A s \in Steps : s # d => calls[s] = old.calls[s]
      /\ calls[d] = IF me.call = "decide" THEN old.calls[d] + 1 ELSE old.calls[d]
  BY <1>2, <1>5
<1>7. spent \in Nat
  BY <1>1, <1>5
<1> HIDE DEF calls, spent
<1>8. /\ tally \in Tally /\ tally.spent = spent
      /\ tally.effects = old.effects /\ tally.calls = calls
  BY <1>3, <1>6, <1>7 DEF Tally
<1> HIDE DEF tally
<1> QED
  BY <1>1, <1>2, <1>4, <1>6, <1>8 DEF old, spent

\* What an effect adds to the tally of the run.
LEMMA ActWorld ==
  ASSUME Copies, NEW w \in Workers, NEW new, Acts(w, new)
  PROVE  LET me == workers[w] r == me.run d == me.cp.decisions IN
         /\ world' \in [RunIds -> Tally] /\ d \in Steps /\ r \in RunIds
         /\ \A q \in RunIds : q # r => world'[q] = world[q]
         /\ world'[r].spent = world[r].spent
         /\ world'[r].calls = world[r].calls
         /\ \A s \in Steps : s # d => world'[r].effects[s] = world[r].effects[s]
         /\ world'[r].effects[d] = IF me.decision = "unsafe" THEN world[r].effects[d] + 1
                                   ELSE world[r].effects[d]
<1> DEFINE me == workers[w]
           r == me.run
           d == me.cp.decisions
           old == world[r]
           effects == [old.effects EXCEPT ![d] = IF me.decision = "unsafe" THEN @ + 1 ELSE @]
           tally == [old EXCEPT !.effects = effects]
<1>1. r \in RunIds /\ world \in [RunIds -> Tally]
  BY WorkerRow DEF Copies, TypeOK, Tally
<1>2. d \in Steps
  <2>1. me.pc = "effect" /\ LocalOK(me)
    BY WorkerRow DEF Acts, ActOK
  <2>2. d > 0 /\ d <= MaxDecisions /\ d \in Nat
    BY <2>1, CpFields DEF LocalOK, CpOK
  <2> QED
    BY <2>2, WorkerConstants DEF Steps
<1>3. old \in Tally
  BY <1>1
<1>4. world' = [world EXCEPT ![r] = tally]
  BY <1>1, <1>3 DEF Acts, Tally
<1> HIDE DEF old
<1>5. old.effects \in [Steps -> Nat]
  BY <1>3 DEF Tally
<1>6. /\ effects \in [Steps -> Nat]
      /\ \A s \in Steps : s # d => effects[s] = old.effects[s]
      /\ effects[d] = IF me.decision = "unsafe" THEN old.effects[d] + 1 ELSE old.effects[d]
  BY <1>2, <1>5
<1> HIDE DEF effects
<1>7. /\ tally \in Tally /\ tally.spent = old.spent
      /\ tally.calls = old.calls /\ tally.effects = effects
  BY <1>3, <1>6 DEF Tally
<1> HIDE DEF tally
<1> QED
  BY <1>1, <1>2, <1>4, <1>6, <1>7 DEF old

\* A step of somebody else: an API caller, a get in progress, the clock.
Quiet ==
  UNCHANGED <<workers, world>> /\ \A q \in RunIds : Kept(q) /\ EndsWell(q)

\* Every step is a quiet one or a worker's, and one of the store or none.
LEMMA StepIs ==
  ASSUME Copies, [Next]_vars
  PROVE  /\ Quiet \/ \E w \in Workers : Kinds(w)
         /\ Store!Next \/ UNCHANGED stored
<1>0. Store!IInv
  BY DEF Copies
<1>1. CASE \E w \in Workers : WorkerStep(w)
  BY <1>1, StepKind, KindOfStore
<1>2. ASSUME NEW r \in RunIds, ApiStep(r)
      PROVE  Quiet /\ Store!Next
  <2>1. PICK n \in Tenants :
          \/ \E i \in Inputs, k \in Keys \cup {NoKey} : Store!Create(r, n, i, k)
          \/ Store!GetCancelled(r, n)
          \/ Store!Cancel(r, n)
          \/ Store!Resume(r, n)
    BY <1>2 DEF ApiStep
  <2>2. UNCHANGED <<workers, world>>
    BY <1>2 DEF ApiStep
  <2>3. agent_runs[r].state = "absent" => agent_runs[r].checkpoint = EmptyCheckpoint
    BY DEF Copies
  <2>4. \A q \in RunIds : Kept(q) /\ EndsWell(q)
    BY <1>0, <2>1, <2>3, CreateRow, GetRow, CancelRow, ResumeRow
  <2>5. Store!Next
    BY <2>1 DEF Store!Next, Store!ApiStep
  <2> QED
    BY <2>2, <2>4, <2>5 DEF Quiet
<1>3. ASSUME NEW r \in RunIds, GetBlock(r)
      PROVE  Quiet /\ Store!Next
  BY <1>0, <1>3, GetRow DEF GetBlock, Quiet, Store!Next
<1>4. CASE Tick
  BY <1>0, <1>4, TickRow DEF Tick, Quiet, Store!Next
<1>5. CASE UNCHANGED vars
  BY <1>0, <1>5, Untouched DEF vars, stored, Quiet
<1> QED
  BY <1>1, <1>2, <1>3, <1>4, <1>5 DEF Next

\* A worker that moves, calls the model or a tool, or stops leaves every
\* checkpoint as it is.
LEMMA KeptRows ==
  ASSUME Copies, NEW w \in Workers,
         (\E new : Moves(w, new) \/ Asks(w, new) \/ Acts(w, new)) \/ Stops(w), NEW q \in RunIds
  PROVE  Kept(q)
<1>0. Store!IInv /\ workers[w].run \in RunIds
  BY WorkerRow DEF Copies
<1>1. CASE UNCHANGED stored
  BY <1>0, <1>1, Untouched DEF stored
<1>2. CASE Store!Guard(workers[w].run, Row(w).tenant, workers[w].token)
  BY <1>0, <1>2, GuardRow
<1>3. CASE \E s, res : Reports(w, s, res)
  BY <1>0, <1>3, FinishRow DEF Reports
<1> QED
  BY <1>1, <1>2, <1>3 DEF Moves, Asks, Acts, Stops

\* The first layer is kept by a save: no other worker holds the newest token.
LEMMA SavesCopies ==
  ASSUME Copies, Store!IInv', NEW w \in Workers, NEW cp, NEW new, Saves(w, cp, new)
  PROVE  Copies'
<1> DEFINE me == workers[w]
           r == me.run
<1>0. Store!IInv /\ r \in RunIds /\ Goes(me, new) /\ new.cp = cp /\ me.pc \notin {"idle", "fail"}
  BY WorkerRow DEF Copies, Saves, SaveOK, Goes
<1>1. /\ agent_runs'[r].checkpoint = cp /\ agent_runs'[r].attempts = agent_runs[r].attempts
      /\ agent_runs'[r].state = "running" /\ agent_runs'[r].token = me.token
      /\ \A q \in RunIds : q # r => agent_runs'[q] = agent_runs[q]
  BY <1>0, CheckpointRow DEF Saves
<1>2. new \in Worker /\ LocalOK(new) /\ CpOK(cp)
  BY <1>0 DEF Goes, LocalOK
<1>3. /\ workers' \in [Workers -> Worker] /\ workers'[w] = new
      /\ \A v \in Workers : v # w => workers'[v] = workers[v]
  BY <1>2, SetWorker DEF Saves
<1>4. \A v \in Workers : /\ workers'[v].run = workers[v].run
                         /\ workers'[v].token = workers[v].token
                         /\ workers'[v].pc = "idle" <=> workers[v].pc = "idle"
  BY <1>0, <1>3 DEF Goes
<1>5. \A v \in Workers : workers[v].run \in RunIds
  BY WorkerRow
<1>6. TypeOK'
  BY <1>3 DEF Store!IInv, TypeOK, Copies, Saves
<1>7. \A q \in RunIds : /\ CpOK(agent_runs'[q].checkpoint)
                        /\ agent_runs'[q].state = "absent" =>
                             agent_runs'[q].checkpoint = EmptyCheckpoint
  BY <1>1, <1>2 DEF Copies
<1>8. TokensIssued'
  BY <1>1, <1>4, <1>5 DEF Copies, TokensIssued, Busy, At, Row
<1>9. TokensUnique'
  BY <1>4 DEF Copies, TokensUnique, Busy, At
<1>10. \A v \in Workers : v # w /\ workers[v].pc # "idle" /\ workers[v].run = r =>
          workers[v].token # me.token
  BY <1>0 DEF Copies, TokensUnique, Busy, At
<1>11. LocalMirrorsStored'
  <2>1. ASSUME NEW v \in Workers, Current(v)'
        PROVE  workers'[v].cp = agent_runs'[workers'[v].run].checkpoint
    <3>1. CASE v = w
      BY <1>0, <1>1, <1>3, <3>1 DEF Goes
    <3>2. CASE v # w
      <4>1. workers'[v] = workers[v] /\ workers[v].pc \notin {"idle", "fail"}
        BY <1>3, <2>1, <3>2 DEF Current
      <4>2. workers[v].run # r
        BY <1>1, <1>10, <2>1, <3>2, <4>1 DEF Current, Row
      <4>3. agent_runs'[workers[v].run] = agent_runs[workers[v].run]
        BY <1>1, <1>5, <4>2
      <4>4. Current(v)
        BY <2>1, <4>1, <4>3 DEF Current, Row
      <4> QED
        BY <4>1, <4>3, <4>4 DEF Copies, LocalMirrorsStored, Row
    <3> QED
      BY <3>1, <3>2
  <2> QED
    BY <2>1 DEF LocalMirrorsStored, Row
<1>12. \A v \in Workers : LocalOK(workers'[v])
  BY <1>2, <1>3 DEF Copies
<1> QED
  BY <1>6, <1>7, <1>8, <1>9, <1>11, <1>12 DEF Copies, CpOK, LocalOK, Store!UnsafePending

\* And by a claim, whose token no worker has.
LEMMA StartsCopies ==
  ASSUME Copies, Store!IInv', NEW w \in Workers, NEW r \in RunIds, NEW new, Starts(w, r, new)
  PROVE  Copies'
<1> DEFINE t == agent_runs[r].attempts + 1
<1>0. Store!IInv /\ agent_runs[r].attempts \in Nat
  BY StoreRow DEF Copies
<1>1. /\ agent_runs'[r].checkpoint = agent_runs[r].checkpoint /\ agent_runs'[r].attempts = t
      /\ agent_runs'[r].state = "running" /\ agent_runs'[r].token = t
      /\ \A q \in RunIds : q # r => agent_runs'[q] = agent_runs[q]
  BY <1>0, ClaimRow DEF Starts
<1>2. /\ new \in Worker /\ LocalOK(new) /\ new.run = r /\ new.token = t
      /\ new.cp = agent_runs[r].checkpoint /\ new.pc = "limits"
  BY DEF Starts, LocalOK
<1>3. /\ workers' \in [Workers -> Worker] /\ workers'[w] = new
      /\ \A v \in Workers : v # w => workers'[v] = workers[v]
  BY <1>2, SetWorker DEF Starts
<1>4. \A v \in Workers : workers[v].run \in RunIds
  BY WorkerRow
<1>5. \A v \in Workers : workers[v].pc # "idle" =>
         /\ workers[v].token \in 1 .. agent_runs[workers[v].run].attempts
         /\ agent_runs[workers[v].run].attempts \in Nat
  BY <1>0, <1>4, StoreRow DEF Copies, TokensIssued, Busy, At, Row
<1>6. \A v \in Workers : workers[v].pc # "idle" /\ workers[v].run = r => workers[v].token < t
  BY <1>0, <1>5
<1>7. TypeOK'
  BY <1>3 DEF Store!IInv, TypeOK, Copies, Starts
<1>8. \A q \in RunIds : /\ CpOK(agent_runs'[q].checkpoint)
                        /\ agent_runs'[q].state = "absent" =>
                             agent_runs'[q].checkpoint = EmptyCheckpoint
  BY <1>1 DEF Copies
<1>9. \A v \in Workers : workers'[v].pc # "idle" =>
         workers'[v].token \in 1 .. agent_runs'[workers'[v].run].attempts
  BY <1>0, <1>1, <1>2, <1>3, <1>4, <1>5
<1>10. TokensUnique'
  <2>1. ASSUME NEW v \in Workers, NEW u \in Workers, v # u, workers'[v].pc # "idle",
               workers'[u].pc # "idle", workers'[v].run = workers'[u].run
        PROVE  workers'[v].token # workers'[u].token
    <3>1. CASE v = w \/ u = w
      BY <1>0, <1>2, <1>3, <1>5, <1>6, <2>1, <3>1
    <3>2. CASE v # w /\ u # w
      BY <1>3, <2>1, <3>2 DEF Copies, TokensUnique, Busy, At
    <3> QED
      BY <3>1, <3>2
  <2> QED
    BY <2>1 DEF TokensUnique, Busy, At
<1>11. LocalMirrorsStored'
  <2>1. ASSUME NEW v \in Workers, Current(v)'
        PROVE  workers'[v].cp = agent_runs'[workers'[v].run].checkpoint
    <3>1. CASE v = w
      BY <1>1, <1>2, <1>3, <3>1
    <3>2. CASE v # w
      <4>1. workers'[v] = workers[v] /\ workers[v].pc \notin {"idle", "fail"}
        BY <1>3, <2>1, <3>2 DEF Current
      <4>2. workers[v].run # r
        BY <1>0, <1>1, <1>5, <1>6, <2>1, <4>1 DEF Current, Row
      <4>3. agent_runs'[workers[v].run] = agent_runs[workers[v].run]
        BY <1>1, <1>4, <4>2
      <4>4. Current(v)
        BY <2>1, <4>1, <4>3 DEF Current, Row
      <4> QED
        BY <4>1, <4>3, <4>4 DEF Copies, LocalMirrorsStored, Row
    <3> QED
      BY <3>1, <3>2
  <2> QED
    BY <2>1 DEF LocalMirrorsStored, Row
<1>12. \A v \in Workers : LocalOK(workers'[v])
  BY <1>2, <1>3 DEF Copies
<1>13. TokensIssued'
  BY <1>9 DEF TokensIssued, Busy, At, Row
<1> QED
  BY <1>7, <1>8, <1>10, <1>11, <1>12, <1>13 DEF Copies, CpOK, LocalOK, Store!UnsafePending

\* The first layer is inductive by itself.
LEMMA StepCopies ==
  ASSUME Copies, [Next]_vars
  PROVE  Copies'
<1>1. Store!IInv'
  BY StepIs, StoreInductive DEF Copies
<1>2. /\ workers \in [Workers -> Worker] /\ world \in [RunIds -> Tally]
      /\ \A v \in Workers : LocalOK(workers[v])
  BY DEF Copies, TypeOK, Tally
<1>3. CASE Quiet
  BY <1>1, <1>2, <1>3, KeptCopies DEF Quiet
<1>4. ASSUME NEW w \in Workers, NEW new, Moves(w, new) \/ Asks(w, new) \/ Acts(w, new)
      PROVE  Copies'
  <2>1. \A q \in RunIds : Kept(q)
    BY <1>4, KeptRows
  <2>2. /\ Goes(workers[w], new) /\ Set(w, new)
        /\ new.pc = "fail" \/ new.cp = workers[w].cp
    BY <1>4 DEF Moves, MoveOK, Asks, AskOK, Acts, ActOK
  <2>3. new \in Worker /\ LocalOK(new)
    BY <2>2 DEF Goes, LocalOK
  <2>4. /\ workers' \in [Workers -> Worker] /\ workers'[w] = new
        /\ \A v \in Workers : v # w => workers'[v] = workers[v]
    BY <2>2, <2>3, SetWorker
  <2>5. world' \in [RunIds -> Tally]
    BY <1>2, <1>4, AskWorld, ActWorld DEF Moves
  <2>6. \A v \in Workers :
           /\ LocalOK(workers'[v])
           /\ \/ workers'[v] = workers[v]
              \/ workers'[v].pc = "idle"
              \/ /\ Goes(workers[v], workers'[v])
                 /\ workers'[v].pc = "fail" \/ workers'[v].cp = workers[v].cp
    BY <1>2, <2>2, <2>3, <2>4
  <2> QED
    BY <1>1, <2>1, <2>4, <2>5, <2>6, KeptCopies
<1>5. ASSUME NEW w \in Workers, Stops(w)
      PROVE  Copies'
  <2>1. \A q \in RunIds : Kept(q)
    BY <1>5, KeptRows
  <2>2. /\ workers' \in [Workers -> Worker] /\ workers'[w] = Idle
        /\ \A v \in Workers : v # w => workers'[v] = workers[v]
    BY <1>5, SetWorker, IdleOK DEF Stops
  <2>3. \A v \in Workers :
           /\ LocalOK(workers'[v])
           /\ \/ workers'[v] = workers[v]
              \/ workers'[v].pc = "idle"
              \/ /\ Goes(workers[v], workers'[v])
                 /\ workers'[v].pc = "fail" \/ workers'[v].cp = workers[v].cp
    BY <1>2, <2>2, IdleOK
  <2>4. world' \in [RunIds -> Tally]
    BY <1>2, <1>5 DEF Stops
  <2> QED
    BY <1>1, <2>1, <2>2, <2>3, <2>4, KeptCopies
<1> QED
  BY <1>1, <1>3, <1>4, <1>5, StepIs, SavesCopies, StartsCopies DEF Kinds

\* All workers start idle and all rows absent.
LEMMA InitCopies == Init => Copies
<1> SUFFICES ASSUME Init PROVE Copies
  OBVIOUS
<1>1. Store!IInv
  BY StoreInductive DEF Init
<1>2. \A w \in Workers : workers[w] = Idle
  BY DEF Init
<1>3. TypeOK
  <2>1. workers \in [Workers -> Worker]
    BY IdleOK DEF Init
  <2>2. [s \in Steps |-> 0] \in [Steps -> Nat]
    OBVIOUS
  <2> DEFINE tally == [calls |-> [s \in Steps |-> 0], effects |-> [s \in Steps |-> 0], spent |-> 0]
  <2>3. tally \in [calls : [Steps -> Nat], effects : [Steps -> Nat], spent : Nat]
    BY <2>2
  <2>4. world = [r \in RunIds |-> tally]
    BY DEF Init
  <2> HIDE DEF tally
  <2>5. world \in [RunIds -> [calls : [Steps -> Nat], effects : [Steps -> Nat], spent : Nat]]
    BY <2>3, <2>4
  <2> QED
    BY <1>1, <2>1, <2>5 DEF TypeOK, Store!IInv
<1>4. \A r \in RunIds : CpOK(agent_runs[r].checkpoint) /\ agent_runs[r].checkpoint = EmptyCheckpoint
  <2>1. \A r \in RunIds : agent_runs[r].checkpoint = EmptyCheckpoint
    BY DEF Init, Store!Init, Store!Absent, Store!NewRun
  <2>2. CpOK(Idle.cp) /\ Idle.cp = EmptyCheckpoint
    BY IdleOK DEF LocalOK, Idle
  <2> QED
    BY <2>1, <2>2
<1>5. \A w \in Workers : LocalOK(workers[w]) /\ workers[w].pc = "idle"
  BY <1>2, IdleOK
<1> QED
  BY <1>1, <1>3, <1>4, <1>5 DEF Copies, TokensIssued, TokensUnique, LocalMirrorsStored,
     Current, Busy, At

\* The worker's own view of its run, for every instance.
THEOREM CopiesInductive == Spec => []Copies
<1>1. Init => Copies
  BY InitCopies
<1>2. Copies /\ [Next]_vars => Copies'
  BY StepCopies
<1> QED
  BY <1>1, <1>2, PTL DEF Spec

\* Every variable of the workers keeps its type, for every instance.
THEOREM WorkersAreTyped == Spec => []TypeOK
<1>1. Copies => TypeOK
  BY DEF Copies
<1> QED
  BY <1>1, CopiesInductive, PTL

\* The loop of the attempt in charge never works from a checkpoint the store
\* does not have.
THEOREM LocalCopyMirrorsStore == Spec => []LocalMirrorsStored
<1>1. Copies => LocalMirrorsStored
  BY DEF Copies
<1> QED
  BY <1>1, CopiesInductive, PTL

\* Workers, heartbeats and API callers together use the store as RunStore
\* says: what is proved of the store holds while they run.
THEOREM WorkersImplementStore == Spec => Store!Spec
<1>1. Init => Store!Init
  BY DEF Init
<1>2. Copies /\ [Next]_vars => [Store!Next]_(Store!vars)
  BY StepIs DEF Store!vars, stored
<1> QED
  BY <1>1, <1>2, CopiesInductive, PTL DEF Spec, Store!Spec

\* The attempt that saves is the one in charge.
LEMMA SaverIsCurrent ==
  ASSUME Copies, NEW w \in Workers, NEW cp, NEW new, Saves(w, cp, new)
  PROVE  /\ Current(w) /\ workers[w].cp = Row(w).checkpoint
         /\ workers[w].token = Row(w).attempts
<1>1. Row(w).state = "running" /\ Row(w).token = workers[w].token
      /\ workers[w].token = Row(w).attempts
  BY WorkerRow, CheckpointRow DEF Copies, Saves, Row
<1>2. workers[w].pc \notin {"idle", "fail"}
  BY DEF Saves, SaveOK, Goes
<1> QED
  BY <1>1, <1>2 DEF Copies, LocalMirrorsStored, Current

\* A checkpoint that stays gives nothing back.
LEMMA SameGrows ==
  ASSUME NEW cp \in Checkpoints
  PROVE  Grows(cp, cp)
  BY CpFields DEF Grows

\* No step of anybody gives back what the stored checkpoint counts.
LEMMA StepGrows ==
  ASSUME Copies, [Next]_vars, NEW r \in RunIds
  PROVE  Grows(agent_runs[r].checkpoint, agent_runs'[r].checkpoint)
<1> DEFINE old == agent_runs[r].checkpoint
           new == agent_runs'[r].checkpoint
<1>0. Store!IInv /\ old \in Checkpoints
  BY DEF Copies, CpOK
<1>1. CASE new = old
  BY <1>0, <1>1, SameGrows
<1>2. ASSUME NEW w \in Workers, NEW cp, NEW me, Saves(w, cp, me)
      PROVE  Grows(old, new)
  <2>1. workers[w].cp = Row(w).checkpoint /\ Grows(workers[w].cp, cp) /\ workers[w].run \in RunIds
    BY <1>2, SaverIsCurrent, WorkerRow DEF Saves, SaveOK
  <2>2. /\ agent_runs'[workers[w].run].checkpoint = cp
        /\ \A q \in RunIds : q # workers[w].run => agent_runs'[q] = agent_runs[q]
    BY <1>0, <1>2, <2>1, CheckpointRow DEF Saves
  <2> QED
    BY <1>1, <2>1, <2>2 DEF Row
<1>3. ASSUME NEW w \in Workers, NEW q \in RunIds, NEW me, Starts(w, q, me)
      PROVE  new = old
  BY <1>0, <1>3, ClaimRow DEF Starts
<1>4. Quiet => new = old
  BY DEF Quiet, Kept
<1>5. ASSUME NEW w \in Workers,
             (\E me : Moves(w, me) \/ Asks(w, me) \/ Acts(w, me)) \/ Stops(w)
      PROVE  new = old
  BY <1>5, KeptRows DEF Kept
<1> QED
  BY <1>1, <1>2, <1>3, <1>4, <1>5, StepIs DEF Kinds

\* What a run has used up is never given back, for every instance.
THEOREM BudgetsStay == Spec => BudgetsNeverRewind
<1>1. Copies /\ [Next]_vars =>
        [\A r \in RunIds :
           LET old == agent_runs[r].checkpoint new == agent_runs'[r].checkpoint IN
           /\ old.decisions <= new.decisions /\ old.recoveries <= new.recoveries
           /\ old.reserved <= new.reserved
           /\ old.limits # NoLimits => new.limits = old.limits
           /\ old.final # None => new.final = old.final]_vars
  BY StepGrows DEF Grows
<1> QED
  BY <1>1, CopiesInductive, PTL DEF Spec, BudgetsNeverRewind

-----------------------------------------------------------------------------
(* The second layer: decisions and their consequences.                     *)

\* The second layer of the next state, one worker at a time.
LEMMA OrderFrom ==
  ASSUME \A v \in Workers : LET me == workers'[v] row == agent_runs'[me.run] IN
           /\ Fresh(me) => /\ me.cp.decisions <= row.checkpoint.decisions
                           /\ world'[me.run].effects[me.cp.decisions] = 0
           /\ Unasked(me) => world'[me.run].calls[me.cp.decisions] = 0
           /\ Acting(me) => row.checkpoint = me.cp /\ row.attempts = me.token,
         \A v, u \in Workers :
           /\ v # u /\ workers'[v].run = workers'[u].run
           /\ Fresh(workers'[v]) /\ Fresh(workers'[u])
           => workers'[v].cp.decisions # workers'[u].cp.decisions,
         \A r \in RunIds, s \in Steps :
           /\ world'[r].calls[s] > 0 \/ world'[r].effects[s] > 0 =>
                s <= agent_runs'[r].checkpoint.decisions
           /\ world'[r].calls[s] <= 1
  PROVE  Order'
<1>1. FreshIsCounted'
  BY DEF FreshIsCounted, Fresh, Unasked, Undone, Row
<1>2. FreshIsUnique'
  BY DEF FreshIsUnique, Fresh, Unasked, Undone
<1>3. ActingIsStored'
  BY DEF ActingIsStored, Acting, Row
<1>4. WorldIsCounted' /\ OneCallPerDecision'
  BY DEF WorldIsCounted, OneCallPerDecision
<1> QED
  BY <1>1, <1>2, <1>3, <1>4 DEF Order

\* The tally of a run.
LEMMA TallyRow ==
  ASSUME Copies, NEW r \in RunIds, NEW s \in Steps
  PROVE  /\ world[r].calls[s] \in Nat /\ world[r].effects[s] \in Nat /\ s \in Nat
         /\ world[r].spent \in Nat
<1>1. s \in Nat
  BY WorkerConstants DEF Steps
<1>2. world[r] \in Tally
  BY DEF Copies, TypeOK, Tally
<1>3. /\ world[r].calls \in [Steps -> Nat] /\ world[r].effects \in [Steps -> Nat]
      /\ world[r].spent \in Nat
  BY <1>2 DEF Tally
<1> QED
  BY <1>1, <1>3

\* What the second layer says of one worker, and of two.
LEMMA FreshRow ==
  ASSUME Copies, Order, NEW w \in Workers
  PROVE  LET me == workers[w] row == agent_runs[me.run] IN
         /\ Fresh(me) => /\ me.cp.decisions <= row.checkpoint.decisions
                         /\ world[me.run].effects[me.cp.decisions] = 0
         /\ Unasked(me) => world[me.run].calls[me.cp.decisions] = 0 /\ Fresh(me)
         /\ Acting(me) => /\ row.checkpoint = me.cp /\ row.attempts = me.token /\ Fresh(me)
                          /\ Store!UnsafePending(me.cp)
         /\ me.run \in RunIds /\ me.cp.decisions \in Nat /\ row.checkpoint.decisions \in Nat
         /\ \A v \in Workers : /\ v # w /\ workers[v].run = me.run
                               /\ Fresh(workers[v]) /\ Fresh(me)
                               => workers[v].cp.decisions # me.cp.decisions
<1> DEFINE me == workers[w]
           row == agent_runs[me.run]
<1>1. /\ Fresh(me) => /\ me.cp.decisions <= row.checkpoint.decisions
                      /\ world[me.run].effects[me.cp.decisions] = 0
      /\ Unasked(me) => world[me.run].calls[me.cp.decisions] = 0
      /\ Acting(me) => row.checkpoint = me.cp /\ row.attempts = me.token
  BY DEF Order, FreshIsCounted, ActingIsStored, Row
<1>2. /\ Unasked(me) => Fresh(me)
      /\ Acting(me) => Fresh(me)
  BY DEF Unasked, Acting, Fresh, Undone
<1>3. Acting(me) => Store!UnsafePending(me.cp)
  BY WorkerRow DEF LocalOK, CpOK, Acting, Store!UnsafePending
<1>4. me.run \in RunIds /\ me.cp.decisions \in Nat /\ row.checkpoint.decisions \in Nat
  BY WorkerRow, CpFields DEF Row
<1>5. \A v \in Workers : /\ v # w /\ workers[v].run = me.run
                         /\ Fresh(workers[v]) /\ Fresh(me)
                         => workers[v].cp.decisions # me.cp.decisions
  BY DEF Order, FreshIsUnique
<1> QED
  BY <1>1, <1>2, <1>3, <1>4, <1>5

\* A worker with a fresh decision has counted it.
LEMMA FreshStep ==
  ASSUME NEW me, LocalOK(me), Fresh(me)
  PROVE  me.cp.decisions \in Steps
<1>1. me.cp.decisions > 0 /\ me.cp.decisions <= MaxDecisions /\ me.cp \in Checkpoints
  BY DEF LocalOK, CpOK, Fresh, Unasked, Undone
<1> QED
  BY <1>1, CpFields, WorkerConstants DEF Steps

\* Nothing new is asked or done, and nobody has more to ask or to do.
LEMMA KeptOrder ==
  ASSUME Copies, Order, UNCHANGED world, \A q \in RunIds : Kept(q),
         \A v \in Workers : LET me == workers[v] new == workers'[v] IN
           \/ new = me
           \/ ~Fresh(new) /\ ~Unasked(new) /\ ~Acting(new)
           \/ /\ new.run = me.run /\ new.token = me.token /\ new.cp = me.cp
              /\ Fresh(new) => Fresh(me)
              /\ Unasked(new) => Unasked(me)
              /\ Acting(new) => Acting(me)
  PROVE  Order'
<1>1. ASSUME NEW v \in Workers
      PROVE  LET me == workers'[v] row == agent_runs'[me.run] IN
             /\ Fresh(me) => /\ me.cp.decisions <= row.checkpoint.decisions
                             /\ world'[me.run].effects[me.cp.decisions] = 0
             /\ Unasked(me) => world'[me.run].calls[me.cp.decisions] = 0
             /\ Acting(me) => row.checkpoint = me.cp /\ row.attempts = me.token
  BY FreshRow DEF Kept
<1>2. \A v, u \in Workers :
        /\ v # u /\ workers'[v].run = workers'[u].run
        /\ Fresh(workers'[v]) /\ Fresh(workers'[u])
        => workers'[v].cp.decisions # workers'[u].cp.decisions
  BY FreshRow
<1>3. \A r \in RunIds, s \in Steps :
        /\ world'[r].calls[s] > 0 \/ world'[r].effects[s] > 0 =>
             s <= agent_runs'[r].checkpoint.decisions
        /\ world'[r].calls[s] <= 1
  BY DEF Order, WorldIsCounted, OneCallPerDecision, Kept
<1> QED
  BY <1>1, <1>2, <1>3, OrderFrom

\* A save counts at most one more decision, which nobody has seen yet.
LEMMA SavesOrder ==
  ASSUME Copies, Order, NEW w \in Workers, NEW cp, NEW new, Saves(w, cp, new)
  PROVE  Order'
<1> DEFINE me == workers[w]
           r == me.run
           seen == agent_runs[r].checkpoint.decisions
<1>0. Store!IInv /\ r \in RunIds /\ Goes(me, new) /\ new.cp = cp
  BY WorkerRow DEF Copies, Saves, SaveOK
<1>1. /\ agent_runs'[r].checkpoint = cp /\ agent_runs'[r].attempts = agent_runs[r].attempts
      /\ \A q \in RunIds : q # r => agent_runs'[q] = agent_runs[q]
  BY <1>0, CheckpointRow DEF Saves
<1>2. new \in Worker /\ LocalOK(new) /\ new.run = r /\ new.token = me.token
  BY <1>0 DEF Goes, LocalOK
<1>3. /\ workers'[w] = new /\ \A v \in Workers : v # w => workers'[v] = workers[v]
  BY <1>2, SetWorker DEF Saves
<1>4. me.cp.decisions = seen /\ me.token = agent_runs[r].attempts /\ me.pc # "idle"
  BY SaverIsCurrent DEF Row, Saves, SaveOK, Goes
<1>5. seen \in Nat /\ cp.decisions \in Nat /\ seen <= cp.decisions
  BY <1>0, <1>2, <1>4, FreshRow, CpFields DEF LocalOK, CpOK, Saves, SaveOK, Grows
<1>6. /\ Fresh(new) => cp.decisions = seen + 1 \/ (Fresh(me) /\ cp.decisions = seen)
      /\ Unasked(new) => cp.decisions = seen + 1 \/ (Unasked(me) /\ cp.decisions = seen)
  BY <1>4 DEF Saves, SaveOK
<1>7. world' = world /\ world \in [RunIds -> Tally]
  BY DEF Saves, Copies, TypeOK, Tally
<1>8. \A s \in Steps : s > seen => world[r].calls[s] = 0 /\ world[r].effects[s] = 0
  <2>1. ASSUME NEW s \in Steps, s > seen
        PROVE  world[r].calls[s] = 0 /\ world[r].effects[s] = 0
    <3>1. world[r].calls[s] \in Nat /\ world[r].effects[s] \in Nat /\ s \in Nat
      BY <1>0, TallyRow
    <3>2. ~(world[r].calls[s] > 0 \/ world[r].effects[s] > 0)
      BY <1>0, <1>5, <2>1, <3>1 DEF Order, WorldIsCounted
    <3> QED
      BY <3>1, <3>2
  <2> QED
    BY <2>1
<1>9. ASSUME NEW v \in Workers
      PROVE  LET him == workers'[v] row == agent_runs'[him.run] IN
             /\ Fresh(him) => /\ him.cp.decisions <= row.checkpoint.decisions
                              /\ world'[him.run].effects[him.cp.decisions] = 0
             /\ Unasked(him) => world'[him.run].calls[him.cp.decisions] = 0
             /\ Acting(him) => row.checkpoint = him.cp /\ row.attempts = him.token
  <2>1. CASE v = w
    <3>1. Unasked(new) => Fresh(new)
      BY DEF Fresh
    <3>2. Fresh(new) => cp.decisions \in Steps
      BY <1>0, <1>2, FreshStep
    <3>3. Fresh(new) => world[r].effects[cp.decisions] = 0
      BY <1>4, <1>5, <1>6, <1>8, <3>2, FreshRow
    <3>4. Unasked(new) => world[r].calls[cp.decisions] = 0
      BY <1>4, <1>5, <1>6, <1>8, <3>1, <3>2, FreshRow
    <3> QED
      BY <1>0, <1>1, <1>2, <1>3, <1>4, <1>5, <1>7, <2>1, <3>3, <3>4
  <2>2. CASE v # w
    <3> DEFINE him == workers[v]
    <3>1. workers'[v] = him /\ him.run \in RunIds /\ him.cp.decisions \in Nat
      BY <1>3, <2>2, FreshRow
    <3>2. CASE him.run # r
      BY <1>1, <1>7, <3>1, <3>2, FreshRow
    <3>3. CASE him.run = r
      <4>1. Fresh(him) => /\ him.cp.decisions <= cp.decisions
                          /\ world[r].effects[him.cp.decisions] = 0
        BY <1>5, <3>1, <3>3, FreshRow
      <4>2. Unasked(him) => world[r].calls[him.cp.decisions] = 0
        BY <3>3, FreshRow
      <4>3. ~Acting(him)
        <5>1. Acting(him) => him.token = me.token /\ him.pc # "idle"
          BY <1>4, <3>3, FreshRow DEF Acting
        <5> QED
          BY <1>4, <2>2, <3>3, <5>1 DEF Copies, TokensUnique, Busy, At
      <4> QED
        BY <1>1, <1>7, <3>1, <3>3, <4>1, <4>2, <4>3
    <3> QED
      BY <3>2, <3>3
  <2> QED
    BY <2>1, <2>2
<1>10. ASSUME NEW v \in Workers, v # w, workers[v].run = r, Fresh(workers[v]), Fresh(new)
       PROVE  workers[v].cp.decisions # cp.decisions
  BY <1>4, <1>5, <1>6, <1>10, FreshRow
<1>11. \A v, u \in Workers :
        /\ v # u /\ workers'[v].run = workers'[u].run
        /\ Fresh(workers'[v]) /\ Fresh(workers'[u])
        => workers'[v].cp.decisions # workers'[u].cp.decisions
  BY <1>0, <1>2, <1>3, <1>10, FreshRow
<1>12. \A q \in RunIds, s \in Steps :
        /\ world'[q].calls[s] > 0 \/ world'[q].effects[s] > 0 =>
             s <= agent_runs'[q].checkpoint.decisions
        /\ world'[q].calls[s] <= 1
  <2>1. ASSUME NEW q \in RunIds, NEW s \in Steps,
               world[q].calls[s] > 0 \/ world[q].effects[s] > 0
        PROVE  s <= agent_runs'[q].checkpoint.decisions
    <3>1. s <= agent_runs[q].checkpoint.decisions /\ s \in Nat
      BY <2>1, WorkerConstants DEF Order, WorldIsCounted, Steps
    <3> QED
      BY <1>1, <1>5, <3>1
  <2> QED
    BY <1>7, <2>1 DEF Order, OneCallPerDecision
<1> QED
  BY <1>9, <1>11, <1>12, OrderFrom

\* A claim is refused while an unsafe call is open.
LEMMA StartsOrder ==
  ASSUME Copies, Order, NEW w \in Workers, NEW r \in RunIds, NEW new, Starts(w, r, new)
  PROVE  Order'
<1>0. Store!IInv /\ new \in Worker /\ new.pc = "limits"
  BY DEF Copies, Starts, LocalOK
<1>1. /\ agent_runs'[r].checkpoint = agent_runs[r].checkpoint
      /\ ~Store!UnsafePending(agent_runs[r].checkpoint)
      /\ \A q \in RunIds : q # r => agent_runs'[q] = agent_runs[q]
  BY <1>0, ClaimRow DEF Starts
<1>2. workers'[w] = new /\ \A v \in Workers : v # w => workers'[v] = workers[v]
  BY <1>0, SetWorker DEF Starts
<1>3. world' = world
  BY DEF Starts
<1>4. ~Fresh(new) /\ ~Unasked(new) /\ ~Acting(new)
  BY <1>0 DEF Fresh, Unasked, Undone, Acting
<1>5. ASSUME NEW v \in Workers
      PROVE  LET him == workers'[v] row == agent_runs'[him.run] IN
             /\ Fresh(him) => /\ him.cp.decisions <= row.checkpoint.decisions
                              /\ world'[him.run].effects[him.cp.decisions] = 0
             /\ Unasked(him) => world'[him.run].calls[him.cp.decisions] = 0
             /\ Acting(him) => row.checkpoint = him.cp /\ row.attempts = him.token
  <2>1. CASE v = w
    BY <1>2, <1>4, <2>1
  <2>2. CASE v # w /\ workers[v].run # r
    BY <1>1, <1>2, <1>3, <2>2, FreshRow
  <2>3. CASE v # w /\ workers[v].run = r
    <3>1. ~Acting(workers[v])
      BY <1>1, <2>3, FreshRow
    <3> QED
      BY <1>1, <1>2, <1>3, <2>3, <3>1, FreshRow
  <2> QED
    BY <2>1, <2>2, <2>3
<1>6. \A v, u \in Workers :
        /\ v # u /\ workers'[v].run = workers'[u].run
        /\ Fresh(workers'[v]) /\ Fresh(workers'[u])
        => workers'[v].cp.decisions # workers'[u].cp.decisions
  BY <1>2, <1>4, FreshRow
<1>7. \A q \in RunIds, s \in Steps :
        /\ world'[q].calls[s] > 0 \/ world'[q].effects[s] > 0 =>
             s <= agent_runs'[q].checkpoint.decisions
        /\ world'[q].calls[s] <= 1
  BY <1>1, <1>3 DEF Order, WorldIsCounted, OneCallPerDecision
<1> QED
  BY <1>5, <1>6, <1>7, OrderFrom

\* The model is asked for a decision by the one worker that may ask.
LEMMA AsksOrder ==
  ASSUME Copies, Order, NEW w \in Workers, NEW new, Asks(w, new)
  PROVE  Order'
<1> DEFINE me == workers[w]
           r == me.run
           d == me.cp.decisions
<1>0. /\ Goes(me, new) /\ new.cp = me.cp /\ me.pc = "invoke"
      /\ ~Unasked(new) /\ (Undone(new) => Unasked(me)) /\ ~Acting(new)
  BY DEF Asks, AskOK, Acting
<1>1. new \in Worker /\ new.run = r /\ agent_runs' = agent_runs
  BY <1>0 DEF Goes, LocalOK, Asks, stored
<1>2. workers'[w] = new /\ \A v \in Workers : v # w => workers'[v] = workers[v]
  BY <1>1, SetWorker DEF Asks
<1>3. /\ d \in Steps /\ r \in RunIds
      /\ \A q \in RunIds : q # r => world'[q] = world[q]
      /\ world'[r].effects = world[r].effects
      /\ \A s \in Steps : s # d => world'[r].calls[s] = world[r].calls[s]
      /\ world'[r].calls[d] = IF me.call = "decide" THEN world[r].calls[d] + 1
                              ELSE world[r].calls[d]
  BY AskWorld
<1>4. me.call = "decide" => Unasked(me) /\ Fresh(me)
  BY <1>0 DEF Unasked, Fresh
<1>5. Fresh(new) => Fresh(me)
  BY <1>0 DEF Fresh
<1>6. \A q \in RunIds : world'[q].effects = world[q].effects
  BY <1>3
<1>7. ASSUME NEW v \in Workers, v # w, Unasked(workers[v])
      PROVE  world'[workers[v].run].calls[workers[v].cp.decisions] = 0
  <2>1. /\ world[workers[v].run].calls[workers[v].cp.decisions] = 0 /\ Fresh(workers[v])
        /\ workers[v].run \in RunIds
    BY <1>7, FreshRow
  <2>2. workers[v].cp.decisions \in Steps
    BY <2>1, FreshStep, WorkerRow
  <2>3. CASE workers[v].run # r \/ workers[v].cp.decisions # d
    BY <1>3, <2>1, <2>2, <2>3
  <2>4. CASE workers[v].run = r /\ workers[v].cp.decisions = d
    <3>1. me.call # "decide"
      BY <1>4, <1>7, <2>1, <2>4, FreshRow
    <3> QED
      BY <1>3, <2>1, <2>4, <3>1
  <2> QED
    BY <2>3, <2>4
<1>8. ASSUME NEW v \in Workers
      PROVE  LET him == workers'[v] row == agent_runs'[him.run] IN
             /\ Fresh(him) => /\ him.cp.decisions <= row.checkpoint.decisions
                              /\ world'[him.run].effects[him.cp.decisions] = 0
             /\ Unasked(him) => world'[him.run].calls[him.cp.decisions] = 0
             /\ Acting(him) => row.checkpoint = him.cp /\ row.attempts = him.token
  <2>1. CASE v = w
    <3>1. Fresh(me) => /\ d <= agent_runs[r].checkpoint.decisions
                       /\ world[r].effects[d] = 0
      BY FreshRow
    <3> QED
      BY <1>0, <1>1, <1>2, <1>3, <1>5, <2>1, <3>1
  <2>2. CASE v # w
    BY <1>1, <1>2, <1>6, <1>7, <2>2, FreshRow
  <2> QED
    BY <2>1, <2>2
<1>9. \A v, u \in Workers :
        /\ v # u /\ workers'[v].run = workers'[u].run
        /\ Fresh(workers'[v]) /\ Fresh(workers'[u])
        => workers'[v].cp.decisions # workers'[u].cp.decisions
  BY <1>0, <1>1, <1>2, <1>5, FreshRow
<1>10. world'[r].calls[d] > 0 => d <= agent_runs[r].checkpoint.decisions
  <2>1. CASE me.call = "decide"
    BY <1>4, <2>1, FreshRow
  <2>2. CASE me.call # "decide"
    BY <1>3, <2>2 DEF Order, WorldIsCounted
  <2> QED
    BY <2>1, <2>2
<1>11. world'[r].calls[d] <= 1
  <2>1. CASE me.call = "decide"
    <3>1. world[r].calls[d] = 0
      BY <1>4, <2>1, FreshRow
    <3> QED
      BY <1>3, <2>1, <3>1
  <2>2. CASE me.call # "decide"
    BY <1>3, <2>2 DEF Order, OneCallPerDecision
  <2> QED
    BY <2>1, <2>2
<1>12. ASSUME NEW q \in RunIds, NEW s \in Steps
       PROVE  /\ world'[q].calls[s] > 0 \/ world'[q].effects[s] > 0 =>
                   s <= agent_runs'[q].checkpoint.decisions
              /\ world'[q].calls[s] <= 1
  <2>1. /\ world[q].calls[s] > 0 \/ world[q].effects[s] > 0 =>
             s <= agent_runs[q].checkpoint.decisions
        /\ world[q].calls[s] <= 1
    BY DEF Order, WorldIsCounted, OneCallPerDecision
  <2>2. CASE q = r /\ s = d
    BY <1>1, <1>6, <1>10, <1>11, <2>1, <2>2
  <2>3. CASE q # r \/ s # d
    <3>1. world'[q].calls[s] = world[q].calls[s]
      BY <1>3, <2>3
    <3> QED
      BY <1>1, <1>6, <2>1, <3>1
  <2> QED
    BY <2>2, <2>3
<1> QED
  BY <1>8, <1>9, <1>12, OrderFrom

\* A tool acts for the one worker that may let it act.
LEMMA ActsOrder ==
  ASSUME Copies, Order, NEW w \in Workers, NEW new, Acts(w, new)
  PROVE  Order'
<1> DEFINE me == workers[w]
           r == me.run
           d == me.cp.decisions
<1>0. /\ Goes(me, new) /\ me.pc = "effect" /\ new.pc \in {"observed", "recover", "fail"}
  BY DEF Acts, ActOK
<1>1. new \in Worker /\ agent_runs' = agent_runs /\ ~Fresh(new) /\ ~Unasked(new) /\ ~Acting(new)
  BY <1>0 DEF Goes, LocalOK, Acts, stored, Fresh, Unasked, Undone, Acting
<1>2. workers'[w] = new /\ \A v \in Workers : v # w => workers'[v] = workers[v]
  BY <1>1, SetWorker DEF Acts
<1>3. /\ d \in Steps /\ r \in RunIds
      /\ \A q \in RunIds : q # r => world'[q] = world[q]
      /\ world'[r].calls = world[r].calls
      /\ \A s \in Steps : s # d => world'[r].effects[s] = world[r].effects[s]
      /\ world'[r].effects[d] = IF me.decision = "unsafe" THEN world[r].effects[d] + 1
                                ELSE world[r].effects[d]
  BY ActWorld
<1>4. me.decision = "unsafe" => Fresh(me)
  BY <1>0 DEF Undone, Fresh
<1>5. \A q \in RunIds : world'[q].calls = world[q].calls
  BY <1>3
<1>6. ASSUME NEW v \in Workers, v # w, Fresh(workers[v])
      PROVE  world'[workers[v].run].effects[workers[v].cp.decisions] = 0
  <2>1. /\ world[workers[v].run].effects[workers[v].cp.decisions] = 0
        /\ workers[v].run \in RunIds
    BY <1>6, FreshRow
  <2>2. workers[v].cp.decisions \in Steps
    BY <1>6, FreshStep, WorkerRow
  <2>3. CASE workers[v].run # r \/ workers[v].cp.decisions # d
    BY <1>3, <2>1, <2>2, <2>3
  <2>4. CASE workers[v].run = r /\ workers[v].cp.decisions = d
    <3>1. me.decision # "unsafe"
      BY <1>4, <1>6, <2>4, FreshRow
    <3> QED
      BY <1>3, <2>1, <2>4, <3>1
  <2> QED
    BY <2>3, <2>4
<1>7. ASSUME NEW v \in Workers
      PROVE  LET him == workers'[v] row == agent_runs'[him.run] IN
             /\ Fresh(him) => /\ him.cp.decisions <= row.checkpoint.decisions
                              /\ world'[him.run].effects[him.cp.decisions] = 0
             /\ Unasked(him) => world'[him.run].calls[him.cp.decisions] = 0
             /\ Acting(him) => row.checkpoint = him.cp /\ row.attempts = him.token
  <2>1. CASE v = w
    BY <1>1, <1>2, <2>1
  <2>2. CASE v # w
    BY <1>1, <1>2, <1>5, <1>6, <2>2, FreshRow
  <2> QED
    BY <2>1, <2>2
<1>8. \A v, u \in Workers :
        /\ v # u /\ workers'[v].run = workers'[u].run
        /\ Fresh(workers'[v]) /\ Fresh(workers'[u])
        => workers'[v].cp.decisions # workers'[u].cp.decisions
  BY <1>1, <1>2, FreshRow
<1>9. world'[r].effects[d] > 0 => d <= agent_runs[r].checkpoint.decisions
  <2>1. CASE me.decision = "unsafe"
    BY <1>4, <2>1, FreshRow
  <2>2. CASE me.decision # "unsafe"
    BY <1>3, <2>2 DEF Order, WorldIsCounted
  <2> QED
    BY <2>1, <2>2
<1>10. ASSUME NEW q \in RunIds, NEW s \in Steps
       PROVE  /\ world'[q].calls[s] > 0 \/ world'[q].effects[s] > 0 =>
                   s <= agent_runs'[q].checkpoint.decisions
              /\ world'[q].calls[s] <= 1
  <2>1. /\ world[q].calls[s] > 0 \/ world[q].effects[s] > 0 =>
             s <= agent_runs[q].checkpoint.decisions
        /\ world[q].calls[s] <= 1
    BY DEF Order, WorldIsCounted, OneCallPerDecision
  <2>2. CASE q = r /\ s = d
    BY <1>1, <1>5, <1>9, <2>1, <2>2
  <2>3. CASE q # r \/ s # d
    <3>1. world'[q].effects[s] = world[q].effects[s]
      BY <1>3, <2>3
    <3> QED
      BY <1>1, <1>5, <2>1, <3>1
  <2> QED
    BY <2>2, <2>3
<1> QED
  BY <1>7, <1>8, <1>10, OrderFrom

\* The second layer is inductive on top of the first.
LEMMA StepOrder ==
  ASSUME Copies, Order, [Next]_vars
  PROVE  Order'
<1>1. CASE Quiet
  BY <1>1, KeptOrder DEF Quiet
<1>2. ASSUME NEW w \in Workers, NEW new, Moves(w, new)
      PROVE  Order'
  <2>1. \A q \in RunIds : Kept(q)
    BY <1>2, KeptRows
  <2>2. /\ Goes(workers[w], new) /\ Set(w, new) /\ UNCHANGED world /\ LocalOK(new)
        /\ new.pc = "fail" \/ new.cp = workers[w].cp
        /\ Fresh(new) => Fresh(workers[w])
        /\ Unasked(new) => Unasked(workers[w])
        /\ Acting(new) => Acting(workers[w])
    BY <1>2 DEF Moves, MoveOK, Goes
  <2>3. workers'[w] = new /\ \A v \in Workers : v # w => workers'[v] = workers[v]
    BY <2>2, SetWorker DEF LocalOK
  <2>4. new.pc = "fail" => ~Fresh(new) /\ ~Unasked(new) /\ ~Acting(new)
    BY DEF Fresh, Unasked, Undone, Acting
  <2>5. new.run = workers[w].run /\ new.token = workers[w].token
    BY <2>2 DEF Goes
  <2> QED
    BY <2>1, <2>2, <2>3, <2>4, <2>5, KeptOrder
<1>3. ASSUME NEW w \in Workers, Stops(w)
      PROVE  Order'
  <2>1. \A q \in RunIds : Kept(q)
    BY <1>3, KeptRows
  <2>2. workers'[w] = Idle /\ \A v \in Workers : v # w => workers'[v] = workers[v]
    BY <1>3, SetWorker, IdleOK DEF Stops
  <2>3. ~Fresh(Idle) /\ ~Unasked(Idle) /\ ~Acting(Idle)
    BY IdleOK DEF Fresh, Unasked, Undone, Acting
  <2> QED
    BY <1>3, <2>1, <2>2, <2>3, KeptOrder DEF Stops
<1> QED
  BY <1>1, <1>2, <1>3, StepIs, AsksOrder, ActsOrder, SavesOrder, StartsOrder DEF Kinds

\* Nothing has been asked or done.
LEMMA InitOrder == Init => Order
<1> SUFFICES ASSUME Init PROVE Order
  OBVIOUS
<1>1. \A w \in Workers : ~Fresh(workers[w]) /\ ~Unasked(workers[w]) /\ ~Acting(workers[w])
  BY IdleOK DEF Init, Fresh, Unasked, Undone, Acting
<1>2. \A r \in RunIds, s \in Steps : world[r].calls[s] = 0 /\ world[r].effects[s] = 0
  BY DEF Init
<1> QED
  BY <1>1, <1>2 DEF Order, FreshIsCounted, FreshIsUnique, ActingIsStored, WorldIsCounted,
                    OneCallPerDecision

\* Every decision in flight is counted, and belongs to one worker.
THEOREM OrderInductive == Spec => [](Copies /\ Order)
<1>1. Init => Copies /\ Order
  BY InitCopies, InitOrder
<1>2. Copies /\ Order /\ [Next]_vars => (Copies /\ Order)'
  BY StepCopies, StepOrder
<1> QED
  BY <1>1, <1>2, PTL DEF Spec

\* The model is asked at most once for a counted decision, over all attempts,
\* takeovers and late workers, for every instance.
THEOREM ModelAskedOnce == Spec => []OneCallPerDecision
<1>1. Order => OneCallPerDecision
  BY DEF Order
<1> QED
  BY <1>1, OrderInductive, PTL

\* An effect is the step of a worker that the store knows to be acting.
LEMMA EffectIsStored ==
  ASSUME Copies, Order, [Next]_vars, NEW r \in RunIds, NEW s \in Steps,
         world'[r].effects[s] > world[r].effects[s]
  PROVE  /\ world[r].effects[s] = 0
         /\ \A t \in Steps : t > s => world[r].calls[t] = 0
         /\ agent_runs[r].checkpoint.decisions = s
         /\ Store!UnsafePending(agent_runs[r].checkpoint)
<1>0. world[r].effects[s] \in Nat
  BY TallyRow
<1>1. world'[r].effects # world[r].effects
  BY <1>0
<1>2. PICK w \in Workers : \E new : Acts(w, new)
  <2>1. ~Quiet
    BY <1>1 DEF Quiet
  <2>2. \A w \in Workers : ~Stops(w) /\ \A new : ~Moves(w, new)
    BY <1>1 DEF Stops, Moves
  <2>3. \A w \in Workers : \A new : ~Asks(w, new)
    BY <1>1, AskWorld
  <2>4. \A w \in Workers : \A new : \A cp : ~Saves(w, cp, new)
    BY <1>1 DEF Saves
  <2>5. \A w \in Workers : \A q \in RunIds : \A new : ~Starts(w, q, new)
    BY <1>1 DEF Starts
  <2> QED
    BY <2>1, <2>2, <2>3, <2>4, <2>5, StepIs DEF Kinds
<1> DEFINE me == workers[w]
<1>3. me.run = r /\ me.cp.decisions = s /\ me.decision = "unsafe"
  BY <1>0, <1>2, ActWorld
<1>4. Acting(me) /\ me.pc = "effect"
  BY <1>2, <1>3 DEF Acts, ActOK, Acting
<1>5. /\ agent_runs[r].checkpoint = me.cp /\ world[r].effects[s] = 0
      /\ Store!UnsafePending(me.cp)
  BY <1>3, <1>4, FreshRow
<1>6. ASSUME NEW t \in Steps, t > s
      PROVE  world[r].calls[t] = 0
  <2>1. world[r].calls[t] \in Nat /\ t \in Nat /\ s \in Nat
    BY TallyRow
  <2>2. ~(world[r].calls[t] > 0)
    BY <1>3, <1>5, <1>6, <2>1 DEF Order, WorldIsCounted
  <2> QED
    BY <2>1, <2>2
<1> QED
  BY <1>3, <1>5, <1>6

\* An unsafe tool acts at most once for a decision, and only while the store
\* holds its call as the pending one of the last decision, for every instance.
THEOREM UnsafeToolsActInOrder == Spec => UnsafeEffectsInOrder
<1>1. Copies /\ Order /\ [Next]_vars =>
        [\A r \in RunIds, s \in Steps :
           world'[r].effects[s] > world[r].effects[s] =>
             /\ world[r].effects[s] = 0
             /\ \A t \in Steps : t > s => world[r].calls[t] = 0
             /\ agent_runs[r].checkpoint.decisions = s
             /\ Store!UnsafePending(agent_runs[r].checkpoint)]_vars
  BY EffectIsStored
<1> QED
  BY <1>1, OrderInductive, PTL DEF Spec, UnsafeEffectsInOrder

-----------------------------------------------------------------------------
(* The third layer: how runs end.                                          *)

\* The third layer of the next state, worker by worker and row by row.
LEMMA EndsFrom ==
  ASSUME \A v \in Workers : WorkerEnds(workers'[v], agent_runs'[workers'[v].run]),
         \A r \in RunIds : RowEnds(agent_runs'[r])
  PROVE  Ends'
<1>1. \A v \in Workers : WorkerEnds(workers[v], Row(v))'
  BY DEF WorkerEnds, Row, Spent, Overdrawn
<1>2. \A r \in RunIds : RowEnds(agent_runs[r])'
  BY DEF RowEnds, Spent, Overdrawn
<1> QED
  BY <1>1, <1>2 DEF Ends, RowEnds

\* A run of a worker exists.
LEMMA BusyRow ==
  ASSUME Copies, NEW w \in Workers, Busy(w)
  PROVE  Row(w).state # "absent"
  BY WorkerRow, StoreRow DEF Copies, Row

\* A spent budget stays spent.
LEMMA KeptSpent ==
  ASSUME Copies, NEW r \in RunIds, Kept(r), Store!IInv', Spent(agent_runs[r])
  PROVE  Spent(agent_runs'[r])
<1>1. agent_runs[r].deadline \in Int
  BY StoreRow DEF Copies, Store!Run
<1>2. agent_runs'[r].deadline \in Int
  BY DEF Store!IInv, Store!TypeOK, Store!Run
<1> QED
  BY <1>1, <1>2 DEF Kept, Spent

\* A row that was kept and ended well still ends well.
LEMMA KeptRowEnds ==
  ASSUME Copies, NEW r \in RunIds, RowEnds(agent_runs[r]), Store!IInv', Kept(r), EndsWell(r)
  PROVE  RowEnds(agent_runs'[r])
<1> DEFINE row == agent_runs[r]
           new == agent_runs'[r]
<1>1. row.state = "absent" => row.checkpoint.final = None
  BY DEF Copies, EmptyCheckpoint
<1>2. new.checkpoint = row.checkpoint /\ (new.input = row.input \/ row.state = "absent")
  BY DEF Kept
<1>3. new.checkpoint.final # None /\ new.input \in DocumentInputs =>
        new.checkpoint.receipt = new.checkpoint.final
  BY <1>1, <1>2 DEF RowEnds
<1>4. new.state = "succeeded" =>
        /\ new.result = new.checkpoint.final /\ new.checkpoint.final = new.checkpoint.decisions
        /\ new.input \in DocumentInputs => new.checkpoint.receipt = new.checkpoint.final
  BY <1>2 DEF RowEnds, EndsWell
<1>5. new.state = "cancelled" => new.cancel
  BY DEF RowEnds, EndsWell, Kept
<1>6. new.state = "exhausted" => Spent(new)
  BY KeptSpent DEF RowEnds, EndsWell, Spent
<1> QED
  BY <1>3, <1>4, <1>5, <1>6 DEF RowEnds

\* A worker that stays as it is, while somebody else changes its row.
LEMMA KeptWorkerEnds ==
  ASSUME Copies, NEW w \in Workers, WorkerEnds(workers[w], Row(w)), Store!IInv',
         Kept(workers[w].run)
  PROVE  WorkerEnds(workers[w], agent_runs'[workers[w].run])
<1> DEFINE me == workers[w]
           row == agent_runs[me.run]
           new == agent_runs'[me.run]
<1>1. me.run \in RunIds
  BY WorkerRow
<1>2. "cancelled" \in {me.error, me.fault} => new.cancel
  BY DEF WorkerEnds, Kept, Row
<1>3. me.pc = "fail" /\ me.error = "limit" /\ new.state = "running" /\ new.token = me.token
      => Spent(new)
  BY <1>1, KeptSpent DEF WorkerEnds, Kept, Row
<1>4. me.pc = "final" => row.state # "absent"
  BY BusyRow DEF Busy, At, Row
<1>5. me.pc = "final" /\ new.input \in DocumentInputs => me.cp.receipt = me.cp.decisions
  BY <1>4 DEF WorkerEnds, Kept, Row
<1> QED
  BY <1>2, <1>3, <1>5 DEF WorkerEnds

\* Rows that were kept, and workers that carry nothing untrue.
LEMMA KeptEnds ==
  ASSUME Copies, Ends, Store!IInv', \A q \in RunIds : Kept(q) /\ RowEnds(agent_runs'[q]),
         \A v \in Workers : \/ workers'[v] = workers[v]
                            \/ WorkerEnds(workers'[v], agent_runs'[workers'[v].run])
  PROVE  Ends'
<1>1. \A v \in Workers : workers[v].run \in RunIds
  BY WorkerRow
<1>2. \A v \in Workers : WorkerEnds(workers[v], agent_runs'[workers[v].run])
  BY <1>1, KeptWorkerEnds DEF Ends
<1> QED
  BY <1>2, EndsFrom

\* A worker that goes on, or gives up for a reason that is true.
LEMMA MovesEnds ==
  ASSUME Copies, Ends, Store!IInv', NEW w \in Workers, NEW new,
         Moves(w, new) \/ Asks(w, new) \/ Acts(w, new)
  PROVE  Ends'
<1> DEFINE me == workers[w]
           row == agent_runs[me.run]
           then == agent_runs'[me.run]
<1>0. Store!IInv /\ me.run \in RunIds
  BY WorkerRow DEF Copies
<1>1. \A q \in RunIds : Kept(q) /\ EndsWell(q)
  <2>1. CASE UNCHANGED stored
    BY <1>0, <2>1, Untouched DEF stored
  <2>2. CASE Store!Guard(me.run, Row(w).tenant, me.token)
    BY <1>0, <2>2, GuardRow
  <2> QED
    BY <2>1, <2>2 DEF Moves, Asks, Acts
<1>2. \A q \in RunIds : RowEnds(agent_runs'[q])
  BY <1>1, KeptRowEnds DEF Ends
<1>3. /\ Goes(me, new) /\ Set(w, new) /\ new \in Worker
      /\ "cancelled" \in {new.error, new.fault} =>
           "cancelled" \in {me.error, me.fault} \/ row.cancel
      /\ new.pc = "final" => new.cp = me.cp /\ (me.pc = "final" \/ row.input \notin DocumentInputs)
      /\ new.pc = "fail" /\ new.error = "limit" =>
           \/ me.pc = "fail" /\ me.error = "limit"
           \/ me.pc # "fail" /\ (Current(w) => Spent(row))
  BY DEF Moves, MoveOK, Asks, AskOK, Acts, ActOK, Goes, LocalOK, Row
<1>4. workers'[w] = new /\ \A v \in Workers : v # w => workers'[v] = workers[v]
  BY <1>3, SetWorker
<1>5. new.run = me.run /\ new.token = me.token /\ me.pc # "idle"
  BY <1>3 DEF Goes
<1>6. WorkerEnds(me, then) /\ WorkerEnds(me, row)
  BY <1>0, <1>1, KeptWorkerEnds DEF Ends, Row
<1>7. "cancelled" \in {new.error, new.fault} => then.cancel
  BY <1>0, <1>1, <1>3, <1>6 DEF WorkerEnds, Kept
<1>8. ASSUME new.pc = "fail", new.error = "limit", then.state = "running", then.token = me.token
      PROVE  Spent(then)
  <2>1. row.state = "running" /\ row.token = me.token
    BY <1>0, <1>1, <1>8 DEF Kept
  <2>2. CASE me.pc = "fail" /\ me.error = "limit"
    BY <1>6, <1>8, <2>2 DEF WorkerEnds
  <2>3. CASE me.pc # "fail" /\ (Current(w) => Spent(row))
    <3>1. Spent(row)
      BY <1>5, <2>1, <2>3 DEF Current, Row
    <3> QED
      BY <1>0, <1>1, <3>1, KeptSpent
  <2> QED
    BY <1>3, <1>8, <2>2, <2>3
<1>9. new.pc = "final" /\ then.input \in DocumentInputs => new.cp.receipt = new.cp.decisions
  <2>1. row.state # "absent"
    BY <1>5, BusyRow DEF Busy, At, Row
  <2>2. then.input = row.input
    BY <1>0, <1>1, <2>1 DEF Kept
  <2> QED
    BY <1>3, <1>6, <2>2 DEF WorkerEnds
<1>10. WorkerEnds(new, then)
  BY <1>5, <1>7, <1>8, <1>9 DEF WorkerEnds
<1> QED
  BY <1>1, <1>2, <1>4, <1>5, <1>10, KeptEnds

\* The row ends as reported, or as cancelled.
LEMMA FinishOutcome ==
  ASSUME Store!IInv, NEW r \in RunIds, NEW n, NEW token, NEW s \in Store!FinishStates, NEW res,
         Store!Finish(r, n, token, s, res)
  PROVE  \/ agent_runs'[r].state = "cancelled" /\ agent_runs'[r].cancel
         \/ agent_runs'[r].state = s /\ agent_runs'[r].result = res
  BY FinishRow

\* The end of an attempt: its report is true of the stored row.
LEMMA StopsEnds ==
  ASSUME Copies, Ends, Store!IInv', NEW w \in Workers, Stops(w)
  PROVE  Ends'
<1> DEFINE me == workers[w]
           r == me.run
           row == agent_runs[r]
           then == agent_runs'[r]
<1>0. Store!IInv /\ r \in RunIds
  BY WorkerRow DEF Copies
<1>1. \A q \in RunIds : Kept(q)
  BY KeptRows
<1>2. workers'[w] = Idle /\ \A v \in Workers : v # w => workers'[v] = workers[v]
  BY SetWorker, IdleOK DEF Stops
<1>3. Idle.pc = "idle" /\ Idle.error = "none" /\ Idle.fault = "none"
  BY DEF Idle
<1>4. WorkerEnds(Idle, agent_runs'[Idle.run])
  BY <1>3 DEF WorkerEnds
<1>5. WorkerEnds(me, row) /\ WorkerEnds(me, then) /\ RowEnds(row)
  BY <1>0, <1>1, KeptWorkerEnds DEF Ends, Row
<1>6. CASE UNCHANGED stored
  <2>1. \A q \in RunIds : RowEnds(agent_runs'[q])
    BY <1>6 DEF Ends, stored
  <2> QED
    BY <1>1, <1>2, <1>4, <2>1, KeptEnds
<1>7. ASSUME NEW s, NEW res, Reports(w, s, res)
      PROVE  Ends'
  <2>1. /\ \A q \in RunIds : q # r => EndsWell(q)
        /\ \/ then.state = "cancelled" /\ then.cancel
           \/ then.state = s /\ then.result = res
        /\ row.state = "running" /\ row.token = me.token
    <3>1. s \in Store!FinishStates /\ Store!Finish(r, Row(w).tenant, me.token, s, res)
      BY <1>7 DEF Reports
    <3> HIDE DEF r
    <3>2. \A q \in RunIds : q # r => EndsWell(q)
      BY <1>0, <3>1, FinishRow
    <3>3. \/ then.state = "cancelled" /\ then.cancel
          \/ then.state = s /\ then.result = res
      BY <1>0, <3>1, FinishOutcome
    <3>4. row.state = "running" /\ row.token = me.token
      BY <3>1 DEF Store!Finish, Store!Owned, Store!LeaseLive
    <3> QED
      BY <3>2, <3>3, <3>4
  <2>2. then.checkpoint = row.checkpoint /\ then.input = row.input
    BY <1>0, <1>1, <2>1 DEF Kept
  <2>3. \/ s = "succeeded" /\ me.pc = "finish" /\ res = me.cp.final
        \/ /\ me.pc = "fail" /\ s # "succeeded"
           /\ s = "cancelled" => me.error = "cancelled"
           /\ s = "exhausted" => me.error = "limit"
    BY <1>7 DEF Reports, FailState
  <2>4. ASSUME then.state = "succeeded"
        PROVE  /\ then.result = then.checkpoint.final
               /\ then.checkpoint.final = then.checkpoint.decisions
               /\ then.input \in DocumentInputs =>
                    then.checkpoint.receipt = then.checkpoint.final
    <3>1. s = "succeeded" /\ me.pc = "finish" /\ then.result = me.cp.final
      BY <2>1, <2>3, <2>4
    <3>2. me.cp = row.checkpoint
      BY <2>1, <3>1 DEF Copies, LocalMirrorsStored, Current, Row
    <3>3. me.cp.final # None /\ me.cp.final = me.cp.decisions
      BY <3>1, WorkerRow DEF LocalOK, CpOK
    <3> QED
      BY <1>5, <2>2, <3>1, <3>2, <3>3 DEF RowEnds
  <2>5. then.state = "cancelled" => then.cancel
    BY <1>5, <2>1, <2>3 DEF WorkerEnds
  <2>6. ASSUME then.state = "exhausted"
        PROVE  Spent(then)
    <3>1. me.pc = "fail" /\ me.error = "limit"
      BY <2>1, <2>3, <2>6
    <3>2. Spent(row)
      BY <1>5, <2>1, <3>1 DEF WorkerEnds
    <3> QED
      BY <1>0, <1>1, <3>2, KeptSpent
  <2>7. RowEnds(then)
    BY <1>5, <2>2, <2>4, <2>5, <2>6 DEF RowEnds
  <2>8. \A q \in RunIds : RowEnds(agent_runs'[q])
    BY <1>1, <2>1, <2>7, KeptRowEnds DEF Ends
  <2> QED
    BY <1>1, <1>2, <1>4, <2>8, KeptEnds
<1> QED
  BY <1>6, <1>7 DEF Stops

\* A save: an answer is kept only after its review.
LEMMA SavesEnds ==
  ASSUME Copies, Ends, NEW w \in Workers, NEW cp, NEW new, Saves(w, cp, new)
  PROVE  Ends'
<1> DEFINE me == workers[w]
           r == me.run
           row == agent_runs[r]
           then == agent_runs'[r]
<1>0. Store!IInv /\ r \in RunIds /\ Goes(me, new) /\ new.cp = cp /\ me.cp = row.checkpoint
  BY WorkerRow, SaverIsCurrent DEF Copies, Saves, SaveOK, Row
<1>1. /\ then.checkpoint = cp /\ then.cancel = row.cancel /\ then.input = row.input
      /\ then.state = "running" /\ then.token = me.token
      /\ \A q \in RunIds : q # r => agent_runs'[q] = agent_runs[q]
  BY <1>0, CheckpointRow DEF Saves
<1>2. new \in Worker /\ new.run = r /\ me.pc # "idle"
  BY <1>0 DEF Goes, LocalOK
<1>3. workers'[w] = new /\ \A v \in Workers : v # w => workers'[v] = workers[v]
  BY <1>2, SetWorker DEF Saves
<1>4. WorkerEnds(me, row) /\ RowEnds(row)
  BY <1>0 DEF Ends, Row
<1>5. WorkerEnds(new, then)
  <2>1. "cancelled" \in {new.error, new.fault} => then.cancel
    BY <1>1, <1>4 DEF Saves, SaveOK, WorkerEnds
  <2>2. new.pc = "fail" /\ new.error = "limit" => Spent(then)
    BY <1>1 DEF Saves, SaveOK, Spent
  <2>3. new.pc = "final" => new.cp.receipt = new.cp.decisions
    BY <1>0 DEF Saves, SaveOK
  <2> QED
    BY <2>1, <2>2, <2>3 DEF WorkerEnds
<1>6. RowEnds(then)
  <2>1. cp.final # None => /\ cp.receipt = me.cp.receipt
                           /\ \/ cp.final = me.cp.final
                              \/ me.pc = "final" /\ cp.final = me.cp.decisions
    BY DEF Saves, SaveOK
  <2>2. cp.final # None /\ row.input \in DocumentInputs => cp.receipt = cp.final
    BY <1>0, <1>4, <2>1 DEF RowEnds, WorkerEnds
  <2> QED
    BY <1>1, <2>2 DEF RowEnds
<1>7. ASSUME NEW v \in Workers, v # w
      PROVE  WorkerEnds(workers[v], agent_runs'[workers[v].run])
  <2>1. workers[v].run \in RunIds /\ WorkerEnds(workers[v], agent_runs[workers[v].run])
    BY WorkerRow DEF Ends, Row
  <2>2. CASE workers[v].run # r
    BY <1>1, <2>1, <2>2
  <2>3. CASE workers[v].run = r
    <3>1. workers[v].pc = "fail" => workers[v].token # me.token
      BY <1>2, <1>7, <2>3 DEF Copies, TokensUnique, Busy, At
    <3> QED
      BY <1>1, <2>1, <2>3, <3>1 DEF WorkerEnds
  <2> QED
    BY <2>2, <2>3
<1>8. \A q \in RunIds : RowEnds(agent_runs'[q])
  BY <1>1, <1>6 DEF Ends
<1> QED
  BY <1>2, <1>3, <1>5, <1>7, <1>8, EndsFrom

\* A claim: nobody else has the new token.
LEMMA StartsEnds ==
  ASSUME Copies, Ends, NEW w \in Workers, NEW r \in RunIds, NEW new, Starts(w, r, new)
  PROVE  Ends'
<1> DEFINE row == agent_runs[r]
           then == agent_runs'[r]
<1>0. Store!IInv /\ row.attempts \in Nat
  BY StoreRow DEF Copies
<1>1. /\ then.checkpoint = row.checkpoint /\ then.cancel = row.cancel /\ then.input = row.input
      /\ then.state = "running" /\ then.token = row.attempts + 1
      /\ \A q \in RunIds : q # r => agent_runs'[q] = agent_runs[q]
  BY <1>0, ClaimRow DEF Starts
<1>2. new \in Worker /\ new.pc = "limits" /\ new.error = "none" /\ new.fault = "none"
  BY DEF Starts, LocalOK
<1>3. workers'[w] = new /\ \A v \in Workers : v # w => workers'[v] = workers[v]
  BY <1>2, SetWorker DEF Starts
<1>4. WorkerEnds(new, agent_runs'[new.run])
  BY <1>2 DEF WorkerEnds
<1>5. RowEnds(then)
  BY <1>1 DEF Ends, RowEnds
<1>6. ASSUME NEW v \in Workers
      PROVE  WorkerEnds(workers[v], agent_runs'[workers[v].run])
  <2>1. workers[v].run \in RunIds /\ WorkerEnds(workers[v], agent_runs[workers[v].run])
    BY WorkerRow DEF Ends, Row
  <2>2. CASE workers[v].run # r
    BY <1>1, <2>1, <2>2
  <2>3. CASE workers[v].run = r
    <3>1. workers[v].pc = "fail" => workers[v].token \in 1 .. row.attempts
      BY <2>3, WorkerRow DEF Busy, At, Row
    <3>2. workers[v].pc = "fail" => workers[v].token # row.attempts + 1
      BY <1>0, <3>1
    <3> QED
      BY <1>1, <2>1, <2>3, <3>2 DEF WorkerEnds
  <2> QED
    BY <2>2, <2>3
<1>7. \A q \in RunIds : RowEnds(agent_runs'[q])
  BY <1>1, <1>5 DEF Ends
<1> QED
  BY <1>3, <1>4, <1>6, <1>7, EndsFrom

\* The third layer is inductive on top of the first.
LEMMA StepEnds ==
  ASSUME Copies, Ends, [Next]_vars
  PROVE  Ends'
<1>1. Store!IInv'
  BY StepCopies DEF Copies
<1>2. CASE Quiet
  <2>1. \A q \in RunIds : Kept(q) /\ RowEnds(agent_runs'[q])
    BY <1>1, <1>2, KeptRowEnds DEF Ends, Quiet
  <2> QED
    BY <1>1, <1>2, <2>1, KeptEnds DEF Quiet
<1> QED
  BY <1>1, <1>2, StepIs, MovesEnds, StopsEnds, SavesEnds, StartsEnds DEF Kinds

\* No run has ended, and no worker has started.
LEMMA InitEnds == Init => Ends
<1> SUFFICES ASSUME Init PROVE Ends
  OBVIOUS
<1>1. Idle.pc = "idle" /\ Idle.error = "none" /\ Idle.fault = "none"
  BY DEF Idle
<1>2. \A w \in Workers : WorkerEnds(workers[w], Row(w))
  BY <1>1 DEF Init, WorkerEnds
<1>3. EmptyCheckpoint.final = None
  BY DEF EmptyCheckpoint
<1>4. \A r \in RunIds : agent_runs[r].state = "absent" /\ agent_runs[r].checkpoint = EmptyCheckpoint
  BY DEF Init, Store!Init, Store!Absent, Store!NewRun
<1> QED
  BY <1>2, <1>3, <1>4 DEF Ends, RowEnds

\* The reasons workers carry and rows give are true.
THEOREM EndsInductive == Spec => [](Copies /\ Ends)
<1>1. Init => Copies /\ Ends
  BY InitCopies, InitEnds
<1>2. Copies /\ Ends /\ [Next]_vars => (Copies /\ Ends)'
  BY StepCopies, StepEnds
<1> QED
  BY <1>1, <1>2, PTL DEF Spec

\* The result of a run is the last decision its checkpoint counts, and that of
\* a document question carries its own review's receipt, for every instance.
THEOREM ResultsAreCheckpointed == Spec => []ResultIsCheckpointed
<1>1. Ends => ResultIsCheckpointed
  BY DEF Ends, RowEnds, ResultIsCheckpointed
<1> QED
  BY <1>1, EndsInductive, PTL

\* A run is reported cancelled only when asked for, and exhausted only for a
\* spent limit, for every instance.
THEOREM RunsEndForAReason == Spec => []EndsForAReason
<1>1. Ends => EndsForAReason
  BY DEF Ends, RowEnds, Spent, Overdrawn, EndsForAReason
<1> QED
  BY <1>1, EndsInductive, PTL

-----------------------------------------------------------------------------
(* The fourth layer: what is spent was reserved.                           *)

\* The counters the fourth layer compares.
LEMMA RowNumbers ==
  ASSUME Copies, NEW r \in RunIds
  PROVE  LET cp == agent_runs[r].checkpoint IN
         /\ cp \in Checkpoints /\ cp.reserved \in Nat /\ world[r].spent \in Nat
         /\ cp.limits # NoLimits => cp.limits.tokens \in Nat
<1> DEFINE cp == agent_runs[r].checkpoint
<1>1. cp \in Checkpoints
  BY DEF Copies, CpOK
<1>2. cp.reserved \in Nat /\ cp.limits \in Settings \cup {NoLimits}
  BY <1>1, CpFields
<1>3. world[r] \in Tally
  BY DEF Copies, TypeOK, Tally
<1>4. world[r].spent \in Nat
  BY <1>3 DEF Tally
<1>5. cp.limits # NoLimits => cp.limits.tokens \in Nat
  BY <1>2, WorkerConstants
<1> QED
  BY <1>1, <1>2, <1>4, <1>5

\* The units of a worker are as many as its reservation, and stored.
LEMMA UnitsRow ==
  ASSUME Copies, Covered, NEW w \in Workers, NEW r \in RunIds
  PROVE  LET me == workers[w] IN
         /\ Units(me, r) \subseteq 1 .. agent_runs[r].checkpoint.reserved
         /\ IsFiniteSet(Units(me, r)) /\ Cardinality(Units(me, r)) \in Nat
         /\ me.pc = "invoke" /\ me.run = r => Cardinality(Units(me, r)) = me.estimate
<1> DEFINE me == workers[w]
           top == me.cp.reserved
           n == me.estimate
<1>1. CASE ~(me.pc = "invoke" /\ me.run = r)
  BY <1>1, FS_EmptySet DEF Units
<1>2. CASE me.pc = "invoke" /\ me.run = r
  <2>1. top \in Nat /\ n \in Nat /\ agent_runs[r].checkpoint.reserved \in Nat
    BY WorkerRow, RowNumbers, CpFields
  <2>2. n <= top /\ top <= agent_runs[r].checkpoint.reserved
    BY <1>2 DEF Covered, At, Row
  <2>3. Units(me, r) = (top - n + 1) .. top
    BY <1>2 DEF Units
  <2> HIDE DEF top, n
  <2>4. Units(me, r) \subseteq 1 .. agent_runs[r].checkpoint.reserved
    BY <2>1, <2>2, <2>3
  <2>5. /\ IsFiniteSet((top - n + 1) .. top)
        /\ Cardinality((top - n + 1) .. top) =
             IF top - n + 1 > top THEN 0 ELSE top - (top - n + 1) + 1
    <3>1. top - n + 1 \in Int /\ top \in Int
      BY <2>1
    <3> QED
      BY <3>1, FS_Interval
  <2>6. Cardinality((top - n + 1) .. top) = n
    BY <2>1, <2>5
  <2> QED
    BY <2>1, <2>3, <2>4, <2>5, <2>6 DEF n
<1> QED
  BY <1>1, <1>2

\* So there are finitely many in flight, whatever the number of workers.
LEMMA HeldRow ==
  ASSUME Copies, Covered, NEW r \in RunIds
  PROVE  /\ IsFiniteSet(Held(r)) /\ Cardinality(Held(r)) \in Nat
         /\ Held(r) \subseteq 1 .. agent_runs[r].checkpoint.reserved
<1> DEFINE top == agent_runs[r].checkpoint.reserved
<1>1. Held(r) \subseteq 1 .. top
  BY UnitsRow DEF Held
<1>2. top \in Nat
  BY RowNumbers
<1>3. IsFiniteSet(1 .. top)
  <2>1. 1 \in Int /\ top \in Int
    BY <1>2
  <2> QED
    BY <2>1, FS_Interval
<1> QED
  BY <1>1, <1>3, FS_Subset, FS_CardinalityType

\* The fourth layer of the next state.
LEMMA CoverFrom ==
  ASSUME \A r \in RunIds, v, u \in Workers : v # u =>
           Units(workers'[v], r) \cap Units(workers'[u], r) = {},
         \A v \in Workers : LET me == workers'[v] IN
           me.pc = "invoke" => /\ me.estimate <= me.cp.reserved
                               /\ me.cp.reserved <= agent_runs'[me.run].checkpoint.reserved,
         \A r \in RunIds :
           LET cp == agent_runs'[r].checkpoint used == world'[r].spent + Cardinality(Held(r)') IN
           /\ used <= cp.reserved
           /\ used > 0 => cp.limits # NoLimits /\ used <= cp.limits.tokens
  PROVE  Covered'
<1>1. UnitsAreDisjoint'
  BY DEF UnitsAreDisjoint, Units
<1>2. \A v \in Workers : At(v, "invoke")' =>
       /\ workers'[v].estimate <= workers'[v].cp.reserved
       /\ workers'[v].cp.reserved <= Row(v)'.checkpoint.reserved
  BY DEF At, Row
<1> QED
  BY <1>1, <1>2 DEF Covered, Held, Units

\* Where no more is used and the checkpoint only grows, the budget still holds.
LEMMA UsedShrinks ==
  ASSUME Copies, Covered, NEW r \in RunIds,
         Grows(agent_runs[r].checkpoint, agent_runs'[r].checkpoint),
         agent_runs'[r].checkpoint \in Checkpoints,
         NEW used \in Nat, used <= world[r].spent + Cardinality(Held(r))
  PROVE  LET cp == agent_runs'[r].checkpoint IN
         /\ used <= cp.reserved
         /\ used > 0 => cp.limits # NoLimits /\ used <= cp.limits.tokens
<1> DEFINE old == agent_runs[r].checkpoint
           cp == agent_runs'[r].checkpoint
           was == world[r].spent + Cardinality(Held(r))
<1>1. was \in Nat /\ old.reserved \in Nat /\ (old.limits # NoLimits => old.limits.tokens \in Nat)
  BY RowNumbers, HeldRow
<1>2. cp.reserved \in Nat
  BY CpFields
<1>3. was <= old.reserved /\ (was > 0 => old.limits # NoLimits /\ was <= old.limits.tokens)
  BY DEF Covered
<1>4. old.reserved <= cp.reserved /\ (old.limits # NoLimits => cp.limits = old.limits)
  BY DEF Grows
<1> HIDE DEF was, old, cp
<1>5. used <= was
  BY DEF was
<1>6. used <= cp.reserved
  BY <1>1, <1>2, <1>3, <1>4, <1>5
<1>7. used > 0 => cp.limits # NoLimits /\ used <= cp.limits.tokens
  BY <1>1, <1>3, <1>4, <1>5
<1> QED
  BY <1>6, <1>7 DEF cp

\* Units that are given up, or kept, leave no more in flight.
LEMMA HeldShrinks ==
  ASSUME Copies, Covered, NEW r \in RunIds,
         \A v \in Workers : Units(workers'[v], r) \subseteq Units(workers[v], r)
  PROVE  Cardinality(Held(r)') \in Nat /\ Cardinality(Held(r)') <= Cardinality(Held(r))
<1>1. Held(r)' \subseteq Held(r)
  <2>1. Held(r)' = UNION {Units(workers'[v], r) : v \in Workers}
    BY DEF Held, Units
  <2> QED
    BY <2>1 DEF Held
<1> HIDE DEF Held
<1>2. IsFiniteSet(Held(r))
  BY HeldRow
<1> QED
  BY <1>1, <1>2, FS_Subset, FS_CardinalityType

\* Nobody reserves or spends anything.
LEMMA KeptCovered ==
  ASSUME Copies, Copies', Covered,
         \A q \in RunIds : /\ agent_runs'[q].checkpoint = agent_runs[q].checkpoint
                           /\ world'[q].spent = world[q].spent,
         \A v \in Workers : LET me == workers[v] new == workers'[v] IN
           \/ new.pc # "invoke"
           \/ /\ me.pc = "invoke" /\ new.run = me.run /\ new.cp = me.cp
              /\ new.estimate = me.estimate
  PROVE  Covered'
<1>1. \A q \in RunIds, v \in Workers : Units(workers'[v], q) \subseteq Units(workers[v], q)
  BY DEF Units
<1>2. \A q \in RunIds, v, u \in Workers : v # u =>
        Units(workers'[v], q) \cap Units(workers'[u], q) = {}
  BY <1>1 DEF Covered, UnitsAreDisjoint
<1>3. \A v \in Workers : LET me == workers'[v] IN
        me.pc = "invoke" => /\ me.estimate <= me.cp.reserved
                            /\ me.cp.reserved <= agent_runs'[me.run].checkpoint.reserved
  BY WorkerRow DEF Covered, At, Row
<1>4. ASSUME NEW q \in RunIds
      PROVE  LET cp == agent_runs'[q].checkpoint
                 used == world'[q].spent + Cardinality(Held(q)') IN
             /\ used <= cp.reserved
             /\ used > 0 => cp.limits # NoLimits /\ used <= cp.limits.tokens
  <2> DEFINE used == world'[q].spent + Cardinality(Held(q)')
  <2>1. Cardinality(Held(q)') \in Nat /\ Cardinality(Held(q)') <= Cardinality(Held(q))
    BY <1>1, HeldShrinks
  <2>2. world'[q].spent = world[q].spent /\ world[q].spent \in Nat /\ Cardinality(Held(q)) \in Nat
    BY RowNumbers, HeldRow
  <2>3. used \in Nat /\ used <= world[q].spent + Cardinality(Held(q))
    BY <2>1, <2>2
  <2>4. /\ agent_runs'[q].checkpoint \in Checkpoints
        /\ Grows(agent_runs[q].checkpoint, agent_runs'[q].checkpoint)
    BY RowNumbers, SameGrows
  <2> HIDE DEF used
  <2>5. LET cp == agent_runs'[q].checkpoint IN
        /\ used <= cp.reserved
        /\ used > 0 => cp.limits # NoLimits /\ used <= cp.limits.tokens
    BY <2>3, <2>4, UsedShrinks
  <2> QED
    BY <2>5 DEF used
<1> QED
  BY <1>2, <1>3, <1>4, CoverFrom

\* A call spends the units that were held for it, and nobody else's.
LEMMA AsksCovered ==
  ASSUME Copies, Copies', Covered, NEW w \in Workers, NEW new, Asks(w, new)
  PROVE  Covered'
<1> DEFINE me == workers[w]
           r == me.run
           mine == Units(me, r)
<1>0. /\ Goes(me, new) /\ me.pc = "invoke" /\ new.pc # "invoke" /\ new \in Worker
  BY DEF Asks, AskOK, Goes, LocalOK
<1>1. agent_runs' = agent_runs
  BY DEF Asks, stored
<1>2. workers'[w] = new /\ \A v \in Workers : v # w => workers'[v] = workers[v]
  BY <1>0, SetWorker DEF Asks
<1>3. /\ r \in RunIds /\ \A q \in RunIds : q # r => world'[q] = world[q]
      /\ world'[r].spent = world[r].spent + me.estimate
  BY AskWorld
<1>4. \A q \in RunIds, v \in Workers : Units(workers'[v], q) \subseteq Units(workers[v], q)
  BY <1>0, <1>2 DEF Units
<1>5. \A q \in RunIds, v, u \in Workers : v # u =>
        Units(workers'[v], q) \cap Units(workers'[u], q) = {}
  BY <1>4 DEF Covered, UnitsAreDisjoint
<1>6. \A v \in Workers : LET him == workers'[v] IN
        him.pc = "invoke" => /\ him.estimate <= him.cp.reserved
                             /\ him.cp.reserved <= agent_runs'[him.run].checkpoint.reserved
  BY <1>0, <1>1, <1>2 DEF Covered, At, Row
<1>7. ASSUME NEW q \in RunIds
      PROVE  LET used == world'[q].spent + Cardinality(Held(q)') IN
             used \in Nat /\ used <= world[q].spent + Cardinality(Held(q))
  <2>1. CASE q # r
    <3>1. Cardinality(Held(q)') \in Nat /\ Cardinality(Held(q)') <= Cardinality(Held(q))
      BY <1>4, HeldShrinks
    <3>2. world'[q].spent = world[q].spent /\ world[q].spent \in Nat /\ Cardinality(Held(q)) \in Nat
      BY <1>3, <2>1, RowNumbers, HeldRow
    <3> QED
      BY <3>1, <3>2
  <2>2. CASE q = r
    <3>1. /\ mine \subseteq Held(q) /\ IsFiniteSet(mine) /\ Cardinality(mine) = me.estimate
          /\ me.estimate \in Nat
      BY <1>0, <1>3, <2>2, UnitsRow, WorkerRow DEF Held
    <3>2. Held(q)' \subseteq Held(q) \ mine
      <4>1. Held(q)' = UNION {Units(workers'[v], q) : v \in Workers}
        BY DEF Held, Units
      <4>2. Units(new, q) = {}
        BY <1>0 DEF Units
      <4>3. \A v \in Workers : v # w =>
              Units(workers'[v], q) \subseteq Held(q) /\ Units(workers'[v], q) \cap mine = {}
        BY <1>2, <1>3, <2>2 DEF Covered, UnitsAreDisjoint, Held
      <4> QED
        BY <1>2, <4>1, <4>2, <4>3
    <3>3. IsFiniteSet(Held(q)) /\ Cardinality(Held(q)) \in Nat
      BY HeldRow
    <3> DEFINE had == Held(q)
               has == Held(q)'
    <3> HIDE DEF mine, had, has
    <3>4. had \cap mine = mine /\ IsFiniteSet(had) /\ has \subseteq had \ mine
      BY <3>1, <3>2, <3>3 DEF had, has
    <3>5. IsFiniteSet(had \ mine) /\ Cardinality(had \ mine) = Cardinality(had) - Cardinality(mine)
      BY <3>4, FS_Difference
    <3>6. Cardinality(has) \in Nat /\ Cardinality(has) <= Cardinality(had \ mine)
      BY <3>4, <3>5, FS_Subset, FS_CardinalityType
    <3>7. world[q].spent \in Nat
      BY RowNumbers
    <3>8. /\ world'[q].spent + Cardinality(has) \in Nat
          /\ world'[q].spent + Cardinality(has) <= world[q].spent + Cardinality(had)
      BY <1>3, <2>2, <3>1, <3>3, <3>5, <3>6, <3>7 DEF had
    <3> QED
      BY <3>8 DEF had, has
  <2> QED
    BY <2>1, <2>2
<1>8. ASSUME NEW q \in RunIds
      PROVE  LET cp == agent_runs'[q].checkpoint
                 used == world'[q].spent + Cardinality(Held(q)') IN
             /\ used <= cp.reserved
             /\ used > 0 => cp.limits # NoLimits /\ used <= cp.limits.tokens
  <2> DEFINE used == world'[q].spent + Cardinality(Held(q)')
  <2>1. used \in Nat /\ used <= world[q].spent + Cardinality(Held(q))
    BY <1>7
  <2>2. /\ agent_runs'[q].checkpoint \in Checkpoints
        /\ Grows(agent_runs[q].checkpoint, agent_runs'[q].checkpoint)
    BY <1>1, RowNumbers, SameGrows
  <2> HIDE DEF used
  <2>3. LET cp == agent_runs'[q].checkpoint IN
        /\ used <= cp.reserved
        /\ used > 0 => cp.limits # NoLimits /\ used <= cp.limits.tokens
    BY <2>1, <2>2, UsedShrinks
  <2> QED
    BY <2>3 DEF used
<1> QED
  BY <1>5, <1>6, <1>8, CoverFrom

\* A reservation adds units above all the ones held so far, within the ceiling.
LEMMA SavesCovered ==
  ASSUME Copies, Copies', Covered, NEW w \in Workers, NEW cp, NEW new, Saves(w, cp, new)
  PROVE  Covered'
<1> DEFINE me == workers[w]
           r == me.run
           low == agent_runs[r].checkpoint.reserved
           top == cp.reserved
<1>0. /\ Store!IInv /\ r \in RunIds /\ Goes(me, new) /\ new.cp = cp
      /\ me.cp = agent_runs[r].checkpoint /\ Grows(me.cp, cp)
  BY WorkerRow, SaverIsCurrent DEF Copies, Saves, SaveOK, Row
<1>1. /\ agent_runs'[r].checkpoint = cp
      /\ \A q \in RunIds : q # r => agent_runs'[q] = agent_runs[q]
  BY <1>0, CheckpointRow DEF Saves
<1>2. new \in Worker /\ new.run = r /\ cp \in Checkpoints /\ new.estimate \in Nat
  BY <1>0 DEF Goes, LocalOK, CpOK, Worker
<1>3. workers'[w] = new /\ \A v \in Workers : v # w => workers'[v] = workers[v]
  BY <1>2, SetWorker DEF Saves
<1>4. world' = world
  BY DEF Saves
<1>5. low \in Nat /\ top \in Nat /\ low <= top
  BY <1>0, <1>2, RowNumbers, CpFields DEF Grows
<1>6. new.pc = "invoke" => /\ top = low + new.estimate
                           /\ cp.limits # NoLimits /\ top <= cp.limits.tokens
  BY <1>0 DEF Saves, SaveOK
<1>7. \A q \in RunIds : q # r => Units(new, q) = {}
  BY <1>2 DEF Units
<1>8. Units(new, r) = IF new.pc = "invoke" THEN (low + 1) .. top ELSE {}
  <2>1. CASE new.pc = "invoke"
    <3>1. top - new.estimate + 1 = low + 1
      BY <1>2, <1>5, <1>6, <2>1
    <3> QED
      BY <1>0, <1>2, <2>1, <3>1 DEF Units
  <2>2. CASE new.pc # "invoke"
    BY <2>2 DEF Units
  <2> QED
    BY <2>1, <2>2
<1>9. \A v \in Workers : Units(workers[v], r) \subseteq 1 .. low
  BY <1>0, UnitsRow
<1>10. \A v \in Workers : Units(workers[v], r) \cap Units(new, r) = {}
  <2>1. (1 .. low) \cap ((low + 1) .. top) = {}
    BY <1>5
  <2> QED
    BY <1>8, <1>9, <2>1
<1>11. \A q \in RunIds, v, u \in Workers : v # u =>
        Units(workers'[v], q) \cap Units(workers'[u], q) = {}
  BY <1>3, <1>7, <1>10 DEF Covered, UnitsAreDisjoint
<1>12. ASSUME NEW v \in Workers, workers'[v].pc = "invoke"
       PROVE  /\ workers'[v].estimate <= workers'[v].cp.reserved
              /\ workers'[v].cp.reserved <= agent_runs'[workers'[v].run].checkpoint.reserved
  <2>1. CASE v = w
    BY <1>0, <1>1, <1>2, <1>3, <1>5, <1>6, <1>12, <2>1
  <2>2. CASE v # w
    <3>1. /\ workers'[v] = workers[v] /\ workers[v].estimate <= workers[v].cp.reserved
          /\ workers[v].cp.reserved <= agent_runs[workers[v].run].checkpoint.reserved
          /\ workers[v].cp.reserved \in Nat /\ workers[v].run \in RunIds
      BY <1>3, <1>12, <2>2, WorkerRow, CpFields DEF Covered, At, Row
    <3> QED
      BY <1>1, <1>5, <3>1
  <2> QED
    BY <2>1, <2>2
<1>13. ASSUME NEW q \in RunIds, q # r \/ new.pc # "invoke"
       PROVE  LET now == agent_runs'[q].checkpoint
                  used == world'[q].spent + Cardinality(Held(q)') IN
              /\ used <= now.reserved
              /\ used > 0 => now.limits # NoLimits /\ used <= now.limits.tokens
  <2> DEFINE used == world'[q].spent + Cardinality(Held(q)')
  <2>1. \A v \in Workers : Units(workers'[v], q) \subseteq Units(workers[v], q)
    BY <1>3, <1>7, <1>8, <1>13
  <2>2. Cardinality(Held(q)') \in Nat /\ Cardinality(Held(q)') <= Cardinality(Held(q))
    BY <2>1, HeldShrinks
  <2>3. world'[q].spent = world[q].spent /\ world[q].spent \in Nat /\ Cardinality(Held(q)) \in Nat
    BY <1>4, RowNumbers, HeldRow
  <2>4. used \in Nat /\ used <= world[q].spent + Cardinality(Held(q))
    BY <2>2, <2>3
  <2>5. /\ agent_runs'[q].checkpoint \in Checkpoints
        /\ Grows(agent_runs[q].checkpoint, agent_runs'[q].checkpoint)
    BY <1>0, <1>1, <1>2, RowNumbers, SameGrows
  <2> HIDE DEF used
  <2>6. LET now == agent_runs'[q].checkpoint IN
        /\ used <= now.reserved
        /\ used > 0 => now.limits # NoLimits /\ used <= now.limits.tokens
    BY <2>4, <2>5, UsedShrinks
  <2> QED
    BY <2>6 DEF used
<1>14. ASSUME NEW q \in RunIds, q = r, new.pc = "invoke"
       PROVE  LET used == world'[q].spent + Cardinality(Held(q)') IN
              /\ used <= cp.reserved
              /\ used > 0 => cp.limits # NoLimits /\ used <= cp.limits.tokens
  <2> DEFINE had == Held(q)
             has == Held(q)'
             more == (low + 1) .. top
  <2>1. has \subseteq had \cup more
    <3>1. has = UNION {Units(workers'[v], q) : v \in Workers}
      BY DEF Held, Units
    <3> QED
      BY <1>3, <1>8, <1>14, <3>1 DEF Held
  <2>2. IsFiniteSet(had) /\ Cardinality(had) \in Nat /\ had \cap more = {}
    <3>1. had \subseteq 1 .. low
      BY <1>14, HeldRow
    <3> QED
      BY <1>5, <3>1, HeldRow
  <2>3. IsFiniteSet(more) /\ Cardinality(more) = top - low
    <3>1. low + 1 \in Int /\ top \in Int
      BY <1>5
    <3> HIDE DEF low, top
    <3>2. IsFiniteSet(more) /\ Cardinality(more) = IF low + 1 > top THEN 0 ELSE top - (low + 1) + 1
      BY <3>1, FS_Interval
    <3> QED
      BY <1>5, <3>2
  <2> HIDE DEF had, has, more
  <2>4. /\ IsFiniteSet(had \cup more)
        /\ Cardinality(had \cup more) =
             Cardinality(had) + Cardinality(more) - Cardinality(had \cap more)
    BY <2>2, <2>3, FS_Union
  <2>5. Cardinality(had \cap more) = 0
    BY <2>2, FS_EmptySet
  <2>6. Cardinality(has) \in Nat /\ Cardinality(has) <= Cardinality(had \cup more)
    BY <2>1, <2>4, FS_Subset, FS_CardinalityType
  <2>7. Cardinality(has) <= Cardinality(had) + (top - low)
    BY <1>5, <2>2, <2>3, <2>4, <2>5, <2>6
  <2>8. world[q].spent + Cardinality(had) <= low /\ world[q].spent \in Nat
    BY <1>14, RowNumbers DEF Covered, had
  <2>9. world'[q].spent + Cardinality(has) <= top /\ world'[q].spent + Cardinality(has) \in Nat
    BY <1>4, <1>5, <2>2, <2>6, <2>7, <2>8
  <2>10. cp.limits # NoLimits /\ top <= cp.limits.tokens /\ cp.limits.tokens \in Nat
    BY <1>0, <1>1, <1>2, <1>6, <1>14, CpFields, WorkerConstants
  <2> QED
    BY <1>5, <2>9, <2>10 DEF has
<1>15. \A q \in RunIds :
         LET now == agent_runs'[q].checkpoint
             used == world'[q].spent + Cardinality(Held(q)') IN
         /\ used <= now.reserved
         /\ used > 0 => now.limits # NoLimits /\ used <= now.limits.tokens
  BY <1>1, <1>13, <1>14
<1> QED
  BY <1>11, <1>12, <1>15, CoverFrom

\* The fourth layer is inductive on top of the first.
LEMMA StepCovered ==
  ASSUME Copies, Covered, [Next]_vars
  PROVE  Covered'
<1>0. Copies' /\ Store!IInv
  BY StepCopies DEF Copies
<1>1. CASE Quiet
  BY <1>0, <1>1, KeptCovered DEF Quiet, Kept
<1>2. ASSUME NEW w \in Workers, NEW new, Moves(w, new) \/ Acts(w, new)
      PROVE  Covered'
  <2>1. \A q \in RunIds : agent_runs'[q].checkpoint = agent_runs[q].checkpoint
    BY <1>2, KeptRows DEF Kept
  <2>2. \A q \in RunIds : world'[q].spent = world[q].spent
    BY <1>2, ActWorld DEF Moves
  <2>3. /\ Set(w, new) /\ new \in Worker /\ new.run = workers[w].run
        /\ new.pc = "invoke" => /\ workers[w].pc = "invoke" /\ new.cp = workers[w].cp
                                /\ new.estimate = workers[w].estimate
    BY <1>2 DEF Moves, MoveOK, Acts, ActOK, Goes, LocalOK
  <2>4. workers'[w] = new /\ \A v \in Workers : v # w => workers'[v] = workers[v]
    BY <2>3, SetWorker
  <2> QED
    BY <1>0, <2>1, <2>2, <2>3, <2>4, KeptCovered
<1>3. ASSUME NEW w \in Workers, Stops(w)
      PROVE  Covered'
  <2>1. \A q \in RunIds : agent_runs'[q].checkpoint = agent_runs[q].checkpoint
    BY <1>3, KeptRows DEF Kept
  <2>2. workers'[w] = Idle /\ \A v \in Workers : v # w => workers'[v] = workers[v]
    BY <1>3, SetWorker, IdleOK DEF Stops
  <2>3. Idle.pc # "invoke" /\ world' = world
    BY <1>3, IdleOK DEF Stops
  <2> QED
    BY <1>0, <2>1, <2>2, <2>3, KeptCovered
<1>4. ASSUME NEW w \in Workers, NEW r \in RunIds, NEW new, Starts(w, r, new)
      PROVE  Covered'
  <2>1. \A q \in RunIds : agent_runs'[q].checkpoint = agent_runs[q].checkpoint
    BY <1>0, <1>4, ClaimRow DEF Starts
  <2>2. new \in Worker /\ new.pc # "invoke" /\ Set(w, new) /\ world' = world
    BY <1>4 DEF Starts, LocalOK
  <2>3. workers'[w] = new /\ \A v \in Workers : v # w => workers'[v] = workers[v]
    BY <2>2, SetWorker
  <2> QED
    BY <1>0, <2>1, <2>2, <2>3, KeptCovered
<1> QED
  BY <1>0, <1>1, <1>2, <1>3, <1>4, StepIs, AsksCovered, SavesCovered DEF Kinds

\* Nothing is reserved or spent.
LEMMA InitCovered == Init => Covered
<1> SUFFICES ASSUME Init PROVE Covered
  OBVIOUS
<1>1. \A v \in Workers : workers[v].pc = "idle"
  BY IdleOK DEF Init
<1>2. \A r \in RunIds, v \in Workers : Units(workers[v], r) = {}
  BY <1>1 DEF Units
<1>3. \A r \in RunIds : Cardinality(Held(r)) = 0
  <2>1. \A r \in RunIds : Held(r) = {}
    BY <1>2 DEF Held
  <2> QED
    BY <2>1, FS_EmptySet
<1>4. \A r \in RunIds : world[r].spent = 0 /\ agent_runs[r].checkpoint.reserved = 0
  BY DEF Init, Store!Init, Store!Absent, Store!NewRun, EmptyCheckpoint
<1> QED
  BY <1>1, <1>2, <1>3, <1>4 DEF Covered, UnitsAreDisjoint, At

\* All four layers are inductive.
THEOREM WorkersInductive == Spec => []IInv
<1>1. Init => IInv
  BY InitCopies, InitOrder, InitEnds, InitCovered DEF IInv
<1>2. IInv /\ [Next]_vars => IInv'
  BY StepCopies, StepOrder, StepEnds, StepCovered DEF IInv
<1> QED
  BY <1>1, <1>2, PTL DEF Spec

\* Every model call made, by whichever attempt and however late, was paid for
\* from the stored reservation and within the first ceiling, for every instance.
THEOREM SpendingIsReserved == Spec => []SpendIsReserved
<1>1. IInv => SpendIsReserved
  <2> SUFFICES ASSUME IInv, NEW r \in RunIds
               PROVE  LET cp == agent_runs[r].checkpoint IN
                      /\ world[r].spent <= cp.reserved
                      /\ world[r].spent > 0 => world[r].spent <= cp.limits.tokens
    BY DEF SpendIsReserved
  <2> DEFINE cp == agent_runs[r].checkpoint
             held == Cardinality(Held(r))
             spent == world[r].spent
  <2>1. cp.reserved \in Nat /\ spent \in Nat /\ (cp.limits # NoLimits => cp.limits.tokens \in Nat)
    BY RowNumbers DEF IInv
  <2>2. held \in Nat
    BY HeldRow DEF IInv
  <2>3. /\ spent + held <= cp.reserved
        /\ spent + held > 0 => cp.limits # NoLimits /\ spent + held <= cp.limits.tokens
    BY DEF IInv, Covered
  <2> HIDE DEF held, spent, cp
  <2>4. spent <= cp.reserved /\ (spent > 0 => spent <= cp.limits.tokens)
    BY <2>1, <2>2, <2>3
  <2> QED
    BY <2>4 DEF spent, cp
<1> QED
  BY <1>1, WorkersInductive, PTL
=============================================================================
