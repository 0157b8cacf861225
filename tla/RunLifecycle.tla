---------------------------- MODULE RunLifecycle ----------------------------
(***************************************************************************)
(* What the durable run store promises its clients, without leases, tokens,*)
(* clocks or checkpoints: the lifecycle of each run, the attempts it has   *)
(* consumed, the cancellation request and the published result.            *)
(***************************************************************************)
EXTENDS Integers

CONSTANTS RunIds, Results, NoResult, MaxAttempts

VARIABLES
  state,      \* run id -> lifecycle state
  tries,      \* run id -> attempts started
  cancelled,  \* run id -> cancellation was requested
  outcome     \* run id -> the durable result

lvars == <<state, tries, cancelled, outcome>>

Open == {"queued", "running", "failed"}

Init ==
  /\ state = [r \in RunIds |-> "absent"]
  /\ tries = [r \in RunIds |-> 0]
  /\ cancelled = [r \in RunIds |-> FALSE]
  /\ outcome = [r \in RunIds |-> NoResult]

Submit(r) ==
  /\ state[r] = "absent"
  /\ state' = [state EXCEPT ![r] = "queued"]
  /\ UNCHANGED <<tries, cancelled, outcome>>

\* An attempt starts, from the queue or in place of one that went silent.
Start(r) ==
  /\ state[r] \in {"queued", "running"} /\ ~cancelled[r] /\ tries[r] < MaxAttempts
  /\ state' = [state EXCEPT ![r] = "running"]
  /\ tries' = [tries EXCEPT ![r] = @ + 1]
  /\ UNCHANGED <<cancelled, outcome>>

\* An attempt delivers the answer, unless cancellation was requested.
Succeed(r, res) ==
  /\ state[r] = "running" /\ ~cancelled[r]
  /\ state' = [state EXCEPT ![r] = "succeeded"]
  /\ outcome' = [outcome EXCEPT ![r] = res]
  /\ UNCHANGED <<tries, cancelled>>

\* An attempt, or the reconciliation of a silent one, ends without an answer.
Stop(r, s) ==
  /\ state[r] = "running"
  /\ s \in {"failed", "needs_review", "cancelled", "exhausted"}
  /\ cancelled[r] => s \in {"cancelled", "exhausted"}
  /\ state' = [state EXCEPT ![r] = s]
  /\ UNCHANGED <<tries, cancelled, outcome>>

\* The caller asks for cancellation; a live attempt is left to notice it.
RequestCancel(r) ==
  /\ state[r] \in Open
  /\ cancelled' = [cancelled EXCEPT ![r] = TRUE]
  /\ \/ state[r] = "running" /\ UNCHANGED state
     \/ state' = [state EXCEPT ![r] = "cancelled"]
  /\ UNCHANGED <<tries, outcome>>

\* The caller asks for another attempt.
Requeue(r) ==
  /\ state[r] \in Open /\ ~cancelled[r] /\ tries[r] < MaxAttempts
  /\ state' = [state EXCEPT ![r] = "queued"]
  /\ UNCHANGED <<tries, cancelled, outcome>>

Next ==
  \E r \in RunIds :
    \/ Submit(r) \/ Start(r) \/ RequestCancel(r) \/ Requeue(r)
    \/ \E res \in Results : Succeed(r, res)
    \/ \E s \in {"failed", "needs_review", "cancelled", "exhausted"} : Stop(r, s)

Spec == Init /\ [][Next]_lvars
=============================================================================
