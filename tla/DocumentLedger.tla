--------------------------- MODULE DocumentLedger ---------------------------
(***************************************************************************)
(* What the document database promises its clients, without attempts,      *)
(* leases, keys, sources or messages: a job is applied once, on top of the *)
(* version it names, or given up for ever, and a deleted document is gone. *)
(***************************************************************************)
EXTENDS Integers, Sequences

CONSTANTS Jobs, Documents, MaxVersion

VARIABLES
  state,     \* job -> "none", "open", "applied" or "closed"
  target,    \* job -> the document it creates or updates
  base,      \* job -> the version it builds on, 0 for a create
  versions,  \* document -> the jobs that made its versions
  gone       \* the documents that were deleted

lvars == <<state, target, base, versions, gone>>

Init ==
  /\ state = [j \in Jobs |-> "none"]
  /\ target \in [Jobs -> Documents] /\ base \in [Jobs -> Nat]
  /\ versions = [x \in Documents |-> << >>]
  /\ gone = {}

Submit(j, x, v) ==
  /\ state[j] = "none"
  /\ state' = [state EXCEPT ![j] = "open"]
  /\ target' = [target EXCEPT ![j] = x] /\ base' = [base EXCEPT ![j] = v]
  /\ UNCHANGED <<versions, gone>>

\* However often the job is attempted, it takes effect once and at once.
Apply(j) ==
  LET x == target[j]
  IN  /\ state[j] = "open" /\ x \notin gone /\ base[j] = Len(versions[x])
      /\ state' = [state EXCEPT ![j] = "applied"]
      /\ versions' = [versions EXCEPT ![x] = Append(@, j)]
      /\ UNCHANGED <<target, base, gone>>

Close(j) ==
  /\ state[j] = "open"
  /\ state' = [state EXCEPT ![j] = "closed"]
  /\ UNCHANGED <<target, base, versions, gone>>

\* Deletion takes the document and every job that might bring it back.
Delete(x) ==
  /\ versions[x] # << >>
  /\ state' = [j \in Jobs |-> IF state[j] = "open" /\ target[j] = x THEN "closed" ELSE state[j]]
  /\ versions' = [versions EXCEPT ![x] = << >>]
  /\ gone' = gone \cup {x}
  /\ UNCHANGED <<target, base>>

Next ==
  \/ \E j \in Jobs : Apply(j) \/ Close(j)
  \/ \E j \in Jobs, x \in Documents, v \in 0 .. MaxVersion : Submit(j, x, v)
  \/ \E x \in Documents : Delete(x)

Spec == Init /\ [][Next]_lvars
=============================================================================
