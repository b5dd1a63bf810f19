---------------------------- MODULE SubmittedTasks --------------------------
(***************************************************************************)
(* What a retry-safe operation promises (docs/idempotent-operations.md and *)
(* the comments of lib/operation-idempotency.ts), without the leases that  *)
(* keep it: however often the user has to submit, what is meant once makes *)
(* one task, and it counts as done only when that task is made.            *)
(***************************************************************************)
EXTENDS Naturals

CONSTANTS Operations, MaxIntents,
          Tasks  \* the tasks there can be, with an operation and an intent

VARIABLES
  meant,    \* meant[o]: how many times o was meant
  open,     \* operations whose last intent is not confirmed
  made,     \* the tasks made
  excepted  \* operations without the promise

submittedVars == <<meant, open, made, excepted>>

Init ==
  /\ meant = [o \in Operations |-> 0]
  /\ open = {}
  /\ made = {}
  /\ excepted = {}

SameIntent(t, u) == t.op = u.op /\ t.intent = u.intent

(* The user means o anew, not again. *)
Mean(o) ==
  /\ o \notin open
  /\ meant[o] < MaxIntents
  /\ meant' = [meant EXCEPT ![o] = @ + 1]
  /\ open' = open \cup {o}
  /\ UNCHANGED made

(* The task t is made, the only one of its intent. *)
Make(t) ==
  /\ t.intent \in 1..meant[t.op]
  /\ t.op \in excepted \/ \A u \in made : ~SameIntent(t, u)
  /\ made' = made \cup {t}
  /\ UNCHANGED <<meant, open>>

(* The user hears that what o was meant for is done, and it is. *)
Confirm(o) ==
  /\ o \in open
  /\ o \in excepted \/ \E t \in made : t.op = o /\ t.intent = meant[o]
  /\ open' = open \ {o}
  /\ UNCHANGED <<meant, made>>

(* Any step may be one after which an operation has the promise no more. *)
Next ==
  /\ excepted \subseteq excepted'
  /\ \/ UNCHANGED <<meant, open, made>>
     \/ \E o \in Operations : Mean(o) \/ Confirm(o)
     \/ \E t \in Tasks : Make(t)

Spec == Init /\ [][Next]_submittedVars
=============================================================================
