----------------------------- MODULE BulkDelete -----------------------------
(***************************************************************************)
(* Deleting the selected objects of the explorer                           *)
(* (components/objects-explorer.tsx; the other tables do the same): the    *)
(* question of lib/confirm-context.tsx, and a request for each object,     *)
(* awaited together.                                                       *)
(*                                                                         *)
(* The table's data, its scope and its selection may change while the      *)
(* question is open, by a refetch, a navigation or a keyboard shortcut.    *)
(***************************************************************************)
EXTENDS Naturals, Sequences

CONSTANTS
  Items,
  NoQuestion,
  MaxBatches  \* bound: deletions confirmed

VARIABLES
  present,    \* backend: the objects
  displayed,  \* displayedObjects
  selected,   \* selectedObjectIds
  question,   \* pendingConfirm: the objects its title counts
  batches,    \* the mutations: what each still has to delete, and whether a
              \* request of it failed
  confirmed   \* auxiliary: the objects the user agreed to delete

bulkVars == <<present, displayed, selected, question, batches, confirmed>>

BulkInit ==
  /\ present = Items
  /\ displayed \in SUBSET Items
  /\ selected = {}
  /\ question = NoQuestion
  /\ batches = <<>>
  /\ confirmed = {}

(* Rows are selected, by clicks when no question covers the table, or all  *)
(* of them, or none, by shortcuts at any time.                             *)
SelectRows(s) ==
  /\ question = NoQuestion \/ s \in {displayed, {}}
  /\ selected' = s
  /\ UNCHANGED <<present, displayed, question, batches, confirmed>>

(* The table's query is answered for some scope; what it does not show is  *)
(* no longer selected.                                                     *)
ShowRows(s) ==
  /\ displayed' = s
  /\ selected' = selected \cap s
  /\ UNCHANGED <<present, question, batches, confirmed>>

(* deleteSelectedObjects, up to the question. *)
AskToDelete ==
  /\ selected # {}
  /\ question = NoQuestion
  /\ Len(batches) < MaxBatches
  /\ question' = selected
  /\ UNCHANGED <<present, displayed, selected, batches, confirmed>>

(* A mutation of Asked: the selection at the answer. *)
AskedNow == selected

(* What is deleted: the selection of the closure that asked. *)
Asked == question

(* The answer is yes: mutate, whether or not another batch is in flight. *)
ConfirmDelete ==
  /\ question # NoQuestion
  /\ batches' = Append(batches, [left |-> Asked, failed |-> FALSE])
  /\ confirmed' = confirmed \cup question
  /\ question' = NoQuestion
  /\ UNCHANGED <<present, displayed, selected>>

DeclineDelete ==
  /\ question # NoQuestion
  /\ question' = NoQuestion
  /\ UNCHANGED <<present, displayed, selected, batches, confirmed>>

(* Promise.all: when all have succeeded the selection is dropped and the   *)
(* table loaded again.  The first failure ends the mutation and leaves     *)
(* both as they are, while the other requests go on.                       *)
Settled(b, i, ok) ==
  LET left == batches[b].left \ {i}
      failed == batches[b].failed \/ ~ok
  IN  /\ batches' = [batches EXCEPT ![b] = [left |-> left, failed |-> failed]]
      /\ selected' = IF left = {} /\ ~failed THEN {} ELSE selected

(* The backend deletes an object: 204, or a lost answer. *)
DeleteItem(b, i) ==
  /\ i \in batches[b].left
  /\ i \in present
  /\ present' = present \ {i}
  /\ \E ok \in BOOLEAN : Settled(b, i, ok)
  /\ UNCHANGED <<displayed, question, confirmed>>

(* It is gone already, or the request fails. *)
DeleteFails(b, i) ==
  /\ i \in batches[b].left
  /\ Settled(b, i, FALSE)
  /\ UNCHANGED <<present, displayed, question, confirmed>>

BulkNext ==
  \/ \E s \in SUBSET displayed : SelectRows(s)
  \/ \E s \in SUBSET present : ShowRows(s)
  \/ AskToDelete
  \/ ConfirmDelete
  \/ DeclineDelete
  \/ \E b \in DOMAIN batches, i \in Items : DeleteItem(b, i) \/ DeleteFails(b, i)

BulkSpec == BulkInit /\ [][BulkNext]_bulkVars

(* Only what the question was about is deleted, however the selection, the *)
(* rows and the batches change while it is open.                           *)
DeletesAsAsked == Items \ present \subseteq confirmed
=============================================================================
