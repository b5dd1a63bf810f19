---------------------------- MODULE ObjectEditing ---------------------------
(***************************************************************************)
(* Editing the data of an object on its page: the draft and its two ways   *)
(* to be saved (components/object-detail.tsx), and the guarded patches     *)
(* they are sent as (lib/api/object-data-patch.ts).                        *)
(*                                                                         *)
(* A document has fields, and a field a value or an object of subfields:   *)
(* one level shows all the cases that deeper nesting repeats.  An array is *)
(* a value.  The backend applies a patch if all its tests hold, or nothing.*)
(***************************************************************************)
EXTENDS FiniteSets, Naturals, Sequences
LOCAL INSTANCE SequencesExt

CONSTANTS
  Fields, Subfields,
  Leaves,         \* values that are no objects
  Absent,         \* there is no such field
  NoSave,         \* no save is in flight
  MaxOperations,  \* MAX_OBJECT_DATA_PATCH_OPERATIONS
  MaxOthers,      \* bound: changes that others make
  MaxSaves        \* bound: times a save is asked for

VARIABLES
  data,      \* backend: the object's data
  known,     \* objectQuery.data: the data the page last loaded
  draft,     \* dataDraft
  editing,   \* is data among editingFields?
  dirty,     \* is it among dirtyFields?
  save,      \* the request in flight and its answer
  origin,    \* auxiliary: the data the draft was made from
  others,    \* counts the changes of others
  saves      \* counts the times a save is asked for

editingVars == <<data, known, draft, editing, dirty, save, origin, others, saves>>

Objects == [Subfields -> Leaves \cup {Absent}]

ASSUME ValuesApart == Absent \notin Leaves \cup Objects /\ Leaves \cap Objects = {}

Documents == [Fields -> Leaves \cup Objects \cup {Absent}]
Paths == {<<>>} \cup {<<f>> : f \in Fields} \cup (Fields \X Subfields)

(* What is at path p of the document d. *)
At(d, p) ==
  CASE Len(p) = 0 -> d
    [] Len(p) = 1 -> d[p[1]]
    [] OTHER -> IF d[p[1]] \in Objects THEN d[p[1]][p[2]] ELSE Absent

-----------------------------------------------------------------------------
(* buildObjectDataPatchPlan *)

(* The paths at which collect compares: it goes into a field that has an   *)
(* object on both sides.                                                   *)
Compared(d, next) ==
  {p \in Paths \ {<<>>} : (Len(p) = 2) <=> {d[p[1]], next[p[1]]} \subseteq Objects}

Touched(d, next) == {p \in Compared(d, next) : At(d, p) # At(next, p)}

(* What is tested before p is changed: its value, or the parent's when p   *)
(* is to be added.                                                         *)
Guard(d, p) ==
  LET q == IF At(d, p) = Absent THEN Front(p) ELSE p IN <<q, At(d, q)>>

(* A mutation of Plan: additions are not guarded. *)
PlanWithoutParents(d, next) ==
  LET touched == Touched(d, next)
  IN  [tests |-> {Guard(d, p) : p \in {q \in touched : At(d, q) # Absent}},
       values |-> [p \in touched |-> At(next, p)]]

(* The tests, and the values of the paths that are changed. *)
Plan(d, next) ==
  LET touched == Touched(d, next)
      tests == {Guard(d, p) : p \in touched}
  IN  IF Cardinality(tests) + Cardinality(touched) > MaxOperations
        THEN [tests |-> {<<<<>>, d>>}, values |-> [p \in {<<>>} |-> next]]
        ELSE [tests |-> tests, values |-> [p \in touched |-> At(next, p)]]

(* Only the field p, from the value of the draft (buildObjectDataReplacePatch). *)
FieldPlan(d, p, value) == [tests |-> {<<p, At(d, p)>>}, values |-> [q \in {p} |-> value]]

Patched(d, values) ==
  IF <<>> \in DOMAIN values THEN values[<<>>]
  ELSE [f \in Fields |->
         IF <<f>> \in DOMAIN values THEN values[<<f>>]
         ELSE IF d[f] \in Objects
         THEN [s \in Subfields |-> IF <<f, s>> \in DOMAIN values
                                     THEN values[<<f, s>>] ELSE d[f][s]]
         ELSE d[f]]

-----------------------------------------------------------------------------

EditingInit ==
  /\ data \in Documents
  /\ known = data
  /\ draft = data
  /\ editing = FALSE
  /\ dirty = FALSE
  /\ save = NoSave
  /\ origin = data
  /\ others = 0
  /\ saves = 0

(* Somebody else changes a field. *)
OtherEdit ==
  /\ others < MaxOthers
  /\ others' = others + 1
  /\ \E f \in Fields, v \in Leaves \cup Objects \cup {Absent} :
       data' = [data EXCEPT ![f] = v]
  /\ UNCHANGED <<known, draft, editing, dirty, save, origin, saves>>

(* The object's query is answered: when the page was opened with what the  *)
(* cache had, when the network is back, after a save.  The draft of an     *)
(* edit is left alone.                                                     *)
Refetch ==
  /\ known # data
  /\ known' = data
  /\ IF editing THEN UNCHANGED <<draft, origin>>
                ELSE draft' = data /\ origin' = data
  /\ UNCHANGED <<data, editing, dirty, save, others, saves>>

(* The JSON editor begins anew when it is opened during an edit. *)
BeginEdit ==
  /\ save = NoSave
  /\ editing' = TRUE
  /\ draft' = known
  /\ origin' = known
  /\ UNCHANGED <<data, known, dirty, save, others, saves>>

(* The JSON editor, and the form for a new field. *)
ChangeDraft(d) ==
  /\ editing
  /\ save = NoSave
  /\ draft' = d
  /\ dirty' = TRUE
  /\ UNCHANGED <<data, known, editing, save, origin, others, saves>>

(* The edit is over, and the page shows the data d. *)
EndEdit(d) ==
  /\ editing' = FALSE
  /\ dirty' = FALSE
  /\ draft' = d
  /\ origin' = d

CancelEdit ==
  /\ editing
  /\ save = NoSave
  /\ EndEdit(known)
  /\ UNCHANGED <<data, known, save, others, saves>>

Sent(plan, from, next, guarded) ==
  [plan |-> plan, from |-> from, next |-> next, guarded |-> guarded,
   answer |-> "none"]

(* submitCurrentEdits with a draft: its changes from what the page knows   *)
(* now, or nothing.  With a changed name the data goes along whole.        *)
SubmitEdits(next) ==
  IF Touched(known, next) = {}
    THEN EndEdit(known) /\ UNCHANGED save
    ELSE /\ \/ save' = Sent(Plan(known, next), known, next, TRUE)
            \/ save' = Sent([tests |-> {}, values |-> [p \in {<<>>} |-> next]],
                            known, next, FALSE)
         /\ draft' = next
         /\ dirty' = TRUE
         /\ UNCHANGED <<editing, origin>>

SaveChanges ==
  /\ editing
  /\ save = NoSave
  /\ saves < MaxSaves
  /\ SubmitEdits(IF dirty THEN draft ELSE known)
  /\ saves' = saves + 1
  /\ UNCHANGED <<data, known, others>>

(* commitInlineDataField: the value at p is typed anew, and saved at once: *)
(* by itself, unless there are other changes to the data or to the object. *)
SaveField(p, value) ==
  LET next == Patched(draft, [q \in {p} |-> value]) IN
    /\ editing
    /\ save = NoSave
    /\ saves < MaxSaves
    /\ At(draft, p) \notin {Absent} \cup Objects
    /\ \/ SubmitEdits(next)
       \/ /\ ~dirty
          /\ save' = Sent(FieldPlan(draft, p, value), draft, next, TRUE)
          /\ draft' = next
          /\ dirty' = TRUE
          /\ UNCHANGED <<editing, origin>>
    /\ saves' = saves + 1
    /\ UNCHANGED <<data, known, others>>

(* The backend applies the patch, if its tests hold.  The answer may be    *)
(* lost.                                                                   *)
ServeSave ==
  /\ save # NoSave
  /\ save.answer = "none"
  /\ \A test \in save.plan.tests : At(data, test[1]) = test[2]
  /\ data' = Patched(data, save.plan.values)
  /\ \E a \in {"saved", "failed"} : save' = [save EXCEPT !.answer = a]
  /\ UNCHANGED <<known, draft, editing, dirty, origin, others, saves>>

(* A test fails, or the request does. *)
RejectSave ==
  /\ save # NoSave
  /\ save.answer = "none"
  /\ save' = [save EXCEPT !.answer = "failed"]
  /\ UNCHANGED <<data, known, draft, editing, dirty, origin, others, saves>>

(* applyUpdatedObject loads the object again, if it can, and ends the      *)
(* edit; an error leaves it as it is.                                      *)
SaveAnswered ==
  /\ save # NoSave
  /\ save.answer # "none"
  /\ save' = NoSave
  /\ IF save.answer = "saved"
       THEN \E d \in {data, known} : known' = d /\ EndEdit(d)
       ELSE UNCHANGED <<known, draft, editing, dirty, origin>>
  /\ UNCHANGED <<data, others, saves>>

EditingNext ==
  \/ OtherEdit
  \/ Refetch
  \/ BeginEdit
  \/ \E d \in Documents : ChangeDraft(d)
  \/ CancelEdit
  \/ SaveChanges
  \/ \E p \in Paths \ {<<>>}, v \in Leaves : SaveField(p, v)
  \/ ServeSave
  \/ RejectSave
  \/ SaveAnswered

EditingSpec == EditingInit /\ [][EditingNext]_editingVars

-----------------------------------------------------------------------------

(* What a document has at p itself: a value, nothing, or some object. *)
Shape(d, p) == IF At(d, p) \in Objects THEN Objects ELSE At(d, p)

Guarded == save # NoSave /\ save.guarded /\ save.answer = "none" /\ save' # save

(* A guarded save merges: what the user changed was not changed by anybody *)
(* else since the draft was made, and is now as in the draft; all the rest *)
(* is as others left it.  This holds unless the page's data were loaded    *)
(* anew during the edit.                                                   *)
SaveMerges ==
  [][Guarded /\ save.from = origin /\ data' # data =>
       \A p \in Paths \ {<<>>} :
         IF Shape(origin, p) = Shape(save.next, p)
           THEN Shape(data', p) = Shape(data, p)
           ELSE /\ Shape(data, p) = Shape(origin, p)
                /\ Shape(data', p) = Shape(save.next, p)]_editingVars

(* "Unrelated concurrent data edits compose" (README.md): a guarded save   *)
(* leaves alone what the user has not changed.                             *)
UnrelatedEditsCompose ==
  [][Guarded =>
       \A p \in Paths \ {<<>>} :
         Shape(origin, p) = Shape(save.next, p) => Shape(data', p) = Shape(data, p)
    ]_editingVars
=============================================================================
