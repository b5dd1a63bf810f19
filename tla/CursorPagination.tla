-------------------------- MODULE CursorPagination --------------------------
(***************************************************************************)
(* lib/use-cursor-pagination.ts: a table whose URL names the list (path,   *)
(* filters, limit) and the cursor of one of its pages, and the cursors the *)
(* user came along, kept by the component and per list in sessionStorage.  *)
(*                                                                         *)
(* A click changes the history at once; its navigation is a transition     *)
(* that commits later, when other clicks may have followed.  When another  *)
(* list is shown, the history comes along in four steps, between which the *)
(* user may click and the page may be loaded again:                        *)
(*   committed  the URL names the new list, no effect has run;             *)
(*   loaded     both effects have run, the state they set is not rendered; *)
(*   rendered   it is, and the effect that saves it has not run;           *)
(*   idle       it has.                                                    *)
(* A click that sets the state has React do what is left of them first.    *)
(***************************************************************************)
EXTENDS Naturals, Sequences
LOCAL INSTANCE SequencesExt

CONSTANTS
  Lists,
  FirstPage,   \* FIRST_PAGE_CURSOR, and a URL without a cursor
  LastPage,    \* bound: the pages of a list are numbered from 0
  MaxHistory,  \* bound: clicks on next
  MaxGoing     \* bound: navigations on their way

ASSUME PaginationBounds ==
  /\ LastPage \in Nat /\ MaxHistory \in Nat /\ MaxGoing \in Nat
  /\ FirstPage \notin [list : Lists, page : 1..LastPage]

VARIABLES
  place,          \* the list and the cursor the URL names
  cursorHistory,  \* the component's state as it was rendered
  kept,           \* sessionStorage: kept[l], the history of the list l
  going,          \* navigations that have not committed
  phase,          \* what is left to do for the list
  read,           \* the state that the first effect has set
  entered         \* auxiliary: what was kept for the list on entering it

paginationVars == <<place, cursorHistory, kept, going, phase, read, entered>>

(* A cursor is opaque and belongs to its list; sent with another one, it   *)
(* stands for the same page of that.                                       *)
Cursors == {FirstPage} \cup [list : Lists, page : 1..LastPage]
Places == [list : Lists, cursor : Cursors]
PageNumber(c) == IF c = FirstPage THEN 0 ELSE c.page
CursorOf(l, n) == IF n = 0 THEN FirstPage ELSE [list |-> l, page |-> n]

PaginationInit ==
  /\ place \in {p \in Places : p.cursor = FirstPage}
  /\ cursorHistory = <<>>
  /\ kept = [l \in Lists |-> <<>>]
  /\ going = <<>>
  /\ phase = "idle"
  /\ read = <<>>
  /\ entered = <<>>

-----------------------------------------------------------------------------
(* Clicks                                                                  *)

(* The state a click's update applies to: what is set and not rendered yet *)
(* goes before.                                                            *)
Current == IF phase = "loaded" THEN read ELSE cursorHistory

(* A click whose update makes h of it, and pushes the cursor c.  Effects   *)
(* that have not run yet do so after the update and set what was kept.     *)
Click(l, h, c) ==
  /\ Len(going) < MaxGoing
  /\ cursorHistory' = IF phase = "committed" THEN kept[place.list] ELSE h
  /\ kept' = [kept EXCEPT ![place.list] = cursorHistory']
  /\ going' = Append(going, [list |-> l, cursor |-> c])
  /\ phase' = "idle"
  /\ read' = <<>>
  /\ entered' = <<>>
  /\ UNCHANGED place

GoToNextPage ==
  /\ PageNumber(place.cursor) < LastPage
  /\ Len(Current) < MaxHistory
  /\ Click(place.list, Append(Current, place.cursor),
           CursorOf(place.list, PageNumber(place.cursor) + 1))

(* To the cursor the user came from, in the history that was rendered.     *)
GoToPrevPage ==
  /\ cursorHistory # <<>>
  /\ Click(place.list, IF Current = <<>> THEN <<>> ELSE Front(Current),
           Last(cursorHistory))

GoToFirstPage == Click(place.list, <<>>, FirstPage)

SetLimit(l) == Click(l, <<>>, FirstPage)

-----------------------------------------------------------------------------
(* Navigations                                                             *)

(* A link, a filter, or the browser's back: the history is left alone. *)
Visit(p) ==
  /\ Len(going) < MaxGoing
  /\ going' = Append(going, p)
  /\ UNCHANGED <<place, cursorHistory, kept, phase, read, entered>>

(* Without a history, previous leads to the cursor the backend gives. *)
GoToPageBefore ==
  /\ cursorHistory = <<>>
  /\ PageNumber(place.cursor) > 0
  /\ Visit([place EXCEPT !.cursor = CursorOf(place.list, PageNumber(place.cursor) - 1)])

(* React is through with one commit before it goes on to the next.  A page *)
(* of the same list changes neither state nor storage.                     *)
Commit ==
  /\ phase = "idle"
  /\ going # <<>>
  /\ going' = Tail(going)
  /\ place' = Head(going)
  /\ IF Head(going).list = place.list
       THEN UNCHANGED <<phase, entered>>
       ELSE phase' = "committed" /\ entered' = kept[Head(going).list]
  /\ UNCHANGED <<cursorHistory, kept, read>>

(* A mutation of RunEffects: the history is saved before the list's is     *)
(* read.                                                                   *)
EffectsSavingFirst ==
  /\ phase = "committed"
  /\ phase' = "loaded"
  /\ kept' = [kept EXCEPT ![place.list] = cursorHistory]
  /\ read' = cursorHistory
  /\ UNCHANGED <<place, cursorHistory, going, entered>>

(* Both effects of the commit: the first reads the list's history and sets *)
(* it, the second saves the one that was rendered, another list's.         *)
RunEffects ==
  /\ phase = "committed"
  /\ phase' = "loaded"
  /\ read' = kept[place.list]
  /\ kept' = [kept EXCEPT ![place.list] = cursorHistory]
  /\ UNCHANGED <<place, cursorHistory, going, entered>>

Rerender ==
  /\ phase = "loaded"
  /\ phase' = "rendered"
  /\ cursorHistory' = read
  /\ read' = <<>>
  /\ UNCHANGED <<place, kept, going, entered>>

SaveEffect ==
  /\ phase = "rendered"
  /\ phase' = "idle"
  /\ kept' = [kept EXCEPT ![place.list] = cursorHistory]
  /\ entered' = <<>>
  /\ UNCHANGED <<place, cursorHistory, going, read>>

(* The table is left and mounted again at p, or the page loaded again: a   *)
(* new component with a state of its own, for which effects are to run.    *)
Remount(p) ==
  /\ place' = p
  /\ cursorHistory' = <<>>
  /\ going' = <<>>
  /\ phase' = "committed"
  /\ read' = <<>>
  /\ entered' = kept[p.list]
  /\ UNCHANGED kept

PaginationNext ==
  \/ GoToNextPage
  \/ GoToPrevPage
  \/ GoToFirstPage
  \/ \E l \in Lists : SetLimit(l)
  \/ \E p \in Places : Visit(p) \/ Remount(p)
  \/ GoToPageBefore
  \/ Commit
  \/ RunEffects
  \/ Rerender
  \/ SaveEffect

PaginationSpec == PaginationInit /\ [][PaginationNext]_paginationVars

-----------------------------------------------------------------------------

(* A list that is entered comes up with the history that was kept for it,  *)
(* although the one of the list before is saved in its place in between;   *)
(* and when all is done the two copies agree, whatever clicks came between *)
(* the steps.                                                              *)
HistoryComesBack ==
  /\ phase = "rendered" => cursorHistory = entered
  /\ phase = "idle" => cursorHistory = kept[place.list]
=============================================================================
