---------------------------- MODULE BrowserProofs ---------------------------
(***************************************************************************)
(* Proofs about the smaller parts of the browser: the history of a cursor  *)
(* table, the announcements of tasks, the bulk deletion, the restore       *)
(* workspace and the editing of objects, each under its own specification. *)
(***************************************************************************)
EXTENDS Browser, SequenceTheorems, TLAPS
LOCAL INSTANCE SequencesExt

(***************************************************************************)
(* CursorPagination.  What was kept for a list when it was entered is      *)
(* carried from step to step: from the storage to what the first effect    *)
(* has set, from there to what is rendered, and back.                      *)
(***************************************************************************)

PaginationTypes ==
  /\ place \in Places
  /\ cursorHistory \in Seq(Cursors)
  /\ kept \in [Lists -> Seq(Cursors)]
  /\ going \in Seq(Places)
  /\ phase \in {"committed", "loaded", "rendered", "idle"}
  /\ read \in Seq(Cursors)

PaginationInv ==
  /\ PaginationTypes
  /\ phase = "committed" => entered = kept[place.list]
  /\ phase = "loaded" => read = entered
  /\ HistoryComesBack

(* A click that leads to a place leaves nothing to be done. *)
LEMMA ClickKeeps ==
  ASSUME PaginationInv, NEW l \in Lists, NEW h \in Seq(Cursors), NEW c \in Cursors,
         Click(l, h, c)
  PROVE  PaginationInv'
<1>1. place.list \in Lists
  BY DEF PaginationInv, PaginationTypes, Places
<1>2. cursorHistory' \in Seq(Cursors)
  BY <1>1 DEF Click, PaginationInv, PaginationTypes
<1>3. [list |-> l, cursor |-> c] \in Places
  BY DEF Places
<1>4. PaginationTypes'
  <2>1. kept' \in [Lists -> Seq(Cursors)]
    BY <1>2 DEF Click, PaginationInv, PaginationTypes
  <2>2. going' \in Seq(Places)
    BY <1>3 DEF Click, PaginationInv, PaginationTypes
  <2> QED BY <1>2, <2>1, <2>2 DEF Click, PaginationInv, PaginationTypes
<1>5. phase' = "idle" /\ cursorHistory' = kept'[place'.list]
  BY <1>1 DEF Click, PaginationInv, PaginationTypes
<1> QED BY <1>4, <1>5 DEF PaginationInv, HistoryComesBack

(* So does nothing but another navigation on its way. *)
LEMMA VisitKeeps ==
  ASSUME PaginationInv, NEW p \in Places, Visit(p)
  PROVE  PaginationInv'
BY DEF Visit, PaginationInv, PaginationTypes, HistoryComesBack

(* The cursor of a page and what a click finds have their types. *)
LEMMA CursorTypes ==
  ASSUME PaginationInv
  PROVE  /\ place.list \in Lists /\ place.cursor \in Cursors
         /\ PageNumber(place.cursor) \in 0..LastPage
         /\ \A n \in 0..LastPage : CursorOf(place.list, n) \in Cursors
         /\ FirstPage \in Cursors
         /\ Current \in Seq(Cursors)
<1> USE PaginationBounds
<1>1. place.list \in Lists /\ place.cursor \in Cursors
  BY DEF PaginationInv, PaginationTypes, Places
<1>2. PageNumber(place.cursor) \in 0..LastPage
  BY <1>1 DEF PageNumber, Cursors
<1>3. \A n \in 0..LastPage : CursorOf(place.list, n) \in Cursors
  BY <1>1 DEF CursorOf, Cursors
<1>4. FirstPage \in Cursors
  BY DEF Cursors
<1>5. Current \in Seq(Cursors)
  BY DEF Current, PaginationInv, PaginationTypes
<1> QED BY <1>1, <1>2, <1>3, <1>4, <1>5

(* A history that is not empty has a last cursor, and others before it. *)
LEMMA FrontAndLast ==
  ASSUME NEW h \in Seq(Cursors), h # <<>>
  PROVE  Front(h) \in Seq(Cursors) /\ Last(h) \in Cursors
BY DEF Front, Last

(* Every step keeps the invariant. *)
LEMMA PaginationStep == PaginationInv /\ [PaginationNext]_paginationVars => PaginationInv'
<1> SUFFICES ASSUME PaginationInv, [PaginationNext]_paginationVars PROVE PaginationInv'
  OBVIOUS
<1> USE CursorTypes
<1>0. PaginationTypes
  BY DEF PaginationInv
<1>e. <<>> \in Seq(Cursors)
  OBVIOUS
<1>1. CASE GoToNextPage
  <2>1. Append(Current, place.cursor) \in Seq(Cursors)
    OBVIOUS
  <2>2. CursorOf(place.list, PageNumber(place.cursor) + 1) \in Cursors
    <3>1. PageNumber(place.cursor) + 1 \in 0..LastPage
      BY <1>1, PaginationBounds DEF GoToNextPage
    <3> QED BY <3>1
  <2> QED BY <1>1, <2>1, <2>2, ClickKeeps DEF GoToNextPage
<1>2. CASE GoToPrevPage
  <2>1. Last(cursorHistory) \in Cursors
    BY <1>0, <1>2, FrontAndLast DEF GoToPrevPage, PaginationTypes
  <2>2. (IF Current = <<>> THEN <<>> ELSE Front(Current)) \in Seq(Cursors)
    BY <1>e, FrontAndLast
  <2> QED BY <1>2, <2>1, <2>2, ClickKeeps DEF GoToPrevPage
<1>3. CASE GoToFirstPage
  BY <1>3, <1>e, ClickKeeps DEF GoToFirstPage
<1>4. ASSUME NEW l \in Lists, SetLimit(l) PROVE PaginationInv'
  BY <1>4, <1>e, ClickKeeps DEF SetLimit
<1>5. ASSUME NEW p \in Places, Visit(p) PROVE PaginationInv'
  BY <1>5, VisitKeeps
<1>6. CASE GoToPageBefore
  <2> DEFINE p == [place EXCEPT !.cursor = CursorOf(place.list, PageNumber(place.cursor) - 1)]
  <2>1. PageNumber(place.cursor) - 1 \in 0..LastPage
    BY <1>6, PaginationBounds DEF GoToPageBefore
  <2>2. p \in Places
    BY <1>0, <2>1 DEF Places, PaginationTypes
  <2> QED BY <1>6, <2>2, VisitKeeps DEF GoToPageBefore
<1>7. ASSUME NEW p \in Places, Remount(p) PROVE PaginationInv'
  <2>1. p.list \in Lists
    BY DEF Places
  <2> QED BY <1>0, <1>7, <1>e, <2>1
          DEF Remount, PaginationInv, PaginationTypes, HistoryComesBack
<1>8. CASE Commit
  <2>1. Head(going) \in Places /\ Tail(going) \in Seq(Places)
    BY <1>0, <1>8 DEF Commit, PaginationTypes
  <2>2. PaginationTypes'
    BY <1>0, <1>8, <2>1 DEF Commit, PaginationTypes
  <2>3. CASE place'.list = place.list
    BY <1>8, <2>2, <2>3 DEF Commit, PaginationInv, HistoryComesBack
  <2>4. CASE place'.list # place.list
    BY <1>8, <2>2, <2>4 DEF Commit, PaginationInv, HistoryComesBack
  <2> QED BY <2>3, <2>4
<1>9. CASE RunEffects
  BY <1>0, <1>9 DEF RunEffects, PaginationInv, PaginationTypes, HistoryComesBack
<1>10. CASE Rerender
  BY <1>0, <1>10, <1>e DEF Rerender, PaginationInv, PaginationTypes, HistoryComesBack
<1>11. CASE SaveEffect
  BY <1>0, <1>11 DEF SaveEffect, PaginationInv, PaginationTypes, HistoryComesBack
<1>12. CASE UNCHANGED paginationVars
  BY <1>12 DEF paginationVars, PaginationInv, PaginationTypes, HistoryComesBack
<1> QED BY <1>1, <1>2, <1>3, <1>4, <1>5, <1>6, <1>7, <1>8, <1>9, <1>10, <1>11, <1>12
        DEF PaginationNext

(* For any number of lists, pages, clicks and navigations on their way:    *)
(* a list that is entered comes up with the history that was kept for it.  *)
THEOREM KeptHistoryComesBack == PaginationSpec => []HistoryComesBack
<1>1. PaginationInit => PaginationInv
  <2> SUFFICES ASSUME PaginationInit PROVE PaginationInv
    OBVIOUS
  <2>1. place \in Places /\ place.list \in Lists
    BY DEF PaginationInit, Places
  <2> QED BY <2>1 DEF PaginationInit, PaginationInv, PaginationTypes, HistoryComesBack
<1>2. PaginationInv => HistoryComesBack
  BY DEF PaginationInv
<1> QED BY <1>1, <1>2, PaginationStep, PTL DEF PaginationSpec

-----------------------------------------------------------------------------
(***************************************************************************)
(* TaskNotifications.  A task only moves forward, first active, then       *)
(* finished, and, once the newest tasks have displaced it, out of the      *)
(* window for good.  So do the answers the page compares.                  *)
(***************************************************************************)

Statuses == {"none", "active", "finished"}

NotificationTypes ==
  /\ status \in [TaskIds -> Statuses]
  /\ answer \in [TaskIds -> Statuses]
  /\ previous \in [TaskIds -> Statuses]
  /\ announced \in [TaskIds -> Nat]
  /\ watched \subseteq TaskIds

(* Newer tasks fill the window. *)
Displaced(t) == \E u \in TaskIds : u >= t + Window /\ status[u] # "none"

(* An answer or the memory of one shows no more of a task than there is. *)
Behind(seen) ==
  \A t \in TaskIds :
    /\ seen[t] # "none" => status[t] # "none"
    /\ seen[t] = "finished" => status[t] = "finished"

(* Of a task the page has seen, the answer on its way shows what the page  *)
(* saw or more; if it shows nothing, the task is displaced.                *)
Ahead(t) ==
  answer # NoAnswer =>
    /\ answer[t] = "none" => Displaced(t)
    /\ previous[t] = "finished" => answer[t] # "active"

(* What the page has done about a task it has seen. *)
Noticed(t) ==
  /\ announced[t] <= 1
  /\ announced[t] = 1 => previous[t] # "active"
  /\ announced[t] = 1 \/ t \in watched => previous[t] # "none" \/ Displaced(t)
  /\ t \in watched /\ previous[t] = "finished" => announced[t] = 1
  /\ previous[t] # "none" \/ announced[t] = 1 \/ t \in watched => Ahead(t)
  /\ announced[t] = 1 \/ t \in watched =>
       (previous[t] = "none" /\ answer # NoAnswer => answer[t] = "none")

NotificationInv ==
  /\ NotificationTypes
  /\ Behind(answer)
  /\ Behind(previous)
  /\ \A t \in TaskIds : Noticed(t)

(* Progress of the backend keeps the invariant: nothing that is shown      *)
(* changes, and a displaced task stays so.                                 *)
LEMMA BackendKeeps ==
  ASSUME NotificationInv, NEW t \in TaskIds, CreateTask(t) \/ FinishTask(t)
  PROVE  NotificationInv'
<1>1. /\ UNCHANGED <<answer, previous, announced, watched>>
      /\ status' \in [TaskIds -> Statuses]
      /\ \A u \in TaskIds :
           /\ status[u] # "none" => status'[u] # "none"
           /\ status[u] = "finished" => status'[u] = "finished"
  BY DEF CreateTask, FinishTask, NotificationInv, NotificationTypes, Statuses
<1>2. \A u \in TaskIds : Displaced(u) => Displaced(u)'
  BY <1>1 DEF Displaced
<1>3. NotificationTypes' /\ Behind(answer)' /\ Behind(previous)'
  BY <1>1 DEF NotificationInv, NotificationTypes, Behind
<1>4. \A u \in TaskIds : Noticed(u)'
  BY <1>1, <1>2 DEF NotificationInv, Noticed, Ahead, NoAnswer
<1> QED BY <1>3, <1>4 DEF NotificationInv

(* A poll shows what there is, but for what is displaced. *)
LEMMA PollKeeps == ASSUME NotificationInv, Poll PROVE NotificationInv'
<1>1. /\ UNCHANGED <<status, previous, announced, watched>>
      /\ answer' = Snapshot
  BY DEF Poll
<1>2. \A t \in TaskIds : Snapshot[t] = IF Displaced(t) THEN "none" ELSE status[t]
  BY DEF Snapshot, Displaced
<1>3. Snapshot \in [TaskIds -> Statuses]
  BY DEF Snapshot, NotificationInv, NotificationTypes, Statuses
<1>4. NotificationTypes' /\ Behind(answer)' /\ Behind(previous)'
  BY <1>1, <1>2, <1>3 DEF NotificationInv, NotificationTypes, Behind
<1>5. ASSUME NEW t \in TaskIds PROVE Noticed(t)'
  <2>1. Displaced(t)' <=> Displaced(t)
    BY <1>1 DEF Displaced
  <2>2. Noticed(t) /\ (previous[t] # "none" => status[t] # "none")
                   /\ (previous[t] = "finished" => status[t] = "finished")
    BY DEF NotificationInv, Behind
  <2>3. answer'[t] = IF Displaced(t) THEN "none" ELSE status[t]
    BY <1>1, <1>2
  <2> QED BY <1>1, <2>1, <2>2, <2>3 DEF Noticed, Ahead
<1> QED BY <1>4, <1>5 DEF NotificationInv

(* The answer is compared with the one before: what was announced is not   *)
(* announced again, and what was seen active is announced.                 *)
LEMMA AnswerKeeps == ASSUME NotificationInv, PollAnswered PROVE NotificationInv'
<1>1. /\ answer # NoAnswer /\ answer' = NoAnswer
      /\ previous' = answer
      /\ status' = status
      /\ announced' = [t \in TaskIds |->
           IF t \in NewlyTerminal THEN announced[t] + 1 ELSE announced[t]]
      /\ watched' = watched \cup {t \in TaskIds : answer[t] = "active"}
  BY DEF PollAnswered
<1>2. \A t \in TaskIds :
        t \in NewlyTerminal <=>
          /\ answer[t] = "finished"
          /\ IF previous[t] # "none" THEN previous[t] = "active" ELSE t \in stamped
  BY DEF NewlyTerminal
<1>3. NotificationTypes
  BY DEF NotificationInv
<1>4. NoAnswer \in [TaskIds -> Statuses] /\ \A t \in TaskIds : NoAnswer[t] = "none"
  BY DEF NoAnswer, Statuses
<1>5. NotificationTypes'
  BY <1>1, <1>3, <1>4 DEF NotificationTypes
<1>6. Behind(answer)' /\ Behind(previous)'
  BY <1>1, <1>4 DEF NotificationInv, Behind
<1>7. ASSUME NEW t \in TaskIds PROVE Noticed(t)'
  <2>1. Noticed(t)
    BY DEF NotificationInv
  <2>2. Displaced(t)' <=> Displaced(t)
    BY <1>1 DEF Displaced
  <2>3. /\ announced'[t] = IF t \in NewlyTerminal THEN announced[t] + 1 ELSE announced[t]
        /\ t \in watched' <=> t \in watched \/ answer[t] = "active"
        /\ previous'[t] = answer[t]
        /\ announced[t] \in Nat
        /\ answer[t] \in Statuses /\ previous[t] \in Statuses
    BY <1>1, <1>3 DEF NotificationTypes
  <2>4. t \in NewlyTerminal => announced[t] = 0
    BY <1>1, <1>2, <2>1, <2>3 DEF Noticed
  <2>5. announced[t] = 1 \/ t \in watched => answer[t] # "none" \/ Displaced(t)
    BY <1>1, <2>1 DEF Noticed, Ahead
  <2>6. announced[t] = 1 => answer[t] # "active"
    BY <1>1, <2>1, <2>3 DEF Noticed, Ahead, Statuses
  <2>7. t \in watched /\ answer[t] = "finished" => announced'[t] = 1
    BY <1>1, <1>2, <2>1, <2>3, <2>4 DEF Noticed, Statuses
  <2>8. /\ announced'[t] <= 1
        /\ announced'[t] = 1 => answer[t] # "active"
        /\ announced'[t] = 1 \/ t \in watched' => answer[t] # "none" \/ Displaced(t)
        /\ t \in watched' /\ answer[t] = "finished" => announced'[t] = 1
    BY <1>2, <2>1, <2>3, <2>4, <2>5, <2>6, <2>7 DEF Noticed
  <2> QED BY <1>1, <2>2, <2>3, <2>8 DEF Noticed, Ahead
<1> QED BY <1>5, <1>6, <1>7 DEF NotificationInv

(* The page that is loaded afresh has seen nothing. *)
LEMMA ReloadKeeps == ASSUME NotificationInv, ReloadShell PROVE NotificationInv'
<1>1. \A t \in TaskIds : NoAnswer[t] = "none"
  BY DEF NoAnswer
<1>2. NoAnswer \in [TaskIds -> Statuses]
  BY DEF NoAnswer, Statuses
<1>3. NotificationTypes' /\ Behind(answer)' /\ Behind(previous)'
  BY <1>1, <1>2 DEF NotificationInv, NotificationTypes, Behind, ReloadShell
<1>4. \A t \in TaskIds : Noticed(t)'
  BY <1>1 DEF Noticed, Ahead, ReloadShell
<1> QED BY <1>3, <1>4 DEF NotificationInv

(* For any number of tasks and any window: a task's end is announced once  *)
(* at most, and the end of one that was seen active as soon as it is seen. *)
THEOREM EndsAreAnnounced == NotificationsSpec => []AnnouncedOnce
<1>1. NotificationsInit => NotificationInv
  <2> SUFFICES ASSUME NotificationsInit PROVE NotificationInv
    OBVIOUS
  <2>1. NoAnswer \in [TaskIds -> Statuses] /\ \A t \in TaskIds : NoAnswer[t] = "none"
    BY DEF NoAnswer, Statuses
  <2>2. NotificationTypes /\ Behind(answer) /\ Behind(previous)
    BY <2>1 DEF NotificationsInit, NotificationTypes, Behind
  <2>3. \A t \in TaskIds : Noticed(t)
    BY <2>1 DEF NotificationsInit, Noticed, Ahead
  <2> QED BY <2>2, <2>3 DEF NotificationInv
<1>2. NotificationInv /\ [NotificationsNext]_notificationVars => NotificationInv'
  <2> SUFFICES ASSUME NotificationInv, [NotificationsNext]_notificationVars
               PROVE  NotificationInv'
    OBVIOUS
  <2>1. CASE UNCHANGED notificationVars
    <3>1. NotificationTypes' /\ Behind(answer)' /\ Behind(previous)'
      BY <2>1 DEF notificationVars, NotificationInv, NotificationTypes, Behind
    <3>2. \A t \in TaskIds : Noticed(t)'
      BY <2>1 DEF notificationVars, NotificationInv, Noticed, Ahead, Displaced, NoAnswer
    <3> QED BY <3>1, <3>2 DEF NotificationInv
  <2> QED BY <2>1, BackendKeeps, PollKeeps, AnswerKeeps, ReloadKeeps
          DEF NotificationsNext
<1>3. NotificationInv => AnnouncedOnce
  BY DEF NotificationInv, Noticed, AnnouncedOnce
<1> QED BY <1>1, <1>2, <1>3, PTL DEF NotificationsSpec

-----------------------------------------------------------------------------
(***************************************************************************)
(* BulkDelete.  What a batch has left is a part of what was confirmed.     *)
(***************************************************************************)

BatchesConfirmed == \A k \in DOMAIN batches : batches[k].left \subseteq confirmed

Batches == [left : SUBSET Items, failed : BOOLEAN]

BulkInv ==
  /\ batches \in Seq(Batches)
  /\ selected \subseteq Items /\ displayed \subseteq Items /\ present \subseteq Items
  /\ question # NoQuestion => question \subseteq Items
  /\ BatchesConfirmed
  /\ DeletesAsAsked

(* A request that has settled leaves its batch with less to delete. *)
LEMMA SettledKeeps ==
  ASSUME BulkInv, NEW k \in DOMAIN batches, NEW i \in Items, NEW ok \in BOOLEAN,
         Settled(k, i, ok), UNCHANGED <<displayed, question, confirmed>>,
         present' \in {present, present \ {i}}, i \in batches[k].left
  PROVE  BulkInv'
<1> DEFINE next == [left |-> batches[k].left \ {i},
                    failed |-> batches[k].failed \/ ~ok]
<1>1. batches' = [batches EXCEPT ![k] = next]
  BY DEF Settled
<1>2. selected' \in {selected, {}}
  BY DEF Settled
<1>3. next \in Batches
  <2>1. batches[k] \in Batches
    BY DEF BulkInv
  <2>2. batches[k].left \ {i} \in SUBSET Items
    BY <2>1 DEF Batches
  <2>3. (batches[k].failed \/ ~ok) \in BOOLEAN
    BY <2>1, Zenon DEF Batches
  <2> QED BY <2>2, <2>3 DEF Batches
<1>4. batches' \in Seq(Batches)
  BY <1>1, <1>3 DEF BulkInv
<1>5. BatchesConfirmed'
  BY <1>1 DEF BulkInv, BatchesConfirmed
<1>6. DeletesAsAsked'
  BY DEF BulkInv, BatchesConfirmed, DeletesAsAsked
<1> QED BY <1>2, <1>4, <1>5, <1>6 DEF BulkInv

(* For any set of objects and any number of batches, nothing is deleted    *)
(* but what some question was about.                                       *)
THEOREM DeletedWasConfirmed == BulkSpec => []DeletesAsAsked
<1>1. BulkInit => BulkInv
  BY DEF BulkInit, BulkInv, BatchesConfirmed, DeletesAsAsked
<1>2. BulkInv /\ [BulkNext]_bulkVars => BulkInv'
  <2> SUFFICES ASSUME BulkInv, [BulkNext]_bulkVars PROVE BulkInv'
    OBVIOUS
  <2>1. ASSUME NEW s \in SUBSET displayed, SelectRows(s) PROVE BulkInv'
    BY <2>1 DEF SelectRows, BulkInv, BatchesConfirmed, DeletesAsAsked
  <2>2. ASSUME NEW s \in SUBSET present, ShowRows(s) PROVE BulkInv'
    BY <2>2 DEF ShowRows, BulkInv, BatchesConfirmed, DeletesAsAsked
  <2>3. CASE AskToDelete
    BY <2>3 DEF AskToDelete, BulkInv, BatchesConfirmed, DeletesAsAsked
  <2>4. CASE ConfirmDelete
    <3>1. [left |-> question, failed |-> FALSE] \in Batches
      BY <2>4 DEF ConfirmDelete, BulkInv, Batches
    <3>2. /\ batches' = Append(batches, [left |-> question, failed |-> FALSE])
          /\ confirmed' = confirmed \cup question /\ question' = NoQuestion
          /\ UNCHANGED <<present, displayed, selected>>
      BY <2>4 DEF ConfirmDelete, Asked
    <3>3. BatchesConfirmed'
      BY <3>2 DEF BulkInv, BatchesConfirmed
    <3> QED BY <3>1, <3>2, <3>3 DEF BulkInv, DeletesAsAsked
  <2>5. CASE DeclineDelete
    BY <2>5 DEF DeclineDelete, BulkInv, BatchesConfirmed, DeletesAsAsked
  <2>6. ASSUME NEW k \in DOMAIN batches, NEW i \in Items,
               DeleteItem(k, i) \/ DeleteFails(k, i)
        PROVE  BulkInv'
    BY <2>6, SettledKeeps DEF DeleteItem, DeleteFails
  <2>7. CASE UNCHANGED bulkVars
    BY <2>7 DEF bulkVars, BulkInv, BatchesConfirmed, DeletesAsAsked
  <2> QED BY <2>1, <2>2, <2>3, <2>4, <2>5, <2>6, <2>7 DEF BulkNext
<1>3. BulkInv => DeletesAsAsked
  BY DEF BulkInv
<1> QED BY <1>1, <1>2, <1>3, PTL DEF BulkSpec

-----------------------------------------------------------------------------
(***************************************************************************)
(* RestoreWorkspace.  A staging that is answered late takes the phrase     *)
(* away with the backup it was typed for.                                  *)
(***************************************************************************)

(* For any set of backups and any number of stagings in flight: as long as *)
(* the phrase stands, what is staged is what it was typed for, and the     *)
(* question is only ever opened about that.                                *)
THEOREM PhraseStandsForStaged == RestoreSpec => []PhraseIsForStaged
<1>1. RestoreInit => PhraseIsForStaged
  BY DEF RestoreInit, PhraseIsForStaged
<1>2. PhraseIsForStaged /\ [RestoreNext]_restoreVars => PhraseIsForStaged'
  <2> SUFFICES ASSUME PhraseIsForStaged, [RestoreNext]_restoreVars
               PROVE  PhraseIsForStaged'
    OBVIOUS
  <2> USE DEF PhraseIsForStaged
  <2>1. ASSUME NEW f \in Backups, ChooseFile(f) PROVE PhraseIsForStaged'
    BY <2>1 DEF ChooseFile
  <2>2. ASSUME NEW n \in Stagings, StageFile(n) PROVE PhraseIsForStaged'
    BY <2>2 DEF StageFile
  <2>3. ASSUME NEW n \in Stagings, StageAnswered(n) PROVE PhraseIsForStaged'
    BY <2>3 DEF StageAnswered, StagingEnds, TakeStaged
  <2>4. ASSUME NEW n \in Stagings, StageFails(n) PROVE PhraseIsForStaged'
    BY <2>4 DEF StageFails, StagingEnds
  <2>5. CASE TypePhrase
    BY <2>5 DEF TypePhrase
  <2>6. CASE AskToRestore
    BY <2>6 DEF AskToRestore
  <2>7. CASE DeclineRestore
    BY <2>7 DEF DeclineRestore
  <2>8. CASE AcceptRestore
    BY <2>8 DEF AcceptRestore
  <2>9. CASE RestoreEnds
    BY <2>9 DEF RestoreEnds
  <2>10. CASE UNCHANGED restoreVars
    BY <2>10 DEF restoreVars
  <2> QED BY <2>1, <2>2, <2>3, <2>4, <2>5, <2>6, <2>7, <2>8, <2>9, <2>10
          DEF RestoreNext
<1> QED BY <1>1, <1>2, PTL DEF RestoreSpec

(* An answer to the question restores what was asked about as long as the  *)
(* phrase still stands: what a staging that was answered in between has    *)
(* put in its place is restored without one, and only that.                *)
RestoredUnlessOvertaken ==
  [][AcceptRestore /\ confirmation => restoring' = asked]_restoreVars

(* It does, for any set of backups and any number of stagings.             *)
THEOREM OnlyOvertakenIsNotAsked == RestoreSpec => RestoredUnlessOvertaken
<1>1. PhraseIsForStaged => (AcceptRestore /\ confirmation => restoring' = asked)
  BY DEF AcceptRestore, PhraseIsForStaged
<1> QED BY <1>1, PhraseStandsForStaged, PTL DEF RestoredUnlessOvertaken

(***************************************************************************)
(* ObjectEditing: a guarded save merges.  It is a fact about the plans,    *)
(* once the request in flight is known to hold a plan made from the        *)
(* documents it names: at every path, either the tests have found the      *)
(* value the user started from and the user's is put there, or neither the *)
(* user nor the save changes anything.                                     *)
(***************************************************************************)

FieldValues == Leaves \cup Objects \cup {Absent}

-----------------------------------------------------------------------------
(* Paths. *)

(* Paths of different lengths or names differ. *)
LEMMA PathsApart ==
  /\ \A f \in Fields : <<f>> # <<>> /\ Len(<<f>>) = 1 /\ <<f>>[1] = f
  /\ \A f \in Fields, s \in Subfields :
       /\ <<f, s>> # <<>> /\ Len(<<f, s>>) = 2
       /\ <<f, s>>[1] = f /\ <<f, s>>[2] = s
       /\ Front(<<f, s>>) = <<f>>
       /\ \A g \in Fields : <<g>> # <<f, s>>
  /\ \A f \in Fields : Front(<<f>>) = <<>>
  /\ Len(<<>>) = 0
<1>1. /\ \A f \in Fields : <<f>> # <<>> /\ Len(<<f>>) = 1 /\ <<f>>[1] = f
      /\ Len(<<>>) = 0
  OBVIOUS
<1>2. \A f \in Fields, s \in Subfields :
        /\ <<f, s>> # <<>> /\ Len(<<f, s>>) = 2
        /\ <<f, s>>[1] = f /\ <<f, s>>[2] = s
        /\ \A g \in Fields : <<g>> # <<f, s>>
  OBVIOUS
<1>3. ASSUME NEW f \in Fields PROVE Front(<<f>>) = <<>>
  BY DEF Front
<1>4. ASSUME NEW f \in Fields, NEW s \in Subfields PROVE Front(<<f, s>>) = <<f>>
  <2>1. <<f, s>> \in Seq({f, s}) /\ <<f>> \in Seq({f, s})
    OBVIOUS
  <2>2. \A i \in 1..1 : <<f, s>>[i] \in {f, s}
    OBVIOUS
  <2>3. /\ SubSeq(<<f, s>>, 1, 1) \in Seq({f, s})
        /\ Len(SubSeq(<<f, s>>, 1, 1)) = 1
        /\ SubSeq(<<f, s>>, 1, 1)[1] = f
    BY <2>2, SubSeqProperties
  <2>4. Len(<<f>>) = 1 /\ <<f>>[1] = f
    OBVIOUS
  <2> DEFINE front == SubSeq(<<f, s>>, 1, 1)
             field == <<f>>
  <2> HIDE DEF front, field
  <2>5. /\ front \in Seq({f, s}) /\ field \in Seq({f, s})
        /\ Len(front) = Len(field) /\ \A i \in 1..Len(front) : front[i] = field[i]
    BY <2>1, <2>3, <2>4 DEF front, field
  <2>6. front = field
    BY <2>5, SeqEqual
  <2> QED BY <1>2, <2>6 DEF Front, front, field
<1> QED BY <1>1, <1>2, <1>3, <1>4

(* Every path is that of the document, of a field or of a subfield. *)
LEMMA PathCases ==
  ASSUME NEW p \in Paths \ {<<>>}
  PROVE  \/ \E f \in Fields : p = <<f>>
         \/ \E f \in Fields, s \in Subfields : p = <<f, s>>
BY DEF Paths

(* What is at the path of each kind. *)
LEMMA AtPath ==
  ASSUME NEW d
  PROVE  /\ At(d, <<>>) = d
         /\ \A f \in Fields : At(d, <<f>>) = d[f]
         /\ \A f \in Fields, s \in Subfields :
              At(d, <<f, s>>) = IF d[f] \in Objects THEN d[f][s] ELSE Absent
<1>1. At(d, <<>>) = d
  BY PathsApart DEF At
<1>2. ASSUME NEW f \in Fields PROVE At(d, <<f>>) = d[f]
  BY PathsApart DEF At
<1>3. ASSUME NEW f \in Fields, NEW s \in Subfields
      PROVE  At(d, <<f, s>>) = IF d[f] \in Objects THEN d[f][s] ELSE Absent
  BY PathsApart DEF At
<1> QED BY <1>1, <1>2, <1>3

(* A subfield's value is no object. *)
LEMMA SubfieldValues ==
  ASSUME NEW o \in Objects, NEW s \in Subfields
  PROVE  o[s] \in Leaves \cup {Absent} /\ o[s] \notin Objects
BY ValuesApart DEF Objects

-----------------------------------------------------------------------------
(* Patches. *)

(* Values that fit the paths they are for. *)
Fitting(values) ==
  /\ <<>> \in DOMAIN values => values[<<>>] \in Documents
  /\ \A f \in Fields : <<f>> \in DOMAIN values => values[<<f>>] \in FieldValues
  /\ \A f \in Fields, s \in Subfields :
       <<f, s>> \in DOMAIN values => values[<<f, s>>] \in Leaves \cup {Absent}

(* A patch gives a document. *)
LEMMA PatchedType ==
  ASSUME NEW d \in Documents, NEW values, Fitting(values)
  PROVE  Patched(d, values) \in Documents
<1>1. CASE <<>> \in DOMAIN values
  BY <1>1 DEF Patched, Fitting
<1>2. CASE <<>> \notin DOMAIN values
  <2> DEFINE new(f) == IF <<f>> \in DOMAIN values THEN values[<<f>>]
                       ELSE IF d[f] \in Objects
                       THEN [s \in Subfields |-> IF <<f, s>> \in DOMAIN values
                                                   THEN values[<<f, s>>] ELSE d[f][s]]
                       ELSE d[f]
  <2>1. Patched(d, values) = [f \in Fields |-> new(f)]
    BY <1>2 DEF Patched
  <2>2. ASSUME NEW f \in Fields PROVE new(f) \in FieldValues
    <3>1. CASE <<f>> \in DOMAIN values
      BY <3>1 DEF Fitting
    <3>2. CASE <<f>> \notin DOMAIN values /\ d[f] \in Objects
      <4>1. \A s \in Subfields : d[f][s] \in Leaves \cup {Absent}
        BY <3>2 DEF Objects
      <4>2. [s \in Subfields |-> IF <<f, s>> \in DOMAIN values
               THEN values[<<f, s>>] ELSE d[f][s]] \in Objects
        BY <4>1 DEF Fitting, Objects
      <4> QED BY <3>2, <4>2 DEF FieldValues
    <3>3. CASE <<f>> \notin DOMAIN values /\ d[f] \notin Objects
      BY <3>3 DEF Documents, FieldValues
    <3> QED BY <3>1, <3>2, <3>3
  <2> QED BY <2>1, <2>2 DEF Documents, FieldValues
<1> QED BY <1>1, <1>2

(* What a patch makes of a field, unless it replaces the document. *)
LEMMA PatchedAs ==
  ASSUME NEW d, NEW values, <<>> \notin DOMAIN values, NEW f \in Fields
  PROVE  Patched(d, values)[f] =
           IF <<f>> \in DOMAIN values THEN values[<<f>>]
           ELSE IF d[f] \in Objects
           THEN [s \in Subfields |-> IF <<f, s>> \in DOMAIN values
                                       THEN values[<<f, s>>] ELSE d[f][s]]
           ELSE d[f]
BY DEF Patched

(* A field that the patch names becomes what it has for it. *)
LEMMA PatchedField ==
  ASSUME NEW d, NEW values, <<>> \notin DOMAIN values, NEW f \in Fields,
         <<f>> \in DOMAIN values
  PROVE  Patched(d, values)[f] = values[<<f>>]
BY PatchedAs

(* An object changes in the subfields that the patch names. *)
LEMMA PatchedObject ==
  ASSUME NEW d, NEW values, <<>> \notin DOMAIN values, NEW f \in Fields,
         <<f>> \notin DOMAIN values, d[f] \in Objects
  PROVE  Patched(d, values)[f] =
           [s \in Subfields |-> IF <<f, s>> \in DOMAIN values
                                  THEN values[<<f, s>>] ELSE d[f][s]]
BY PatchedAs

(* A field of which the patch names nothing stays as it is. *)
LEMMA UnpatchedField ==
  ASSUME NEW d, NEW values, <<>> \notin DOMAIN values, NEW f \in Fields,
         <<f>> \notin DOMAIN values, \A s \in Subfields : <<f, s>> \notin DOMAIN values
  PROVE  Patched(d, values)[f] = d[f]
<1>1. CASE d[f] \in Objects
  <2>1. [s \in Subfields |-> IF <<f, s>> \in DOMAIN values
           THEN values[<<f, s>>] ELSE d[f][s]] = [s \in Subfields |-> d[f][s]]
    OBVIOUS
  <2>2. [s \in Subfields |-> d[f][s]] = d[f]
    BY <1>1 DEF Objects
  <2> QED BY <1>1, <2>1, <2>2, PatchedObject
<1>2. CASE d[f] \notin Objects
  BY <1>2, PatchedAs
<1> QED BY <1>1, <1>2

-----------------------------------------------------------------------------
(* Merging. *)

Passed(d, tests) == \A test \in tests : At(d, test[1]) = test[2]

(* At the path p, the change from d to next has been merged into now,      *)
(* which has become after.                                                 *)
MergedAt(d, next, now, after, p) ==
  IF Shape(d, p) = Shape(next, p)
    THEN Shape(after, p) = Shape(now, p)
    ELSE Shape(now, p) = Shape(d, p) /\ Shape(after, p) = Shape(next, p)

(* The two ways to merge at a path. *)
LEMMA MergedWays ==
  ASSUME NEW d, NEW next, NEW now, NEW after, NEW p,
         \/ At(now, p) = At(d, p) /\ At(after, p) = At(next, p)
         \/ Shape(d, p) = Shape(next, p) /\ Shape(after, p) = Shape(now, p)
  PROVE  MergedAt(d, next, now, after, p)
BY DEF MergedAt, Shape

(* A field with the value the user started from, which becomes the user's. *)
LEMMA FieldTaken ==
  ASSUME NEW d, NEW next, NEW now, NEW after, NEW f \in Fields,
         now[f] = d[f], after[f] = next[f]
  PROVE  /\ MergedAt(d, next, now, after, <<f>>)
         /\ \A s \in Subfields : MergedAt(d, next, now, after, <<f, s>>)
BY AtPath, MergedWays

(* A field that neither the user nor the save changes. *)
LEMMA FieldLeft ==
  ASSUME NEW d, NEW next, NEW now, NEW after, NEW f \in Fields,
         next[f] = d[f], after[f] = now[f]
  PROVE  /\ MergedAt(d, next, now, after, <<f>>)
         /\ \A s \in Subfields : MergedAt(d, next, now, after, <<f, s>>)
BY AtPath, MergedWays DEF Shape

(* A field that is an object throughout, merged subfield by subfield. *)
LEMMA ObjectMerged ==
  ASSUME NEW d, NEW next, NEW now, NEW after, NEW f \in Fields,
         {d[f], next[f], now[f], after[f]} \subseteq Objects,
         \A s \in Subfields :
           \/ now[f][s] = d[f][s] /\ after[f][s] = next[f][s]
           \/ next[f][s] = d[f][s] /\ after[f][s] = now[f][s]
  PROVE  /\ MergedAt(d, next, now, after, <<f>>)
         /\ \A s \in Subfields : MergedAt(d, next, now, after, <<f, s>>)
<1>1. MergedAt(d, next, now, after, <<f>>)
  BY AtPath DEF MergedAt, Shape
<1>2. ASSUME NEW s \in Subfields PROVE MergedAt(d, next, now, after, <<f, s>>)
  <2>1. /\ At(d, <<f, s>>) = d[f][s] /\ At(next, <<f, s>>) = next[f][s]
        /\ At(now, <<f, s>>) = now[f][s] /\ At(after, <<f, s>>) = after[f][s]
    BY AtPath
  <2> QED BY <2>1, MergedWays DEF Shape
<1> QED BY <1>1, <1>2

(* A field that the user leaves an object, and the save what it is. *)
LEMMA ObjectLeft ==
  ASSUME NEW d, NEW next, NEW now, NEW after, NEW f \in Fields,
         {d[f], next[f]} \subseteq Objects,
         \A s \in Subfields : next[f][s] = d[f][s],
         after[f] = now[f]
  PROVE  /\ MergedAt(d, next, now, after, <<f>>)
         /\ \A s \in Subfields : MergedAt(d, next, now, after, <<f, s>>)
BY AtPath, MergedWays DEF Shape

-----------------------------------------------------------------------------
(* The plan of a draft. *)

(* What a plan compares. *)
LEMMA TouchedPaths ==
  ASSUME NEW d \in Documents, NEW next \in Documents, NEW f \in Fields
  PROVE  /\ <<>> \notin Touched(d, next)
         /\ <<f>> \in Touched(d, next) <=>
              ~({d[f], next[f]} \subseteq Objects) /\ d[f] # next[f]
         /\ \A s \in Subfields : <<f, s>> \in Touched(d, next) <=>
              {d[f], next[f]} \subseteq Objects /\ d[f][s] # next[f][s]
<1>1. <<>> \notin Touched(d, next)
  BY DEF Touched, Compared
<1>2. <<f>> \in Paths \ {<<>>} /\ \A s \in Subfields : <<f, s>> \in Paths \ {<<>>}
  BY PathsApart DEF Paths
<1>3. <<f>> \in Compared(d, next) <=> ~({d[f], next[f]} \subseteq Objects)
  BY <1>2, PathsApart DEF Compared
<1>4. \A s \in Subfields :
        <<f, s>> \in Compared(d, next) <=> {d[f], next[f]} \subseteq Objects
  BY <1>2, PathsApart DEF Compared
<1>5. <<f>> \in Touched(d, next) <=>
        ~({d[f], next[f]} \subseteq Objects) /\ d[f] # next[f]
  BY <1>3, AtPath DEF Touched
<1>6. ASSUME NEW s \in Subfields
      PROVE  <<f, s>> \in Touched(d, next) <=>
               {d[f], next[f]} \subseteq Objects /\ d[f][s] # next[f][s]
  <2>1. {d[f], next[f]} \subseteq Objects =>
          At(d, <<f, s>>) = d[f][s] /\ At(next, <<f, s>>) = next[f][s]
    BY AtPath
  <2> QED BY <1>4, <2>1 DEF Touched
<1> QED BY <1>1, <1>5, <1>6

(* What the guards of a plan say, when they hold. *)
LEMMA GuardHolds ==
  ASSUME NEW d, NEW now, NEW touched, Passed(now, {Guard(d, q) : q \in touched}),
         NEW p \in touched
  PROVE  /\ At(d, p) # Absent => At(now, p) = At(d, p)
         /\ At(d, p) = Absent => At(now, Front(p)) = At(d, Front(p))
<1>1. At(now, Guard(d, p)[1]) = Guard(d, p)[2]
  BY DEF Passed
<1>2. At(d, p) # Absent => Guard(d, p)[1] = p /\ Guard(d, p)[2] = At(d, p)
  BY DEF Guard
<1>3. At(d, p) = Absent => /\ Guard(d, p)[1] = Front(p)
                           /\ Guard(d, p)[2] = At(d, Front(p))
  BY DEF Guard
<1> QED BY <1>1, <1>2, <1>3

(* The guard of a field: it is what it was. *)
LEMMA FieldGuard ==
  ASSUME NEW d, NEW now, NEW touched, Passed(now, {Guard(d, q) : q \in touched}),
         NEW f \in Fields, <<f>> \in touched
  PROVE  now[f] = d[f]
<1>1. Front(<<f>>) = <<>>
  BY PathsApart
<1>2. CASE At(d, <<f>>) # Absent
  <2>1. At(now, <<f>>) = At(d, <<f>>)
    BY <1>2, GuardHolds
  <2> QED BY <2>1, AtPath
<1>3. CASE At(d, <<f>>) = Absent
  <2>1. At(now, <<>>) = At(d, <<>>)
    BY <1>1, <1>3, GuardHolds
  <2> QED BY <2>1, AtPath
<1> QED BY <1>2, <1>3

(* The guard of a subfield: it is what it was, in what still is an object. *)
LEMMA SubfieldGuard ==
  ASSUME NEW d, NEW now, NEW touched, Passed(now, {Guard(d, q) : q \in touched}),
         NEW f \in Fields, NEW s \in Subfields, <<f, s>> \in touched, d[f] \in Objects
  PROVE  now[f] \in Objects /\ now[f][s] = d[f][s]
<1>1. /\ At(d, <<f, s>>) = d[f][s]
      /\ At(now, <<f, s>>) = IF now[f] \in Objects THEN now[f][s] ELSE Absent
      /\ At(d, <<f>>) = d[f] /\ At(now, <<f>>) = now[f]
  BY AtPath
<1>2. Front(<<f, s>>) = <<f>>
  BY PathsApart
<1>3. CASE d[f][s] # Absent
  <2>1. At(now, <<f, s>>) = At(d, <<f, s>>)
    BY <1>1, <1>3, GuardHolds
  <2> QED BY <1>1, <1>3, <2>1
<1>4. CASE d[f][s] = Absent
  <2>1. At(now, <<f>>) = At(d, <<f>>)
    BY <1>1, <1>2, <1>4, GuardHolds
  <2> QED BY <1>1, <2>1
<1> QED BY <1>3, <1>4

(* A plan whose tests hold merges. *)
LEMMA PlanMerges ==
  ASSUME NEW d \in Documents, NEW next \in Documents, NEW now \in Documents,
         Passed(now, Plan(d, next).tests), NEW p \in Paths \ {<<>>}
  PROVE  MergedAt(d, next, now, Patched(now, Plan(d, next).values), p)
<1> DEFINE touched == Touched(d, next)
           tests == {Guard(d, q) : q \in touched}
           small == [tests |-> tests, values |-> [q \in touched |-> At(next, q)]]
           whole == [tests |-> {<<<<>>, d>>}, values |-> [q \in {<<>>} |-> next]]
<1>1. Plan(d, next) \in {small, whole}
  BY DEF Plan
<1>2. CASE Plan(d, next) = whole
  <2>1. Plan(d, next).tests = {<<<<>>, d>>}
    BY <1>2
  <2>2. \A test \in {<<<<>>, d>>} : At(now, test[1]) = test[2]
    BY <2>1 DEF Passed
  <2>3. At(now, <<>>) = d
    BY <2>2
  <2>4. now = d
    BY <2>3, AtPath
  <2>5. Patched(now, whole.values) = next
    BY DEF Patched
  <2> QED BY <1>2, <2>4, <2>5, MergedWays
<1>3. CASE Plan(d, next) = small
  <2> DEFINE values == small.values
             after == Patched(now, values)
  <2>1. Passed(now, {Guard(d, q) : q \in touched})
    BY <1>3
  <2>2. DOMAIN values = touched /\ \A q \in touched : values[q] = At(next, q)
    OBVIOUS
  <2> HIDE DEF values
  <2>3. ASSUME NEW f \in Fields
        PROVE  /\ MergedAt(d, next, now, after, <<f>>)
               /\ \A s \in Subfields : MergedAt(d, next, now, after, <<f, s>>)
    <3>1. <<>> \notin DOMAIN values
      BY <2>2, TouchedPaths
    <3>2. CASE ~({d[f], next[f]} \subseteq Objects) /\ d[f] # next[f]
      <4>1. <<f>> \in touched
        BY <3>2, TouchedPaths
      <4>2. now[f] = d[f]
        BY <2>1, <4>1, FieldGuard
      <4>3. after[f] = At(next, <<f>>)
        BY <2>2, <3>1, <4>1, PatchedField
      <4>4. after[f] = next[f]
        BY <4>3, AtPath
      <4> QED BY <4>2, <4>4, FieldTaken
    <3>3. CASE ~({d[f], next[f]} \subseteq Objects) /\ d[f] = next[f]
      <4>1. <<f>> \notin touched /\ \A s \in Subfields : <<f, s>> \notin touched
        BY <3>3, TouchedPaths
      <4>2. after[f] = now[f]
        BY <2>2, <3>1, <4>1, UnpatchedField
      <4> QED BY <3>3, <4>2, FieldLeft
    <3>4. CASE {d[f], next[f]} \subseteq Objects /\ \A s \in Subfields : <<f, s>> \notin touched
      <4>1. <<f>> \notin touched
        BY <3>4, TouchedPaths
      <4>2. after[f] = now[f]
        BY <2>2, <3>1, <3>4, <4>1, UnpatchedField
      <4>3. ASSUME NEW s \in Subfields PROVE next[f][s] = d[f][s]
        <5>1. <<f, s>> \notin touched
          BY <3>4
        <5>2. <<f, s>> \in touched <=>
                {d[f], next[f]} \subseteq Objects /\ d[f][s] # next[f][s]
          BY TouchedPaths
        <5> HIDE DEF touched
        <5> QED BY <3>4, <5>1, <5>2
      <4> QED BY <3>4, <4>2, <4>3, ObjectLeft
    <3>5. CASE {d[f], next[f]} \subseteq Objects /\ \E s \in Subfields : <<f, s>> \in touched
      <4>1. <<f>> \notin touched
        BY <3>5, TouchedPaths
      <4>2. now[f] \in Objects
        BY <2>1, <3>5, SubfieldGuard
      <4>3. after[f] = [s \in Subfields |-> IF <<f, s>> \in touched
                                              THEN values[<<f, s>>] ELSE now[f][s]]
        BY <2>2, <3>1, <4>1, <4>2, PatchedObject
      <4>4. ASSUME NEW s \in Subfields
            PROVE  /\ after[f][s] \in Leaves \cup {Absent}
                   /\ \/ now[f][s] = d[f][s] /\ after[f][s] = next[f][s]
                      \/ next[f][s] = d[f][s] /\ after[f][s] = now[f][s]
        <5>1. CASE <<f, s>> \in touched
          <6>1. after[f][s] = At(next, <<f, s>>)
            BY <2>2, <4>3, <5>1
          <6>2. At(next, <<f, s>>) = next[f][s]
            BY <3>5, AtPath
          <6>3. now[f] \in Objects /\ now[f][s] = d[f][s]
            BY <2>1, <3>5, <5>1, SubfieldGuard
          <6>4. next[f][s] \in Leaves \cup {Absent}
            BY <3>5, SubfieldValues
          <6> QED BY <6>1, <6>2, <6>3, <6>4
        <5>2. CASE <<f, s>> \notin touched
          <6>1. next[f][s] = d[f][s]
            BY <3>5, <5>2, TouchedPaths
          <6> QED BY <4>2, <4>3, <5>2, <6>1, SubfieldValues
        <5> QED BY <5>1, <5>2
      <4>5. after[f] \in Objects
        BY <4>3, <4>4 DEF Objects
      <4> QED BY <3>5, <4>2, <4>4, <4>5, ObjectMerged
    <3> QED BY <3>2, <3>3, <3>4, <3>5
  <2>4. MergedAt(d, next, now, after, p)
    BY <2>3, PathCases
  <2> QED BY <1>3, <2>4 DEF values
<1> QED BY <1>1, <1>2, <1>3

(* The values of a plan fit. *)
LEMMA PlanFits ==
  ASSUME NEW d \in Documents, NEW next \in Documents
  PROVE  Fitting(Plan(d, next).values)
<1> DEFINE touched == Touched(d, next)
           values == [q \in touched |-> At(next, q)]
           whole == [q \in {<<>>} |-> next]
<1>1. Plan(d, next).values \in {values, whole}
  BY DEF Plan
<1>2. Fitting(whole)
  BY PathsApart DEF Fitting
<1>3. Fitting(values)
  <2>1. <<>> \notin touched
    BY TouchedPaths DEF Touched, Compared
  <2>2. ASSUME NEW f \in Fields, <<f>> \in touched PROVE values[<<f>>] \in FieldValues
    BY <2>2, AtPath DEF Documents, FieldValues
  <2>3. ASSUME NEW f \in Fields, NEW s \in Subfields, <<f, s>> \in touched
        PROVE  values[<<f, s>>] \in Leaves \cup {Absent}
    <3>1. next[f] \in Objects
      BY <2>3, TouchedPaths
    <3> QED BY <2>3, <3>1, AtPath, SubfieldValues
  <2> QED BY <2>1, <2>2, <2>3 DEF Fitting
<1> QED BY <1>1, <1>2, <1>3

-----------------------------------------------------------------------------
(* The plan of one field. *)

(* The value of one field fits it. *)
LEMMA FieldFits ==
  ASSUME NEW q \in Paths \ {<<>>}, NEW v \in Leaves
  PROVE  Fitting([r \in {q} |-> v])
BY DEF Fitting, FieldValues

(* A field plan whose test holds merges. *)
LEMMA FieldPlanMerges ==
  ASSUME NEW d \in Documents, NEW now \in Documents,
         NEW q \in Paths \ {<<>>}, NEW v \in Leaves,
         At(d, q) \notin {Absent} \cup Objects,
         Passed(now, FieldPlan(d, q, v).tests), NEW p \in Paths \ {<<>>}
  PROVE  MergedAt(d, Patched(d, [r \in {q} |-> v]), now,
                  Patched(now, FieldPlan(d, q, v).values), p)
<1> DEFINE values == [r \in {q} |-> v]
           next == Patched(d, values)
           after == Patched(now, values)
<1>1. At(now, q) = At(d, q)
  <2>1. FieldPlan(d, q, v).tests = {<<q, At(d, q)>>}
    BY DEF FieldPlan
  <2>2. \A test \in {<<q, At(d, q)>>} : At(now, test[1]) = test[2]
    BY <2>1 DEF Passed
  <2> QED BY <2>2
<1>2. FieldPlan(d, q, v).values = values
  BY DEF FieldPlan
<1>3. DOMAIN values = {q} /\ values[q] = v /\ <<>> \notin DOMAIN values
  OBVIOUS
<1> HIDE DEF values
<1>4. ASSUME NEW f \in Fields, <<f>> # q, \A s \in Subfields : <<f, s>> # q
      PROVE  /\ MergedAt(d, next, now, after, <<f>>)
             /\ \A s \in Subfields : MergedAt(d, next, now, after, <<f, s>>)
  <2>1. next[f] = d[f]
    BY <1>3, <1>4, UnpatchedField
  <2>2. after[f] = now[f]
    BY <1>3, <1>4, UnpatchedField
  <2> QED BY <2>1, <2>2, FieldLeft
<1>5. ASSUME NEW g \in Fields, q = <<g>>
      PROVE  \A f \in Fields :
               /\ MergedAt(d, next, now, after, <<f>>)
               /\ \A s \in Subfields : MergedAt(d, next, now, after, <<f, s>>)
  <2>1. now[g] = d[g]
    BY <1>1, <1>5, AtPath
  <2> DEFINE path == <<g>>
  <2>0. path \in DOMAIN values /\ values[path] = v /\ <<>> \notin DOMAIN values
    BY <1>3, <1>5
  <2>2. next[g] = v
    BY <2>0, PatchedField
  <2>3. after[g] = v
    BY <2>0, PatchedField
  <2>4. ASSUME NEW f \in Fields, f # g
        PROVE  <<f>> # q /\ \A s \in Subfields : <<f, s>> # q
    BY <1>5, <2>4, PathsApart
  <2> QED BY <1>4, <2>1, <2>2, <2>3, <2>4, FieldTaken
<1>6. ASSUME NEW g \in Fields, NEW t \in Subfields, q = <<g, t>>
      PROVE  \A f \in Fields :
               /\ MergedAt(d, next, now, after, <<f>>)
               /\ \A s \in Subfields : MergedAt(d, next, now, after, <<f, s>>)
  <2>1. /\ At(d, q) = IF d[g] \in Objects THEN d[g][t] ELSE Absent
        /\ At(now, q) = IF now[g] \in Objects THEN now[g][t] ELSE Absent
    BY <1>6, AtPath
  <2>2. d[g] \in Objects /\ now[g] \in Objects /\ now[g][t] = d[g][t]
    BY <1>1, <2>1
  <2>3. <<g>> \notin DOMAIN values
    BY <1>3, <1>6, PathsApart
  <2>0. <<>> \notin DOMAIN values
    BY <1>3
  <2>4. next[g] = [s \in Subfields |-> IF <<g, s>> \in DOMAIN values
                                          THEN values[<<g, s>>] ELSE d[g][s]]
    BY <2>0, <2>2, <2>3, PatchedObject
  <2>5. after[g] = [s \in Subfields |-> IF <<g, s>> \in DOMAIN values
                                           THEN values[<<g, s>>] ELSE now[g][s]]
    BY <2>0, <2>2, <2>3, PatchedObject
  <2>6. \A s \in Subfields : <<g, s>> \in DOMAIN values <=> s = t
    BY <1>3, <1>6, PathsApart
  <2>7. ASSUME NEW s \in Subfields
        PROVE  /\ next[g][s] = IF s = t THEN v ELSE d[g][s]
               /\ after[g][s] = IF s = t THEN v ELSE now[g][s]
    BY <1>3, <1>6, <2>4, <2>5, <2>6
  <2>8. next[g] \in Objects
    BY <2>2, <2>4, <2>7, SubfieldValues DEF Objects
  <2>9. after[g] \in Objects
    BY <2>2, <2>5, <2>7, SubfieldValues DEF Objects
  <2>10. ASSUME NEW f \in Fields, f # g
         PROVE  <<f>> # q /\ \A s \in Subfields : <<f, s>> # q
    BY <1>6, <2>10, PathsApart
  <2>11. /\ MergedAt(d, next, now, after, <<g>>)
         /\ \A s \in Subfields : MergedAt(d, next, now, after, <<g, s>>)
    BY <2>2, <2>7, <2>8, <2>9, ObjectMerged
  <2> QED BY <1>4, <2>10, <2>11
<1>7. \A f \in Fields :
        /\ MergedAt(d, next, now, after, <<f>>)
        /\ \A s \in Subfields : MergedAt(d, next, now, after, <<f, s>>)
  BY <1>5, <1>6, PathCases
<1>8. MergedAt(d, next, now, after, p)
  BY <1>7, PathCases
<1> QED BY <1>2, <1>8 DEF values

-----------------------------------------------------------------------------
(* The page. *)

Documented ==
  /\ data \in Documents /\ known \in Documents
  /\ draft \in Documents /\ origin \in Documents

(* The ways a guarded plan is made. *)
Made(r) ==
  /\ r.from \in Documents /\ r.next \in Documents
  /\ \/ r.plan = Plan(r.from, r.next)
     \/ \E p \in Paths \ {<<>>}, v \in Leaves :
          /\ At(r.from, p) \notin {Absent} \cup Objects
          /\ r.next = Patched(r.from, [q \in {p} |-> v])
          /\ r.plan = FieldPlan(r.from, p, v)

Outstanding(r) == r # NoSave /\ r.answer = "none"

SaveIsMade(r) ==
  /\ r # NoSave => "answer" \in DOMAIN r
  /\ Outstanding(r) => Fitting(r.plan.values)
  /\ Outstanding(r) /\ r.guarded => Made(r)

EditingInv == Documented /\ SaveIsMade(save)

(* A request that is sent. *)
LEMMA SentIsMade ==
  ASSUME NEW plan, NEW from, NEW next, NEW guarded \in BOOLEAN, Fitting(plan.values),
         guarded => Made(Sent(plan, from, next, guarded))
  PROVE  SaveIsMade(Sent(plan, from, next, guarded))
BY DEF Sent, SaveIsMade, Outstanding

(* Submitting a draft. *)
LEMMA SubmitKeeps ==
  ASSUME EditingInv, NEW next \in Documents, SubmitEdits(next)
  PROVE  draft' \in Documents /\ origin' \in Documents /\ SaveIsMade(save')
<1> DEFINE all == [tests |-> {}, values |-> [p \in {<<>>} |-> next]]
<1>1. CASE Touched(known, next) = {}
  BY <1>1 DEF SubmitEdits, EndEdit, EditingInv, Documented
<1>2. CASE Touched(known, next) # {}
  <2>1. /\ draft' = next /\ origin' = origin
        /\ save' \in {Sent(Plan(known, next), known, next, TRUE),
                      Sent(all, known, next, FALSE)}
    BY <1>2 DEF SubmitEdits
  <2>2. SaveIsMade(Sent(Plan(known, next), known, next, TRUE))
    <3>1. Made(Sent(Plan(known, next), known, next, TRUE))
      BY DEF Made, Sent, EditingInv, Documented
    <3> QED BY <3>1, PlanFits, SentIsMade DEF EditingInv, Documented
  <2>3. SaveIsMade(Sent(all, known, next, FALSE))
    <3>1. Fitting(all.values)
      BY PathsApart DEF Fitting
    <3> QED BY <3>1, SentIsMade
  <2> QED BY <2>1, <2>2, <2>3 DEF EditingInv, Documented
<1> QED BY <1>1, <1>2

(* Saving one field. *)
LEMMA FieldKeeps ==
  ASSUME EditingInv, NEW p \in Paths \ {<<>>}, NEW v \in Leaves, SaveField(p, v)
  PROVE  EditingInv'
<1> DEFINE values == [q \in {p} |-> v]
           next == Patched(draft, values)
           request == Sent(FieldPlan(draft, p, v), draft, next, TRUE)
<1>1. Fitting(values)
  BY FieldFits
<1>2. next \in Documents
  BY <1>1, PatchedType DEF EditingInv, Documented
<1>3. UNCHANGED <<data, known>> /\ At(draft, p) \notin {Absent} \cup Objects
  BY DEF SaveField
<1>4. CASE SubmitEdits(next)
  BY <1>2, <1>3, <1>4, SubmitKeeps DEF EditingInv, Documented
<1>5. CASE save' = request /\ draft' = next /\ origin' = origin
  <2>1. Made(request)
    BY <1>2, <1>3 DEF Made, Sent, EditingInv, Documented
  <2>2. Fitting(FieldPlan(draft, p, v).values)
    BY <1>1 DEF FieldPlan
  <2>3. SaveIsMade(request)
    BY <2>1, <2>2, SentIsMade
  <2> QED BY <1>2, <1>3, <1>5, <2>3 DEF EditingInv, Documented
<1> QED BY <1>4, <1>5 DEF SaveField

(* What the backend does with a request. *)
LEMMA ServeKeeps == ASSUME EditingInv, ServeSave PROVE EditingInv'
<1>1. /\ save # NoSave /\ save.answer = "none"
      /\ data' = Patched(data, save.plan.values)
      /\ UNCHANGED <<known, draft, origin>>
  BY DEF ServeSave
<1>2. PICK ans \in {"saved", "failed"} : save' = [save EXCEPT !.answer = ans]
  BY DEF ServeSave
<1>3. data' \in Documents
  BY <1>1, PatchedType DEF EditingInv, Documented, SaveIsMade, Outstanding
<1>4. SaveIsMade(save')
  BY <1>1, <1>2 DEF EditingInv, SaveIsMade, Outstanding
<1> QED BY <1>1, <1>3, <1>4 DEF EditingInv, Documented

(* Every step keeps the invariant. *)
LEMMA EditingStep == EditingInv /\ [EditingNext]_editingVars => EditingInv'
<1> SUFFICES ASSUME EditingInv, [EditingNext]_editingVars PROVE EditingInv'
  OBVIOUS
<1>0. Documented /\ SaveIsMade(save)
  BY DEF EditingInv
<1>1. CASE OtherEdit
  <2>1. PICK f \in Fields, v \in Leaves \cup Objects \cup {Absent} :
          data' = [data EXCEPT ![f] = v]
    BY <1>1 DEF OtherEdit
  <2>2. data' \in Documents
    BY <1>0, <2>1 DEF Documented, Documents
  <2> QED BY <1>0, <1>1, <2>2 DEF OtherEdit, EditingInv, Documented
<1>2. CASE Refetch
  BY <1>0, <1>2 DEF Refetch, EditingInv, Documented
<1>3. CASE BeginEdit
  BY <1>0, <1>3 DEF BeginEdit, EditingInv, Documented
<1>4. ASSUME NEW d \in Documents, ChangeDraft(d) PROVE EditingInv'
  BY <1>0, <1>4 DEF ChangeDraft, EditingInv, Documented
<1>5. CASE CancelEdit
  BY <1>0, <1>5 DEF CancelEdit, EndEdit, EditingInv, Documented
<1>6. CASE SaveChanges
  <2>1. (IF dirty THEN draft ELSE known) \in Documents
    BY <1>0 DEF Documented
  <2>2. SubmitEdits(IF dirty THEN draft ELSE known) /\ UNCHANGED <<data, known>>
    BY <1>6 DEF SaveChanges
  <2> QED BY <1>0, <2>1, <2>2, SubmitKeeps DEF EditingInv, Documented
<1>7. ASSUME NEW p \in Paths \ {<<>>}, NEW v \in Leaves, SaveField(p, v)
      PROVE  EditingInv'
  BY <1>7, FieldKeeps
<1>8. CASE ServeSave
  BY <1>8, ServeKeeps
<1>9. CASE RejectSave
  <2>1. SaveIsMade(save')
    BY <1>0, <1>9 DEF RejectSave, SaveIsMade, Outstanding
  <2> QED BY <1>0, <1>9, <2>1 DEF RejectSave, EditingInv, Documented
<1>10. CASE SaveAnswered
  <2>1. save' = NoSave
    BY <1>10 DEF SaveAnswered
  <2> QED BY <1>0, <1>10, <2>1
          DEF SaveAnswered, EndEdit, EditingInv, Documented, SaveIsMade, Outstanding
<1>11. CASE UNCHANGED editingVars
  BY <1>0, <1>11 DEF editingVars, EditingInv, Documented
<1> QED BY <1>1, <1>2, <1>3, <1>4, <1>5, <1>6, <1>7, <1>8, <1>9, <1>10, <1>11
        DEF EditingNext

(* A change of the data by a guarded save is a merge. *)
LEMMA GuardedMerges ==
  ASSUME EditingInv, [EditingNext]_editingVars, Guarded, data' # data,
         NEW p \in Paths \ {<<>>}
  PROVE  MergedAt(save.from, save.next, data, data', p)
<1>1. ServeSave
  BY DEF EditingNext, Guarded, OtherEdit, Refetch, BeginEdit, ChangeDraft, CancelEdit,
         SaveChanges, SaveField, RejectSave, SaveAnswered, editingVars
<1>2. Passed(data, save.plan.tests) /\ data' = Patched(data, save.plan.values)
  BY <1>1 DEF ServeSave, Passed
<1>3. Made(save) /\ data \in Documents
  BY DEF Guarded, EditingInv, SaveIsMade, Outstanding, Documented
<1>4. CASE save.plan = Plan(save.from, save.next)
  BY <1>2, <1>3, <1>4, PlanMerges DEF Made
<1>5. ASSUME NEW q \in Paths \ {<<>>}, NEW v \in Leaves,
             At(save.from, q) \notin {Absent} \cup Objects,
             save.next = Patched(save.from, [r \in {q} |-> v]),
             save.plan = FieldPlan(save.from, q, v)
      PROVE  MergedAt(save.from, save.next, data, data', p)
  <2>1. /\ Passed(data, FieldPlan(save.from, q, v).tests)
        /\ data' = Patched(data, FieldPlan(save.from, q, v).values)
    BY <1>2, <1>5
  <2>2. save.from \in Documents
    BY <1>3 DEF Made
  <2>3. MergedAt(save.from, Patched(save.from, [r \in {q} |-> v]), data,
                 Patched(data, FieldPlan(save.from, q, v).values), p)
    BY <1>3, <1>5, <2>1, <2>2, FieldPlanMerges
  <2> QED BY <1>5, <2>1, <2>3
<1> QED BY <1>3, <1>4, <1>5 DEF Made

(* For documents of any fields and values and any limit of operations, a   *)
(* guarded save from the data the draft was made from merges.              *)
THEOREM GuardedSavesMerge == EditingSpec => SaveMerges
<1>1. EditingInit => EditingInv
  BY DEF EditingInit, EditingInv, Documented, SaveIsMade, Outstanding
<1>2. EditingInv /\ [EditingNext]_editingVars =>
        [Guarded /\ save.from = origin /\ data' # data =>
           \A p \in Paths \ {<<>>} :
             IF Shape(origin, p) = Shape(save.next, p)
               THEN Shape(data', p) = Shape(data, p)
               ELSE /\ Shape(data, p) = Shape(origin, p)
                    /\ Shape(data', p) = Shape(save.next, p)]_editingVars
  <2> SUFFICES ASSUME EditingInv, [EditingNext]_editingVars,
                      Guarded, save.from = origin, data' # data,
                      NEW p \in Paths \ {<<>>}
               PROVE  IF Shape(origin, p) = Shape(save.next, p)
                        THEN Shape(data', p) = Shape(data, p)
                        ELSE /\ Shape(data, p) = Shape(origin, p)
                             /\ Shape(data', p) = Shape(save.next, p)
    OBVIOUS
  <2> QED BY GuardedMerges DEF MergedAt
<1> QED BY <1>1, <1>2, EditingStep, PTL DEF EditingSpec, SaveMerges

(* The plan that buildObjectDataPatchPlan makes turns the document it was  *)
(* made from into the draft, and its own tests let it.                     *)
THEOREM PlansAreExact ==
  ASSUME NEW d \in Documents, NEW next \in Documents
  PROVE  /\ Passed(d, Plan(d, next).tests)
         /\ Patched(d, Plan(d, next).values) = next
<1> DEFINE touched == Touched(d, next)
           values == [p \in touched |-> At(next, p)]
           whole == [p \in {<<>>} |-> next]
<1>1. Passed(d, {Guard(d, p) : p \in touched})
  BY DEF Passed, Guard
<1>2. Passed(d, {<<<<>>, d>>})
  BY AtPath DEF Passed
<1>3. Patched(d, whole) = next
  BY DEF Patched
<1>4. Patched(d, values) = next
  <2>1. <<>> \notin DOMAIN values
    BY DEF Touched, Compared
  <2>2. ASSUME NEW f \in Fields PROVE Patched(d, values)[f] = next[f]
    <3>1. DOMAIN values = touched /\ d[f] \in FieldValues /\ next[f] \in FieldValues
      BY DEF Documents, FieldValues
    <3>2. CASE <<f>> \in touched
      <4>1. values[<<f>>] = next[f]
        BY <3>2, AtPath
      <4> QED BY <2>1, <3>1, <3>2, <4>1, PatchedField
    <3>3. CASE <<f>> \notin touched /\ {d[f], next[f]} \subseteq Objects
      <4>1. Patched(d, values)[f] =
              [s \in Subfields |-> IF <<f, s>> \in DOMAIN values
                                     THEN values[<<f, s>>] ELSE d[f][s]]
        BY <2>1, <3>1, <3>3, PatchedObject
      <4>2. ASSUME NEW s \in Subfields
            PROVE  (IF <<f, s>> \in DOMAIN values
                      THEN values[<<f, s>>] ELSE d[f][s]) = next[f][s]
        <5>1. CASE <<f, s>> \in touched
          BY <3>1, <3>3, <5>1, AtPath
        <5>2. CASE <<f, s>> \notin touched
          BY <3>1, <3>3, <5>2, TouchedPaths
        <5> QED BY <5>1, <5>2
      <4>3. Patched(d, values)[f] = [s \in Subfields |-> next[f][s]]
        BY <4>1, <4>2
      <4>4. [s \in Subfields |-> next[f][s]] = next[f]
        BY <3>3 DEF Objects
      <4> QED BY <4>3, <4>4
    <3>4. CASE <<f>> \notin touched /\ ~({d[f], next[f]} \subseteq Objects)
      <4>1. d[f] = next[f]
        BY <3>4, TouchedPaths
      <4>2. \A s \in Subfields : <<f, s>> \notin DOMAIN values
        BY <3>1, <3>4, TouchedPaths
      <4> QED BY <2>1, <3>1, <3>4, <4>1, <4>2, UnpatchedField
    <3> QED BY <3>2, <3>3, <3>4
  <2>3. Patched(d, values) = [f \in Fields |-> Patched(d, values)[f]]
    BY <2>1 DEF Patched
  <2>4. next = [f \in Fields |-> next[f]]
    BY DEF Documents
  <2> HIDE DEF values
  <2>5. [f \in Fields |-> Patched(d, values)[f]] = [f \in Fields |-> next[f]]
    BY <2>2
  <2> QED BY <2>3, <2>4, <2>5
<1>5. CASE Plan(d, next) = [tests |-> {<<<<>>, d>>}, values |-> whole]
  BY <1>2, <1>3, <1>5
<1>6. CASE Plan(d, next) =
             [tests |-> {Guard(d, p) : p \in touched}, values |-> values]
  BY <1>1, <1>4, <1>6
<1> QED BY <1>5, <1>6 DEF Plan

(* A guarded save that finds the data it was made from, untouched by       *)
(* anybody else, leaves exactly what the user saved.                       *)
SavesLeaveTheDraft ==
  [][Guarded /\ save.from = data /\ data' # data => data' = save.next]_editingVars

(* It does, for both ways to save, whatever the limit of operations.       *)
THEOREM SavesAreExact == EditingSpec => SavesLeaveTheDraft
<1>1. EditingInit => EditingInv
  BY DEF EditingInit, EditingInv, Documented, SaveIsMade, Outstanding
<1>2. EditingInv /\ [EditingNext]_editingVars =>
        [Guarded /\ save.from = data /\ data' # data =>
           data' = save.next]_editingVars
  <2> SUFFICES ASSUME EditingInv, [EditingNext]_editingVars,
                      Guarded, save.from = data, data' # data
               PROVE  data' = save.next
    OBVIOUS
  <2>1. ServeSave
    BY DEF EditingNext, Guarded, OtherEdit, Refetch, BeginEdit, ChangeDraft,
           CancelEdit, SaveChanges, SaveField, RejectSave, SaveAnswered,
           editingVars
  <2>2. data' = Patched(data, save.plan.values)
    BY <2>1 DEF ServeSave
  <2>3. Made(save)
    BY DEF Guarded, EditingInv, SaveIsMade, Outstanding
  <2>4. CASE save.plan = Plan(save.from, save.next)
    BY <2>2, <2>3, <2>4, PlansAreExact DEF Made
  <2>5. ASSUME NEW q \in Paths \ {<<>>}, NEW v \in Leaves,
               save.next = Patched(save.from, [r \in {q} |-> v]),
               save.plan = FieldPlan(save.from, q, v)
        PROVE  data' = save.next
    BY <2>2, <2>5 DEF FieldPlan
  <2> QED BY <2>3, <2>4, <2>5 DEF Made
<1> QED BY <1>1, <1>2, EditingStep, PTL DEF EditingSpec, SavesLeaveTheDraft
=============================================================================
