-------------------------- MODULE TaskNotifications -------------------------
(***************************************************************************)
(* The toasts about a user's tasks: the shell polls the newest tasks and   *)
(* compares each answer with the one before (lib/task-notifications.ts,    *)
(* components/app-shell.tsx).                                              *)
(*                                                                         *)
(* Tasks are numbered as they are created.  A finished task has a time     *)
(* stamp of the backend's clock, which the page compares with its own: so  *)
(* it may fall on either side of the page's start.                         *)
(***************************************************************************)
EXTENDS Naturals

CONSTANTS
  MaxTasks,  \* bound: tasks created
  Window     \* the page of tasks that is polled: 50

ASSUME NotificationBounds == MaxTasks \in Nat /\ Window \in Nat

VARIABLES
  status,     \* backend: status[t]: "none", "active" or "finished"
  stamped,    \* the finished tasks with a stamp after the page's start
  answer,     \* the poll's answer on its way: the statuses it shows
  previous,   \* prevMyTasksRef: the last answer
  announced,  \* auxiliary: how many toasts a task had on this page
  watched     \* auxiliary: tasks the page has seen active

notificationVars == <<status, stamped, answer, previous, announced, watched>>

TaskIds == 1..MaxTasks

(* A poll shows the newest tasks; NoAnswer shows none. *)
NoAnswer == [t \in TaskIds |-> "none"]
Snapshot ==
  [t \in TaskIds |->
    IF \E u \in TaskIds : u >= t + Window /\ status[u] # "none"
      THEN "none" ELSE status[t]]

NotificationsInit ==
  /\ status = NoAnswer
  /\ stamped = {}
  /\ answer = NoAnswer
  /\ previous = NoAnswer
  /\ announced = [t \in TaskIds |-> 0]
  /\ watched = {}

(* The next task is created. *)
CreateTask(t) ==
  /\ status[t] = "none"
  /\ \A u \in TaskIds : u < t => status[u] # "none"
  /\ status' = [status EXCEPT ![t] = "active"]
  /\ UNCHANGED <<stamped, answer, previous, announced, watched>>

FinishTask(t) ==
  /\ status[t] = "active"
  /\ status' = [status EXCEPT ![t] = "finished"]
  /\ stamped' \in {stamped, stamped \cup {t}}
  /\ UNCHANGED <<answer, previous, announced, watched>>

Poll ==
  /\ answer' = Snapshot
  /\ UNCHANGED <<status, stamped, previous, announced, watched>>

(* A mutation of NewlyTerminal: what was not shown before is not compared. *)
NewlyStamped ==
  {t \in TaskIds : answer[t] = "finished" /\ t \in stamped}

(* diffNewlyTerminal *)
NewlyTerminal ==
  {t \in TaskIds :
    /\ answer[t] = "finished"
    /\ IF previous[t] # "none" THEN previous[t] = "active" ELSE t \in stamped}

PollAnswered ==
  /\ answer # NoAnswer
  /\ announced' = [t \in TaskIds |->
                     IF t \in NewlyTerminal THEN announced[t] + 1 ELSE announced[t]]
  /\ watched' = watched \cup {t \in TaskIds : answer[t] = "active"}
  /\ previous' = answer
  /\ answer' = NoAnswer
  /\ UNCHANGED <<status, stamped>>

(* Another page of the console is loaded afresh: it starts its own watch. *)
ReloadShell ==
  /\ previous' = NoAnswer
  /\ answer' = NoAnswer
  /\ announced' = [t \in TaskIds |-> 0]
  /\ watched' = {}
  /\ stamped' = {}
  /\ UNCHANGED status

NotificationsNext ==
  \/ \E t \in TaskIds : CreateTask(t) \/ FinishTask(t)
  \/ Poll
  \/ PollAnswered
  \/ ReloadShell

NotificationsSpec == NotificationsInit /\ [][NotificationsNext]_notificationVars

(* A page announces the end of a task once at most, though the task may    *)
(* have left the poll's window; and it does announce the end of a task it  *)
(* has seen active as soon as it sees it, whatever the clocks say.         *)
AnnouncedOnce ==
  \A t \in TaskIds :
    /\ announced[t] <= 1
    /\ t \in watched /\ previous[t] = "finished" => announced[t] = 1
=============================================================================
