------------------------------- MODULE Browser ------------------------------
(***************************************************************************)
(* The parts of the console that run in the browser.  They do not share    *)
(* state with each other, so a behaviour is one of one part, chosen at the *)
(* start: interleaving them would show nothing that each does not show.    *)
(***************************************************************************)
EXTENDS UserSettingsClient, OperationLeases, ObjectEditing, CursorPagination,
        TaskNotifications, BulkDelete, RestoreWorkspace

VARIABLE part

Parts == {"settings", "leases", "editing", "pagination", "notifications",
          "bulk", "restore"}

browserVars == <<part, vars, leasesVars, editingVars, paginationVars,
                 notificationVars, bulkVars, restoreVars>>

(* What is left open at the start is settled for the parts that are still. *)
BrowserInit ==
  /\ part \in Parts
  /\ Init
  /\ LeasesInit
  /\ EditingInit
  /\ part # "editing" => data = [f \in Fields |-> Absent]
  /\ PaginationInit
  /\ part # "pagination" => place.list = CHOOSE l \in Lists : TRUE
  /\ NotificationsInit
  /\ BulkInit
  /\ part # "bulk" => displayed = {}
  /\ RestoreInit

OnlySettings ==
  UNCHANGED <<part, leasesVars, editingVars, paginationVars, notificationVars,
              bulkVars, restoreVars>>
OnlyLeases ==
  UNCHANGED <<part, vars, editingVars, paginationVars, notificationVars,
              bulkVars, restoreVars>>
OnlyEditing ==
  UNCHANGED <<part, vars, leasesVars, paginationVars, notificationVars,
              bulkVars, restoreVars>>
OnlyPagination ==
  UNCHANGED <<part, vars, leasesVars, editingVars, notificationVars, bulkVars,
              restoreVars>>
OnlyNotifications ==
  UNCHANGED <<part, vars, leasesVars, editingVars, paginationVars, bulkVars,
              restoreVars>>
OnlyBulk ==
  UNCHANGED <<part, vars, leasesVars, editingVars, paginationVars,
              notificationVars, restoreVars>>
OnlyRestore ==
  UNCHANGED <<part, vars, leasesVars, editingVars, paginationVars,
              notificationVars, bulkVars>>

BrowserNext ==
  \/ part = "settings" /\ OnlySettings /\ Next
  \/ part = "leases" /\ OnlyLeases /\ LeasesNext
  \/ part = "editing" /\ OnlyEditing /\ EditingNext
  \/ part = "pagination" /\ OnlyPagination /\ PaginationNext
  \/ part = "notifications" /\ OnlyNotifications /\ NotificationsNext
  \/ part = "bulk" /\ OnlyBulk /\ BulkNext
  \/ part = "restore" /\ OnlyRestore /\ RestoreNext

BrowserSpec == BrowserInit /\ [][BrowserNext]_browserVars
=============================================================================
