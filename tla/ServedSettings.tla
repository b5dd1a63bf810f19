---------------------------- MODULE ServedSettings --------------------------
(***************************************************************************)
(* The two parts of the web processes that serve a principal's settings:   *)
(* the cache of what the protected pages are rendered with, and the        *)
(* service that reads, patches and moves the settings.  The first sees of  *)
(* the second only that an update is a new version, so a behaviour is one  *)
(* of one part, chosen at the start.                                       *)
(***************************************************************************)
EXTENDS LayoutBootstrap, UserSettingsServer

VARIABLE serving

servedVars == <<serving, bootstrapVars, serverVars>>

(* What is left open at the start is settled when the service is still. *)
ServedInit ==
  /\ serving \in {"pages", "settings"}
  /\ BootstrapInit
  /\ Init
  /\ serving = "pages" => ~supported /\ fallback = NoSettings

ServedNext ==
  \/ /\ serving = "pages"
     /\ BootstrapNext
     /\ UNCHANGED <<serving, serverVars>>
  \/ /\ serving = "settings"
     /\ Next
     /\ UNCHANGED <<serving, bootstrapVars>>

ServedSpec == ServedInit /\ [][ServedNext]_servedVars
=============================================================================
