----------------------------- MODULE SettingsData -----------------------------
(***************************************************************************)
(* The data of the user settings: documents of settings and the updates    *)
(* that are merged into them.                                              *)
(***************************************************************************)
CONSTANTS
  Keys,    \* portable setting keys
  Values,  \* setting values
  None,    \* the key is not stored
  Same     \* the update leaves the key alone

ASSUME SentinelsAreNoValues ==
  None \notin Values /\ Same \notin Values /\ None # Same

Settings == [Keys -> Values \cup {None}]
Updates  == [Keys -> Values \cup {None, Same}]

NoSettings == [k \in Keys |-> None]
NoUpdates  == [k \in Keys |-> Same]

(* The settings s after the merge patch u: a null deletes the key. *)
Merge(s, u) == [k \in Keys |-> IF u[k] = Same THEN s[k] ELSE u[k]]

(* The updates that write the settings s: what is not stored is not sent. *)
AsUpdates(s) == [k \in Keys |-> IF s[k] = None THEN Same ELSE s[k]]
=============================================================================
