-------------------------- MODULE RestoreWorkspace --------------------------
(***************************************************************************)
(* The restore half of components/admin-backup-restore-workspace.tsx: a    *)
(* backup is staged, a phrase typed, and a question (confirm-context.tsx)  *)
(* answered; then the backend replaces all of its data.                    *)
(*                                                                         *)
(* Several stagings may be in flight: choosing a file resets the mutation, *)
(* which enables the button again, and what was sent is answered all the   *)
(* same, in any order, also while the question is open.                    *)
(***************************************************************************)
EXTENDS Naturals

CONSTANTS
  Backups,      \* documents the user may choose
  NoBackup,
  MaxStagings   \* bound: stagings in flight at a time

ASSUME StagingBounds == MaxStagings \in Nat /\ NoBackup \notin Backups

VARIABLES
  selectedFile,   \* the file chosen
  staging,        \* staging[n]: the document of a staging in flight
  watching,       \* the staging whose progress the button shows, or 0
  staged,         \* the staged restore, its capability in memory only
  confirmation,   \* has the phrase been typed?
  asking,         \* is the question open?
  restoring,      \* confirmMutation: the restore being confirmed
  restoreComplete,
  typedFor,       \* auxiliary: what was staged when the phrase was typed
  asked           \* auxiliary: what was staged when the question was opened

restoreVars == <<selectedFile, staging, watching, staged, confirmation, asking,
                 restoring, restoreComplete, typedFor, asked>>

Stagings == 1..MaxStagings

RestoreInit ==
  /\ selectedFile = NoBackup
  /\ staging = [n \in Stagings |-> NoBackup]
  /\ watching = 0
  /\ staged = NoBackup
  /\ confirmation = FALSE
  /\ asking = FALSE
  /\ restoring = NoBackup
  /\ restoreComplete = FALSE
  /\ typedFor = NoBackup
  /\ asked = NoBackup

(* onFileChange. *)
ChooseFile(b) ==
  /\ ~asking
  /\ selectedFile' = b
  /\ watching' = 0
  /\ UNCHANGED <<staging, staged, confirmation, asking, restoring,
                 restoreComplete, typedFor, asked>>

StageFile(n) ==
  /\ ~asking
  /\ selectedFile # NoBackup
  /\ watching = 0
  /\ staging[n] = NoBackup
  /\ staging' = [staging EXCEPT ![n] = selectedFile]
  /\ watching' = n
  /\ UNCHANGED <<selectedFile, staged, confirmation, asking, restoring,
                 restoreComplete, typedFor, asked>>

(* The staging n has been answered. *)
StagingEnds(n) ==
  /\ staging[n] # NoBackup
  /\ staging' = [staging EXCEPT ![n] = NoBackup]
  /\ watching' = IF watching = n THEN 0 ELSE watching
  /\ UNCHANGED <<asking, restoring, restoreComplete, typedFor, asked>>

(* A mutation of TakeStaged: the phrase stays. *)
TakeStagedOnly(b) ==
  /\ staged' = b
  /\ selectedFile' = NoBackup
  /\ UNCHANGED confirmation

(* stageMutation's onSuccess. *)
TakeStaged(b) ==
  /\ staged' = b
  /\ selectedFile' = NoBackup
  /\ confirmation' = FALSE

StageAnswered(n) == StagingEnds(n) /\ TakeStaged(staging[n])

StageFails(n) ==
  StagingEnds(n) /\ UNCHANGED <<selectedFile, staged, confirmation>>

TypePhrase ==
  /\ ~asking
  /\ staged # NoBackup
  /\ confirmation' = ~confirmation
  /\ typedFor' = IF confirmation THEN typedFor ELSE staged
  /\ UNCHANGED <<selectedFile, staging, watching, staged, asking, restoring,
                 restoreComplete, asked>>

(* onConfirmRestore, up to the question. *)
AskToRestore ==
  /\ ~asking
  /\ staged # NoBackup
  /\ confirmation
  /\ restoring = NoBackup
  /\ asking' = TRUE
  /\ asked' = staged
  /\ UNCHANGED <<selectedFile, staging, watching, staged, confirmation,
                 restoring, restoreComplete, typedFor>>

DeclineRestore ==
  /\ asking
  /\ asking' = FALSE
  /\ UNCHANGED <<selectedFile, staging, watching, staged, confirmation,
                 restoring, restoreComplete, typedFor, asked>>

(* The mutation reads what is staged now. *)
AcceptRestore ==
  /\ asking
  /\ asking' = FALSE
  /\ restoring' = staged
  /\ UNCHANGED <<selectedFile, staging, watching, staged, confirmation,
                 restoreComplete, typedFor, asked>>

(* The backend replaces its data and says so, unless the answer is lost; or *)
(* it does not.                                                             *)
RestoreEnds ==
  /\ restoring # NoBackup
  /\ restoring' = NoBackup
  /\ \/ /\ restoreComplete' = TRUE
        /\ staged' = NoBackup
        /\ confirmation' = FALSE
     \/ UNCHANGED <<restoreComplete, staged, confirmation>>
  /\ UNCHANGED <<selectedFile, staging, watching, asking, typedFor, asked>>

RestoreNext ==
  \/ \E b \in Backups : ChooseFile(b)
  \/ \E n \in Stagings : StageFile(n) \/ StageAnswered(n) \/ StageFails(n)
  \/ TypePhrase
  \/ AskToRestore
  \/ DeclineRestore
  \/ AcceptRestore
  \/ RestoreEnds

RestoreSpec == RestoreInit /\ [][RestoreNext]_restoreVars

-----------------------------------------------------------------------------

(* As long as the phrase stands, what is staged is what it was typed for,  *)
(* whatever older staging is answered late; and the question is only ever  *)
(* opened about a backup for which the phrase was typed.                   *)
PhraseIsForStaged ==
  /\ confirmation => typedFor = staged
  /\ asking => asked = typedFor

(* What is restored is what the user was asked about, with its phrase      *)
(* typed.  The code does not keep this: a staging that is answered while   *)
(* the question is open is restored instead.                               *)
RestoredAsAsked == restoring = NoBackup \/ restoring = asked
=============================================================================
