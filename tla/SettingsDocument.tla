-------------------------- MODULE SettingsDocument --------------------------
(***************************************************************************)
(* What the settings service of the console promises the browsers that     *)
(* call it, whatever store is behind it: one document per principal, a     *)
(* function from setting keys to values, that a request reads or merges    *)
(* updates into in one step between its call and its answer.               *)
(*                                                                         *)
(* The promise has a window.  Until the document is settled (it has moved  *)
(* to the store that will keep it, and no request is left that looked for  *)
(* it before) an acknowledged update may be forfeited and a key may be set *)
(* back, but only to a value it has held or that a request gave it.  Once  *)
(* the document is settled it stays settled, and requests alone change it. *)
(***************************************************************************)
EXTENDS SettingsData

CONSTANT Requests  \* the requests that can be served at the same time

VARIABLES
  doc,      \* the principal's settings
  held,     \* held[k]: the values key k has had or was given so far
  settled,  \* has the document reached its final store?
  call,     \* call[r]: is r idle, open, or answered "ok" or "error"?
  asked,    \* asked[r]: the updates r carries, NoUpdates for a read
  reply     \* reply[r]: what r answers with

docVars == <<doc, held, settled, call, asked, reply>>

(* The documents in which some keys are set back to an earlier value. *)
SetBack == {s \in Settings : \A k \in Keys : s[k] \in held[k] \cup {doc[k]}}

Becomes(s) ==
  /\ doc' = s
  /\ held' = [k \in Keys |-> held[k] \cup {s[k]}]

(* r's updates go to a store that does not count (any more). *)
Offered(r) == [k \in Keys |-> held[k] \cup ({asked[r][k]} \ {Same})]

Answer(r, outcome) == call' = [call EXCEPT ![r] = outcome]

Invoke(r, u) ==
  /\ call[r] = "idle"
  /\ call' = [call EXCEPT ![r] = "open"]
  /\ asked' = [asked EXCEPT ![r] = u]
  /\ UNCHANGED <<doc, held, settled, reply>>

(* The step at which a request takes effect.  A read answers with the      *)
(* document of this very step; an update can be stored although its answer *)
(* is an error.                                                            *)
TakeEffect(r) ==
  /\ call[r] = "open"
  /\ settled' \in {settled, TRUE}
  /\ \E s \in (IF settled THEN {doc} ELSE SetBack) :
       /\ Becomes(Merge(s, asked[r]))
       /\ asked[r] = NoUpdates => s = doc
  /\ \E outcome \in {"ok", "error"} :
       /\ Answer(r, outcome)
       /\ reply' = IF asked[r] = NoUpdates
                     THEN [reply EXCEPT ![r] = doc] ELSE reply
  /\ UNCHANGED asked

(* Inside the window only: r is answered "ok" and had no effect. *)
Forfeit(r) ==
  /\ ~settled
  /\ call[r] = "open"
  /\ settled' \in BOOLEAN
  /\ Answer(r, "ok")
  /\ \E s \in Settings : reply' \in {reply, [reply EXCEPT ![r] = s]}
  /\ held' \in {held, Offered(r)}
  /\ UNCHANGED <<doc, asked>>

(* Inside the window only: r sets keys back while it is served. *)
Disturb(r) ==
  /\ ~settled
  /\ call[r] = "open"
  /\ settled' \in BOOLEAN
  /\ \E s \in SetBack : Becomes(s)
  /\ \E outcome \in {"open", "error"} : Answer(r, outcome)
  /\ \E s \in Settings : reply' \in {reply, [reply EXCEPT ![r] = s]}
  /\ UNCHANGED asked

(* r proceeds unseen, or is answered with an error and had no effect on    *)
(* the document.                                                           *)
Refuse(r) ==
  /\ call[r] = "open"
  /\ settled' \in {settled, TRUE}
  /\ \E outcome \in {"open", "error"} : Answer(r, outcome)
  /\ held' \in (IF settled THEN {held} ELSE {held, Offered(r)})
  /\ UNCHANGED <<doc, asked, reply>>

Return(r) ==
  /\ call[r] \in {"ok", "error"}
  /\ call' = [call EXCEPT ![r] = "idle"]
  /\ asked' = [asked EXCEPT ![r] = NoUpdates]
  /\ reply' = [reply EXCEPT ![r] = NoSettings]
  /\ UNCHANGED <<doc, held, settled>>

Init ==
  /\ doc \in Settings
  /\ held = [k \in Keys |-> {doc[k]}]
  /\ settled \in BOOLEAN
  /\ call = [r \in Requests |-> "idle"]
  /\ asked = [r \in Requests |-> NoUpdates]
  /\ reply = [r \in Requests |-> NoSettings]

(* What goes on without showing. *)
Unseen == UNCHANGED docVars

Next ==
  \/ Unseen
  \/ \E r \in Requests :
       \/ \E u \in Updates : Invoke(r, u)
       \/ TakeEffect(r)
       \/ Forfeit(r)
       \/ Disturb(r)
       \/ Refuse(r)
       \/ Return(r)

Spec == Init /\ [][Next]_docVars
=============================================================================
