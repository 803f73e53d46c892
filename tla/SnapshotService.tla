--------------------------- MODULE SnapshotService ---------------------------
(***************************************************************************)
(* What the language server promises about document texts, without saying  *)
(* how: "every semantic request" is bound "to the exact accepted document  *)
(* version" and "must not interpret current editor coordinates against an  *)
(* older or newer snapshot" (openspec/specs/language-server-synchronization,*)
(* "Protocol queries use a coherent document snapshot").                   *)
(*                                                                         *)
(* `accepted' is what the editor and the server agree on, `view' is what   *)
(* can be queried.  The view is made of accepted texts only, it is         *)
(* withdrawn from a document in the very step that revises it, and a       *)
(* request is answered from it or refused.  WorkspaceEngine implements     *)
(* this specification.                                                     *)
(***************************************************************************)
EXTENDS Naturals

CONSTANTS Docs,      \* document URIs
          Requests,  \* request identifiers
          Texts      \* what a document can contain

NoText == 0

Snapshot == [Docs -> Texts \cup {NoText}]
NoView == [d \in Docs |-> NoText]

VARIABLES accepted,  \* the accepted text of each open document
          view,      \* the texts that can be queried
          answer     \* what became of each request

vars == <<accepted, view, answer>>

NotAsked == [state |-> "notAsked", doc |-> 0, text |-> NoText]
Waiting(d, text) == [state |-> "waiting", doc |-> d, text |-> text]
Refused(d) == [state |-> "refused", doc |-> d, text |-> NoText]
Answered(d, text) == [state |-> "answered", doc |-> d, text |-> text]

Init ==
  /\ accepted = NoView
  /\ view = NoView
  /\ answer = [r \in Requests |-> NotAsked]

-----------------------------------------------------------------------------

\* Any requests that wait may be refused in a step.
RefuseSome ==
  \E S \in SUBSET {r \in Requests : answer[r].state = "waiting"} :
    answer' = [r \in Requests |-> IF r \in S THEN Refused(answer[r].doc) ELSE answer[r]]

\* The view may survive a revision of documents it does not have.
Kept == view' = view /\ \A d \in Docs : accepted'[d] # accepted[d] => view[d] = NoText

\* The editor opens, edits or closes documents: those cannot be queried any more.
Revise ==
  /\ accepted' \in Snapshot \ {accepted}
  /\ view' = NoView \/ Kept
  /\ RefuseSome

\* The snapshots an analysis of accepted texts can produce.
Published == {v \in Snapshot \ {NoView} : \A d \in Docs : v[d] \in {NoText, accepted[d]}}

\* An analysis is complete and becomes the view at once.
Publish ==
  /\ view = NoView
  /\ view' \in Published
  /\ UNCHANGED <<accepted, answer>>

\* The view is withdrawn: files changed or the analysis is done again.
Withdraw ==
  /\ view' = NoView
  /\ RefuseSome
  /\ UNCHANGED accepted

\* Requests are given up: their deadlines pass, or the client cancels them.
Refuse == RefuseSome /\ UNCHANGED <<accepted, view>>

\* A request is bound to the accepted text of its document, or refused at once.
Ask(r, d) ==
  /\ answer[r].state = "notAsked"
  /\ \/ answer' = [answer EXCEPT ![r] = Waiting(d, accepted[d])]
     \/ answer' = [answer EXCEPT ![r] = Refused(d)]
  /\ UNCHANGED <<accepted, view>>

\* A request that waits is answered from the view, if the view has the text the
\* request is bound to.
Answer(r) ==
  LET d == answer[r].doc
  IN /\ answer[r].state = "waiting"
     /\ view[d] # NoText /\ view[d] = answer[r].text
     /\ answer' = [answer EXCEPT ![r] = Answered(d, view[d])]
     /\ UNCHANGED <<accepted, view>>

Next ==
  \/ Revise
  \/ Publish
  \/ Withdraw
  \/ Refuse
  \/ \E r \in Requests : Answer(r) \/ \E d \in Docs : Ask(r, d)

Spec == Init /\ [][Next]_vars
=============================================================================
