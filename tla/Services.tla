----------------------------- MODULE Services -----------------------------
(***************************************************************************)
(* The snapserver client and the event bus together: the client publishes  *)
(* notifications it is sent, as do the other components their events, and  *)
(* subscribers follow at their own pace.                                   *)
(***************************************************************************)
EXTENDS Snapcast, EventBus

CONSTANTS SnapKind,    \* the kind of SnapcastClientChanged
          OtherKinds   \* kinds the other components publish

ASSUME ServicesAssumption == Kinds = {SnapKind} \cup OtherKinds /\ MaxNotes <= MaxEvents

vars == <<snapVars, busVars>>

Init == SnapInit /\ BusInit

Snap(step) == step /\ UNCHANGED busVars

\* handle_inbound and forward_notification: a change of volume is published, any
\* other notification is not.
ForwardNote == ReceiveNote /\ ((Forward /\ Publish(SnapKind)) \/ UNCHANGED busVars)

\* The other components publish; what the notifications need of the bound is left.
PublishOther ==
  /\ Len(published) < MaxEvents - MaxNotes
  /\ \E kind \in OtherKinds : Publish(kind)
  /\ UNCHANGED snapVars

Next == Snap(SnapStep) \/ ForwardNote \/ PublishOther \/ (BusStep /\ UNCHANGED snapVars)

Spec == Init /\ [][Next]_vars

\* Connects, backoffs, reads and writes end or are done; the server answers.
\* Refuse is strongly fair, since every backoff lasts half a second or more and a
\* queued command is refused at once.
FairSpec ==
  /\ Spec
  /\ WF_vars(Snap(Connect)) /\ WF_vars(Snap(BackoffOver)) /\ WF_vars(Snap(Write))
  /\ SF_vars(Snap(Refuse)) /\ WF_vars(Snap(ReceiveReply) \/ ForwardNote) /\ WF_vars(Snap(ServerStep))

-----------------------------------------------------------------------------
(* Properties. *)

TypeOK == SnapTypeOK /\ BusTypeOK
=============================================================================
