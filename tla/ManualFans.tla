----------------------------- MODULE ManualFans -----------------------------
(***************************************************************************)
(* ControlService with an observer that remembers which fans the operator  *)
(* wants on: the service itself knows only the last command of a fan.      *)
(***************************************************************************)
EXTENDS ControlService

VARIABLE wanted   \* the fans the operator turned on and that have not stopped since

Going == {f \in Fan : Active(f)}
Asks(plan) ==
  wanted' = ((wanted \ DOMAIN plan) \cup {f \in Fan \cap DOMAIN plan : plan[f]}) \cap Going'

ObservedInit == Init /\ wanted = {}

ObservedNext ==
  \/ \E plan \in Requests : RequestFans(plan) /\ Asks(plan)
  \/ QueueRequest /\ Asks(request)
  \/ /\ \/ Automation \/ Room \/ IssueAuto \/ LoseRequest
        \/ \E plan \in Requests : RequestWindow(plan)
        \/ \E T \in SUBSET Target : Cancel(T)
        \/ \E t \in Target : Expire(t) \/ Forget(t)
     /\ wanted' = wanted \cap Going'

ObservedSpec == ObservedInit /\ [][ObservedNext]_<<vars, wanted>>

\* A fan the operator turned on is not stopped by the automation: turning it on
\* is "an explicit intention of the operator" that a normal measurement does not
\* cancel (README.md, docs/api.md).
ManualFansKeepRunning ==
  [][\A j \in Job, f \in wanted :
       Submit(j) => last'[f].want \/ last'[f] = last[f]]_<<vars, wanted>>

=============================================================================
