-------------------------- MODULE MCControlService --------------------------
(***************************************************************************)
(* A small room for TLC: the window with one fan, or the window alone.     *)
(***************************************************************************)
EXTENDS ControlService

CONSTANTS window, exhaust, job1, job2

Levels == {"calm", "raised", "critical"}

\* Every level of CO2 in clear and in bad air, and filtered ventilation in
\* polluted air.
RoomAir ==
  {[level |-> l, verdict |-> v, open |-> FALSE] : l \in Levels, v \in {"clear", "blocked"}}
  \cup {[level |-> "critical", verdict |-> "filtered", open |-> FALSE]}

\* Every measurement the decision tells apart.
EveryAir == [level: Level, verdict: Verdict, open: BOOLEAN]

\* One target at a time; issueVentilation is one target where there is one fan.
SingleRequests == {plan \in Plans : \E t \in Target : DOMAIN plan = {t}}

=============================================================================
