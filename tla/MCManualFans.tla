---------------------------- MODULE MCManualFans ----------------------------
(***************************************************************************)
(* The window and one fan, with the measurements that start and stop it.   *)
(***************************************************************************)
EXTENDS ManualFans

CONSTANTS window, exhaust, job1

RoomAir ==
  {[level |-> l, verdict |-> "clear", open |-> FALSE] : l \in {"calm", "critical"}}

SingleRequests == {plan \in Plans : \E t \in Target : DOMAIN plan = {t}}

=============================================================================
