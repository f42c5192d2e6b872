------------------------------ MODULE MCServices ------------------------------
(***************************************************************************)
(* The parts of Services under the fairness of each, in one run: a         *)
(* property of a part is checked on the behaviours of that part, as it     *)
(* would be by a run of its own.                                           *)
(***************************************************************************)
EXTENDS Services

CONSTANTS w1, w2,  \* the processes
          x1, x2   \* measurements, chats and accounts

\* The fairness of every part.  Only one part runs, so that a formula WF or SF of a
\* disjunction over parts says of each part what it says of its own disjunct.
First ==
  \/ Rest("ingest") /\ Ingest!Work(w1)
  \/ Rest("delivery") /\ Delivery!Step(w1)
  \/ Rest("batches") /\ Batches!Step(w1)
  \/ Rest("uplink") /\ Uplink!Network
  \/ Rest("simulator") /\ Simulator!Take
  \/ Rest("roles") /\ Roles!Step(w1)
Second ==
  \/ Rest("ingest") /\ Ingest!Work(w2)
  \/ Rest("delivery") /\ Delivery!Step(w2)
  \/ Rest("batches") /\ Batches!Step(w2)
  \/ Rest("uplink") /\ ~upl_wifi /\ Uplink!Connect
  \/ Rest("simulator") /\ Simulator!Poll
  \/ Rest("roles") /\ Roles!Step(w2)
Third ==
  \/ Rest("uplink") /\ Uplink!Sync
  \/ Rest("simulator") /\ Simulator!Tick(TRUE)
Again ==
  \/ Rest("ingest") /\ Ingest!Sent(x1)
  \/ Rest("delivery") /\ Delivery!Elapse
  \/ Rest("batches") /\ Batches!Elapse
  \/ Rest("uplink") /\ Uplink!Mount(TRUE)
  \/ Rest("simulator") /\ Simulator!SendAck
AgainSecond == Rest("uplink") /\ Uplink!Live("accepted")
AgainThird == Rest("uplink") /\ Uplink!Replay("accepted")

FairSpec ==
  /\ Spec
  /\ WF_vars(First) /\ WF_vars(Second) /\ WF_vars(Third)
  /\ SF_vars(Again) /\ SF_vars(AgainSecond) /\ SF_vars(AgainThird)

-----------------------------------------------------------------------------
\* A measurement that is sent again and again is answered.
EachIsAnswered == <>[](part = "ingest" => x1 \in ing_answered)
\* Every event is settled.
EventsSettle == \A i \in 1..2 : <>[]Delivery!Settled(i)
\* The card is emptied once the link holds.
CardIsEmptied == []<>(part = "uplink" => Uplink!Emptied)
\* A command ends, unless its reports come too late again and again.
CommandsEnd == Simulator!CommandsEnd
\* Owner's requests end.
AdminEnds == Roles!AdminEnds
=============================================================================
