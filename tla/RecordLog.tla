------------------------------ MODULE RecordLog ------------------------------
(***************************************************************************)
(* What the journal of the firmware promises: a log of packets in the      *)
(* order in which they were made.  A packet is put at its end whole or not *)
(* at all, also when the power fails; only the oldest leaves it, when the  *)
(* server has answered it; and the card may lose any, which then counts as *)
(* lost.                                                                   *)
(***************************************************************************)
EXTENDS Integers, Sequences, SequencesExt

CONSTANT Packet

VARIABLES log, answered, lost

Init == log = <<>> /\ answered = {} /\ lost = {}

Put(n) ==
  /\ log # <<>> => Last(log) <= n
  /\ log' = Append(log, n)
  /\ UNCHANGED answered

Answer(n) == answered' = answered \cup {n} /\ UNCHANGED log

Drop == log # <<>> /\ Head(log) \in answered /\ log' = Tail(log) /\ UNCHANGED answered

Rot(i) == log' = RemoveAt(log, i) /\ log[i] \in lost' /\ UNCHANGED answered

\* Packets that never came to the log are lost at any time.
Lose == UNCHANGED <<log, answered>>

Next == /\ lost \subseteq lost'
        /\ \/ \E n \in Packet : Put(n) \/ Answer(n)
           \/ Drop
           \/ \E i \in 1..Len(log) : Rot(i)
           \/ Lose

Spec == Init /\ [][Next]_<<log, answered, lost>>
==============================================================================
