--------------------------- MODULE FirmwareUplink ---------------------------
(***************************************************************************)
(* The way of a packet of telemetry from the controller to the server:     *)
(* sampler_task makes one every 5 s and queues it, network_task sends it,  *)
(* or keeps it on the SD card while the server cannot be reached, and      *)
(* sends what is there when nothing newer waits.                           *)
(*                                                                         *)
(* The journal writes three times to store a packet and once to remove it, *)
(* each time up to fsync.  A write that fails, or is cut off by a reboot,  *)
(* leaves on the card what was there, what was written, or neither.        *)
(***************************************************************************)
EXTENDS Integers, Sequences, FiniteSets, SequencesExt, FiniteSetsExt

CONSTANTS
  Slots,         \* Journal::slots (2048)
  QueueSize,     \* telemetry_queue (8)
  MaxGeneration, \* UINT_MAX
  MaxPackets,    \* bound
  MaxFaults,     \* bound: reboots, failed writes and losses of the card
  MaxLinks       \* bound: times the Wi-Fi is lost

VARIABLES
  made,        \* packets made; a packet is its number
  queue,       \* telemetry_queue
  pending,     \* has_pending and pending: a packet or 0
  failed,      \* failures > 0
  wifi, synced,\* wifi_online; epoch_ms() is known
  disk,        \* the slots of the card
  generations, generation, healthy,  \* Journal's members
  pc, slot,    \* where network_task is, and the slot it works on
  answered,    \* history: the packets the server has answered for good
  lost,        \* history: those a full queue dropped (dropped_packets), that were in RAM
               \* at a reboot, or that the card lost
  faults, links

link    == <<wifi, synced, links>>
journal == <<generations, generation, healthy>>
task    == <<pending, failed, pc, slot>>
vars == <<made, queue, task, link, journal, disk, answered, lost, faults>>

Slot   == 1..Slots
Packet == 1..MaxPackets
Writes == {"clear", "body", "commit", "ack"}

\* A slot whose checksum fits: `sum' stands for the header's CRC, which is over the
\* generation and the packet; body 0 is what a torn write left.
Whole(s) == disk[s].gen # 0 /\ disk[s].sum = disk[s].body
Empty    == [gen |-> 0, sum |-> 0, body |-> 0]

TypeOK ==
  /\ made \in 0..MaxPackets
  /\ queue \in Seq(1..made) /\ Len(queue) <= QueueSize
  /\ pending \in 0..made
  /\ disk \in [Slot -> [gen : 0..MaxGeneration, sum : 0..made, body : 0..made]]
  /\ generations \in [Slot -> 0..MaxGeneration]
  /\ generation \in 0..MaxGeneration
  /\ <<failed, wifi, synced, healthy>> \in BOOLEAN \X BOOLEAN \X BOOLEAN \X BOOLEAN
  /\ pc \in Writes \cup {"mount", "receive", "live", "append", "replay"}
  /\ slot \in Slot
  /\ answered \subseteq 1..made /\ lost \subseteq 1..made

Init ==
  /\ made = 0 /\ queue = <<>> /\ pending = 0 /\ failed = FALSE
  /\ wifi = FALSE /\ synced = FALSE
  /\ disk = [s \in Slot |-> Empty]
  /\ generations = [s \in Slot |-> 0] /\ generation = 0 /\ healthy = FALSE
  /\ pc = "mount" /\ slot = 1
  /\ answered = {} /\ lost = {} /\ faults = 0 /\ links = 0

-----------------------------------------------------------------------------
\* sampler_task: with the queue full, the oldest goes.
Sample ==
  /\ made < MaxPackets
  /\ made' = made + 1
  /\ IF Len(queue) < QueueSize
     THEN queue' = Append(queue, made + 1) /\ lost' = lost
     ELSE queue' = Append(Tail(queue), made + 1) /\ lost' = lost \cup {Head(queue)}
  /\ UNCHANGED <<task, link, journal, disk, answered, faults>>

Connect ==
  /\ ~wifi \/ links < MaxLinks
  /\ wifi' = ~wifi
  /\ links' = IF wifi THEN links + 1 ELSE links
  /\ UNCHANGED <<made, queue, task, synced, journal, disk, answered, lost, faults>>

Sync ==
  /\ wifi /\ ~synced
  /\ synced' = TRUE
  /\ UNCHANGED <<made, queue, task, wifi, links, journal, disk, answered, lost, faults>>

-----------------------------------------------------------------------------
\* network_task, one step after another.
Stored == [s \in Slot |-> IF Whole(s) THEN disk[s].gen ELSE 0]

\* Journal::open, every 30 s until it succeeds.
Mount(works) ==
  /\ pc = "mount"
  /\ pc' = "receive"
  /\ IF ~healthy /\ works
     THEN /\ generations' = Stored
          /\ generation' = Max(Range(Stored))
          /\ healthy' = TRUE
     ELSE UNCHANGED <<generations, generation, healthy>>
  /\ UNCHANGED <<made, queue, pending, failed, slot, link, disk, answered, lost, faults>>

Receive ==
  /\ pc = "receive"
  /\ pc' = "live"
  /\ IF pending = 0 /\ queue # <<>>
     THEN pending' = Head(queue) /\ queue' = Tail(queue)
     ELSE UNCHANGED <<pending, queue>>
  /\ UNCHANGED <<made, failed, slot, link, journal, disk, answered, lost, faults>>

\* The request with the pending packet: 2xx; 400, 409 or 422; anything else, or none.
Live(status) ==
  LET sends == wifi /\ synced /\ pending # 0
  IN /\ pc = "live"
     /\ pc' = "append"
     /\ IF sends /\ status # "none"
        THEN pending' = 0 /\ answered' = answered \cup {pending}
        ELSE UNCHANGED <<pending, answered>>
     /\ failed' = IF ~sends \/ status = "refused" THEN failed ELSE status = "none"
     /\ UNCHANGED <<made, queue, slot, link, journal, disk, lost, faults>>

\* Journal::append chooses the first free slot, if there is one.
Free == {s \in Slot : generations[s] = 0}
Store ==
  LET stores == /\ pending # 0 /\ healthy /\ (~wifi \/ failed)
                /\ Free # {} /\ generation < MaxGeneration
  IN /\ pc = "append"
     /\ pc' = IF stores THEN "clear" ELSE "replay"
     /\ slot' = IF stores THEN Min(Free) ELSE slot
     /\ UNCHANGED <<made, queue, pending, failed, link, journal, disk, answered, lost, faults>>

\* Journal::peek and the request with what it found: the oldest, when nothing newer
\* waits.  One that is not whole any more is removed unsent.
Held     == {s \in Slot : generations[s] # 0}

\* Mistake: the first slot is taken for the oldest.
OldestBySlot == CHOOSE s \in Held : \A t \in Held : s <= t

Oldest   == CHOOSE s \in Held : \A t \in Held : generations[s] <= generations[t]
Replays  == wifi /\ synced /\ pending = 0 /\ queue = <<>> /\ healthy /\ Held # {}
Readable == Whole(Oldest) /\ disk[Oldest].gen = generations[Oldest]

\* Mistake: one that is not whole any more is passed over.
ReplayReadable(status) ==
  LET sends == Replays /\ Readable
      sent  == {disk[Oldest].body}
  IN /\ pc = "replay"
     /\ pc' = IF sends /\ status # "none" THEN "ack" ELSE "mount"
     /\ slot' = IF Replays THEN Oldest ELSE slot
     /\ answered' = IF sends /\ status # "none" THEN answered \cup sent ELSE answered
     /\ UNCHANGED <<made, queue, pending, failed, link, journal, disk, lost, faults>>

Replay(status) ==
  LET sends == Replays /\ Readable
      sent  == {disk[Oldest].body}
  IN /\ pc = "replay"
     /\ pc' = IF Replays /\ (Readable => status # "none") THEN "ack" ELSE "mount"
     /\ slot' = IF Replays THEN Oldest ELSE slot
     /\ answered' = IF sends /\ status # "none" THEN answered \cup sent ELSE answered
     /\ UNCHANGED <<made, queue, pending, failed, link, journal, disk, lost, faults>>

-----------------------------------------------------------------------------
\* What the slot holds after the write that pc stands for, and after half of it.
Written ==
  CASE pc \in {"clear", "ack"} -> [disk[slot] EXCEPT !.gen = 0, !.sum = 0]
    [] pc = "body"   -> [disk[slot] EXCEPT !.body = pending]
    [] pc = "commit" -> [disk[slot] EXCEPT !.gen = generation + 1, !.sum = pending]
Torn == IF pc = "body" THEN [disk[slot] EXCEPT !.body = 0]
        ELSE [disk[slot] EXCEPT !.gen = 0, !.sum = 0]
\* What a write that did not end well may leave.
Left == IF pc \in Writes THEN {disk[slot], Written, Torn} ELSE {disk[slot]}

\* A write and its sync.
Write ==
  /\ pc \in Writes
  /\ disk' = [disk EXCEPT ![slot] = Written]
  /\ pc' = CASE pc = "clear" -> "body" [] pc = "body" -> "commit"
             [] pc = "commit" -> "replay" [] pc = "ack" -> "mount"
  /\ generations' = [generations EXCEPT ![slot] = CASE pc = "commit" -> generation + 1
                                                    [] pc = "ack" -> 0
                                                    [] OTHER -> @]
  /\ generation' = IF pc = "commit" THEN generation + 1 ELSE generation
  /\ pending' = IF pc = "commit" THEN 0 ELSE pending
  /\ UNCHANGED <<made, queue, failed, slot, link, healthy, answered, lost, faults>>

\* Mistake: what was to be stored is taken for stored.
WriteFailsUnnoticed ==
  /\ pc \in Writes
  /\ faults < MaxFaults
  /\ \E left \in Left : disk' = [disk EXCEPT ![slot] = left]
  /\ healthy' = FALSE
  /\ pc' = IF pc = "ack" THEN "mount" ELSE "replay"
  /\ pending' = IF pc = "ack" THEN pending ELSE 0
  /\ faults' = faults + 1
  /\ UNCHANGED <<made, queue, failed, slot, link, generations, generation, answered, lost>>

\* It fails: the journal is closed, and the packet stays pending.
WriteFails ==
  /\ pc \in Writes
  /\ faults < MaxFaults
  /\ \E left \in Left : disk' = [disk EXCEPT ![slot] = left]
  /\ healthy' = FALSE
  /\ pc' = IF pc = "ack" THEN "mount" ELSE "replay"
  /\ faults' = faults + 1
  /\ UNCHANGED <<made, queue, pending, failed, slot, link, generations, generation, answered, lost>>

Reboot ==
  /\ faults < MaxFaults
  /\ \E left \in Left : disk' = [disk EXCEPT ![slot] = left]
  /\ lost' = lost \cup Range(queue) \cup ({pending} \ {0})
  /\ queue' = <<>> /\ pending' = 0 /\ failed' = FALSE /\ wifi' = FALSE /\ synced' = FALSE
  /\ generations' = [s \in Slot |-> 0] /\ generation' = 0 /\ healthy' = FALSE
  /\ pc' = "mount"
  /\ faults' = faults + 1
  /\ UNCHANGED <<made, slot, links, answered>>

\* The card loses what a slot held.
Rot(s) ==
  /\ faults < MaxFaults
  /\ Whole(s)
  /\ lost' = lost \cup {disk[s].body}
  /\ disk' = [disk EXCEPT ![s].body = 0]
  /\ faults' = faults + 1
  /\ UNCHANGED <<made, queue, task, link, journal, answered>>

Statuses == {"accepted", "refused", "none"}
Network ==
  \/ \E works \in BOOLEAN : Mount(works)
  \/ Receive
  \/ \E status \in Statuses : Live(status) \/ Replay(status)
  \/ Store \/ Write

Next == \/ Sample \/ Connect \/ Sync \/ Network \/ WriteFails \/ Reboot
        \/ \E s \in Slot : Rot(s)

Spec == Init /\ [][Next]_vars

\* The task runs, the card can be mounted, and a server that can be reached answers some
\* of what it is sent.
Fairness ==
  /\ WF_vars(Network)
  /\ SF_vars(Mount(TRUE))
  /\ SF_vars(Live("accepted")) /\ SF_vars(Replay("accepted"))
  /\ WF_vars(~wifi /\ Connect) /\ WF_vars(Sync)
FairSpec == Spec /\ Fairness

-----------------------------------------------------------------------------
\* The packets on the card, oldest first.
Records  == {s \in Slot : Whole(s)}
Place(s) == Cardinality({t \in Records : disk[t].gen <= disk[s].gen})
Log == [i \in 1..Cardinality(Records) |-> disk[CHOOSE s \in Records : Place(s) = i].body]

\* Through failed writes and reboots at any point, the card is a log that keeps its
\* order, shows no torn packet and gives up only the oldest, when it is answered, and
\* what the card itself lost.
Abstract == INSTANCE RecordLog WITH log <- Log
ImplementsRecordLog == Abstract!Spec

\* A packet that was made is waiting, stored or answered, was counted as dropped, was in
\* RAM at a reboot, or was lost by the card: no step of the uplink forgets one.
NothingForgotten ==
  \A n \in 1..made : n \in Range(queue) \cup {pending} \cup Range(Log)
                           \cup answered \cup lost

\* Once everything is made and the link holds, the card is emptied: no packet that went
\* bad stands in the way of the next.
Emptied == healthy /\ Held = {} /\ pending = 0 /\ queue = <<>>
CardIsEmptied == []<>Emptied
==============================================================================
