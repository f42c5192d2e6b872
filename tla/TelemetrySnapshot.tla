-------------------------- MODULE TelemetrySnapshot --------------------------
(***************************************************************************)
(* What the server does with a frame of telemetry: PostgresTelemetryStore  *)
(* keeps it and decides whether it is the live snapshot, and               *)
(* TelemetryService reports the live one to the control tables.  The       *)
(* measurement it may hold is MeasurementIngest's.                         *)
(*                                                                         *)
(* The device numbers its frames with its boot and a sequence; here a      *)
(* frame is its place n in the order in which the device made them.  The   *)
(* network may deliver a frame at any time, again, and as `live' or, from  *)
(* the journal, as `archive'.  Requests run side by side, and each may end *)
(* between its two transactions.                                           *)
(***************************************************************************)
EXTENDS Integers, Sequences, FiniteSets, SequencesExt

CONSTANTS
  Worker,      \* bound: requests at once
  MaxFrames,   \* bound
  MaxPrunes    \* bound

VARIABLES
  frames,    \* what the device has made: its boot, and sampled_at (0: clock not set)
  arrived,   \* the frames in the order in which the store inserted them
  kept,      \* the rows of device_telemetry
  boots,     \* device_telemetry_boots, in the order of id
  head,      \* device_telemetry_heads.frame_id, 0 if there is none
  told,      \* last_reported_at: the place in arrived of the row it came from, or 0
  report,    \* the rows whose requests have yet to report them, or 0
  prunes

vars == <<frames, arrived, kept, boots, head, told, report, prunes>>

N == 1..MaxFrames

TypeOK ==
  /\ frames \in Seq([boot : Nat \ {0}, at : 0..MaxFrames])
  /\ arrived \in Seq(N) /\ kept \subseteq Range(arrived)
  /\ boots \in Seq(Nat \ {0}) /\ IsInjective(boots)
  /\ head \in kept \cup {0} /\ told \in 0..Len(arrived)
  /\ report \in [Worker -> 0..Len(arrived)]

Init ==
  /\ frames = <<>> /\ arrived = <<>> /\ kept = {} /\ boots = <<>>
  /\ head = 0 /\ told = 0 /\ report = [w \in Worker |-> 0] /\ prunes = 0

-----------------------------------------------------------------------------
Boot(n)  == frames[n].boot
Order(b) == IF b \in Range(boots) THEN SelectInSeq(boots, LAMBDA x : x = b)
            ELSE Len(boots) + 1
\* The place of the row of n among the rows, by received_at.
Row(n) == SelectLastInSeq(arrived, LAMBDA m : m = n)

\* The device makes a frame, perhaps after a restart, with its clock set or not.
Make(restart, synced) ==
  LET n == Len(frames) + 1
      b == IF frames = <<>> THEN 1 ELSE Boot(n - 1) + (IF restart THEN 1 ELSE 0)
  IN /\ n <= MaxFrames
     /\ frames = <<>> => ~restart
     /\ frames' = Append(frames, [boot |-> b, at |-> IF synced THEN n ELSE 0])
     /\ UNCHANGED <<arrived, kept, boots, head, told, report, prunes>>

\* Mistake: only the sequence of one boot is looked at.
SupersedesBySequence(n, live) ==
  live /\ (head = 0 \/ Boot(n) # Boot(head) \/ n > head)

\* supersedes: whether n becomes the live snapshot.
Supersedes(n, live) ==
  /\ live
  /\ \/ head = 0
     \/ /\ head # 0
        /\ Order(Boot(n)) >= Order(Boot(head))
        /\ Boot(n) = Boot(head) => n > head
        /\ frames[head].at # 0 /\ frames[n].at # 0 => frames[n].at >= frames[head].at

\* save; fresh: -5 s <= age <= 90 s.
Save(w, n, live, fresh) ==
  LET new     == n \notin kept
      current == IF new THEN Supersedes(n, live) ELSE live /\ head = n
  IN /\ report[w] = 0
     /\ n <= Len(frames)
     /\ kept' = kept \cup {n}
     /\ arrived' = IF new THEN Append(arrived, n) ELSE arrived
     /\ boots' = IF Boot(n) \in Range(boots) THEN boots ELSE Append(boots, Boot(n))
     /\ head' = IF current THEN n ELSE head
     /\ report' = [report EXCEPT ![w] = IF current /\ fresh
                                        THEN IF new THEN Len(arrived') ELSE Row(n) ELSE 0]
     /\ UNCHANGED <<frames, told, prunes>>

\* reportControlState with the received_at of the row; CommandQueue models the rest.
Report(w) ==
  /\ report[w] # 0
  /\ told' = IF report[w] >= told THEN report[w] ELSE told
  /\ report' = [report EXCEPT ![w] = 0]
  /\ UNCHANGED <<frames, arrived, kept, boots, head, prunes>>

\* A query fails, or the process dies: the frame is kept and not reported, until the
\* device sends it again.
Fail(w) ==
  /\ report[w] # 0
  /\ report' = [report EXCEPT ![w] = 0]
  /\ UNCHANGED <<frames, arrived, kept, boots, head, told, prunes>>

\* Mistake: boots without a row left go with their rows.
PruneBoots(n) ==
  /\ prunes < MaxPrunes
  /\ n \in kept
  /\ kept' = {m \in kept : m = head \/ Row(m) > Row(n)}
  /\ boots' = SelectSeq(boots, LAMBDA b : \E m \in kept' : Boot(m) = b)
  /\ prunes' = prunes + 1
  /\ UNCHANGED <<frames, arrived, head, told, report>>

\* Mistake: everything that old goes.
PruneAll(n) ==
  /\ prunes < MaxPrunes
  /\ n \in kept
  /\ kept' = {m \in kept : Row(m) > Row(n)}
  /\ prunes' = prunes + 1
  /\ UNCHANGED <<frames, arrived, boots, head, told, report>>

\* prune: the rows received up to that of n, except the head's; the boots stay.
Prune(n) ==
  /\ prunes < MaxPrunes
  /\ n \in kept
  /\ kept' = {m \in kept : m = head \/ Row(m) > Row(n)}
  /\ prunes' = prunes + 1
  /\ UNCHANGED <<frames, arrived, boots, head, told, report>>

Next ==
  \/ \E restart, synced \in BOOLEAN : Make(restart, synced)
  \/ \E w \in Worker :
       \/ \E n \in 1..Len(frames), live, fresh \in BOOLEAN : Save(w, n, live, fresh)
       \/ Report(w)
       \/ Fail(w)
  \/ \E n \in N : Prune(n)

Spec == Init /\ [][Next]_vars

-----------------------------------------------------------------------------
\* The place of a boot among the boots, by the first frame of it that arrived.
FirstHeard == [b \in {Boot(n) : n \in Range(arrived)} |->
                 SelectInSeq(arrived, LAMBDA n : Boot(n) = b)]

\* The live snapshot moves on within a boot, or to a boot that was first heard of
\* later: a session it left never takes it back, even when its rows are gone.
SnapshotMovesOn ==
  [][head # 0 /\ head' # head =>
       /\ head' # 0
       /\ IF Boot(head') = Boot(head) THEN head' > head
          ELSE FirstHeard'[Boot(head)] < FirstHeard'[Boot(head')]]_vars

==============================================================================
