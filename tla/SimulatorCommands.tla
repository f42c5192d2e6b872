-------------------------- MODULE SimulatorCommands --------------------------
(***************************************************************************)
(* How the 3D simulator carries out the commands for its window: a network *)
(* thread polls, confirms and reports; the simulation thread executes.     *)
(* They share two queues.  The server answers, refuses, or an answer is    *)
(* lost; it forgets what an older report says (CommandQueue's Fresh).      *)
(*                                                                         *)
(* Reports carry the time of the tick that made them, and telemetry counts *)
(* at the server as a report of the time it arrives.  Only their order     *)
(* counts, so a report knows whether it is of the last tick and whether    *)
(* the server has taken a newer one.  A simulator whose clock is behind is *)
(* one whose reports are all made old.                                     *)
(***************************************************************************)
EXTENDS Integers, Sequences, FiniteSets, SequencesExt

CONSTANTS
  MaxCommands, \* bound
  MaxFaults    \* bound: refusals, and orders from the simulator's own panel

VARIABLES
  status, want,  \* the commands at the server
  expired,       \* those whose expires_at has passed
  known,         \* NetworkIntegration._known_command_ids
  events,        \* _events, on its way to the simulation thread
  inbox, acks,   \* _ack_inbox, _pending_acks: reports
  queued, active, seen, done, again,  \* DeviceCommandExecutor's members
  position, target,  \* the window: 0 closed, 1 between, 2 open
  faults

server   == <<status, want, expired>>
network  == <<known, acks>>
executor == <<queued, active, seen, done, again>>
device   == <<position, target>>
vars == <<server, network, executor, device, events, inbox, faults>>

Command == 1..MaxCommands
Issued  == 1..Len(status)
Limit(open) == IF open THEN 2 ELSE 0

TypeOK ==
  /\ status \in Seq({"pending", "applied", "expired", "cancelled"})
  /\ want \in Seq(BOOLEAN) /\ Len(want) = Len(status)
  /\ expired \subseteq Issued /\ known \subseteq Issued
  /\ events \in Seq([kind : {"received", "accepted"}, id : Issued])
  /\ {inbox, acks} \subseteq Seq([ids : Seq(Issued), open : BOOLEAN, last : BOOLEAN,
                                  old : BOOLEAN])
  /\ queued \in Seq(Issued) /\ active \in Issued \cup {0}
  /\ seen \subseteq Issued /\ done \subseteq Issued /\ again \in Seq(Issued)
  /\ position \in 0..2 /\ target \in 0..2 /\ faults \in Nat

Init ==
  /\ status = <<>> /\ want = <<>> /\ expired = {} /\ known = {} /\ events = <<>>
  /\ inbox = <<>> /\ acks = <<>>
  /\ queued = <<>> /\ active = 0 /\ seen = {} /\ done = {} /\ again = <<>>
  /\ position = 0 /\ target = 0 /\ faults = 0

-----------------------------------------------------------------------------
\* The server: a new command replaces the one that waits.
Issue(open) ==
  /\ Len(status) < MaxCommands
  /\ status' = Append([c \in Issued |-> IF status[c] = "pending" THEN "cancelled"
                                        ELSE status[c]], "pending")
  /\ want' = Append(want, open)
  /\ UNCHANGED <<expired, network, executor, device, events, inbox, faults>>

Expire(c) ==
  /\ c \notin expired
  /\ expired' = expired \cup {c}
  /\ status' = [status EXCEPT ![c] = IF @ = "pending" THEN "expired" ELSE @]
  /\ UNCHANGED <<want, network, executor, device, events, inbox, faults>>

Ids(report) == Range(report.ids)

\* reportControlState takes what is not older than what it has.
Confirmed(report) ==
  [c \in Issued |-> IF /\ ~report.old /\ c \in Ids(report)
                       /\ status[c] = "pending" /\ want[c] = report.open
                    THEN "applied" ELSE status[c]]

-----------------------------------------------------------------------------
\* The network thread.  _take_acknowledgements.
Take ==
  LET kept[i \in 0..Len(inbox)] ==
        IF i = 0 THEN acks
        ELSE IF Ids(inbox[i]) \subseteq known THEN Append(kept[i - 1], inbox[i])
        ELSE kept[i - 1]
  IN /\ inbox # <<>>
     /\ acks' = kept[Len(inbox)]
     /\ inbox' = <<>>
     /\ UNCHANGED <<server, known, executor, device, events, faults>>

\* The first report waiting is sent.  No answer, a 5xx and a timeout leave it waiting,
\* heard by the server or not.
SendAck ==
  /\ acks # <<>>
  /\ status' = Confirmed(Head(acks))
  /\ known' = known \ Ids(Head(acks))
  /\ acks' = Tail(acks)
  /\ events' = events \o [i \in DOMAIN Head(acks).ids |->
                            [kind |-> "accepted", id |-> Head(acks).ids[i]]]
  /\ UNCHANGED <<want, expired, executor, device, inbox, faults>>

AnswerLost ==
  /\ acks # <<>>
  /\ status' = Confirmed(Head(acks))
  /\ UNCHANGED <<want, expired, network, executor, device, events, inbox, faults>>

\* Mistake: the network thread goes on knowing them.
AckRefusedKnown ==
  /\ acks # <<>> /\ faults < MaxFaults
  /\ acks' = Tail(acks)
  /\ faults' = faults + 1
  /\ UNCHANGED <<server, known, executor, device, events, inbox>>

\* Refused, or answered in a form that does not keep the contract, taken or not: what
\* still waits may be polled again.
AckRefused ==
  /\ acks # <<>> /\ faults < MaxFaults
  /\ status' \in {status, Confirmed(Head(acks))}
  /\ known' = known \ Ids(Head(acks))
  /\ acks' = Tail(acks)
  /\ faults' = faults + 1
  /\ UNCHANGED <<want, expired, executor, device, events, inbox>>

\* Of the commands that wait, of which there is one at most, those it does not know.
Poll ==
  LET new == {c \in Issued \ known : status[c] = "pending"}
  IN /\ new # {}
     /\ known' = known \cup new
     /\ events' = events \o SetToSeq({[kind |-> "received", id |-> c] : c \in new})
     /\ UNCHANGED <<server, acks, executor, device, inbox, faults>>

\* The report of the last tick, when no confirmation waits: those that are still in the
\* inbox and of an earlier tick come too late.
Heartbeat ==
  /\ acks = <<>>
  /\ \E i \in DOMAIN inbox : ~inbox[i].last /\ ~inbox[i].old
  /\ inbox' = [i \in DOMAIN inbox |-> [inbox[i] EXCEPT !.old = @ \/ ~inbox[i].last]]
  /\ UNCHANGED <<server, network, executor, device, events, faults>>

\* Telemetry goes out whether confirmations wait or not, and the server takes the time
\* it receives it for the time of a report: all that were made before come too late.  It
\* confirms nothing itself (its command_results are empty).
Stale(reports) == [i \in DOMAIN reports |-> [reports[i] EXCEPT !.old = TRUE]]

Telemetry ==
  /\ \E report \in Range(acks) \cup Range(inbox) : ~report.old
  /\ acks' = Stale(acks) /\ inbox' = Stale(inbox)
  /\ UNCHANGED <<server, known, executor, device, events, faults>>

-----------------------------------------------------------------------------
\* Mistake: the newest goes first.
EnqueuedFirst(ex, c) ==
  IF c \in expired THEN ex
  ELSE IF c \notin ex.seen
       THEN [ex EXCEPT !.seen = @ \cup {c}, !.queued = <<c>> \o @]
  ELSE IF c \in ex.done THEN [ex EXCEPT !.again = Append(@, c)] ELSE ex

\* The simulation thread.  What the queue of events does to the executor: enqueue and
\* acknowledgement_accepted.
Enqueued(ex, c) ==
  IF c \in expired THEN ex
  ELSE IF c \notin ex.seen
       THEN [ex EXCEPT !.seen = @ \cup {c}, !.queued = Append(@, c)]
  ELSE IF c \in ex.done THEN [ex EXCEPT !.again = Append(@, c)] ELSE ex

Accepted(ex, c) == [ex EXCEPT !.seen = @ \ {c}, !.done = @ \ {c}]

Drained ==
  LET after[i \in 0..Len(events)] ==
        IF i = 0 THEN [queued |-> queued, seen |-> seen, done |-> done, again |-> again]
        ELSE IF events[i].kind = "received" THEN Enqueued(after[i - 1], events[i].id)
        ELSE Accepted(after[i - 1], events[i].id)
  IN after[Len(events)]

\* The command update works on: the active one, or else the first of the queue.
Chosen(ex) == IF active # 0 THEN active ELSE IF ex.queued # <<>> THEN Head(ex.queued) ELSE 0

\* tick: drain, let the window move one step or none, update, report.  A command that
\* has expired stops the window if it was active.
Tick(moves) ==
  LET ex    == Drained
      c     == Chosen(ex)
      stale == c \in expired
      pos   == IF ~moves \/ position = target THEN position
               ELSE IF position < target THEN position + 1 ELSE position - 1
      aim   == IF c = 0 THEN target
               ELSE IF stale THEN IF active # 0 THEN pos ELSE target
               ELSE Limit(want[c])
      ends  == c # 0 /\ ~stale /\ pos = Limit(want[c])
      made  == ex.again \o (IF ends THEN <<c>> ELSE <<>>)
  IN /\ events # <<>> \/ c # 0 \/ position # target \/ again # <<>>
        \/ \E i \in DOMAIN inbox : inbox[i].last
     /\ position' = pos /\ target' = aim
     /\ queued' = IF active = 0 /\ c # 0 THEN Tail(ex.queued) ELSE ex.queued
     /\ active' = IF stale \/ ends THEN 0 ELSE c
     /\ seen' = ex.seen
     /\ done' = IF ends THEN ex.done \cup {c} ELSE ex.done
     /\ again' = <<>> /\ events' = <<>>
     /\ inbox' = [i \in DOMAIN inbox |-> [inbox[i] EXCEPT !.last = FALSE]]
                 \o (IF made = <<>> THEN <<>>
                     ELSE <<[ids |-> made, open |-> pos > 0, last |-> TRUE, old |-> FALSE]>>)
     /\ UNCHANGED <<server, network, faults>>

\* Somebody at the simulator's panel orders the window.
Order(open) ==
  /\ faults < MaxFaults
  /\ target' = Limit(open)
  /\ faults' = faults + 1
  /\ UNCHANGED <<server, network, executor, position, events, inbox>>

Next ==
  \/ \E open \in BOOLEAN : Issue(open) \/ Order(open)
  \/ \E c \in Issued : Expire(c)
  \/ Take \/ SendAck \/ AnswerLost \/ AckRefused \/ Poll
  \/ Heartbeat \/ Telemetry
  \/ \E moves \in BOOLEAN : Tick(moves)

Spec == Init /\ [][Next]_vars

\* Both threads run, the simulation is not paused for good, and the server can be
\* reached again and again.
Fairness == /\ WF_vars(Take) /\ SF_vars(SendAck) /\ WF_vars(Poll)
            /\ WF_vars(Tick(TRUE))
FairSpec == Spec /\ Fairness

-----------------------------------------------------------------------------
\* Once the newest command is confirmed, no older one moves the window: the queue of
\* the executor does not bring back what the server has replaced.
NewestStands ==
  [][status # <<>> /\ Last(status) = "applied" /\ faults' = faults => target' = target]_vars

Waits(c) == c \in Issued /\ status[c] = "pending"
\* A report of it waits that the server will not take any more.
TooLate(c) == \E report \in Range(acks) \cup Range(inbox) : report.old /\ c \in Ids(report)
\* A command is replaced, expires or is confirmed, although reports are refused and
\* answers are lost: it waits for ever only if its reports come too late again and again,
\* overtaken by telemetry.
CommandsEnd == \A c \in Command : []<>(~Waits(c) \/ TooLate(c))
==============================================================================
