------------------------ MODULE NotificationDelivery ------------------------
(***************************************************************************)
(* deliverEvents: events are claimed with an expiring lease, sent to a chat *)
(* and marked, one query after another; the operator changes the settings, *)
(* and the installation its mode, meanwhile.  A process may die, and a     *)
(* query fail, at any of these steps.                                      *)
(*                                                                         *)
(* Time is counted in leases of 30 s.  A batch is five calls of at most    *)
(* 5 s, so a process that lives ends its batch before its lease: Elapse    *)
(* waits for it.                                                           *)
(***************************************************************************)
EXTENDS Integers, Sequences, FiniteSets, Functions

CONSTANTS
  Worker,    \* the server's processes
  Chat,      \* chats an operator may choose
  Batch,     \* LIMIT of the claim (5)
  MaxEvents, \* bound
  MaxFaults, \* bound: dead processes and failed queries
  MaxChanges,\* bound: changes of settings and of mode
  none

VARIABLES
  event,     \* the rows of notification_events, in the order of id
  settings,  \* the chat (with its token, or none) and whether alerts are on
  job,       \* what each process does, and the events it has claimed
  calls,     \* history: calls of the transport for each event
  arrived,   \* history: those after which the message was in the chat
  faults, changes

vars == <<event, settings, job, calls, arrived, faults, changes>>

Id == 1..Len(event)
Status == {"disabled", "pending", "sending", "sent", "failed"}
Idle == [pc |-> "idle", batch |-> <<>>]

TypeOK ==
  /\ event \in Seq([status : Status, attempts : 0..3, wait : 0..2,
                    chat : Chat \cup {none}, test : BOOLEAN])
  /\ \A i \in Id : event[i].status \in {"pending", "sending"} => event[i].chat # none
  /\ settings \in [chat : Chat \cup {none}, enabled : BOOLEAN]
  /\ settings.enabled => settings.chat # none
  /\ \A w \in Worker : /\ job[w].pc \in {"idle", "look", "disable", "send", "mark", "miss"}
                       /\ job[w].batch \in Seq(Id)
                       /\ job[w].pc \in {"disable", "send", "mark", "miss"} => job[w].batch # <<>>
  /\ calls \in [Id -> Nat] /\ arrived \in [Id -> Nat]

Init ==
  /\ event = <<>> /\ calls = <<>> /\ arrived = <<>>
  /\ settings \in {s \in [chat : Chat \cup {none}, enabled : BOOLEAN] :
                    s.enabled => s.chat # none}
  /\ job = [w \in Worker |-> Idle]
  /\ faults = 0 /\ changes = 0

-----------------------------------------------------------------------------
\* recordEvent, for an alert or for a test of the channel (queueChannelTest, which wants
\* a configured one; it reads the settings and inserts in two steps, which are one here).
Record(test) ==
  LET channel == settings.chat # none /\ (settings.enabled \/ test)
  IN /\ Len(event) < MaxEvents
     /\ test => settings.chat # none
     /\ event' = Append(event, [status |-> IF channel THEN "pending" ELSE "disabled",
                                attempts |-> 0, wait |-> 0, test |-> test,
                                chat |-> IF channel THEN settings.chat ELSE none])
     /\ calls' = Append(calls, 0) /\ arrived' = Append(arrived, 0)
     /\ UNCHANGED <<settings, job, faults, changes>>

\* Every event that matches becomes disabled.
Disabled(match(_)) ==
  [i \in Id |-> IF match(event[i]) THEN [event[i] EXCEPT !.status = "disabled"] ELSE event[i]]

\* saveNotificationSettings: what waits for another chat is not sent.
SaveSettings(chat, enabled) ==
  /\ changes < MaxChanges
  /\ enabled => chat # none
  /\ settings' = [chat |-> chat, enabled |-> enabled]
  /\ event' = Disabled(LAMBDA e : e.status = "pending" /\ (~enabled \/ e.chat # chat))
  /\ changes' = changes + 1
  /\ UNCHANGED <<job, calls, arrived, faults>>

\* activateMode: nothing of the earlier source is delivered.
SwitchMode ==
  /\ changes < MaxChanges
  /\ event' = Disabled(LAMBDA e : e.status \in {"pending", "sending"})
  /\ changes' = changes + 1
  /\ UNCHANGED <<settings, job, calls, arrived, faults>>

-----------------------------------------------------------------------------
Unanswered(i) == event[i].status \in {"pending", "sending"} /\ event[i].wait = 0
\* Mistake: a claim is not a lease.
DueAtOnce == {i \in Id : /\ \/ event[i].status = "sending"
                            \/ event[i].status = "pending" /\ event[i].wait = 0
                         /\ event[i].attempts < 3}

Due == {i \in Id : Unanswered(i) /\ event[i].attempts < 3}

\* The due events with the smallest ids.
Oldest == {i \in Due : Cardinality({j \in Due : j < i}) < Batch}

\* Mistake: an attempt is counted when it has been answered.
ClaimUncounted(w) ==
  \E batch \in [1..Cardinality(Oldest) -> Oldest] :
     /\ job[w].pc = "idle" /\ IsInjective(batch)
     /\ event' = [i \in Id |-> IF i \in Oldest
                               THEN [event[i] EXCEPT !.status = "sending", !.wait = 1]
                               ELSE event[i]]
     /\ job' = [job EXCEPT ![w] = [pc |-> "look", batch |-> batch]]
     /\ UNCHANGED <<settings, calls, arrived, faults, changes>>

\* The claim, every 10 s: one statement, skipping rows another process is claiming.
\* The rows it returns come in any order.
Claim(w) ==
  \E batch \in [1..Cardinality(Oldest) -> Oldest] :
     /\ job[w].pc = "idle" /\ IsInjective(batch)
     /\ event' = [i \in Id |-> IF i \in Oldest
                               THEN [event[i] EXCEPT !.status = "sending", !.wait = 1,
                                                     !.attempts = @ + 1]
                               ELSE event[i]]
     /\ job' = [job EXCEPT ![w] = [pc |-> "look", batch |-> batch]]
     /\ UNCHANGED <<settings, calls, arrived, faults, changes>>

Goto(w, pc) == job' = [job EXCEPT ![w].pc = pc]
Leave(w)    == job' = [job EXCEPT ![w] = [pc |-> "look", batch |-> Tail(job[w].batch)]]

\* The settings are read again for each event.
Look(w) ==
  LET e == event[Head(job[w].batch)]
  IN /\ job[w].pc = "look" /\ job[w].batch # <<>>
     /\ Goto(w, IF e.chat = settings.chat /\ (settings.enabled \/ e.test) THEN "send"
                ELSE "disable")
     /\ UNCHANGED <<event, settings, calls, arrived, faults, changes>>

Disable(w) ==
  /\ job[w].pc = "disable"
  /\ event' = [event EXCEPT ![Head(job[w].batch)].status = "disabled"]
  /\ Leave(w)
  /\ UNCHANGED <<settings, calls, arrived, faults, changes>>

\* sendTelegram: the message is in the chat or not, and the answer may be lost.
Send(w, there, answer) ==
  LET i == Head(job[w].batch)
  IN /\ job[w].pc = "send"
     /\ answer => there
     /\ there /\ ~answer => faults < MaxFaults
     /\ faults' = faults + (IF there /\ ~answer THEN 1 ELSE 0)
     /\ calls' = [calls EXCEPT ![i] = @ + 1]
     /\ arrived' = [arrived EXCEPT ![i] = @ + (IF there THEN 1 ELSE 0)]
     /\ Goto(w, IF answer THEN "mark" ELSE "miss")
     /\ UNCHANGED <<event, settings, changes>>

Mark(w) ==
  /\ job[w].pc = "mark"
  /\ event' = [event EXCEPT ![Head(job[w].batch)].status = "sent"]
  /\ Leave(w)
  /\ UNCHANGED <<settings, calls, arrived, faults, changes>>

\* The query that marks it fails, and ends in the same catch as a transport that failed.
Unmarked(w) ==
  /\ job[w].pc = "mark"
  /\ faults < MaxFaults
  /\ faults' = faults + 1
  /\ Goto(w, "miss")
  /\ UNCHANGED <<event, settings, calls, arrived, changes>>

\* The catch: try again after 30 s and then after 60 s.
Miss(w) ==
  LET i == Head(job[w].batch)
      n == event[i].attempts
  IN /\ job[w].pc = "miss"
     /\ event' = [event EXCEPT ![i].status = IF n >= 3 THEN "failed" ELSE "pending",
                               ![i].wait = IF n >= 3 THEN 0 ELSE n]
     /\ Leave(w)
     /\ UNCHANGED <<settings, calls, arrived, faults, changes>>

\* Mistake: nobody looks for those.
FinishOnly(w) ==
  /\ job[w].pc = "look" /\ job[w].batch = <<>>
  /\ job' = [job EXCEPT ![w] = Idle]
  /\ UNCHANGED <<event, settings, calls, arrived, faults, changes>>

\* The last statement: an event claimed for the third time and never answered.
Finish(w) ==
  /\ job[w].pc = "look" /\ job[w].batch = <<>>
  /\ event' = [i \in Id |-> IF event[i].status = "sending" /\ event[i].wait = 0
                               /\ event[i].attempts >= 3
                            THEN [event[i] EXCEPT !.status = "failed"] ELSE event[i]]
  /\ job' = [job EXCEPT ![w] = Idle]
  /\ UNCHANGED <<settings, calls, arrived, faults, changes>>

\* The process dies, or a query outside the try fails: what it claimed stays claimed.
Die(w) ==
  /\ job[w].pc # "idle"
  /\ faults < MaxFaults
  /\ job' = [job EXCEPT ![w] = Idle]
  /\ faults' = faults + 1
  /\ UNCHANGED <<event, settings, calls, arrived, changes>>

Elapse ==
  /\ \A w \in Worker : job[w].batch = <<>>
  /\ \E i \in Id : event[i].wait # 0
  /\ event' = [i \in Id |-> [event[i] EXCEPT !.wait = IF @ = 0 THEN 0 ELSE @ - 1]]
  /\ UNCHANGED <<settings, job, calls, arrived, faults, changes>>

Step(w) == \/ Claim(w) \/ Look(w) \/ Disable(w)
           \/ \E there, answer \in BOOLEAN : Send(w, there, answer)
           \/ Mark(w) \/ Unmarked(w) \/ Miss(w) \/ Finish(w)

Next ==
  \/ \E test \in BOOLEAN : Record(test)
  \/ \E chat \in Chat \cup {none}, enabled \in BOOLEAN : SaveSettings(chat, enabled)
  \/ SwitchMode
  \/ \E w \in Worker : Step(w) \/ Die(w)
  \/ Elapse

Spec == Init /\ [][Next]_vars

\* The timer of each process, and time.
Fairness == (\A w \in Worker : WF_vars(Step(w))) /\ SF_vars(Elapse)
FairSpec == Spec /\ Fairness

-----------------------------------------------------------------------------
\* However often processes die, an event is handed to the messenger three times at
\* most, and only a fault puts it into the chat twice.
FewMessages == \A i \in Id : calls[i] <= 3 /\ arrived[i] <= 1 + faults

\* What is marked as sent is in the chat, is not claimed again and stays marked.
SentIsSent ==
  [][\A i \in Id : event[i].status = "sent" =>
        event'[i].status = "sent" /\ calls'[i] = calls[i] /\ arrived[i] > 0]_vars

\* Every event is answered in the end: sent, failed or disabled.
Settled(i) == i \in Id => event[i].status \in {"sent", "failed", "disabled"}
EventsSettle == \A i \in 1..MaxEvents : <>[]Settled(i)

\* activateMode, repository.ts:851: 'delivery of the earlier source is cancelled'; an
\* event that was cancelled is not made ready for sending again.
CancelledStaysCancelled ==
  [][\A i \in Id : event[i].status = "disabled" => event'[i].status \in {"disabled", "sent"}]_vars
=============================================================================
