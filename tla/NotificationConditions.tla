----------------------- MODULE NotificationConditions -----------------------
(***************************************************************************)
(* When an operator is alerted: refreshEvents looks at a condition of the  *)
(* installation (high CO2, a silent device, a failed command), stepCondition *)
(* decides, and recordEvent stores an alert or the end of it.  Each process *)
(* takes its time before it waits for the advisory lock, so checks may run *)
(* in another order than their times.                                      *)
(***************************************************************************)
EXTENDS Integers, Sequences, FiniteSets, SequencesExt

CONSTANTS
  Worker,      \* processes that check
  Durations,   \* values of co2_duration_seconds and offline_duration_seconds
  Suppressions,\* values of suppression_seconds
  MaxGap,      \* deviceHeartbeatTimeoutMs
  MaxTime,     \* bound
  MaxChecks,   \* bound
  none         \* null

VARIABLES
  clock,
  began,      \* the `now' of a worker that waits for the lock, or none
  condition,  \* the row of notification_conditions
  settings,
  checks,     \* history: what the checks of this mode saw, and when
  events      \* the rows of notification_events, with the number of the check

vars == <<clock, began, condition, settings, checks, events>>

Time == 1..MaxTime + 1
Seen == {"good", "bad", "unknown"}
emptyCondition == [since |-> none, active |-> FALSE, lastAlert |-> none, lastCheck |-> none]

TypeOK ==
  /\ clock \in Time
  /\ began \in [Worker -> Time \cup {none}]
  /\ condition \in [since : Time \cup {none}, active : BOOLEAN,
                    lastAlert : Time \cup {none}, lastCheck : Time \cup {none}]
  /\ condition.active => condition.lastAlert # none
  /\ settings \in [duration : Durations, suppression : Suppressions]
  /\ checks \in Seq([at : Time, seen : Seen])
  /\ events \in Seq([kind : {"problem", "recovery"}, key : Time, check : Nat])

Init ==
  /\ clock = 1 /\ began = [w \in Worker |-> none]
  /\ condition = emptyCondition
  /\ settings \in [duration : Durations, suppression : Suppressions]
  /\ checks = <<>> /\ events = <<>>

-----------------------------------------------------------------------------
\* A process takes its time, in milliseconds, so no two take the same.
Begin(w) ==
  /\ began[w] = none
  /\ clock <= MaxTime
  /\ began' = [began EXCEPT ![w] = clock]
  /\ clock' = clock + 1
  /\ UNCHANGED <<condition, settings, checks, events>>

Pass ==
  /\ clock <= MaxTime
  /\ clock' = clock + 1
  /\ UNCHANGED <<began, condition, settings, checks, events>>

\* Mistake: a gap between the checks is not noticed.
SinceAcrossGaps(seen, now) ==
  IF seen # "bad" THEN none ELSE IF condition.since = none THEN now ELSE condition.since

\* stepCondition: the row after a check that saw `seen' at `now'.
Since(seen, now) ==
  IF seen # "bad" THEN none
  ELSE IF \/ condition.since = none
          \/ /\ ~condition.active
             /\ condition.lastCheck # none /\ now - condition.lastCheck > MaxGap
       THEN now ELSE condition.since

Raises(seen, now) ==
  /\ seen = "bad"
  /\ ~condition.active
  /\ now - Since(seen, now) >= settings.duration
  /\ condition.lastAlert # none => now - condition.lastAlert >= settings.suppression

\* Mistake: not to know ends the alert, without a word.
ActiveKnown(seen, now) == seen = "bad" /\ (condition.active \/ Raises(seen, now))

Active(seen, now) ==
  IF seen = "unknown" THEN condition.active
  ELSE seen = "bad" /\ (condition.active \/ Raises(seen, now))

Stepped(seen, now) ==
  [since |-> Since(seen, now), active |-> Active(seen, now),
   lastAlert |-> IF Raises(seen, now) THEN now ELSE condition.lastAlert,
   lastCheck |-> now]

\* recordEvent; a row with that key stays as it is.
Recorded(kind, key) ==
  IF \E i \in DOMAIN events : events[i].kind = kind /\ events[i].key = key THEN events
  ELSE Append(events, [kind |-> kind, key |-> key, check |-> Len(checks) + 1])

\* refreshEvents, under the advisory lock.
Check(w, seen) ==
  LET now == began[w]
  IN /\ now # none
     /\ Len(checks) < MaxChecks
     /\ condition' = Stepped(seen, now)
     /\ events' = IF Raises(seen, now) THEN Recorded("problem", now)
                  ELSE IF seen = "good" /\ condition.active
                       THEN Recorded("recovery", condition.lastAlert) ELSE events
     /\ checks' = Append(checks, [at |-> now, seen |-> seen])
     /\ began' = [began EXCEPT ![w] = none]
     /\ UNCHANGED <<clock, settings>>

\* The transaction is rolled back, or the process dies.
Fail(w) ==
  /\ began[w] # none
  /\ began' = [began EXCEPT ![w] = none]
  /\ UNCHANGED <<clock, condition, settings, checks, events>>

\* saveNotificationSettings.
SaveSettings(s) ==
  /\ settings' = s
  /\ UNCHANGED <<clock, began, condition, checks, events>>

\* activateMode deletes the conditions of the earlier mode; its events are told apart
\* here by leaving them out.
SwitchMode ==
  /\ checks # <<>>
  /\ condition' = emptyCondition
  /\ checks' = <<>> /\ events' = <<>>
  /\ UNCHANGED <<clock, began, settings>>

Next ==
  \/ \E w \in Worker : \/ Begin(w)
                       \/ \E seen \in Seen : Check(w, seen)
                       \/ Fail(w)
  \/ Pass
  \/ \E s \in [duration : Durations, suppression : Suppressions] : SaveSettings(s)
  \/ SwitchMode

Spec == Init /\ [][Next]_vars

-----------------------------------------------------------------------------
\* The checks up to the last that saw it bad, one soon enough after another.
Run(seq) ==
  LET n == Len(seq)
  IN {j \in 1..n : \A k \in j..n : /\ seq[k].seen = "bad"
                                   /\ k > j => seq[k].at - seq[k - 1].at <= MaxGap}

\* Whether the checks and the alerts so far ask for an alert.
Due(seq, past) ==
  /\ Run(seq) # {}
  /\ LET first == CHOOSE j \in Run(seq) : \A k \in Run(seq) : j <= k
     IN Last(seq).at - seq[first].at >= settings.duration
  /\ \A i \in DOMAIN past :
       past[i].kind = "problem" => Last(seq).at - past[i].key >= settings.suppression

Alerted(past) == past # <<>> /\ Last(past).kind = "problem"

\* An operator is alerted exactly when the condition was bad at every check for as
\* long as the settings say, with no gap, nothing unknown between, and not too soon
\* after the last alert; what the row remembers is enough to decide that.
AlertsWhenDue ==
  [][Len(checks') > Len(checks) =>
       (~Alerted(events) /\ Alerted(events') <=> ~Alerted(events) /\ Due(checks', events))]_vars

\* Alerts and recoveries alternate, every recovery names its alert, and the row says
\* what the last event said: none is lost to a key that was used before.
EventsTellTheCondition ==
  /\ condition.active <=> Alerted(events)
  /\ \A i \in DOMAIN events :
       IF i % 2 = 1 THEN events[i].kind = "problem"
       ELSE events[i].kind = "recovery" /\ events[i].key = events[i - 1].key
=============================================================================
