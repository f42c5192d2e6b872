---------------------------- MODULE CommandQueue ----------------------------
(***************************************************************************)
(* The control tables of one room: the row of actuator_states and the      *)
(* rows of actuator_commands, under the transactions of                    *)
(* PostgresRepository (frontend/src/server/repository.ts).                 *)
(*                                                                         *)
(* Every control transaction takes the actuator_states row FOR UPDATE and  *)
(* is one action.  activateMode does not take that row until its last      *)
(* statements, so it is two actions: the cancellation of the pending       *)
(* commands, whose rows stay locked, and the reset that commits.           *)
(*                                                                         *)
(* A command is addressed by its batch and its target: a batch never holds *)
(* two commands of one target, and the ids of one target's commands grow   *)
(* with their batches.                                                     *)
(*                                                                         *)
(* The other columns of the room's row (window_mode, the override, the     *)
(* minimum times, outdoor_safety) decide what the automation plans; they   *)
(* do not decide what these transactions do with a plan, and are left out. *)
(***************************************************************************)
EXTENDS Integers, FiniteSets

CONSTANTS
  Target,         \* the actuators
  MaxBatch,       \* bound: queueing transactions that create a command
  MaxEra,         \* bound: switches of the installation's mode
  MaxTime,        \* bound: the clock
  ManualLife,     \* life of a manual command (5 minutes)
  AutomaticLife,  \* life of an automatic command (2 minutes)
  Skew,           \* tolerated lead of a device's clock (5 seconds)
  MaxDelay,       \* bound: age of a report when it arrives
  MaxWait,        \* bound: how long a request may wait for the room's row
  Retention,      \* age at which a finished command is deleted
  ClockSteps      \* whether the server's clock may be set back

ASSUME CommandQueueAssumption ==
  /\ {MaxBatch, MaxEra, MaxTime, ManualLife, AutomaticLife, Skew, MaxDelay,
      MaxWait, Retention} \subseteq Nat
  /\ ClockSteps \in BOOLEAN

Batch == 1..MaxBatch
Time  == 0..MaxTime
Era   == 0..MaxEra
Id    == Batch \X Target

Never  == -1                       \* SQL NULL in a timestamp column
Stamp  == 0..(MaxTime + Skew)      \* what a device's clock may say
Expiry == 0..(MaxTime + ManualLife + AutomaticLife)

Ended  == {"applied", "failed", "cancelled", "expired"}
Status == {"absent", "pending", "deleted"} \cup Ended
Source == {"manual", "automatic"}

\* created_at is the time at which the transaction began, expires_at is counted from
\* the time at which it wrote the row.
Command == [status: Status, want: BOOLEAN, source: Source, era: Era, created: Time,
            expires: Expiry]

Absent  == [status |-> "absent", want |-> FALSE, source |-> "manual",
            era |-> 0, created |-> 0, expires |-> 0]
Deleted == [Absent EXCEPT !.status = "deleted"]

VARIABLES
  commands,      \* the rows of actuator_commands
  lastBatch,     \* the last batch that was created
  reported,      \* exhaust_on, intake_on, window_open
  desired,       \* desired_exhaust_on, desired_intake_on, desired_window_open
  known,         \* known_targets (NULL stands for every target)
  lastReported,  \* last_reported_at
  era,           \* mode switches so far; orders created_at and the mode's updated_at
  switching,     \* an activateMode transaction is between its two steps
  locked,        \* the command rows that transaction has updated
  now            \* clock_timestamp()

stateRow == <<reported, desired, known, lastReported>>
vars == <<commands, lastBatch, stateRow, era, switching, locked, now>>

TypeOK ==
  /\ commands \in [Batch -> [Target -> Command]]
  /\ lastBatch \in 0..MaxBatch
  /\ reported \in [Target -> BOOLEAN]
  /\ desired \in [Target -> BOOLEAN]
  /\ known \in SUBSET Target
  /\ lastReported \in Stamp \cup {Never}
  /\ era \in Era
  /\ switching \in BOOLEAN
  /\ locked \in SUBSET Id
  /\ now \in Time

-----------------------------------------------------------------------------
(* What the transactions compute from the rows.                            *)

Life(source) == IF source = "manual" THEN ManualLife ELSE AutomaticLife

Pending(cs, t) == {b \in Batch : cs[b][t].status = "pending"}

IsLast(b, S) == b \in S /\ \A c \in S : c <= b

Overdue(c) == c.status = "pending" /\ c.expires <= now

\* Mistake: a status the CHECK constraint of the table does not list.
SettledOtherWord ==
  [b \in Batch |-> [t \in Target |->
     IF Overdue(commands[b][t]) THEN [commands[b][t] EXCEPT !.status = "timed_out"]
                                ELSE commands[b][t]]]

\* settleCommands, its UPDATE: an overdue pending command expires.
Settled ==
  [b \in Batch |-> [t \in Target |->
     IF Overdue(commands[b][t]) THEN [commands[b][t] EXCEPT !.status = "expired"]
                                ELSE commands[b][t]]]

\* syncDesired: the last pending command's state, else the reported one.
Intent(cs, rep) ==
  [t \in Target |->
     IF Pending(cs, t) = {} THEN rep[t]
     ELSE \E b \in Pending(cs, t) : IsLast(b, Pending(cs, t)) /\ cs[b][t].want]

\* activeCommandEpochSql: the commands of the present mode.
Epoch(cs, t) == {b \in Batch : cs[b][t].status \notin {"absent", "deleted"}
                               /\ cs[b][t].era = era}

\* An UPDATE waits for a row that the mode switch holds.  The transaction then
\* holds the state row the switch needs: a deadlock that aborts one of them.
RowsFree == \A id \in locked : commands'[id[1]][id[2]] = commands[id[1]][id[2]]

-----------------------------------------------------------------------------
Init ==
  /\ commands = [b \in Batch |-> [t \in Target |-> Absent]]
  /\ lastBatch = 0
  /\ reported = [t \in Target |-> FALSE]
  /\ desired = [t \in Target |-> FALSE]
  /\ known = Target
  /\ lastReported = Never
  /\ era = 0
  /\ switching = FALSE
  /\ locked = {}
  /\ now = 0

\* withControlLock around a read: getControlState, getControlBatch,
\* listPendingControlCommands and assessOutdoorAir all settle first.
Read ==
  LET settled == Settled
  IN /\ commands' = settled
     /\ desired' = Intent(settled, reported)
     /\ RowsFree
     /\ UNCHANGED <<lastBatch, reported, known, lastReported, era, switching,
                    locked, now>>

\* Mistake: an expired automatic command is tried again.
RefusedUnlessExpired(cs, t, want, source) ==
  /\ source = "automatic"
  /\ \E b \in Epoch(cs, t) :
       /\ IsLast(b, Epoch(cs, t))
       /\ cs[b][t].source = "automatic"
       /\ cs[b][t].want = want
       /\ cs[b][t].status \in {"failed", "cancelled"}

\* An automatic command that repeats the last one, which did not succeed.
Refused(cs, t, want, source) ==
  /\ source = "automatic"
  /\ \E b \in Epoch(cs, t) :
       /\ IsLast(b, Epoch(cs, t))
       /\ cs[b][t].source = "automatic"
       /\ cs[b][t].want = want
       /\ cs[b][t].status \in {"failed", "expired", "cancelled"}

\* Nothing to do: the device is there already, or is on its way there.
Satisfied(cs, t, want) ==
  /\ Intent(cs, reported)[t] = want
  /\ \/ t \in known /\ reported[t] = want
     \/ \E b \in Pending(cs, t) : cs[b][t].want = want

Accepted(cs, plan, source) ==
  {t \in DOMAIN plan : /\ ~Refused(cs, t, plan[t], source)
                       /\ ~Satisfied(cs, t, plan[t])}

\* Mistake: the command before, which asks for the opposite, is left waiting.
QueuedBeside(cs, new, plan, source, began, start) ==
  [b \in Batch |-> [t \in Target |->
     IF t \in new /\ b = lastBatch + 1
     THEN [status |-> "pending", want |-> plan[t], source |-> source, era |-> began,
           created |-> start, expires |-> now + Life(source)]
     ELSE cs[b][t]]]

\* The rows after the new ones are inserted: each replaces an opposite one.
Queued(cs, new, plan, source, began, start) ==
  [b \in Batch |-> [t \in Target |->
     IF t \notin new THEN cs[b][t]
     ELSE IF b = lastBatch + 1
          THEN [status |-> "pending", want |-> plan[t], source |-> source, era |-> began,
                created |-> start, expires |-> now + Life(source)]
     ELSE IF cs[b][t].status = "pending" /\ cs[b][t].want # plan[t]
          THEN [cs[b][t] EXCEPT !.status = "cancelled"]
     ELSE cs[b][t]]]

\* queueControlCommands: plan maps the targets of the batch to states.  The transaction
\* began at start, in the mode began, and then waited for the room's row: created_at
\* remembers when it began, so a later command need not have a later created_at.
Queue(plan, source, began, start) ==
  LET settled == Settled
      new == Accepted(settled, plan, source)
      intent == Intent(settled, reported)
  IN /\ lastBatch < MaxBatch
     /\ commands' = Queued(settled, new, plan, source, began, start)
     /\ lastBatch' = IF new = {} THEN lastBatch ELSE lastBatch + 1
     /\ desired' = [t \in Target |-> IF t \in new THEN plan[t] ELSE intent[t]]
     /\ RowsFree
     /\ UNCHANGED <<reported, known, lastReported, era, switching, locked, now>>

\* Mistake: the desired state is not brought back after a cancellation.
CancelBatchOnly(batch) ==
  /\ \E t \in Target : commands[batch][t].status \notin {"absent", "deleted"}
  /\ commands' = [b \in Batch |-> [t \in Target |->
                    IF b = batch /\ Settled[b][t].status = "pending"
                    THEN [Settled[b][t] EXCEPT !.status = "cancelled"]
                    ELSE Settled[b][t]]]
  /\ RowsFree
  /\ UNCHANGED <<lastBatch, stateRow, era, switching, locked, now>>

\* cancelControlBatch: every pending command of the batch.
CancelBatch(batch) ==
  LET settled == Settled
      cancelled ==
        [b \in Batch |-> [t \in Target |->
           IF b = batch /\ settled[b][t].status = "pending"
           THEN [settled[b][t] EXCEPT !.status = "cancelled"] ELSE settled[b][t]]]
  IN /\ \E t \in Target : commands[batch][t].status \notin {"absent", "deleted"}
     /\ commands' = cancelled
     /\ desired' = Intent(cancelled, reported)
     /\ RowsFree
     /\ UNCHANGED <<lastBatch, reported, known, lastReported, era, switching,
                    locked, now>>

\* Mistake: every report is taken, in whatever order it arrives.
FreshAlways(stamp) == stamp \in Stamp

\* Mistake: reports are ordered by their stamps only.
FreshByStamp(stamp) == lastReported = Never \/ stamp >= lastReported

\* The WHERE of the upsert: an older report is not applied, unless the last
\* one is from a future the clock no longer knows.
Fresh(stamp) == \/ lastReported = Never
                \/ stamp >= lastReported
                \/ lastReported > now + Skew

\* Mistake: the confirmation is taken at its word.
AnsweredUnmeasured(cs, seen, rep, answers) ==
  [b \in Batch |-> [t \in Target |->
     IF cs[b][t].status # "pending" \/ <<b, t>> \notin DOMAIN answers
     THEN cs[b][t] ELSE [cs[b][t] EXCEPT !.status = answers[<<b, t>>]]]]

\* Mistake: a late confirmation brings an ended command back.
AnsweredLate(cs, seen, rep, answers) ==
  [b \in Batch |-> [t \in Target |->
     IF /\ cs[b][t].status \in {"pending"} \cup Ended
        /\ <<b, t>> \in DOMAIN answers
        /\ answers[<<b, t>>] = "applied" => t \in seen /\ cs[b][t].want = rep[t]
     THEN [cs[b][t] EXCEPT !.status = answers[<<b, t>>]] ELSE cs[b][t]]]

\* The rows after a report: failures first, then confirmations of the commands
\* whose target is known to be in the state they asked for.
Answered(cs, seen, rep, answers) ==
  [b \in Batch |-> [t \in Target |->
     IF cs[b][t].status # "pending" \/ <<b, t>> \notin DOMAIN answers
       THEN cs[b][t]
     ELSE IF answers[<<b, t>>] = "failed"
       THEN [cs[b][t] EXCEPT !.status = "failed"]
     ELSE IF t \in seen /\ cs[b][t].want = rep[t]
       THEN [cs[b][t] EXCEPT !.status = "applied"]
     ELSE cs[b][t]]]

\* reportControlState: the device's clock says stamp, it has feedback for seen,
\* position gives the states of those, and answers the outcomes of commands.
Report(stamp, seen, position, answers) ==
  LET rep == [t \in Target |-> IF t \in seen THEN position[t] ELSE reported[t]]
      settled == Settled
      after == Answered(settled, seen, rep, answers)
  IN /\ stamp <= now + Skew
     /\ IF Fresh(stamp)
        THEN /\ reported' = rep
             /\ known' = seen
             /\ lastReported' = stamp
             /\ commands' = after
             /\ desired' = Intent(after, rep)
        ELSE /\ commands' = settled
             /\ desired' = Intent(settled, reported)
             /\ UNCHANGED <<reported, known, lastReported>>
     /\ RowsFree
     /\ UNCHANGED <<lastBatch, era, switching, locked, now>>

\* purgeExpiredData, its part on the commands.
Purge ==
  LET settled == Settled
  IN /\ commands' = [b \in Batch |-> [t \in Target |->
                       IF /\ settled[b][t].status \in Ended
                          /\ settled[b][t].created < now - Retention
                       THEN Deleted ELSE settled[b][t]]]
     /\ desired' = Intent(settled, reported)
     /\ RowsFree
     /\ UNCHANGED <<lastBatch, reported, known, lastReported, era, switching,
                    locked, now>>

\* activateMode with another source, up to the UPDATE of actuator_commands:
\* nothing is committed, the pending rows are locked.
BeginSwitch ==
  /\ ~switching
  /\ era < MaxEra
  /\ switching' = TRUE
  /\ locked' = {id \in Id : commands[id[1]][id[2]].status = "pending"}
  /\ UNCHANGED <<commands, lastBatch, stateRow, era, now>>

\* activateMode, from the UPDATE of actuator_states to the COMMIT.
CommitSwitch ==
  /\ switching
  /\ commands' = [b \in Batch |-> [t \in Target |->
                    IF <<b, t>> \in locked
                    THEN [commands[b][t] EXCEPT !.status = "cancelled"]
                    ELSE commands[b][t]]]
  /\ reported' = [t \in Target |-> FALSE]
  /\ desired' = [t \in Target |-> FALSE]
  /\ known' = {}
  /\ lastReported' = Never
  /\ era' = era + 1
  /\ switching' = FALSE
  /\ locked' = {}
  /\ UNCHANGED <<lastBatch, now>>

\* activateMode rolled back: the victim of a deadlock, or a lost connection.
AbortSwitch ==
  /\ switching
  /\ switching' = FALSE
  /\ locked' = {}
  /\ UNCHANGED <<commands, lastBatch, stateRow, era, now>>

Tick ==
  /\ now < MaxTime
  /\ now' = now + 1
  /\ UNCHANGED <<commands, lastBatch, stateRow, era, switching, locked>>

\* A correction of the server's clock.
SetClockBack ==
  /\ ClockSteps
  /\ now' \in 0..(now - 1)
  /\ UNCHANGED <<commands, lastBatch, stateRow, era, switching, locked>>

\* The batches of the callers: any targets, any states.
Plans == UNION {[T -> BOOLEAN] : T \in (SUBSET Target) \ {{}}}

\* A transaction may have begun before the last switch of the mode.
Began == {era, era - 1} \cap Era

\* It began a while ago, or before a correction of the clock at any time of it.
Starts == {start \in Time : ClockSteps \/ start \in (now - MaxWait)..now}

\* A report answers at most one command, one that was issued; later reports
\* answer the others.
Answers == UNION {[S -> {"applied", "failed"}] :
                  S \in {{}} \cup {{id} : id \in (1..lastBatch) \X Target}}

Next ==
  \/ Read
  \/ \E plan \in Plans, source \in Source, began \in Began, start \in Starts :
       Queue(plan, source, began, start)
  \/ \E batch \in Batch : CancelBatch(batch)
  \/ \E stamp \in Stamp, seen \in SUBSET Target, answers \in Answers :
       \E position \in [seen -> BOOLEAN] :
         stamp >= now - MaxDelay /\ Report(stamp, seen, position, answers)
  \/ Purge
  \/ BeginSwitch
  \/ CommitSwitch
  \/ AbortSwitch
  \/ Tick
  \/ SetClockBack

Spec == Init /\ [][Next]_vars

\* The device reports every few seconds, with the present time.
ReportNow == \E seen \in SUBSET Target : \E position \in [seen -> BOOLEAN] :
               Report(now, seen, position, <<>>)

FairSpec == Spec /\ WF_vars(ReportNow)

-----------------------------------------------------------------------------
(* What the control tables promise.                                        *)

\* Concurrent requests leave at most one command waiting for an actuator: an
\* equal one is not created, an opposite one is cancelled (docs/api.md,
\* "parallel equal requests give one pending command").
OnePendingPerTarget ==
  \A t \in Target : \A b, c \in Pending(commands, t) : b = c

\* What the panel shows as desired is the waiting command's state, or what the
\* device reported when none waits, after every order of queueing, reports,
\* cancellation, expiry and clean-up.  A command of an earlier mode that is
\* still pending is the exception: the reset did not see it.
DesiredFollowsIntent ==
  \A t \in Target :
    (\A b \in Pending(commands, t) : commands[b][t].era = era)
      => desired[t] = Intent(commands, reported)[t]

\* A failed automatic command is not followed by the same automatic command:
\* the automation does not retry without end.
NoAutomaticRepeat ==
  \A t \in Target : \A b \in Epoch(commands, t), c \in Epoch(commands, t) :
    ( /\ b < c
      /\ \A d \in (b + 1)..(c - 1) : commands[d][t].status = "absent"
      /\ commands[b][t].source = "automatic"
      /\ commands[c][t].source = "automatic"
      /\ commands[b][t].want = commands[c][t].want )
    => commands[b][t].status = "applied"

\* A command becomes applied only before its deadline, by a report that is not
\* older than the one before it, and only if that report measured the target
\* in the state the command asked for.
AppliedIsObserved ==
  [][\A b \in Batch, t \in Target :
       commands[b][t].status = "pending" /\ commands'[b][t].status = "applied"
         => /\ commands[b][t].expires > now
            /\ t \in known'
            /\ reported'[t] = commands[b][t].want
            /\ lastReported' # Never
            /\ lastReported' >= lastReported \/ lastReported > now + Skew]_vars

\* Feedback never moves to an older report, except when a mode switch forgets
\* the device or when the last report is from a future the clock has left.
FeedbackNeverRegresses ==
  [][lastReported' < lastReported => era' # era \/ lastReported > now + Skew]_vars

\* A clock that was set back does not lock the device out until it has caught
\* up with the last report: a report stamped with the present time is taken.
FeedbackRecovers == lastReported > now + Skew ~> lastReported <= now + Skew

\* A device of the present mode is not given a command of an earlier one: the
\* commands of previous modes "remain in history, but cannot describe the
\* active installation" (comment on activeCommandEpochSql, repository.ts).
NoCommandFromEarlierMode ==
  \A b \in Batch, t \in Target :
    commands[b][t].status = "pending" => commands[b][t].era = era

\* Every command is issued once and ends once, as CommandLife describes.
Intents == INSTANCE CommandLife WITH
           status <- [b \in Batch |-> [t \in Target |-> commands[b][t].status]]
ImplementsCommandLife == Intents!Spec

\* How a command looks once it is the last one: not applied is failed.
Outcome(status) == IF status \in {"expired", "cancelled"} THEN "failed" ELSE status

\* The last command of a target in the present mode, as queueControlCommands looks for it:
\* the one with the highest id.  It is the last that got the room's row; the readers that
\* order by created_at may take another one for the last, see the README.
LastOf(t) ==
  LET mine == Epoch(commands, t)
      b == CHOOSE b \in mine : IsLast(b, mine)
  IN IF mine = {} THEN [status |-> "none", want |-> FALSE, source |-> "manual"]
     ELSE [status |-> Outcome(commands[b][t].status), want |-> commands[b][t].want,
           source |-> commands[b][t].source]

\* Until the mode is switched nothing but the last command of each target matters: what is
\* refused, satisfied, confirmed and shown as desired follows from it, however many
\* commands there were before and whatever became of them.  The clean-up goes by
\* created_at, so it may delete the last command and leave one before it.
Tables == INSTANCE LastCommands WITH last <- [t \in Target |-> LastOf(t)]
ImplementsLastCommands ==
  /\ Tables!Init
  /\ [][era' = 0 => Tables!Next]_<<[t \in Target |-> LastOf(t)], reported, desired, known>>

=============================================================================
