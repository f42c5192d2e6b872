# Verification of the air-check system

TLA+ modules, TLC configurations and TLAPS proofs for the program in this
repository: a server (Next.js and PostgreSQL) that takes measurements of a room,
forecasts its CO2, commands a window and two fans and reports to its operators;
the firmware of the ESP32 controller that moves them; simulators that stand in
for the controller; and a service that trains and serves the forecast model.

`PROJECT.json` lists the components, the runs, the line of code each definition
translates, what is hard to test in this code, and the theorems. To repeat a
result:

    tlc -config CommandQueue.cfg MCCommandQueue
    tlapm CommandQueueProofs.tla

Each of the larger parts (the control tables, the control service, the firmware
controller) has runs of its own. The smaller parts, which share no state, are
checked side by side in one, `services`.

## 1. Inventory

### The parts and their state

| Part | State | Operations | Interacts through |
|---|---|---|---|
| Control tables, `frontend/src/server/repository.ts` | one row of `actuator_states` (reported, desired, feedback, mode of the window), rows of `actuator_commands` | queue, cancel, list, report, settle, purge, switch the mode | SQL transactions that lock the row of the room |
| Control service, `control-service.ts`, `outdoor-policy.ts` | none of its own between calls | operator's request, cancel, retry, status, `reconcile` | calls several transactions of the control tables, with `await` between them |
| Air-quality service, `service.ts` | measurements in flight, keyed by identity | ingest: store, forecast, recommend, reconcile | the forecast service over HTTP; the control service |
| Telemetry, `telemetry-service.ts`, `telemetry-store.ts` | the last packet of every device, raw packets | ingest a packet with state and confirmations, read the snapshot, prune | control tables; the device |
| Notifications, `notifications.ts`, `notification-policy.ts` | open conditions, events with a delivery status | step the conditions, record, claim, send, mark | a worker with a timer; an external messenger |
| Firmware controller, `firmware/esp32/src/core.cpp` | active command per target, ring of finished ids, outputs, faults, hysteresis | command, reconcile_pending, tick, safety, autonomous, configure | the tasks below, under one mutex |
| Firmware tasks and journal, `main.cpp`, `journal.cpp` | two queues, a ring of records in flash, the policy | control, sampler and network tasks; append, peek, acknowledge | HTTP to the server |
| 3D simulator, `aircheck_simulator_3d` | worker threads, a command queue, unsent confirmations | poll, execute, confirm, send | HTTP to the server |
| Model service, `ml-service` | jobs on disk, the model and its backup | train, activate, roll back, recover | HTTP; files under a lock |
| Accounts, `auth.ts`, `access.ts`, `api/admin/users`, `api/profile/avatar` | roles, an audit of their changes, pictures as files and as names in a row | sign up, change a role, delete, upload and remove a picture, `manage-owner` | SQL; a pool of 12 connections; the disk |
| History archive, HTTP routes, drivers, web panel | tables; the browser | aggregate; parse; render | - |

### What is hard about them

* **Concurrency.** Requests, device reports, ingested measurements and a timer
  of 10 seconds reach the same rows. Each transaction locks the row of the room,
  but an operation of the control service is several transactions. A switch of
  the installation's mode takes its locks in another order.
* **Order and loss.** A device repeats what it is not sure was heard; packets
  come late, twice and after a restart; its clock and the server's clock are
  corrected.
* **Deadlines.** Commands expire while a confirmation is under way. Overrides
  run out while somebody sets a new one.
* **Something must happen.** The automation does not repeat a command that
  failed; it must nevertheless ventilate, stop and close in the end.
* **Crashes.** The firmware journal, the delivery of notifications and the
  replacement of a model are done in several steps; so is the handling of a
  measurement, which the device then sends again.
* **Limits.** The firmware remembers a fixed number of finished commands, its
  queues drop what does not fit, and the owner's requests share a pool of
  connections they can exhaust.

What makes each part correct:

* control tables: one waiting command per target; one outcome per command;
  `desired` always what the rows say; a confirmation counts only with feedback;
  feedback in order, but no device shut out;
* control service: the override holds and ends; bad air closes the window;
  critical air is ventilated; what the automation started it stops, and nothing
  that the operator started;
* telemetry: the snapshot never returns to a session it has left;
* air quality: a measurement is answered once it is worked out, a saved forecast
  is used, and what the device keeps sending is answered in the end;
* notifications: an alert when the settings ask for one and only then, alternating
  with recoveries; an event is sent, twice only after a fault, and not after its
  source was switched off;
* firmware controller: no output without a live command or a permission of the
  safety rules; a pause before the motor reverses, and a rest in the end; a
  command that ended is not taken again;
* firmware journal: a log, whatever fails, that is emptied once the link holds; no
  packet is lost without being counted;
* simulator: what is confirmed last stands, and a command is confirmed in the end
  unless its reports come too late every time;
* model service: a model that leaves use is kept for a rollback, and a forecast is
  not made with a model that was replaced before it was asked for;
* accounts: the audit explains the roles, the owner's requests end, the picture an
  account names exists.

## 2. The modules

### CommandQueue: the control tables

One action per transaction of `PostgresRepository`. Each of them begins by
locking the row of the room and by expiring overdue commands (`Settled`), and
that is part of every action, as is the refresh of the desired columns
(`Intent`) at its end.

| Action | Code |
|---|---|
| `Queue(plan, source, began, start)` | `queueControlCommands`; `Refused` and `Satisfied` are its two `continue`s, `Queued` cancels the opposite command and inserts |
| `Report(stamp, seen, position, answers)` | `reportControlState`; `Fresh` is the `WHERE` of its upsert, `Answered` its failures, then its confirmations |
| `CancelBatch(batch)` | `cancelControlBatch` |
| `Read` | `getControlState`, `getControlBatch`, `listPendingControlCommands`, `assessOutdoorAir`: each settles |
| `Purge` | `purgeExpiredData`, on the commands |
| `BeginSwitch`, `CommitSwitch`, `AbortSwitch` | `activateMode`. It takes the row of the room only in its last statements, so control transactions can run after it has cancelled the commands. The rows it has updated stay locked (`locked`, `RowsFree`); a transaction that needs one of them holds the row the switch needs, and PostgreSQL aborts one of the two |
| `Tick`, `SetClockBack` | the clock of the server |

`created_at` is the time at which a transaction began (the column's default), before it
waited for the row of the room (`start`, of `Starts`); `expires_at` is counted from the
time at which the row is written. So of two commands of a target the later one, with the
higher id, may have the earlier `created_at`. `era` counts mode switches and stands for
the comparison of `created_at` with the mode's `updated_at` (`activeCommandEpochSql`): a
request that waited for the switch to commit can still carry the old era (`Began`). The
other columns of the row belong to the automation and do not change what these
transactions do.

`CommandLife` is what a caller may rely on: a command is issued after every
other of its target, waits alone, ends once and is deleted last.
`ImplementsCommandLife` is the refinement, with each row's status as mapping.

`LastCommands` is what the rows are to the queue: the last command of each target, the
report and the desired state, of which every transaction changes one thing, after
commands that ran out have failed. The code does not keep it: it looks for pending rows,
for the newest row and at cached columns, and the clean-up deletes rows.
`ImplementsLastCommands` is the refinement, `LastOf` its mapping: the row with the highest
id, as `queueControlCommands` looks for it (expired and cancelled count as failed, as they
do for the automation). The times may be in any order, through waiting or a correction of
the clock. The clean-up goes by time, so it may delete the last command before one it took
the place of, which then is the last again (`Forget`). The refinement ends with the first
switch of the mode, which is a new beginning, at which also a command that waits is
dropped.

### ControlService: the operator and the automation

The service works on the tables reduced to the last command of each target, with the
formulas of `LastCommands`: that the rows can be so reduced is `ImplementsLastCommands`.
It takes one thing for granted that the tables do not guarantee: that a request gets the
row of the room in the order in which it began, so that the last command is the same by
id and by `created_at` (see "Consequences worth knowing"). Mode switches, and a clock that
is set back, are left to `CommandQueue`.

| Action | Code |
|---|---|
| `Decide(j)`, `Submit(j)` | `reconcile` up to `queueControlCommands`, and that call. `Starts` and `Stops` are the branches of its decision |
| `SeeExpired(j)`, `Reset(j)` | `status` and `reconcile` find an override that ran out; `setWindowControlMode('auto', null)` |
| `RequestWindow`, `QueueRequest`, `LoseRequest` | `issue`, or the retry of `commandAction`, with the window: set the mode, then queue, or fail in between |
| `RequestFans`, `IssueAuto`, `Cancel` | the other requests |
| `Report`, `Expire`, `Forget` | what the control tables do to a target's last command |
| `Measure`, `RunOverride`, `Elapse` | a new measurement; time |

The reads of one decision are one step. An operator's step between two of those
reads changes the plan no more than one that comes before all of them or between
the reads and the queueing, and both of these are in the model. A measurement is
a level of CO2 (calm: it and the forecast are below the normal threshold;
forecast: only it is; raised; critical) and the verdict of `assessOutdoor`
(clear; filtered: fans only; blocked: cold, unfiltered pollution or no fresh
data). The minimum times are two flags that one action, `Elapse`, raises
together, so what was switched on later is never thought older. A job that finds
a newer measurement returns, and one that fails before it queues has changed
nothing; neither needs an action.

`ManualFans` observes the same service and remembers which running fans the
operator asked for.

### FirmwareController: the controller of the ESP32

The controller is a record, `ctl`, with the members of the C++ class, and its
operations are functions from one such record to the next, as the calls of a
cycle follow each other without a step of anybody else: the control task holds
the mutex from its first command to its last output.

| Definition | Code |
|---|---|
| `Accept`, `Reject`, `Take` | `command`: a known id, a refusal (expired, unsafe, faulty, not commissioned), a replacement of the active command of the target |
| `Stop`, `Finish`, `Remember` | `stop_window`, `finish`; the ring of finished ids |
| `Seen`, `Lapsed`, `Achieved`, `Failed`, `Driven`, `Watched`, `Moved` | `tick`, in its order |
| `Judged`, `Secured` | `safety` |
| `VentilatedBy`, `Started` | `autonomous` |
| `Reconciled`, `Configured` | `reconcile_pending`, `configure` |
| `Receive`, `Cycle`, `Written` | `control_task`: the queued commands, then one cycle and its outputs |
| `Poll`, `Reconcile` | `poll_commands`: it lists what waits at the server and queues it without the mutex, then stops what the list did not name |
| `SyncPolicy`, `Reboot` | `sync_policy`; a reboot, which leaves only what is in flash |
| `PassFor`, `PassForMovement`, `PassForPolicy` | the timers, as far as they are compared with anything |

Feedback of the limit switches and fans, the readings of the sensors and whether
the server has been heard lately are free in every cycle: what holds here holds
for every behaviour of the hardware.

`since` is a history variable, which no step of the code reads: how many commands have
ended since each one did. `OutcomesAreFinal` needs it to say how long a command that
ended is remembered. An id that ended is not taken again, and its outcome does not change,
until as many others have ended as the ring has places.

### FirmwareUplink and RecordLog: the packets and the journal

`FirmwareUplink` is the sampler, the queue of packets, the network task with its
`pending` packet, and the journal on the card slot by slot: `Mount` reads it,
`Store` and `Replay` write, and each write may fail or be cut off by a reboot
and leave what was there, what was written, or neither. `RecordLog` is what the
network task may rely on: a packet is put at the end whole or not at all, only
the oldest leaves, and only when the server has answered it. The card may lose
any record, and that record then counts as lost. `ImplementsRecordLog` is the refinement:
the log is the packets of the valid slots (`Records`), each at the place that its
generation gives it (`Place`).

### TelemetrySnapshot

`PostgresTelemetryStore.save` inserts a frame, numbers its boot, decides whether
it `supersedes` the snapshot, and in a second transaction the service reports it
to the control tables; `prune` deletes old rows. Frames arrive at any time, again,
and from the journal, and their clock may not be set.

### MeasurementIngest

`ingestOnce` query by query: `Create`, `Historical`, `Lookup`, `Predict`,
`Outcome`, `Advise`, `Answer`. `Fail` ends an attempt at any of them and `Crash`
the process, whose table of promises is lost. `Sent` is the device that sends a
measurement again, and joins the promise if there is one.

### NotificationConditions and NotificationDelivery

`refreshEvents` for one condition: a process takes its time (`Begin`) before it
waits for the advisory lock, and `Check` is `stepCondition` with the event it
leads to. `deliverEvents`: `Claim`, which takes the rows of a batch in any order (its
`UPDATE` returns them in none), the call of the messenger, the mark, a lease
that runs out, attempts up to three; a change of the settings, and a switch of
the mode, which disables what waits. The two meet only in the row of the event. A test of the
channel reads the settings and inserts its event in two steps of the code, which are
one here; the worker reads the settings again before it sends.

### SimulatorCommands

The network thread polls, puts commands on the way, collects confirmations and
repeats those the server refused; the simulation thread queues, executes and
confirms them, tick by tick. The server is reduced to what `CommandQueue` does to
the commands of one target. Two other messages make confirmations that wait too old to
count. `Telemetry` goes out beside them, and the server takes the time it receives it for
the time of a report, so all that were made before are late. `Heartbeat` goes out only when
none is waiting to be sent, with the state of the last tick. A late confirmation is
answered as one that was taken: its command is forgotten on this side, waits on at the
server, is polled and carried out again (`SendAck` with `old`).

### ModelJobs

The files of the model service: the model in use and the one before, the record
of the last job, and the lock that threads of the service and `train.py` compete
for. Every touch of a file is a step, at which the process may die or the disk
refuse. The predictor's cache is read by requests in two steps.

### Accounts and Avatars

`Accounts`: the owner's `PATCH` and `DELETE` with their two connections, the
sign-up with its hook that runs after the account is committed, and
`manage-owner`. Only the owner's requests are modelled; another user's is
refused by the authorization. `Avatars`: an upload draws a name, stores the file,
updates the row and removes the old file; a removal and the deletion of the
account do the same from the other end.

### Services: the smaller parts side by side

`Services` instantiates these modules with variables of their own. A variable
`part`, chosen at the start, says which of them runs; the others keep their
initial values. The behaviours of the run are thus those of the parts, one after
another, and each property is checked on the behaviours of its part as a run of
its own would check it. `Values` is what the parts assume of their constants, `Sizes` what their types need
in addition.
`MCServices` adds the fairness, stated once for disjunctions over the parts, which
is the same as for each part, because only one can take a step.

## 3. The runs

| Run | Question | Result |
|---|---|---|
| `command_queue` | do the tables keep their invariants, and commands their life, in every order? | holds |
| `clock_set_back` | when the clock is corrected and ids and times are in any order: is a target's last command all that matters of its rows, does feedback stay in order, is the device heard again? | holds |
| `mode_switch_race` | do commands of an earlier mode stay history? | violated |
| `window_control` | does the override end, and does the window close in bad air? | holds |
| `fan_control` | is critical air ventilated, and are the automation's fans stopped, unless the stop is not answered? | holds |
| `override_race` | does the automation leave the window alone during an override? | violated |
| `fan_minimum` | do fans run for the minimum time before an ordinary stop? | violated |
| `manual_fan` | does the automation leave fans alone that the operator turned on? | violated |
| `firmware_window` | is the motor licensed, and does it pause and rest? | holds |
| `firmware_fans` | do fans run only where the air allows, does the automation respect an operator, and do outcomes stand while the ring remembers them? | holds |
| `services` | what §1 asks of the smaller parts | holds |
| `cancelled_delivery` | does a delivery that a switch of the mode cancelled stay cancelled? | violated |

What `services` checks, part by part:

| Part | Safety | Liveness |
|---|---|---|
| telemetry, sessions | `SnapshotMovesOn` | |
| ingest | `AnsweredIsDone`, `ForecastIsUsed` | `EachIsAnswered` |
| conditions | `AlertsWhenDue`, `EventsTellTheCondition` | |
| delivery, batches | `FewMessages`, `SentIsSent` | `EventsSettle` |
| uplink | `ImplementsRecordLog`, `NothingForgotten` | `CardIsEmptied` |
| simulator | `NewestStands` | `CommandsEnd` |
| models | `LastModelIsKept`, `FreshAnswers` | |
| roles | `AuditExplainsRoles` | `AdminEnds` |
| pictures | `ImageExists` | |

### Bounds, and why they are enough

*Control tables.* One target, because no transaction reads one target's rows to
change another's; the exception, a batch, is covered by the proofs, which are
for any set of targets. Two batches: every rule compares a command with at most
one other. One switch: a second only repeats the first. Lives of 2 (manual) and
1 (automatic) in a clock of 0..2, so that each can expire while the other waits;
reports at most 1 old, so that a late one can be older than the stored one; requests that
wait for up to 1, so that two can be written in the opposite order; a retention of 1, so
that a finished command can be deleted. In `clock_set_back` the clock has two values and
may jump back at any time, all lives are 1 and the retention is 0, and a request may have
begun at any time: of two commands either may be the older and either be deleted first.

*Control service.* `window_control` has two jobs, the window, both settings of
the feedback and the clean-up; `fan_control` one job, one fan, and a window that
only the operator moves (`AutoWindow = FALSE`), who can thereby interfere with
the decision about the fan. Fans are symmetric: the decision treats them alike
and one at a time. There are no counters: the automation and the operator go on
for ever.

*Firmware controller.* `firmware_window` has the window and two commands, which
can replace, outlive and undo each other, and three readings of the air (good and
stuffy, good and fresh, polluted) with either policy; the pause takes one cycle
and the travel two, so that a limit can answer in time or too late; the ring
holds one id, so that the second finished command pushes out the first; the
queue holds one, so that a second command is dropped and comes with the next
list. `firmware_fans` has one fan beside the window and two commands out of three: to
close the window, to turn on the fan, by an operator or by the automation. The window's
limit switch shows it closed and the minimum is two cycles, as long as the time in which a fan must be seen to turn. The
ring holds one id here too: one command is forgotten when one of the other target ends,
and may then be taken again, while its outcome is still the one reported.

*The smaller parts.* Two workers, requests or threads race in each, and up to
three faults strike at any step; a further one finds nothing that an earlier one
could not have found. Telemetry: two frames with two requests and a clean-up, and again
three frames in order to leave a boot and hear of it afterwards. Conditions: a
duration of none or of as long as the widest gap between two checks, five ticks,
three checks. Delivery: one event and two chats with a fault and a change, and
again two events in one batch. Uplink: two slots and three packets, so that the
card is full, with one fault in any write; the generations, which the code counts
to 2^32, do not run out. Models: two jobs and a rollback between two threads, a run of `train.py`
and a reader. Roles: two requests and a pool of two connections, all of which
they can hold at once. The limits that the code gives (2048 slots, 8 packets, 32
ids, 12 connections) are parameters; the small values let them be reached.

### Fairness

* `FairSpec` of `CommandQueue`: the device reports again and again with the
  present time, with whatever feedback and confirming nothing. The firmware and
  the simulators do so every few seconds.
* `Fairness` of `ControlService`: a job that can start or go on eventually does.
  Measurements come every few seconds and each ends in `reconcile`; `status`
  runs every 10 seconds by the timer in `api.ts`. Overdue commands are settled
  by whichever transaction comes first. Time passes. Nothing is assumed of the
  operator or the device, so the promises name the ways out: a command that was
  not answered is not repeated by the automation (docs/api.md), and an operator
  may keep a command of his own waiting.
* `FirmwareController`: the control task runs every 20 ms above every other task,
  receives what is queued, and time passes. Its first conjunct says of `Cycle`
  what WF would; it is written out because some cycle is enabled whenever the
  queue is empty, and TLC would spend the run on finding one.
* `MeasurementIngest`: a request goes on, and the device sends again what was not
  answered (SF, because it can send only while nobody works on it).
* `NotificationDelivery`: each process has a timer, and leases run out.
* `FirmwareUplink`: the task runs, the card can be mounted again and again, Wi-Fi
  and time return, and a server that can be reached again and again accepts
  something at last. Without the last nothing could be promised of a card.
* `SimulatorCommands`: both threads run, the simulation is not paused for good,
  and the server answers one of the confirmations that are repeated. Nothing is assumed of
  the times at which telemetry is sent, so `CommandsEnd` names the way out: a command
  waits for ever only if its reports come too late again and again.
* `Accounts`: a request goes on as soon as it has its connection, or gives up at
  the time limit of the pool.

### What the violated runs show

* **A command of the old mode reaches the new device** (`mode_switch_race`):
  `BeginSwitch; Queue; CommitSwitch`. The cancellation in `activateMode`
  (repository.ts:853) comes before the row of the room is locked (855). The list
  for the device has no condition on the mode. It takes a request in flight, or a
  second process, while the mode is activated; the command expires after at most
  5 minutes. Taking the room's row before line 853 would close the gap.
* **The automation moves the window during an override** (`override_race`):
  `Decide; RequestWindow; Submit`. The mode is read once, several awaits before
  the queueing, and `queueControlCommands` does not look at it.
* **A fan is stopped at once** (`fan_minimum`): the branch for an open window
  tests how long the window has been open, not how long the fans have run.
* **An operator's "on" is forgotten** (`manual_fan`): it is dropped as already
  satisfied while the automation's "on" waits or has been applied, so the fan
  still counts as the automation's.
* **A cancelled alert is sent** (`cancelled_delivery`): `Claim`, the switch, a
  failing call. `activateMode` disables pending and sending deliveries
  (repository.ts:851), but the `catch` of `deliverEvents` (notifications.ts:434)
  puts the row back to `pending` without looking at it. The alert of the earlier
  installation is sent again until it succeeds or its attempts are used up. A
  condition on the status, as the claim has one, would close the gap.

### Consequences worth knowing

One that the documents state, and the properties
therefore allow: after one automatic command of a target failed or expired, the
automation does not give the same command again until another command of that
target comes in between. If the device is offline for two minutes in critical
air, the window stays shut until an operator acts.

Another is excluded in `fan_control` by `Forgets = FALSE`. The clean-up deletes
a finished command after `DATA_RETENTION_HOURS` (24 by default, at least 1). If a
fan the automation started still runs by then, its last command is gone,
`shouldStopAutomaticFan` finds none, and nothing stops the fan.

A third `AutomaticFansStop` names. The automation gives the stop of a fan once: if the
device does not answer it, or it is cancelled, the last command is an "off" that failed,
`shouldStopAutomaticFan` no longer finds its own "on", and the fan runs until an operator
acts (an "on" for critical air would be dropped: the fan runs already).

A fourth lies in the order of rows. `queueControlCommands` looks for the last command of a
target by id (repository.ts:1171), `getLatestControlCommand` and the state by
`created_at`, then id (1046, 1128). Two requests that wait for the row of the room may get
it in the order opposite to that in which they began, without any correction of the clock; the
replaced command then is the last one to the automation, and to the panel.
`ImplementsLastCommands` is about the order of ids; `ControlService` takes both to be one.

Others that the smaller parts show, and that the properties are worded around:

* `PATCH` and `DELETE` of an account hold a connection of the pool while
  `requireOwner` takes another. Twelve at once wait for each other until the
  pool's limit of 5 seconds ends one of them (`AdminEnds` rests on that limit).
* An upload that races another, or the deletion of the account, leaves a file
  that nobody names. The reverse, a name without a file, needs an answer of the
  database that is lost after the commit: the upload then removes the file the
  row already names. `ImageExists` excepts exactly that (`unheard`).
* A job of the model service whose last save fails, or that is cut off before it,
  is reported as failed although its model is in use by then, where
  docs/ml-management.md:7 has it that an error changes nothing. A crash
  between the two replacements of a rollback, or a failure between backup and
  replacement, costs the older of the two models; `LastModelIsKept` speaks of the
  one that leaves use.
* A first frame of a boot that is delayed until the next boot has been heard, and
  that was made before the clock was set, takes the snapshot: its boot is new to
  the store. `SnapshotMovesOn` orders boots by when they were first heard of.
* The simulator's telemetry, and its heartbeat, may overtake a confirmation; the
  server then takes the confirmation for late and confirms nothing, and the command is
  carried out and confirmed again. With telemetry every 30 seconds and a poll every 2 this
  ends soon; with the simulator's clock behind the server's by more than the interval
  it does not, and the command expires although it was carried out each time.
* The firmware forgets its finished ids at a reboot, and the oldest of them when its ring
  of 32 is full: from the 33rd completion on a late copy of the first may run again
  (`OutcomesAreFinal` is about one run of the node and what the ring remembers). When it refuses a newer
  command of a target, the outcome may be overwritten by that of the older one
  before it is reported; the server then lets the newer one expire.
* `NotificationDelivery` takes it that a batch of five calls of at most 5 seconds
  ends before its lease of 30.

## 4. The proofs

A theorem is about every value of the constants and every bound. What TLC checks
by itself is listed at the end of this section.

| Module | Theorems | Assumes |
|---|---|---|
| `CommandQueueProofs` | `TypeCorrect`, `OneCommandWaits`, `AutomationDoesNotRepeat`, `DesiredIsTheIntent`, `FeedbackIsOrdered`, `AppliedWasObserved`, `ImplementsLife`, `ImplementsLast` | `CommandQueueAssumption`: the bounds are natural numbers |
| `ControlServiceProofs` | `ControlTypeOK` | `ControlServiceAssumption`: the window is no fan, and what the model enumerates is of its type |
| `FirmwareControllerProofs` | `ControllerTypeOK`, `MotionAlwaysLicensed`, `FansAlwaysLicensed`, `ReversalAlwaysPauses`, `OverrideAlwaysRespected`, `OutcomesStayFinal` | `FirmwareControllerAssumption`: the window is no fan, there are finitely many fans and requests, the bounds are natural numbers with Settle <= Limit <= Minimum, and what the model enumerates is of its type |
| `MeasurementIngestProofs` | `IngestTypeOK`, `WorksAlone`, `AnswersAreDone`, `ForecastsAreUsed` | `nobody` is no worker |
| | `SnapshotOnlyMovesOn`, `SnapshotTypeOK`, of `TelemetrySnapshot` | `MaxFrames` is a natural number (the second) |
| `NotificationProofs` | `DeliveryTypeOK`, `FewMessagesAlways`, `SentStaysSent` | - |
| | `ConditionsTypeOK`, `EventsAlwaysTell`, `AlertsAlwaysWhenDue`, of `NotificationConditions` | `Numbers`: times are numbers, `none` is not, and the pause between alerts is not negative |
| `FirmwareUplinkProofs` | `UplinkTypeOK`, `NoneIsForgotten`, `UplinkIsLog` | `Bounds`: the bounds are natural numbers, and there are a slot and a place in the queue |
| `SimulatorProofs` | `SimulatorTypeOK`, `NewestAlwaysStands` | - |
| | `ReplacedModelIsKept`, `AnswersAreFresh`, `JobsTypeOK`, of `ModelJobs` | `nobody` is no thread (the first and the last), `JobsBounds`: the bounds are natural numbers (the last) |
| `ServicesProofs` | `RolesAreExplained`, `RolesTypeOK`, of `Accounts`; `PictureIsStored`, `PicturesTypeOK`, of `Avatars` | for the types `Pool` and `Albums`: there is an account, requests are finitely many, and the bounds are natural numbers |
| | the theorems about the smaller parts, as properties of `Services`; `ServicesTypeOK` | `Values`, the assumptions of the parts together; for the types `Sizes` too |

### The control tables

None of the invariants is inductive alone. `IInv` adds to them
what the rows beyond `lastBatch` are (`Unissued`), that no command is of a later
era than the present one and a switch under way leaves room for one more
(`EraBound`, `SwitchBounded`), and that the rows a switch holds are pending
(`LockedPending`): without the last, its cancellation could turn an ended
command into a cancelled one. Every invariant is about rows, and every action
changes many rows, so the proof first shows once what any step does to one row
(`RowSteps`): it stays, it ends, it is deleted, or it is issued as the latest of
its target with every other one ended. The invariants and the refinement follow
from that alone. `DesiredIsTheIntent` needs in addition that each transaction
leaves the desired columns in agreement with the rows (`QueueSynchronises` for
the one that computes them by another way than `Intent`).

`ImplementsLast` needs of the order of the rows only that those before the last of a
target do not wait (`Ordered`), which each step keeps; nothing of the clock, nor of the
order of `created_at`. Then what the code finds by three queries is one row: the pending
one is the last (`OnlyLastWaits`), the columns show its state or the report
(`IntentIsWanted`), and the newest row of a target is the one the refusal looks at
(`RefusedIs`, `SatisfiedIs`). A transaction that lets some rows run out ends those of the
targets whose last command is among them (`RowsFail`), and each of them then is its
counterpart (`QueueIsQueue`, `ReportIsReport`, `PurgeIsForget`; the last may leave any
earlier row as the last one, which has ended). The first switch of the mode ends the
refinement: after it TLC finds a behaviour that leaves `LastCommands`.

### The control service

`ControlTypeOK` is inductive as it stands. It says in addition to the types that the
minimum time counts as passed only for what is on. What the service promises is liveness.

### The firmware controller

An operation is a function from one controller to the next, so each has a lemma
that says which parts it leaves alone and which predicates it keeps, and a cycle
is a chain of those lemmas. `IInv` adds to the type invariant and
`FansAreLicensed`:

* `Sound`: whoever drives the motor has asked for it, nothing runs against a
  fault, and the automation does not move the window while a command waits;
* an opening motor is one that the last judgement of the air allows, also between
  two cycles (a step of the network task may stop it, but not start it);
* `Paused`: whichever way the motor was written last, nothing will write the other
  way in the next cycle. Only a command of age 0 may want to, and it waits for
  `Settle`, which is at least one cycle. This is why `Settle` must not be zero.

`MotionIsLicensed` follows from the first two, `ReversalPauses` from the last.

`OverrideAlwaysRespected` and `OutcomesStayFinal` are about what changes, so their
lemmas compare the controller before and after each operation. A fan comes on
and the motor starts only from a branch of the automation that reads the
override first, or for a command that is active by then. And an outcome is written only for
an id that is in no place of the ring. `Recorded` ties the ring to the history: an id after
which `n` others have ended is among the last `n + 1` places, as long as `n` is less than the
size of the ring. An operation may end several commands at once, and a cycle is several
operations; so the lemmas say first that what ends in two operations is counted as what ends in both
(`EndedTwice`, `CountedTwice`), and then that the ring moves back by as many places as
are counted (`RememberKeeps`, `RingCounted`). The theorem holds for any number of commands,
also when the ring has forgotten some (core.cpp:53; in the code the 33rd completion takes
the place of the first).

### The journal

What a card holds is a set of slots, and what it stands for is a sequence; the
first half of `FirmwareUplinkProofs` is about how a sequence listed by rank
changes when an element is added behind the last or any is taken out
(`CardStays`, `CardGrows`, `CardShrinks`, whose counting is done on finite sets).
The second half is `IInv`:

* `Mirror`: while the journal is open, its table of generations is what the card
  holds, so that a free slot in the table is no record on the card;
* `Distinct`: no two records have one generation, so that each has a place;
* `InLine`, `Ordered`: packets wait in the order in which they were made, what is
  stored is not younger than what waits, and generations follow age. Not "older": after a commit
  that failed in its last step the pending packet is on the card as well, and is
  stored again;
* `Stands`: between the three writes of a packet its slot is free for the journal,
  and the slot that is removed is the oldest and is answered, if it is a record
  at all;
* `Accounted`: `NothingForgotten`, said of the slots.

`LeftIs` then says of a write that ended well, failed or was cut off that it
keeps every record, adds the pending packet, or removes the oldest; the
refinement follows case by case. Before it was proved, TLC checked `IInv` as an
invariant of `FirmwareUplink`.

### The snapshot

`TelInv` says that the list of boots is the list of those heard of, in the order
of their first frames (`Heard`), whatever was pruned since: `head` always is a frame
that arrived. `supersedes` compares places in that list, or two clocks of one
boot, and neither can lead back.

### The parts with requests side by side

*Ingest.* The map of promises lets only one request work on a measurement
(`Held`), so that it finds the rows as it left them; `Phase` says how far they
are at each of its steps; and `Row` what an attempt that ended anywhere may leave:
advice comes last, so a row of it tells the next attempt that all was done.

*Delivery.* A claimed event has its lease and is in the batch of one process only
(`Leased`, `Alone`), and `Counted` relates three numbers of each event: the calls
that were made never exceed the attempts that were counted, and what reached the
chat exceeds the one confirmed message only by faults.

*Conditions.* `AlertsWhenDue` speaks of the whole history of checks, and the code
keeps one row. `ConInv` is the relation between them: no two checks have one
time (`OwnTimes`), the row has the times of the last check and the last alert
(`Remembered`), and, while nothing is reported, the first of the bad checks that
follow each other without a gap (`BadSince`).

*Simulator.* The commands that may still move the window are a line: the one the
executor works on, its queue, and what was polled and not drained. Their ids
increase (`InLine`), only the newest command waits at the server (`NewestWaits`)
and joins the end, and what is reported has left the front (`ReportsFirst`); a report that
telemetry makes old is still one (`TelemetryKeeps`). So the
report of the newest command has an empty line behind it, and once it is
confirmed the line stays empty (`Settled`). One tick handles every event that
waits, in a function defined over the queue. The prover has no induction over a
formula; `AllNumbers` says it of a set instead (one that holds 0 and with each number the next
is `Nat`, because the numbers are well-founded), and `UpTo`, `AllTaken` and
`DrainedIs` use it.

*Models.* Whoever is between two steps holds the lock (`Locked`), so what it saw
of the two files is still so (`Knows`): the backup was made of the model in use,
or was exchanged with it. `AnswersAreFresh` rests on times of modification
that grow, and on a model being loaded after the time that is noted with it was
taken (`RInv`).

*Roles.* An account that can still sign up has no entry of the audit
(`FreshUnspoken`). A sign-up leaves the row missing until its hook has run; a change
of the role in between writes the row and the entry together, and the hook only
fills a row that is missing.

*Types.* Most are inductive as they stand. The times of modification in `ModelJobs`
stay below their bound because each task and each rollback replaces the model once at
most (`Budget`); what `TelemetrySnapshot` reports and shows is a row that arrived because
of `TelInv`; and the requests of `Accounts` hold no more connections than the pool has
because a step adds at most one to a finite set that is not full.

*Pictures.* A new picture is written before a row names it, and no other request
knows its name (`NewIsNew`); the file a request is about to remove is one that
the row named before and names no more.

### The composition

TLC runs the smaller parts inside `Services`, and `ServicesProofs` proves of
`Services` what it checks there. For each part, a behaviour of `Services` is, for the
part's variables, a behaviour of the part (`ModelsBehaves` and its like): a step
of the part, or one that leaves them alone, and `part` never changes. The part's
theorem then applies.

### What only TLC checks

Liveness: a proof would need fairness and ENABLED. That is what `ControlService`
promises, `MotorRests`, the return of the device after
a correction of the clock, and the right column of the table of `services`. Every
invariant, action property and refinement that a run checks and that holds is a
theorem; and one invariant is left to its theorem, `OnePendingPerTarget`, which
`ImplementsCommandLife` implies. That the
properties of the violated runs fail is TLC's finding alone.

## 5. Not modelled

Most lines of the repository draw, parse, calculate or describe: the panel and
the 3D scene, HTTP parsing, the physics of the simulated room, training,
drivers, presentations and their scripts. They hold no state of the kind
that is checked here, and are why the map covers a small share of all lines.

* *Web panel, 3D scene and room physics*: rendering and numerical simulation.
* *HTTP interface, process wiring, configuration*: parsing and timers. The timers
  appear as fairness.
* *Drivers, provisioning portal, watchdog* of the firmware: registers and buses.
  The 32-bit counter of the last contact (main.cpp:188) is not modelled; the
  controller takes its verdict as a free choice.
* *History archive*: one transaction that adds up and one that deletes what was
  added up, on a timer; its correctness is that of its SQL.
* *Sessions and signing in*: the authentication library, which is not here.
* *Console simulator*: the protocol of the 3D simulator without its threads.
* *Of modelled parts*: marking notifications as read and their removal after 90
  days; the simulator's fans, and what its telemetry carries; the refusal of a measurement
  with another body under the identity of one in flight (`IngestConflictError`,
  service.ts:74); the requests of users that the authorization refuses; the formulas of the recommendation; the status texts and
  the switch `automationEnabled` of the control service. How often a batch is
  retried (control-service.ts:251) is over-approximated by requests at any time.

* *Two orders of one target's commands*: what the automation does when a replaced
  command is the last by `created_at` (repository.ts:1128).

Hazards that are listed without a property have their reason in `PROJECT.json`: the retry
of a batch, an older forecast after a newer measurement, the 32-bit counter, the firmware's
queue of commands that drops what does not fit, and the two orders of a target's commands.
