--------------------------- MODULE ControlService ---------------------------
(***************************************************************************)
(* Who decides about the window and the fans: the operator's requests and  *)
(* the automation of ControlService (frontend/src/server/control-service   *)
(* .ts), which share one row of actuator_states and meet only there.       *)
(*                                                                         *)
(* An operator's request for the window is two transactions: it suspends   *)
(* the automation, then it queues the command.  A job of the automation    *)
(* (reconcile, or the refresh in status) reads, decides and queues in      *)
(* separate transactions too.  The reads of one decision are one step      *)
(* here: what happens between two of them can as well happen between the   *)
(* last of them and the queueing, which is kept apart.                     *)
(*                                                                         *)
(* The command tables are reduced to the last command of each target: at   *)
(* most one command waits for a target, it is the last one, and the        *)
(* desired state follows (CommandQueue has the rows themselves).  The last *)
(* command is the same for the queue, which goes by the id, and for the    *)
(* readers, which go by created_at: the requests of one target are taken   *)
(* to get the room's row in the order in which they began.                 *)
(*                                                                         *)
(* A job that finds a newer measurement than its own returns; the newer    *)
(* one has a job of its own.  So every job decides about the latest one,   *)
(* and a job that fails before it queues has changed nothing.              *)
(***************************************************************************)
EXTENDS Integers

CONSTANTS
  Window,        \* the target "window"
  Fan,           \* the targets "exhaust" and "intake"
  Job,           \* concurrent calls of reconcile and status
  Air,           \* bound: the measurements
  Requests,      \* bound: the batches an operator asks for
  Coverage,      \* bound: the sets of targets a report has feedback for
  OverrideLife,  \* how long a request for the window suspends the automation
  AutoWindow,    \* the setting autoWindowEnabled
  Forgets        \* whether the clean-up may reach a target's last command

Target  == Fan \cup {Window}
Level   == {"calm", "forecast", "raised", "critical"}
Verdict == {"clear", "filtered", "blocked"}

\* What a batch may hold, and the empty batch.
Plans  == UNION {[T -> BOOLEAN] : T \in SUBSET Target}
NoPlan == [t \in {} |-> FALSE]

ASSUME ControlServiceAssumption ==
  /\ Window \notin Fan
  /\ Air \subseteq [level: Level, verdict: Verdict, open: BOOLEAN]
  /\ Requests \subseteq Plans \ {NoPlan}
  /\ Coverage \subseteq SUBSET Target
  /\ OverrideLife \in Nat
  /\ AutoWindow \in BOOLEAN
  /\ Forgets \in BOOLEAN

Command == [status: {"none", "pending", "applied", "failed"},
            want: BOOLEAN, source: {"manual", "automatic"}]
None    == [status |-> "none", want |-> FALSE, source |-> "manual"]

VARIABLES
  last,      \* each target's last command; "failed" is failed, expired or cancelled
  reported,  \* exhaust_on, intake_on, window_open
  known,     \* known_targets
  mode,      \* window_mode
  left,      \* time until override_until
  aired,     \* window_open_since is at least the minimum time ago
  vented,    \* ventilation_started_at is at least the minimum time ago
  air,       \* the latest measurement: CO2 and forecast, outdoor air, its window flag
  job,       \* each job's step and the commands it is about to queue
  request    \* the commands the operator's request is about to queue

tables == <<last, reported, known, aired, vented>>
vars == <<tables, mode, left, air, job, request>>

TypeOK ==
  /\ last \in [Target -> Command]
  /\ reported \in [Target -> BOOLEAN]
  /\ known \in SUBSET Target
  /\ mode \in {"auto", "manual"}
  /\ left \in 0..OverrideLife
  /\ aired \in BOOLEAN /\ (aired => reported[Window])
  /\ vented \in BOOLEAN /\ (vented => \E f \in Fan : reported[f])
  /\ air \in Air
  /\ job \in [Job -> [step: {"idle", "reset", "queue"}, plan: Plans]]
  /\ request \in Plans

Idle == [step |-> "idle", plan |-> NoPlan]

-----------------------------------------------------------------------------
(* The command tables.                                                     *)

Waiting(t) == last[t].status = "pending"
Desired(t) == IF Waiting(t) THEN last[t].want ELSE reported[t]
Active(t)  == Desired(t) \/ reported[t]

\* Mistake: an automatic command that succeeded is not given again either.
RefusedAlways(t, want, source) ==
  /\ source = "automatic"
  /\ last[t].status \in {"applied", "failed"}
  /\ last[t].source = "automatic"
  /\ last[t].want = want

\* queueControlCommands skips these.
Refused(t, want, source) ==
  /\ source = "automatic"
  /\ last[t] = [status |-> "failed", want |-> want, source |-> "automatic"]

Satisfied(t, want) ==
  /\ Desired(t) = want
  /\ Waiting(t) \/ (t \in known /\ reported[t] = want)

\* The targets of a plan that get a new command.
Created(plan, source) ==
  {t \in DOMAIN plan : ~Refused(t, plan[t], source) /\ ~Satisfied(t, plan[t])}

\* queueControlCommands: a new command takes the place of the last one.
Queue(plan, source) ==
  last' = [t \in Target |->
             IF t \in Created(plan, source)
             THEN [status |-> "pending", want |-> plan[t], source |-> source]
             ELSE last[t]]

End(T) == last' = [t \in Target |-> IF t \in T /\ Waiting(t)
                                    THEN [last[t] EXCEPT !.status = "failed"]
                                    ELSE last[t]]

-----------------------------------------------------------------------------
(* The decision of reconcile.                                              *)

FanRuns == \E f \in Fan : reported[f]

Critical == air.level = "critical"
Calm     == air.level = "calm"
Support  == air.level = "raised" /\ (air.open \/ reported[Window])

\* The minimum time of ventilation, as the stop of the fans alone sees it.
VentedEnough == FanRuns => vented

\* The automation stops only a fan whose last command was its own start.
Stoppable(t) ==
  /\ Active(t)
  /\ t = Window => AutoWindow
  /\ t \in Fan => /\ last[t].status # "none"
                  /\ last[t].source = "automatic"
                  /\ last[t].want

Starts ==
  {t \in Target :
     /\ ~(Desired(t) /\ reported[t])
     /\ t = Window => AutoWindow
     /\ \/ Critical /\ (air.verdict = "clear" \/ (t \in Fan /\ air.verdict = "filtered"))
        \/ Support /\ t \in Fan /\ air.verdict # "blocked"}

\* Mistake: polluted air closes the window only if no filter is installed.
StopsUnfiltered ==
  {t \in Target :
     /\ Stoppable(t)
     /\ \/ air.verdict = "blocked"
        \/ t \in Fan /\ air.verdict = "filtered" /\ Calm /\ VentedEnough
        \/ air.verdict = "clear" /\ Calm /\ reported[Window] /\ aired
        \/ t \in Fan /\ air.verdict = "clear" /\ Calm /\ ~Active(Window) /\ VentedEnough}

\* Mistake: in calm air the fans stop only together with the window.
StopsWithWindow ==
  {t \in Target :
     /\ Stoppable(t)
     /\ \/ t = Window /\ air.verdict # "clear"
        \/ t \in Fan /\ air.verdict = "blocked"
        \/ t \in Fan /\ air.verdict = "filtered" /\ Calm /\ VentedEnough
        \/ air.verdict = "clear" /\ Calm /\ reported[Window] /\ aired}

Stops ==
  {t \in Target :
     /\ Stoppable(t)
     /\ \/ t = Window /\ air.verdict # "clear"
        \/ t \in Fan /\ air.verdict = "blocked"
        \/ t \in Fan /\ air.verdict = "filtered" /\ Calm /\ VentedEnough
        \/ air.verdict = "clear" /\ Calm /\ reported[Window] /\ aired
        \/ t \in Fan /\ air.verdict = "clear" /\ Calm /\ ~Active(Window) /\ VentedEnough}

Decision == [t \in Starts \cup Stops |-> t \in Starts]

-----------------------------------------------------------------------------
Init ==
  /\ last = [t \in Target |-> None]
  /\ reported = [t \in Target |-> FALSE]
  /\ known = {}
  /\ mode = "auto"
  /\ left = 0
  /\ aired = FALSE
  /\ vented = FALSE
  /\ air \in Air
  /\ job = [j \in Job |-> Idle]
  /\ request = NoPlan

\* Mistake: the comparison with override_until is the wrong way round.
SeeRunning(j) ==
  /\ job[j] = Idle
  /\ mode = "manual"
  /\ left > 0
  /\ job' = [job EXCEPT ![j].step = "reset"]
  /\ UNCHANGED <<tables, mode, left, air, request>>

\* reconcile and status find an override that has run out.
SeeExpired(j) ==
  /\ job[j] = Idle
  /\ mode = "manual"
  /\ left = 0
  /\ job' = [job EXCEPT ![j].step = "reset"]
  /\ UNCHANGED <<tables, mode, left, air, request>>

\* setWindowControlMode('auto', null), whatever the row says by now.
Reset(j) ==
  /\ job[j].step = "reset"
  /\ mode' = "auto"
  /\ left' = 0
  /\ job' = [job EXCEPT ![j] = Idle]
  /\ UNCHANGED <<tables, air, request>>

\* reconcile, up to the queueing.
Decide(j) ==
  /\ job[j] = Idle
  /\ known = Target
  /\ mode = "auto"
  /\ Starts \cup Stops # {}
  /\ job' = [job EXCEPT ![j] = [step |-> "queue", plan |-> Decision]]
  /\ UNCHANGED <<tables, mode, left, air, request>>

\* reconcile, its queueControlCommands.
Submit(j) ==
  /\ job[j].step = "queue"
  /\ Queue(job[j].plan, "automatic")
  /\ job' = [job EXCEPT ![j] = Idle]
  /\ UNCHANGED <<reported, known, aired, vented, mode, left, air, request>>

\* A new measurement.
Measure ==
  /\ air' \in Air
  /\ UNCHANGED <<tables, mode, left, job, request>>

\* issue with the action "auto".
IssueAuto ==
  /\ mode' = "auto"
  /\ left' = 0
  /\ UNCHANGED <<tables, air, job, request>>

\* issue, issueVentilation and the retry of commandAction, for fans only.
RequestFans(plan) ==
  /\ Window \notin DOMAIN plan
  /\ Queue(plan, "manual")
  /\ UNCHANGED <<reported, known, aired, vented, mode, left, air, job, request>>

\* issue and the retry of commandAction with the window: setWindowControlMode.
RequestWindow(plan) ==
  /\ request = NoPlan
  /\ Window \in DOMAIN plan
  /\ mode' = "manual"
  /\ left' = OverrideLife
  /\ request' = plan
  /\ UNCHANGED <<tables, air, job>>

\* Then queueControlCommands.
QueueRequest ==
  /\ request # NoPlan
  /\ Queue(request, "manual")
  /\ request' = NoPlan
  /\ UNCHANGED <<reported, known, aired, vented, mode, left, air, job>>

\* The second transaction of the request fails.
LoseRequest ==
  /\ request # NoPlan
  /\ request' = NoPlan
  /\ UNCHANGED <<tables, mode, left, air, job>>

\* commandAction: cancel what waits of a batch.
Cancel(T) ==
  /\ End(T)
  /\ UNCHANGED <<reported, known, aired, vented, mode, left, air, job, request>>

\* A command's life ends unanswered.
Expire(t) ==
  /\ Waiting(t)
  /\ End({t})
  /\ UNCHANGED <<reported, known, aired, vented, mode, left, air, job, request>>

\* Mistake: a report that finds the window closed keeps window_open_since.
ReportKeepingAges(seen, position, answers) ==
  /\ reported' = [t \in Target |-> IF t \in seen THEN position[t] ELSE reported[t]]
  /\ known' = seen
  /\ last' = [t \in Target |->
                IF Waiting(t) /\ t \in DOMAIN answers
                   /\ (answers[t] = "applied"
                         => t \in seen /\ last[t].want = reported'[t])
                THEN [last[t] EXCEPT !.status = answers[t]] ELSE last[t]]
  /\ UNCHANGED <<aired, vented, mode, left, air, job, request>>

\* reportControlState.  The device has feedback for seen; answers says what it
\* says of the commands that wait.
Report(seen, position, answers) ==
  /\ reported' = [t \in Target |-> IF t \in seen THEN position[t] ELSE reported[t]]
  /\ known' = seen
  /\ last' = [t \in Target |->
                IF Waiting(t) /\ t \in DOMAIN answers
                   /\ (answers[t] = "applied"
                         => t \in seen /\ last[t].want = reported'[t])
                THEN [last[t] EXCEPT !.status = answers[t]] ELSE last[t]]
  /\ aired' = (aired /\ reported'[Window])
  /\ vented' = (vented /\ FanRuns')
  /\ UNCHANGED <<mode, left, air, job, request>>

Answers == UNION {[T -> {"applied", "failed"}] : T \in SUBSET Target}

\* purgeExpiredData deletes a target's last command.
Forget(t) ==
  /\ Forgets
  /\ last[t].status \in {"applied", "failed"}
  /\ last' = [last EXCEPT ![t] = None]
  /\ UNCHANGED <<reported, known, aired, vented, mode, left, air, job, request>>

\* Time passes for the override.
RunOverride ==
  /\ left > 0
  /\ left' = left - 1
  /\ UNCHANGED <<tables, mode, air, job, request>>

\* The minimum time passes, for what is open and for what runs.
Elapse ==
  /\ aired' = reported[Window]
  /\ vented' = FanRuns
  /\ UNCHANGED <<last, reported, known, mode, left, air, job, request>>

Automation == \E j \in Job : SeeExpired(j) \/ Reset(j) \/ Decide(j) \/ Submit(j)

Operator ==
  \/ IssueAuto
  \/ \E plan \in Requests : RequestFans(plan) \/ RequestWindow(plan)
  \/ QueueRequest
  \/ LoseRequest
  \/ \E T \in SUBSET Target : Cancel(T)

Room ==
  \/ Measure
  \/ \E seen \in Coverage : \E position \in [seen -> BOOLEAN], answers \in Answers :
       Report(seen, position, answers)
  \/ RunOverride
  \/ Elapse

Next ==
  \/ Automation
  \/ Operator
  \/ Room
  \/ \E t \in Target : Expire(t) \/ Forget(t)

Spec == Init /\ [][Next]_vars

\* Measurements and the refresh timer call the automation every few seconds,
\* its transactions return, and time passes.  Nothing is assumed of the
\* operator or of the device.
Fairness ==
  /\ \A j \in Job : /\ WF_vars(SeeExpired(j)) /\ WF_vars(Reset(j))
                    /\ WF_vars(Decide(j)) /\ WF_vars(Submit(j))
  /\ \A t \in Target : WF_vars(Expire(t))
  /\ WF_vars(RunOverride) /\ WF_vars(Elapse)

FairSpec == Spec /\ Fairness

-----------------------------------------------------------------------------
(* What the service promises.                                              *)

Overridden == mode = "manual" /\ left > 0

\* An override that has run out does not linger: the automation comes back,
\* or the operator has set a new one.
OverrideEnds == mode = "manual" ~> (mode = "auto" \/ left = OverrideLife)

\* The automation is in charge and the device's feedback is complete.
InCharge == mode = "auto" /\ known = Target

\* The automation tried to bring t to want and was not answered.
Unanswered(t, want) ==
  last[t] = [status |-> "failed", want |-> want, source |-> "automatic"]

\* Bad outdoor air that stays bad does not find the window open for ever: it
\* is closed, or the automation's command to close it went unanswered.
WindowClosesInBadAir ==
  <>[](InCharge /\ AutoWindow /\ air.verdict # "clear")
    => []<>(~reported[Window] \/ Unanswered(Window, FALSE))

\* Critical air that stays critical is ventilated, unless the command went
\* unanswered or the operator keeps another one waiting.
CriticalAirIsVentilated ==
  \A t \in Target :
    <>[](/\ InCharge /\ Critical
         /\ t = Window => AutoWindow
         /\ air.verdict = "clear" \/ (t \in Fan /\ air.verdict = "filtered"))
      => []<>( \/ reported[t]
               \/ Unanswered(t, TRUE)
               \/ Waiting(t) /\ last[t].source = "manual")

\* A fan the automation started runs no more once the air stays calm and the window stays
\* closed.  The ways out: the command to stop it went unanswered, and the automation does not
\* repeat it; the fan was confirmed as stopped, and the device started it again by itself;
\* or its last command is not one of the automation.
AutomaticFansStop ==
  \A f \in Fan :
    <>[](InCharge /\ Calm /\ ~Active(Window))
      => []<>( \/ ~reported[f]
               \/ Unanswered(f, FALSE)
               \/ last[f].status = "applied" /\ ~last[f].want
               \/ last[f].status = "none" \/ last[f].source = "manual")

\* While the operator's decision about the window stands, the automation
\* neither commands the window nor ends the decision ("does not overwrite the
\* user's decision in this period", README.md).
OverrideHolds ==
  [][Overridden =>
       \A j \in Job : /\ ~Reset(j)
                      /\ Submit(j) => last'[Window] = last[Window]]_vars

\* Before an ordinary stop of a fan it started, the automation keeps the
\* minimum time of ventilation (docs/api.md).
MinimumVentilation ==
  [][\A j \in Job, f \in Fan :
       (Decide(j) /\ air.verdict # "blocked" /\ f \in Stops) => VentedEnough]_vars

=============================================================================
