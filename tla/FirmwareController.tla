------------------------- MODULE FirmwareController -------------------------
(***************************************************************************)
(* The controller of the ESP32 (firmware/esp32/src/core.cpp) and the two   *)
(* tasks of main.cpp that use it.  The control task receives the queued    *)
(* commands and then judges the air, reads the feedback and drives the     *)
(* outputs; it holds the mutex from its first command to its last output.  *)
(* The network task lists the commands that wait at the server, queues     *)
(* them one by one without the mutex, and then takes it to stop whatever   *)
(* is no longer listed, or to apply a new policy.                          *)
(*                                                                         *)
(* Time is what has elapsed since each timer was started, as far as it is  *)
(* compared with anything: Settle, then Limit, and for a fan Minimum.      *)
(* Feedback, air and the link are free in each cycle: what holds here      *)
(* holds for every behaviour of the hardware.  A timer that nobody waits   *)
(* for stands still.  The network task runs only with its clock set, so    *)
(* no command meets a clock that is not.                                   *)
(***************************************************************************)
EXTENDS Integers, Sequences, FiniteSets, SequencesExt

CONSTANTS
  Fans,         \* "exhaust" and "intake"
  Window,       \* "window"
  Air,          \* bound: the readings of the sensors
  Feedback,     \* bound: the limits of the window and the fans that turn
  Requests,     \* bound: what the server asks for
  Policies,     \* bound: the policies the server may hold
  Settle,       \* 100 ms before the motor runs; 1 s before a fan's feedback counts
  Limit,        \* window_travel_ms, fan_start_ms
  Minimum,      \* minimum_ventilation_ms, of fans
  RingSize,     \* completed_.size(), the finished commands it remembers
  QueueSize,    \* the length of command_queue
  MaxCommands   \* bound: the commands of the server

Targets == Fans \cup {Window}
Ids     == 1..MaxCommands
Command == [id: Ids, target: Targets, desired: BOOLEAN, manual: BOOLEAN]

\* known: all three samples are fresh and valid.  pm and temp tell the reading
\* from the limit and from the value at which the limit is released.
Reading == [known: BOOLEAN, pm: {"low", "between", "high"},
            temp: {"cold", "cool", "warm"}, co2: {"low", "middle", "high"}]
Policy  == [enabled: BOOLEAN, autoWindow: BOOLEAN, filtered: BOOLEAN]
Default == [enabled |-> FALSE, autoWindow |-> FALSE, filtered |-> FALSE]

ASSUME FirmwareControllerAssumption ==
  /\ Window \notin Fans
  /\ IsFiniteSet(Fans)
  /\ Air \subseteq Reading
  /\ Feedback \subseteq [open: BOOLEAN, close: BOOLEAN, turning: SUBSET Fans]
  /\ Requests \subseteq [target: Targets, desired: BOOLEAN, manual: BOOLEAN]
  /\ IsFiniteSet(Requests)
  /\ Policies \subseteq Policy
  /\ Settle \in Nat \ {0} /\ Limit \in Nat /\ Minimum \in Nat
  /\ Settle <= Limit /\ Limit <= Minimum
  /\ RingSize \in Nat \ {0}
  /\ QueueSize \in Nat \ {0}
  /\ MaxCommands \in Nat

None    == [id |-> 0]
\* expired, disabled, fault, cancelled and unsafe_air are "failed", as they are for
\* the server.
Outcome == {"none", "accepted", "applied", "failed"}
Final   == {"applied", "failed"}

VARIABLES
  commissioned,  \* NodeConfig.commissioned
  ctl,           \* the fields of Controller
  pins,          \* what write_outputs has written
  busy,          \* the control task is among its commands
  queue,         \* command_queue
  listed,        \* the commands in the latest answer of the server
  polled,        \* poll_commands has queued them and not yet reconciled
  lastId,        \* the id of the latest of them
  since          \* history: how many commands have ended since each command did

vars == <<commissioned, ctl, pins, busy, queue, listed, polled, lastId, since>>

Controller ==
  [fan: [Fans -> BOOLEAN], open: BOOLEAN, close: BOOLEAN,
   windowFault: BOOLEAN, fanFault: [Fans -> BOOLEAN],
   limits: [open: BOOLEAN, close: BOOLEAN],
   active: [Targets -> Command \cup {None}], age: [Targets -> 0..Minimum],
   result: [Targets -> [id: Ids \cup {0}, outcome: Outcome]],
   completed: Seq(Ids), override: BOOLEAN, policy: Policy,
   polluted: BOOLEAN, cold: BOOLEAN, safeWindow: BOOLEAN, safeFans: BOOLEAN,
   automatic: [Fans -> BOOLEAN],
   moving: {"none", "open", "close"}, moveAge: 0..Limit, aired: BOOLEAN]

TypeOK ==
  /\ commissioned \in BOOLEAN
  /\ ctl \in Controller /\ Len(ctl.completed) <= RingSize
  /\ \A t \in Targets : ctl.active[t] # None => ctl.active[t].target = t
  /\ pins \in [fan: [Fans -> BOOLEAN], open: BOOLEAN, close: BOOLEAN]
  /\ busy \in BOOLEAN
  /\ queue \in Seq(Command) /\ Len(queue) <= QueueSize
  /\ listed \in SUBSET Command
  /\ polled \in BOOLEAN
  /\ lastId \in Ids \cup {0}
  /\ since \in [Ids -> 0..RingSize]

\* A controller as it is constructed, with the policy restored from NVS.
AtBoot(policy) ==
  [fan |-> [f \in Fans |-> FALSE], open |-> FALSE, close |-> FALSE,
   windowFault |-> FALSE, fanFault |-> [f \in Fans |-> FALSE],
   limits |-> [open |-> FALSE, close |-> FALSE],
   active |-> [t \in Targets |-> None], age |-> [t \in Targets |-> 0],
   result |-> [t \in Targets |-> [id |-> 0, outcome |-> "none"]],
   completed |-> <<>>, override |-> FALSE, policy |-> policy,
   polluted |-> FALSE, cold |-> FALSE, safeWindow |-> FALSE, safeFans |-> FALSE,
   automatic |-> [f \in Fans |-> FALSE],
   moving |-> "none", moveAge |-> 0, aired |-> FALSE]

\* The history says RingSize of a command that has not ended since the node started,
\* and of one after which that many others have.
NoneEnded == [i \in Ids |-> RingSize]

Off  == [fan |-> [f \in Fans |-> FALSE], open |-> FALSE, close |-> FALSE]

Init ==
  /\ commissioned \in BOOLEAN
  /\ ctl = AtBoot(Default)
  /\ pins = Off /\ busy = FALSE /\ queue = <<>>
  /\ listed = {} /\ polled = FALSE /\ lastId = 0
  /\ since = NoneEnded

-----------------------------------------------------------------------------
(* The operations of Controller, each from one controller to the next.     *)

Live(c) == {t \in Targets : c.active[t] # None}

\* stop_window, and the outputs of fans set to false.
Stop(c, T) ==
  [c EXCEPT !.fan = [f \in Fans |-> @[f] /\ f \notin T],
            !.open = @ /\ Window \notin T,
            !.close = @ /\ Window \notin T]

\* Mistake: the ring grows.
RememberAll(ring, S) == ring \o SetToSeq(S)

\* The ring of finished ids: the oldest gives way.  Those that finish in one step are
\* kept in any order.
Remember(ring, S) ==
  LET all == ring \o SetToSeq(S) IN
  IF Len(all) <= RingSize THEN all
  ELSE SubSeq(all, Len(all) - RingSize + 1, Len(all))

\* Mistake: the superseded command is not remembered.
FinishForgetful(c, T, outcome) ==
  [c EXCEPT !.result = [t \in Targets |->
                          IF t \in T \cap Live(c)
                          THEN [id |-> c.active[t].id, outcome |-> outcome] ELSE @[t]],
            !.active = [t \in Targets |-> IF t \in T THEN None ELSE @[t]],
            !.age = [t \in Targets |-> IF t \in T \cap {Window} THEN 0 ELSE @[t]]]

\* finish, for the targets T that have a command.
Finish(c, T, outcome) ==
  [c EXCEPT !.result = [t \in Targets |->
                          IF t \in T \cap Live(c)
                          THEN [id |-> c.active[t].id, outcome |-> outcome] ELSE @[t]],
            !.completed = Remember(@, {c.active[t].id : t \in T \cap Live(c)}),
            !.active = [t \in Targets |-> IF t \in T THEN None ELSE @[t]],
            !.age = [t \in Targets |-> IF t \in T \cap {Window} THEN 0 ELSE @[t]]]

Known(c, id) == \/ \E i \in DOMAIN c.completed : c.completed[i] = id
                \/ \E t \in Targets : c.active[t].id = id

Reject(c, cmd, outcome) ==
  [c EXCEPT !.result[cmd.target] = [id |-> cmd.id, outcome |-> outcome],
            !.completed = Remember(@, {cmd.id})]

Faulty(c, cmd) == IF cmd.target = Window THEN c.windowFault
                  ELSE c.fanFault[cmd.target] /\ cmd.desired

\* Mistake: an operator's command does not suspend the automation.
TakeWithoutOverride(c, cmd) ==
  LET t == cmd.target
      d == Finish(c, {t}, "failed")
  IN [d EXCEPT !.active[t] = cmd, !.age[t] = 0,
               !.moving = IF t = Window THEN "none" ELSE @,
               !.moveAge = IF t = Window THEN 0 ELSE @,
               !.automatic = [f \in Fans |-> IF f = t THEN ~cmd.manual /\ cmd.desired
                                             ELSE @[f]],
               !.result[t] = [id |-> cmd.id, outcome |-> "accepted"],
               !.fan = [f \in Fans |-> IF f = t THEN cmd.desired ELSE @[f]],
               !.open = @ /\ t # Window,
               !.close = @ /\ t # Window]

\* The rest of command: the new command takes its target.  A fan follows at once;
\* the window stops, and moves when it has settled.
Take(c, cmd) ==
  LET t == cmd.target
      d == Finish(c, {t}, "failed")
  IN [d EXCEPT !.active[t] = cmd, !.age[t] = 0,
               !.override = @ \/ cmd.manual,
               !.moving = IF t = Window THEN "none" ELSE @,
               !.moveAge = IF t = Window THEN 0 ELSE @,
               !.automatic = [f \in Fans |-> IF f = t THEN ~cmd.manual /\ cmd.desired
                                             ELSE @[f]],
               !.result[t] = [id |-> cmd.id, outcome |-> "accepted"],
               !.fan = [f \in Fans |-> IF f = t THEN cmd.desired ELSE @[f]],
               !.open = @ /\ t # Window,
               !.close = @ /\ t # Window]

\* command; late: its expires_at has passed.
Accept(c, cmd, late) ==
  IF Known(c, cmd.id) THEN c
  ELSE IF ~commissioned THEN Reject(c, cmd, "failed")
  ELSE IF late THEN Reject(c, cmd, "failed")
  ELSE IF Faulty(c, cmd) THEN Reject(c, cmd, "failed")
  ELSE Take(c, cmd)

\* reconcile_pending
Reconciled(c, ids) ==
  LET gone == {t \in Live(c) : c.active[t].id \notin ids}
  IN Finish(Stop(c, gone), gone, "failed")

\* stop_automatic_fans, and the end of a movement of the automation.
Passive(c) ==
  LET d == Stop(c, {f \in Fans : c.automatic[f]}
                   \cup (IF c.moving # "none" THEN {Window} ELSE {}))
  IN [d EXCEPT !.automatic = [f \in Fans |-> FALSE], !.moving = "none", !.moveAge = 0]

Configured(c, policy) ==
  LET d == [c EXCEPT !.policy = policy]
  IN IF policy.enabled THEN d ELSE Passive(d)

\* The first half of safety: what the air allows.  A limit once passed is
\* released only beyond its recovery value.
Judged(c, air) ==
  LET polluted == IF air.known
                  THEN air.pm = "high" \/ (c.polluted /\ air.pm = "between")
                  ELSE c.polluted
      cold     == IF air.known
                  THEN air.temp = "cold" \/ (c.cold /\ air.temp = "cool")
                  ELSE c.cold
      sound    == commissioned /\ air.known /\ ~cold
  IN [c EXCEPT !.polluted = polluted, !.cold = cold,
               !.safeWindow = sound /\ ~polluted,
               !.safeFans = sound /\ (~polluted \/ c.policy.filtered)]

Safe(c, t) == IF t = Window THEN c.safeWindow ELSE c.safeFans

\* Mistake: the automation's own movement is not stopped.
SecuredCommands(c) ==
  LET unsafe == {t \in Live(c) : c.active[t].desired /\ ~Safe(c, t)}
      d == Finish(Stop(c, unsafe \cap {Window}), unsafe, "failed")
  IN IF d.safeFans THEN d
     ELSE [Stop(d, Fans) EXCEPT !.automatic = [f \in Fans |-> FALSE]]

\* The second half: what is not allowed ends.
Secured(c) ==
  LET unsafe == {t \in Live(c) : c.active[t].desired /\ ~Safe(c, t)}
      d == Finish(Stop(c, unsafe \cap {Window}), unsafe, "failed")
      e == IF d.safeFans THEN d
           ELSE [Stop(d, Fans) EXCEPT !.automatic = [f \in Fans |-> FALSE]]
  IN IF ~e.safeWindow /\ (e.open \/ e.moving = "open")
     THEN [Stop(e, {Window}) EXCEPT !.moving = "none", !.moveAge = 0] ELSE e

Safety(c, air) == Secured(Judged(c, air))

-----------------------------------------------------------------------------
(* tick, in the order of its code.  f is the feedback: the two limits of   *)
(* the window and the fans that turn.                                      *)

\* Both limits at once are a fault.
Seen(c, f) ==
  LET d == [c EXCEPT !.limits = [open |-> f.open, close |-> f.close],
                     !.aired = @ /\ f.open /\ c.limits.open]
  IN IF f.open /\ f.close
     THEN Finish(Stop([d EXCEPT !.windowFault = TRUE], {Window}), {Window}, "failed")
     ELSE d

\* The commands of the targets T have passed their expires_at.
Lapsed(c, late) ==
  LET T == late \cap Live(c)
  IN Finish(Stop(c, T), T, "failed")

\* The feedback a command waits for has arrived.
Reached(c, t, f) ==
  IF t = Window THEN IF c.active[t].desired THEN f.open ELSE f.close
  ELSE c.age[t] >= Settle /\ (c.active[t].desired <=> t \in f.turning)

Achieved(c, f) ==
  LET T == {t \in Live(c) : Reached(c, t, f)}
  IN Finish(Stop(c, T \cap {Window}), T, "applied")

\* Mistake: a window that was driven once is driven without end.
FailedFans(c) ==
  LET T == {t \in Live(c) : c.age[t] >= Limit} \ {Window}
  IN Finish(Stop([c EXCEPT !.fanFault = [x \in Fans |-> @[x] \/ x \in T]], T), T, "failed")

\* It has not arrived in time.
Failed(c) ==
  LET T == {t \in Live(c) : c.age[t] >= Limit}
  IN Finish(Stop([c EXCEPT !.windowFault = @ \/ Window \in T,
                           !.fanFault = [x \in Fans |-> @[x] \/ x \in T]], T),
            T, "failed")

\* Mistake: it is driven at once.
DrivenAtOnce(c) ==
  IF Window \in Live(c)
  THEN [c EXCEPT !.open = c.active[Window].desired, !.close = ~c.active[Window].desired]
  ELSE c

\* A settled window is driven.
Driven(c) ==
  IF Window \in Live(c) /\ c.age[Window] >= Settle
  THEN [c EXCEPT !.open = c.active[Window].desired, !.close = ~c.active[Window].desired]
  ELSE c

\* A fan that is on and does not turn.
Watched(c, f) ==
  LET lost == {x \in Fans : c.fan[x] /\ x \notin f.turning /\ c.age[x] >= Limit}
  IN Stop([c EXCEPT !.fanFault = [x \in Fans |-> @[x] \/ x \in lost]], lost)

\* The automation's own movement of the window.
Moved(c, f) ==
  CASE c.moving = "none" -> c
    [] c.moving # "none" /\ (c.windowFault \/ (IF c.moving = "open" THEN f.open ELSE f.close)) ->
         [Stop(c, {Window}) EXCEPT !.moving = "none", !.moveAge = 0, !.aired = @ /\ ~f.open]
    [] c.moving # "none" /\ ~(c.windowFault \/ (IF c.moving = "open" THEN f.open ELSE f.close)) ->
         CASE c.moveAge < Settle -> c
           [] c.moveAge \in Settle..(Limit - 1) -> [c EXCEPT !.open = c.moving = "open",
                                                           !.close = c.moving = "close"]
           [] c.moveAge >= Limit -> [Stop(c, {Window}) EXCEPT !.moving = "none", !.moveAge = 0,
                                                         !.windowFault = TRUE]

Ticked(c, f, late) ==
  Moved(Watched(Driven(Failed(Achieved(Lapsed(Seen(c, f), late), f))), f), f)

-----------------------------------------------------------------------------
(* autonomous                                                              *)

\* Mistake: a fan that has failed is started again.
VentilatedRegardless(c, air) ==
  IF c.safeFans /\ air.co2 = "high"
  THEN [c EXCEPT !.automatic = [f \in Fans |-> TRUE],
                 !.age = [t \in Targets |-> IF t \in Fans /\ ~c.fan[t] THEN 0 ELSE @[t]],
                 !.fan = [f \in Fans |-> TRUE]]
  ELSE c

VentilatedBy(c, air) ==
  IF c.safeFans /\ air.co2 = "high"
  THEN LET on == {f \in Fans : ~c.fanFault[f] /\ ~c.fan[f]}
       IN [c EXCEPT !.automatic = [f \in Fans |-> TRUE],
                    !.age = [t \in Targets |-> IF t \in on THEN 0 ELSE @[t]],
                    !.fan = [f \in Fans |-> @[f] \/ f \in on]]
  ELSE IF air.co2 = "low"
  THEN LET off == {f \in Fans : c.age[f] >= Minimum}
       IN [Stop(c, off) EXCEPT !.automatic = [f \in Fans |-> @[f] /\ f \notin off]]
  ELSE c

\* The window starts to move only from an end position.
Started(c, air) ==
  LET open  == c.safeWindow /\ air.co2 = "high"
      close == ~c.safeWindow \/ (air.co2 = "low" /\ c.aired)
      shut  == c.limits.close /\ ~c.limits.open
      wide  == c.limits.open /\ ~c.limits.close
  IN IF /\ c.policy.autoWindow /\ ~c.windowFault /\ c.moving = "none"
        /\ (open /\ shut) \/ (close /\ wide)
     THEN [Stop(c, {Window}) EXCEPT !.moving = IF open THEN "open" ELSE "close",
                                    !.moveAge = 0]
     ELSE c

Autonomous(c, air) ==
  LET d == Safety(c, air)
  IN IF ~commissioned \/ ~d.policy.enabled THEN Passive(d)
     ELSE IF d.override \/ Live(d) # {} THEN d
     ELSE Started(VentilatedBy(d, air), air)

-----------------------------------------------------------------------------
(* The history: it looks at the targets, not at the ring.                  *)

\* The commands that have left their targets.
Ended(c, d) ==
  {c.active[t].id : t \in {u \in Live(c) : d.active[u] # c.active[u]}}

\* Those that end in one step count as ended in any order.
Counted(s, E) ==
  [i \in Ids |-> LET n == IF i \in E THEN Cardinality(E) - 1 ELSE s[i] + Cardinality(E)
                 IN IF n < RingSize THEN n ELSE RingSize]

-----------------------------------------------------------------------------
(* The control task.                                                       *)

\* write_outputs
Written(c) ==
  [fan |-> [f \in Fans |-> commissioned /\ c.fan[f]],
   open |-> commissioned /\ c.open, close |-> commissioned /\ c.close]

\* It takes the mutex, if this is the first command of the cycle.
Receive(late) ==
  /\ queue # <<>>
  /\ ctl' = Accept(ctl, Head(queue), late)
  /\ queue' = Tail(queue)
  /\ busy' = TRUE
  /\ LET cmd == Head(queue)
         rejected == ~Known(ctl, cmd.id) /\ ctl'.active[cmd.target] # cmd
     IN since' = Counted(since, Ended(ctl, ctl') \cup (IF rejected THEN {cmd.id} ELSE {}))
  /\ UNCHANGED <<commissioned, pins, listed, polled, lastId>>

Cycle(air, f, late, offline) ==
  /\ queue = <<>>
  /\ LET c == Ticked(Safety(ctl, air), f, late)
     IN ctl' = IF offline THEN Autonomous(c, air) ELSE c
  /\ pins' = Written(ctl')
  /\ busy' = FALSE
  /\ since' = Counted(since, Ended(ctl, ctl'))
  /\ UNCHANGED <<commissioned, queue, listed, polled, lastId>>

\* Time passes for one timer that somebody waits for.  `now' is read once, before
\* the cycle, so not during it.
PassFor(t) ==
  /\ ~busy
  /\ t \in Live(ctl) \/ (t \in Fans /\ (ctl.fan[t] \/ ctl.automatic[t]))
  /\ ctl.age[t] < (IF t = Window THEN Limit ELSE Minimum)
  /\ ctl' = [ctl EXCEPT !.age[t] = @ + 1]
  /\ UNCHANGED <<commissioned, pins, busy, queue, listed, polled, lastId, since>>

PassForMovement ==
  /\ ~busy
  /\ ctl.moving # "none" /\ ctl.moveAge < Limit
  /\ ctl' = [ctl EXCEPT !.moveAge = @ + 1]
  /\ UNCHANGED <<commissioned, pins, busy, queue, listed, polled, lastId, since>>

PassForPolicy ==
  /\ ~busy
  /\ \/ ctl.override /\ ctl' = [ctl EXCEPT !.override = FALSE]
     \/ ctl.limits.open /\ ~ctl.aired /\ ctl' = [ctl EXCEPT !.aired = TRUE]
  /\ UNCHANGED <<commissioned, pins, busy, queue, listed, polled, lastId, since>>

-----------------------------------------------------------------------------
(* The network task.                                                       *)

\* What the server may list next, as its tables behave (CommandQueue): some of what
\* it listed before, and new commands, one for a target, with larger ids.
Answers ==
  {answer \in
     {[kept |-> kept, new |-> new] : kept \in SUBSET listed, new \in SUBSET Requests} :
     /\ lastId + Cardinality(answer.new) <= MaxCommands
     /\ \A r, s \in answer.new : r.target = s.target => r = s
     /\ \A c \in answer.kept, r \in answer.new : c.target # r.target}

\* poll_commands: each listed command is sent to the queue with no wait, and one that
\* does not fit is lost until the next poll.  The control task may take some before
\* the last is sent, which only leaves more room.
Poll(answer) ==
  LET new == SetToSeq(answer.new)
      cmd(i) == [id |-> lastId + i, target |-> new[i].target,
                 desired |-> new[i].desired, manual |-> new[i].manual]
  IN /\ ~polled
     /\ polled' = TRUE
     /\ listed' = answer.kept \cup {cmd(i) : i \in DOMAIN new}
     /\ lastId' = lastId + Len(new)
     /\ LET all == queue \o SetToSeq(listed')
        IN queue' = SubSeq(all, 1, IF Len(all) < QueueSize THEN Len(all) ELSE QueueSize)
     /\ UNCHANGED <<commissioned, ctl, pins, busy, since>>

\* reconcile_pending
Reconcile ==
  /\ polled /\ ~busy
  /\ ctl' = Reconciled(ctl, {c.id : c \in listed})
  /\ polled' = FALSE
  /\ since' = Counted(since, Ended(ctl, ctl'))
  /\ UNCHANGED <<commissioned, pins, busy, queue, listed, lastId>>

\* sync_policy: to NVS first and then, under the mutex, to the controller.  Nothing
\* but Reboot reads NVS, and a loss of power between the two is this step before it.
SyncPolicy(policy) ==
  /\ ~polled /\ ~busy
  /\ ctl' = Configured(ctl, policy)
  /\ UNCHANGED <<commissioned, pins, busy, queue, listed, polled, lastId, since>>

\* app_main after a loss of power: only NVS is left.
Reboot ==
  /\ ctl' = AtBoot(ctl.policy)
  /\ pins' = Off /\ busy' = FALSE /\ queue' = <<>> /\ polled' = FALSE
  /\ since' = NoneEnded
  /\ UNCHANGED <<commissioned, listed, lastId>>

Next ==
  \/ \E late \in BOOLEAN : Receive(late)
  \/ \E air \in Air, f \in Feedback, late \in SUBSET Live(ctl), offline \in BOOLEAN :
        Cycle(air, f, late, offline)
  \/ \E t \in Targets : PassFor(t)
  \/ PassForMovement
  \/ PassForPolicy
  \/ \E answer \in Answers : Poll(answer)
  \/ Reconcile
  \/ \E policy \in Policies : SyncPolicy(policy)
  \/ Reboot

Spec == Init /\ [][Next]_vars

\* The control task runs every 20 ms, above every other task, and time passes,
\* between any two cycles.  Nothing is assumed of the network, the server or the
\* hardware.  Some Cycle is enabled whenever the queue is empty, since the feedback
\* may differ from the one before; so the first conjunct is its weak fairness.
Fairness ==
  /\ []<>(queue # <<>>) \/
     []<><<\E air \in Air, f \in Feedback, late \in SUBSET Live(ctl), offline \in BOOLEAN :
             Cycle(air, f, late, offline)>>_vars
  /\ WF_vars(\E late \in BOOLEAN : Receive(late))
  /\ SF_vars(PassFor(Window)) /\ SF_vars(PassForMovement)
FairSpec == Spec /\ Fairness

-----------------------------------------------------------------------------
(* Properties.                                                             *)

\* The motor is driven one way, by a command that still waits or by the
\* automation, not against a fault, and it opens only while the air allows it.
MotionIsLicensed ==
  LET cmd == ctl.active[Window]
      commanded(d) == cmd # None /\ cmd.desired = d
  IN /\ ~(ctl.open /\ ctl.close)
     /\ ctl.open  => ctl.safeWindow /\ (commanded(TRUE) \/ ctl.moving = "open")
     /\ ctl.close => commanded(FALSE) \/ ctl.moving = "close"
     /\ ctl.windowFault => ~ctl.open /\ ~ctl.close
     /\ cmd # None => ctl.moving = "none"

\* A fan's pin is on only if the air allowed it in the cycle that wrote it and the
\* fan has not failed by then, whoever asked for it.
FansAreLicensed ==
  \A f \in Fans : pins.fan[f] => commissioned /\ ctl.safeFans /\ ~ctl.fanFault[f]

\* The motor is never switched from one direction to the other between two
\* writes: there is always a pause.
ReversalPauses ==
  [][~(pins.open /\ pins'.close) /\ ~(pins.close /\ pins'.open)]_vars

\* As long as the node runs, a command that ended is neither taken again when the
\* server repeats it nor reported with another outcome, however it ended, until as
\* many others have ended as the ring remembers.  After that it may be: see the README.
OutcomesAreFinal ==
  [][\A id \in Ids, t \in Targets :
       since[id] < RingSize =>
         /\ ctl'.active[t].id # id
         /\ ctl'.result[t].id = id => ctl'.result[t] = ctl.result[t]]_vars

\* An operator's command suspends the local automation, and while that lasts the
\* automation starts nothing: what it runs, it ran before, or a command of the
\* server asked for it.
OverrideIsRespected ==
  [][/\ \A t \in Targets :
          LET cmd == ctl'.active[t]
          IN cmd # None /\ cmd # ctl.active[t] /\ cmd.manual => ctl'.override
     /\ ctl.override /\ ctl'.override =>
          /\ ctl'.moving # ctl.moving => ctl'.moving = "none"
          /\ \A f \in Fans : ctl'.fan[f] /\ ~ctl.fan[f] => ctl'.active[f] # None]_vars

\* The motor always comes to rest, whatever the limits show.
MotorRests == (pins.open \/ pins.close) ~> ~(pins.open \/ pins.close)
=============================================================================
