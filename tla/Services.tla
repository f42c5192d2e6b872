------------------------------- MODULE Services -------------------------------
(***************************************************************************)
(* The smaller parts of the system side by side.  They share no state:     *)
(* each behaviour is a behaviour of one part, chosen at the start, while   *)
(* the variables of the others keep their initial values.  A property of a *)
(* part is thus a property of the behaviours of that part.                 *)
(***************************************************************************)
EXTENDS Integers, FiniteSets

CONSTANTS
  Process,  \* workers, processes, threads and requests of every part
  none,
  \* the bounds of each part, by the prefix of its variables
  TelFrames, TelPrunes, SesProcess, SesFrames,
  IngKey, IngFaults,
  ConDurations, ConPauses, ConGap, ConTime, ConChecks,
  DelChat, DelBatch, DelEvents, DelFaults, DelChanges, BatChat, BatBatch, BatEvents,
  UplSlots, UplQueue, UplGeneration, UplPackets, UplFaults,
  SimCommands, SimFaults,
  ModCli, ModReader, ModJobs, ModRollbacks, ModFaults,
  AccUser, AccPool, AccChanges,
  AvaUser, AvaImages, AvaFaults

\* What the parts take for granted: `none' is no process and no number, and times are
\* numbers, of which the pause between alerts is not negative (notifications.ts:76).
ASSUME Values ==
  /\ none \notin Process \cup ModCli /\ none \notin Int
  /\ ConTime \in Nat /\ ConGap \in Int
  /\ ConDurations \subseteq Int /\ ConPauses \subseteq Nat
  /\ UplSlots \in Nat \ {0} /\ UplQueue \in Nat \ {0}
  /\ UplGeneration \in Nat /\ UplPackets \in Nat

\* There are accounts to ask for and finitely many processes to do it; the bounds are
\* numbers.
ASSUME Sizes ==
  /\ AccUser # {} /\ AvaUser # {} /\ IsFiniteSet(Process)
  /\ {TelFrames, SesFrames, ModJobs, ModRollbacks, ModFaults, AccPool, AccChanges,
      AvaImages, AvaFaults} \subseteq Nat

VARIABLES
  part,  \* the part that runs
  tel_frames, tel_arrived, tel_kept, tel_boots, tel_head, tel_told, tel_report,
  tel_prunes,
  ing_measured, ing_forecast, ing_status, ing_advice, ing_answered, ing_inFlight,
  ing_job, ing_faults,
  con_clock, con_began, con_condition, con_settings, con_checks, con_events,
  del_event, del_settings, del_job, del_calls, del_arrived, del_faults, del_changes,
  upl_made, upl_queue, upl_pending, upl_failed, upl_wifi, upl_synced, upl_disk,
  upl_generations, upl_generation, upl_healthy, upl_pc, upl_slot, upl_answered,
  upl_lost, upl_faults, upl_links,
  sim_status, sim_want, sim_expired, sim_known, sim_events, sim_inbox, sim_acks,
  sim_queued, sim_active, sim_seen, sim_done, sim_again, sim_position, sim_target,
  sim_faults,
  mod_active, mod_previous, mod_record, mod_lease, mod_ready, mod_work, mod_cache,
  mod_reader, mod_submitted, mod_rollbacks, mod_faults,
  acc_role, acc_hooked, acc_audit, acc_request, acc_changes,
  ava_gone, ava_image, ava_files, ava_unheard, ava_request, ava_images, ava_faults

telVars ==
  <<tel_frames, tel_arrived, tel_kept, tel_boots, tel_head, tel_told, tel_report,
    tel_prunes>>
ingVars ==
  <<ing_measured, ing_forecast, ing_status, ing_advice, ing_answered, ing_inFlight,
    ing_job, ing_faults>>
conVars ==
  <<con_clock, con_began, con_condition, con_settings, con_checks, con_events>>
delVars ==
  <<del_event, del_settings, del_job, del_calls, del_arrived, del_faults, del_changes>>
uplVars ==
  <<upl_made, upl_queue, upl_pending, upl_failed, upl_wifi, upl_synced, upl_disk,
    upl_generations, upl_generation, upl_healthy, upl_pc, upl_slot, upl_answered,
    upl_lost, upl_faults, upl_links>>
simVars ==
  <<sim_status, sim_want, sim_expired, sim_known, sim_events, sim_inbox, sim_acks,
    sim_queued, sim_active, sim_seen, sim_done, sim_again, sim_position, sim_target,
    sim_faults>>
modVars ==
  <<mod_active, mod_previous, mod_record, mod_lease, mod_ready, mod_work, mod_cache,
    mod_reader, mod_submitted, mod_rollbacks, mod_faults>>
accVars ==
  <<acc_role, acc_hooked, acc_audit, acc_request, acc_changes>>
avaVars ==
  <<ava_gone, ava_image, ava_files, ava_unheard, ava_request, ava_images, ava_faults>>

Telemetry == INSTANCE TelemetrySnapshot WITH
  Worker <- Process, MaxFrames <- TelFrames, MaxPrunes <- TelPrunes, frames <- tel_frames,
  arrived <- tel_arrived, kept <- tel_kept, boots <- tel_boots, head <- tel_head,
  told <- tel_told, report <- tel_report, prunes <- tel_prunes

Sessions == INSTANCE TelemetrySnapshot WITH
  Worker <- SesProcess, MaxFrames <- SesFrames, MaxPrunes <- 0, frames <- tel_frames,
  arrived <- tel_arrived, kept <- tel_kept, boots <- tel_boots, head <- tel_head,
  told <- tel_told, report <- tel_report, prunes <- tel_prunes

Ingest == INSTANCE MeasurementIngest WITH
  Worker <- Process, Key <- IngKey, MaxFaults <- IngFaults, nobody <- none,
  measured <- ing_measured, forecast <- ing_forecast, status <- ing_status,
  advice <- ing_advice, answered <- ing_answered, inFlight <- ing_inFlight,
  job <- ing_job, faults <- ing_faults

Conditions == INSTANCE NotificationConditions WITH
  Worker <- Process, Durations <- ConDurations, Suppressions <- ConPauses, MaxGap <- ConGap,
  MaxTime <- ConTime, MaxChecks <- ConChecks, clock <- con_clock, began <- con_began, condition <- con_condition,
  settings <- con_settings, checks <- con_checks, events <- con_events

Delivery == INSTANCE NotificationDelivery WITH
  Worker <- Process, Chat <- DelChat, Batch <- DelBatch, MaxEvents <- DelEvents,
  MaxFaults <- DelFaults, MaxChanges <- DelChanges, event <- del_event, settings <- del_settings, job <- del_job,
  calls <- del_calls, arrived <- del_arrived, faults <- del_faults,
  changes <- del_changes

Batches == INSTANCE NotificationDelivery WITH
  Worker <- Process, Chat <- BatChat, Batch <- BatBatch, MaxEvents <- BatEvents, MaxFaults <- 0,
  MaxChanges <- 0, event <- del_event, settings <- del_settings, job <- del_job,
  calls <- del_calls, arrived <- del_arrived, faults <- del_faults,
  changes <- del_changes

Uplink == INSTANCE FirmwareUplink WITH
  Slots <- UplSlots, QueueSize <- UplQueue, MaxGeneration <- UplGeneration,
  MaxPackets <- UplPackets, MaxFaults <- UplFaults, MaxLinks <- 0, made <- upl_made, queue <- upl_queue, pending <- upl_pending,
  failed <- upl_failed, wifi <- upl_wifi, synced <- upl_synced, disk <- upl_disk,
  generations <- upl_generations, generation <- upl_generation, healthy <- upl_healthy,
  pc <- upl_pc, slot <- upl_slot, answered <- upl_answered, lost <- upl_lost,
  faults <- upl_faults, links <- upl_links

Simulator == INSTANCE SimulatorCommands WITH
  MaxCommands <- SimCommands, MaxFaults <- SimFaults, status <- sim_status, want <- sim_want,
  expired <- sim_expired, known <- sim_known, events <- sim_events, inbox <- sim_inbox,
  acks <- sim_acks, queued <- sim_queued, active <- sim_active, seen <- sim_seen,
  done <- sim_done, again <- sim_again, position <- sim_position, target <- sim_target,
  faults <- sim_faults

Models == INSTANCE ModelJobs WITH
  Service <- Process, Cli <- ModCli, Reader <- ModReader, MaxJobs <- ModJobs,
  MaxRollbacks <- ModRollbacks, MaxFaults <- ModFaults, nobody <- none, active <- mod_active, previous <- mod_previous,
  record <- mod_record, lease <- mod_lease, ready <- mod_ready, work <- mod_work,
  cache <- mod_cache, reader <- mod_reader, submitted <- mod_submitted,
  rollbacks <- mod_rollbacks, faults <- mod_faults

Roles == INSTANCE Accounts WITH
  User <- AccUser, Request <- Process, PoolSize <- AccPool, MaxChanges <- AccChanges, role <- acc_role,
  hooked <- acc_hooked, audit <- acc_audit, request <- acc_request,
  changes <- acc_changes

Pictures == INSTANCE Avatars WITH
  User <- AvaUser, Request <- Process, MaxImages <- AvaImages, MaxFaults <- AvaFaults, gone <- ava_gone,
  image <- ava_image, files <- ava_files, unheard <- ava_unheard,
  request <- ava_request, images <- ava_images, faults <- ava_faults

-----------------------------------------------------------------------------
\* TelemetrySnapshot runs twice, with two requests side by side and with more frames;
\* NotificationDelivery twice, with changes of the settings and with two events in one
\* batch.
Parts == {"telemetry", "sessions", "ingest", "conditions", "delivery", "batches", "uplink",
          "simulator", "models", "roles", "pictures"}

Init ==
  /\ part \in Parts
  /\ IF part = "sessions" THEN Sessions!Init ELSE Telemetry!Init
  /\ Ingest!Init /\ Conditions!Init
  /\ IF part = "batches" THEN Batches!Init ELSE Delivery!Init
  /\ Uplink!Init /\ Simulator!Init /\ Models!Init /\ Roles!Init /\ Pictures!Init
  \* of the settings of a part that does not run there is no choice
  /\ part # "conditions" =>
       con_settings = CHOOSE s \in [duration : ConDurations, suppression : ConPauses] : TRUE
  /\ part \notin {"delivery", "batches"} => del_settings = [chat |-> none, enabled |-> FALSE]

\* What the steps of a part leave alone.
Rest(p) ==
  /\ part = p /\ UNCHANGED part
  /\ p \notin {"telemetry", "sessions"} => UNCHANGED telVars
  /\ p # "ingest" => UNCHANGED ingVars
  /\ p # "conditions" => UNCHANGED conVars
  /\ p \notin {"delivery", "batches"} => UNCHANGED delVars
  /\ p # "uplink" => UNCHANGED uplVars
  /\ p # "simulator" => UNCHANGED simVars
  /\ p # "models" => UNCHANGED modVars
  /\ p # "roles" => UNCHANGED accVars
  /\ p # "pictures" => UNCHANGED avaVars

Next ==
  \/ Rest("telemetry") /\ Telemetry!Next
  \/ Rest("sessions") /\ Sessions!Next
  \/ Rest("ingest") /\ Ingest!Next
  \/ Rest("conditions") /\ Conditions!Next
  \/ Rest("delivery") /\ Delivery!Next
  \/ Rest("batches") /\ Batches!Next
  \/ Rest("uplink") /\ Uplink!Next
  \/ Rest("simulator") /\ Simulator!Next
  \/ Rest("models") /\ Models!Next
  \/ Rest("roles") /\ Roles!Next
  \/ Rest("pictures") /\ Pictures!Next

vars == <<part, telVars, ingVars, conVars, delVars, uplVars, simVars, modVars, accVars,
          avaVars>>

Spec == Init /\ [][Next]_vars

-----------------------------------------------------------------------------
(* The properties, each stated and explained in the module of its part. *)

\* The types of every part.
TypeOK ==
  /\ IF part = "sessions" THEN Sessions!TypeOK ELSE Telemetry!TypeOK
  /\ Ingest!TypeOK /\ Conditions!TypeOK
  /\ IF part = "batches" THEN Batches!TypeOK ELSE Delivery!TypeOK
  /\ Uplink!TypeOK /\ Simulator!TypeOK /\ Models!TypeOK /\ Roles!TypeOK /\ Pictures!TypeOK

\* The live snapshot never returns to a session it has left.
SnapshotMovesOn == Telemetry!SnapshotMovesOn

\* An answered measurement has been worked out.
AnsweredIsDone == Ingest!AnsweredIsDone
\* A saved forecast is shown and used.
ForecastIsUsed == Ingest!ForecastIsUsed

\* An operator is alerted when the settings say so, and only then.
AlertsWhenDue == Conditions!AlertsWhenDue
\* Alerts and recoveries alternate and agree with the row.
EventsTellTheCondition == Conditions!EventsTellTheCondition

\* Three calls for an event at most, and a second message only after a fault.
FewMessages == Delivery!FewMessages
\* What is marked as sent has arrived and is left alone.
SentIsSent == Delivery!SentIsSent

\* A packet is waiting, stored, answered or accounted for.
NothingForgotten == Uplink!NothingForgotten
\* The card is a log, whatever fails.
ImplementsRecordLog == Uplink!ImplementsRecordLog

\* An older command does not move the window after the newest is confirmed.
NewestStands == Simulator!NewestStands

\* A model that leaves use is kept for a rollback.
LastModelIsKept == Models!LastModelIsKept
\* A forecast is made with a model that was not replaced before it was asked for.
FreshAnswers == Models!FreshAnswers

\* Roles agree with the audit.
AuditExplainsRoles == Roles!AuditExplainsRoles
\* The picture an account names exists.
ImageExists == Pictures!ImageExists
=============================================================================
