------------------------------- MODULE ModelJobs -------------------------------
(***************************************************************************)
(* The files of the model service (ml-service/jobs.py, predict.py):        *)
(* training and rollback under a lock on a file, the model in use and the  *)
(* one before it, the record of the last task, and the predictor's cache.  *)
(*                                                                         *)
(* An operation is split where it touches a file, because the process may  *)
(* die, or the disk refuse, between two of them.  A model is the number of *)
(* the task that made it; a replacement of the active file gives it a      *)
(* modification time of its own.                                           *)
(***************************************************************************)
EXTENDS Naturals

CONSTANTS
    Service,       \* threads of the service that answer management requests
    Cli,           \* runs of train.py
    Reader,        \* threads of the service that answer /predict
    MaxJobs,       \* bound: tasks submitted
    MaxRollbacks,  \* bound: rollbacks begun
    MaxFaults,     \* bound: failing file operations and dying processes
    nobody

VARIABLES
    active,     \* model.joblib: which model, and its modification time
    previous,   \* previous.joblib, 0 when absent
    record,     \* training-job.json
    lease,      \* who holds the lock on training.lock
    ready,      \* the service has built its ModelJobs
    work,       \* what each thread is doing
    cache,      \* the predictor's model: modification time noted, file loaded
    reader,     \* each prediction: modification time seen, file it was made from
    submitted, rollbacks, faults

vars == <<active, previous, record, lease, ready, work, cache, reader,
          submitted, rollbacks, faults>>

Thread == Service \cup Cli
Model == 0..MaxJobs
Stamp == 0..(MaxJobs + MaxRollbacks)

Idle == [at |-> "idle", job |-> 0, copy |-> 0]
NoCache == [seen |-> 0, of |-> 0]
NotAsked == [asked |-> FALSE, seen |-> 0, of |-> 0]

Training == {"queued", "running", "tested", "kept", "replaced"}
Restoring == {"checked", "staged", "swapped"}
Unfinished == {"queued", "running"}

TypeOK ==
    /\ active \in [model : Model, stamp : Stamp]
    /\ previous \in Model
    /\ record \in [job : Model,
                   status : Unfinished \cup {"none", "succeeded", "failed"}]
    /\ lease \in Thread \cup {nobody}
    /\ ready \in BOOLEAN
    /\ work \in [Thread -> [at : {"idle", "opening", "made"} \cup Training \cup Restoring,
                            job : Model, copy : Model]]
    /\ cache \in [seen : Stamp, of : Stamp]
    /\ reader \in [Reader -> [asked : BOOLEAN, seen : Stamp, of : Stamp]]
    /\ submitted \in Model /\ rollbacks \in 0..MaxRollbacks /\ faults \in 0..MaxFaults

Init ==
    /\ active = [model |-> 0, stamp |-> 0] /\ previous = 0
    /\ record = [job |-> 0, status |-> "none"]
    /\ lease = nobody /\ ready = FALSE
    /\ work = [p \in Thread |-> Idle]
    /\ cache = NoCache /\ reader = [r \in Reader |-> NotAsked]
    /\ submitted = 0 /\ rollbacks = 0 /\ faults = 0

files == <<active, previous>>
predictor == <<cache, reader>>
counters == <<submitted, rollbacks>>

Fault == faults < MaxFaults /\ faults' = faults + 1

Goes(p, step) == work' = [work EXCEPT ![p].at = step]
Ends(p) == work' = [work EXCEPT ![p] = Idle] /\ lease' = nobody
Saved(job, status) == record' = [job |-> job, status |-> status]

\* Mistake: the lock keeps out the threads of one process only.
FreeInProcess(p) == lease \notin (IF p \in Service THEN Service ELSE {p})

\* May p take the lock now?
Free(p) == lease = nobody

-----------------------------------------------------------------------------
(* Building ModelJobs: the service does it at its first management request  *)
(* (two requests may both do it), train.py at every run.  Without the lock  *)
(* the recovery is skipped.                                                 *)

Built(p) ==
    /\ ready' = (ready \/ p \in Service)
    /\ work' = [work EXCEPT ![p].at = IF p \in Cli THEN "made" ELSE "idle"]

Construct(p) ==
    /\ work[p].at = "idle"
    /\ p \in Service => ~ready
    /\ \/ Free(p) /\ lease' = p /\ Goes(p, "opening") /\ UNCHANGED ready
       \/ ~Free(p) /\ UNCHANGED lease /\ Built(p)
    /\ UNCHANGED <<files, record, predictor, counters, faults>>

\* __init__ under the lock: what a dead process left unfinished has failed.
Recover(p) ==
    /\ work[p].at = "opening"
    /\ IF record.status \in Unfinished THEN Saved(record.job, "failed")
                                       ELSE UNCHANGED record
    /\ lease' = nobody /\ Built(p)
    /\ UNCHANGED <<files, predictor, counters, faults>>

-----------------------------------------------------------------------------
(* Training *)

Submit(p) ==
    /\ work[p].at = (IF p \in Service THEN "idle" ELSE "made")
    /\ p \in Service => ready
    /\ submitted < MaxJobs
    /\ Free(p) /\ lease' = p
    /\ submitted' = submitted + 1
    /\ Saved(submitted', "queued")
    /\ work' = [work EXCEPT ![p] = [at |-> "queued", job |-> submitted', copy |-> 0]]
    /\ UNCHANGED <<files, ready, predictor, rollbacks, faults>>

\* BusyError ends the run of train.py; a request of the service answers 409.
Refused(p) ==
    /\ p \in Cli /\ work[p].at = "made" /\ ~Free(p)
    /\ work' = [work EXCEPT ![p] = Idle]
    /\ UNCHANGED <<files, record, lease, ready, predictor, counters, faults>>

Run(p) ==
    /\ work[p].at = "queued"
    /\ Saved(work[p].job, "running") /\ Goes(p, "running")
    /\ UNCHANGED <<files, lease, ready, predictor, counters, faults>>

\* The candidate was trained in a directory of its own and passed every test.
Tested(p) ==
    /\ work[p].at = "running"
    /\ Goes(p, "tested")
    /\ UNCHANGED <<files, record, lease, ready, predictor, counters, faults>>

Keep(p) ==
    /\ work[p].at = "tested"
    /\ previous' = IF active.model # 0 THEN active.model ELSE previous
    /\ Goes(p, "kept")
    /\ UNCHANGED <<active, record, lease, ready, predictor, counters, faults>>

Activate(p) ==
    /\ work[p].at = "kept"
    /\ active' = [model |-> work[p].job, stamp |-> active.stamp + 1]
    /\ Goes(p, "replaced")
    /\ UNCHANGED <<previous, record, lease, ready, predictor, counters, faults>>

Succeed(p) ==
    /\ work[p].at = "replaced"
    /\ Saved(work[p].job, "succeeded") /\ Ends(p)
    /\ UNCHANGED <<files, ready, predictor, counters, faults>>

\* Any exception in _train: the data or the candidate is refused, or a file
\* operation fails (and with it, perhaps, the saving of the failure).
TrainingFails(p) ==
    /\ work[p].at \in Training
    /\ \/ work[p].at = "running" /\ Saved(work[p].job, "failed") /\ UNCHANGED faults
       \/ Fault /\ (Saved(work[p].job, "failed") \/ UNCHANGED record)
    /\ Ends(p)
    /\ UNCHANGED <<files, ready, predictor, counters>>

-----------------------------------------------------------------------------
(* Rollback *)

Rollback(p) ==
    /\ p \in Service /\ ready /\ work[p].at = "idle"
    /\ rollbacks < MaxRollbacks
    /\ Free(p) /\ previous # 0
    /\ lease' = p /\ rollbacks' = rollbacks + 1
    /\ Goes(p, "checked")
    /\ UNCHANGED <<files, record, ready, predictor, submitted, faults>>

\* Both files are copied beside the two that will be replaced.
Stage(p) ==
    /\ work[p].at = "checked"
    /\ work' = [work EXCEPT ![p] = [at |-> "staged", job |-> previous, copy |-> active.model]]
    /\ UNCHANGED <<files, record, lease, ready, predictor, counters, faults>>

\* Mistake: the file of the model before is moved, not exchanged.
SwapPreviousMoved(p) ==
    /\ work[p].at = "staged"
    /\ previous' = 0
    /\ Goes(p, "swapped")
    /\ UNCHANGED <<active, record, lease, ready, predictor, counters, faults>>

SwapPrevious(p) ==
    /\ work[p].at = "staged"
    /\ previous' = work[p].copy
    /\ Goes(p, "swapped")
    /\ UNCHANGED <<active, record, lease, ready, predictor, counters, faults>>

SwapActive(p) ==
    /\ work[p].at = "swapped"
    /\ active' = [model |-> work[p].job, stamp |-> active.stamp + 1]
    /\ Ends(p)
    /\ UNCHANGED <<previous, record, ready, predictor, counters, faults>>

RollbackFails(p) ==
    /\ work[p].at \in Restoring
    /\ Fault /\ Ends(p)
    /\ UNCHANGED <<files, record, ready, predictor, counters>>

-----------------------------------------------------------------------------
(* Prediction: the modification time is read before the predictor's lock is *)
(* taken, the file is loaded under it.                                      *)

Ask(r) ==
    /\ active.model # 0
    /\ reader' = [reader EXCEPT ![r] = [asked |-> TRUE, seen |-> active.stamp, of |-> 0]]
    /\ UNCHANGED <<files, record, lease, ready, work, cache, counters, faults>>

\* Mistake: a model once loaded is used until the process ends.
StaleOnce(seen) == cache.of = 0

Stale(seen) == cache.of = 0 \/ cache.seen # seen

Predict(r) ==
    /\ reader[r].asked
    /\ cache' = IF Stale(reader[r].seen)
                THEN [seen |-> reader[r].seen, of |-> active.stamp]
                ELSE cache
    /\ reader' = [reader EXCEPT ![r].asked = FALSE, ![r].of = cache'.of]
    /\ UNCHANGED <<files, record, lease, ready, work, counters, faults>>

-----------------------------------------------------------------------------
(* A process dies: its lock is released, its threads and its cache are gone *)

Die(gone) ==
    /\ Fault
    /\ work' = [p \in Thread |-> IF p \in gone THEN Idle ELSE work[p]]
    /\ lease' = IF lease \in gone THEN nobody ELSE lease
    /\ UNCHANGED <<files, record, counters>>

ServiceDies ==
    /\ Die(Service) /\ ready' = FALSE
    /\ cache' = NoCache /\ reader' = [r \in Reader |-> NotAsked]

CliDies(p) ==
    /\ work[p] # Idle /\ Die({p})
    /\ UNCHANGED <<ready, predictor>>

Next ==
    \/ \E p \in Thread :
        \/ Construct(p) \/ Recover(p)
        \/ Submit(p) \/ Refused(p) \/ Run(p) \/ Tested(p) \/ Keep(p)
        \/ Activate(p) \/ Succeed(p) \/ TrainingFails(p)
        \/ Rollback(p) \/ Stage(p) \/ SwapPrevious(p) \/ SwapActive(p)
        \/ RollbackFails(p)
    \/ \E r \in Reader : Ask(r) \/ Predict(r)
    \/ ServiceDies
    \/ \E p \in Cli : CliDies(p)

Spec == Init /\ [][Next]_vars

-----------------------------------------------------------------------------
(* Properties *)

\* Whatever fails and whenever, a model that leaves use is the one a rollback
\* brings back, and there is a model in use from the first training on.
\* docs/ml-management.md:7: a rollback exchanges the two versions.
LastModelIsKept ==
    [][active' # active => /\ active'.model # 0
                           /\ active.model # 0 => previous = active.model]_vars

\* A prediction is made from a model that was in use when it was asked for or
\* later, however replacements and other predictions interleave with the
\* reading of the file (predict.py:24-41).
FreshAnswers == \A r \in Reader : ~reader[r].asked => reader[r].of >= reader[r].seen
=============================================================================
