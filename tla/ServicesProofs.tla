--------------------------- MODULE ServicesProofs ---------------------------
(***************************************************************************)
(* What is proved about each part holds of the composition that TLC runs:  *)
(* a behaviour of Services is, for the variables of a part, a behaviour of *)
(* that part, whose theorem then speaks of it.  The part and the module of *)
(* its proofs are two instances of one specification (Same...).  The       *)
(* accounts and their pictures have their proofs here.                     *)
(* TelemetrySnapshot and NotificationDelivery run with either of two sets  *)
(* of values, and so are instantiated twice.                               *)
(***************************************************************************)
EXTENDS Services, Sequences, FiniteSetTheorems, TLAPS

USE DEF Rest

\* The part that runs is chosen once.
LEMMA PartStays ==
  /\ Next => part' = part
  /\ UNCHANGED vars => part' = part
<1>1. Next => part' = part
  BY DEF Next
<1>2. UNCHANGED vars => part' = part
  BY DEF vars
<1> QED
  BY <1>1, <1>2

-----------------------------------------------------------------------------
(* The simulator *)

\* SimulatorProofs speaks of the window and of the model service (Jobs!).
WP == INSTANCE SimulatorProofs WITH
  MaxCommands <- SimCommands, MaxFaults <- SimFaults, status <- sim_status,
  want <- sim_want, expired <- sim_expired, known <- sim_known, events <- sim_events,
  inbox <- sim_inbox, acks <- sim_acks, queued <- sim_queued, active <- sim_active,
  seen <- sim_seen, done <- sim_done, again <- sim_again, position <- sim_position,
  target <- sim_target, faults <- sim_faults,
  Service <- Process, Cli <- ModCli, Reader <- ModReader, MaxJobs <- ModJobs,
  MaxRollbacks <- ModRollbacks, MaxFailures <- ModFaults, nobody <- none,
  inUse <- mod_active, previous <- mod_previous, record <- mod_record,
  lease <- mod_lease, ready <- mod_ready, work <- mod_work, cache <- mod_cache,
  reader <- mod_reader, submitted <- mod_submitted, rollbacks <- mod_rollbacks,
  failures <- mod_faults

LEMMA SameSimulator ==
  /\ Simulator!Init <=> WP!Init
  /\ Simulator!Next <=> WP!Next
  /\ (UNCHANGED WP!vars <=> UNCHANGED simVars)
  /\ Simulator!TypeOK <=> WP!TypeOK
<1>1. Simulator!Init <=> WP!Init
  BY DEF Simulator!Init, WP!Init
<1>2. Simulator!Next <=> WP!Next
  <2>1. ASSUME NEW r PROVE Simulator!Ids(r) = WP!Ids(r)
    BY DEF Simulator!Ids, Simulator!Range, WP!Ids, WP!Range
  <2>2. ASSUME NEW r PROVE Simulator!Confirmed(r) = WP!Confirmed(r)
    BY <2>1 DEF Simulator!Confirmed, Simulator!Issued, WP!Confirmed, WP!Issued
  <2>3. Simulator!Drained = WP!Drained
    BY DEF Simulator!Drained, Simulator!Enqueued, Simulator!Accepted, WP!Drained,
         WP!Enqueued, WP!Accepted
  <2>4. Simulator!Take <=> WP!Take
    BY <2>1 DEF Simulator!Take, Simulator!server, Simulator!executor, Simulator!device,
         WP!Take, WP!server, WP!executor, WP!device
  <2>5. /\ Simulator!SendAck <=> WP!SendAck
        /\ Simulator!AnswerLost <=> WP!AnswerLost
        /\ Simulator!AckRefused <=> WP!AckRefused
    BY <2>1, <2>2 DEF Simulator!SendAck, Simulator!AnswerLost, Simulator!AckRefused,
         Simulator!server, Simulator!network, Simulator!executor, Simulator!device,
         WP!SendAck, WP!AnswerLost, WP!AckRefused, WP!server, WP!network, WP!executor,
         WP!device
  <2>6. /\ Simulator!Poll <=> WP!Poll
        /\ Simulator!Heartbeat <=> WP!Heartbeat
        /\ Simulator!Telemetry <=> WP!Telemetry
    BY DEF Simulator!Poll, Simulator!Heartbeat, Simulator!Issued, Simulator!SetToSeq,
         Simulator!IsInjective, Simulator!Cardinality, Simulator!server, Simulator!network,
         Simulator!executor, Simulator!device, Simulator!Telemetry, Simulator!Stale,
         Simulator!Range, WP!Poll, WP!Heartbeat, WP!Issued, WP!SetToSeq, WP!IsInjective,
         WP!Cardinality, WP!server, WP!network, WP!executor, WP!device, WP!Telemetry,
         WP!Stale, WP!Range
  <2>7. ASSUME NEW moves PROVE Simulator!Tick(moves) <=> WP!Tick(moves)
    BY <2>3 DEF Simulator!Tick, Simulator!Chosen, Simulator!Limit, Simulator!server,
         Simulator!network, WP!Tick, WP!Chosen, WP!Limit, WP!server, WP!network
  <2>8. ASSUME NEW open
        PROVE  /\ Simulator!Issue(open) <=> WP!Issue(open)
               /\ Simulator!Order(open) <=> WP!Order(open)
    BY DEF Simulator!Issue, Simulator!Order, Simulator!Issued, Simulator!Limit,
         Simulator!server, Simulator!network, Simulator!executor, Simulator!device,
         WP!Issue, WP!Order, WP!Issued, WP!Limit, WP!server, WP!network, WP!executor,
         WP!device
  <2>9. ASSUME NEW c PROVE Simulator!Expire(c) <=> WP!Expire(c)
    BY DEF Simulator!Expire, Simulator!network, Simulator!executor, Simulator!device,
         WP!Expire, WP!network, WP!executor, WP!device
  <2> QED
    BY <2>4, <2>5, <2>6, <2>7, <2>8, <2>9
    DEF Simulator!Next, Simulator!Issued, WP!Next, WP!Issued
<1>3. UNCHANGED WP!vars <=> UNCHANGED simVars
  BY DEF WP!vars, WP!server, WP!network, WP!executor, WP!device, simVars
<1>4. Simulator!TypeOK <=> WP!TypeOK
  BY DEF Simulator!Issued, Simulator!TypeOK, WP!Issued, WP!TypeOK
<1> QED
  BY <1>1, <1>2, <1>3, <1>4

LEMMA SimulatorBehaves == Spec => WP!Spec
<1>1. Init => WP!Init
  BY SameSimulator DEF Init
<1>2. [Next]_vars => [WP!Next]_WP!vars
  <2>1. Next => Simulator!Next \/ UNCHANGED simVars
    BY DEF Next
  <2>2. UNCHANGED vars => UNCHANGED simVars
    BY DEF vars
  <2> QED
    BY <2>1, <2>2, SameSimulator
<1> QED
  BY <1>1, <1>2, PTL DEF Spec, WP!Spec

\* Once the newest command is confirmed, no command moves the simulator's window
\* (networking/workers.py, devices/command_executor.py).
THEOREM NewestAlwaysStands == Spec => NewestStands
<1>1. [sim_status # <<>> /\ WP!Last(sim_status) = "applied" /\ sim_faults' = sim_faults
         => sim_target' = sim_target]_WP!vars
      => [sim_status # <<>> /\ Simulator!Last(sim_status) = "applied"
            /\ sim_faults' = sim_faults => sim_target' = sim_target]_Simulator!vars
  <2>1. UNCHANGED WP!vars => UNCHANGED Simulator!vars
    BY DEF WP!vars, WP!server, WP!network, WP!executor, WP!device, Simulator!vars,
         Simulator!server, Simulator!network, Simulator!executor, Simulator!device
  <2> QED
    BY <2>1 DEF WP!Last, Simulator!Last
<1> QED
  BY <1>1, SimulatorBehaves, WP!NewestAlwaysStands, PTL
  DEF NewestStands, Simulator!NewestStands, WP!NewestStands

-----------------------------------------------------------------------------
(* The model service *)

LEMMA SameModels ==
  /\ Models!Init <=> WP!Jobs!Init
  /\ Models!Next <=> WP!Jobs!Next
  /\ (UNCHANGED WP!Jobs!vars <=> UNCHANGED modVars)
  /\ Models!FreshAnswers <=> WP!Jobs!FreshAnswers
  /\ Models!TypeOK <=> WP!Jobs!TypeOK
<1>1. Models!Init <=> WP!Jobs!Init
  BY DEF Models!Thread, Models!Idle, Models!NoCache, Models!NotAsked, Models!Init,
       WP!Jobs!Thread, WP!Jobs!Idle, WP!Jobs!NoCache, WP!Jobs!NotAsked, WP!Jobs!Init
<1>2. Models!Next <=> WP!Jobs!Next
  BY DEF Models!Thread, Models!Idle, Models!NoCache, Models!NotAsked, Models!Training,
       Models!Restoring, Models!Unfinished, Models!files, Models!predictor, Models!counters,
       Models!Fault, Models!Goes, Models!Ends, Models!Saved, Models!Free, Models!Built,
       Models!Construct, Models!Recover, Models!Submit, Models!Refused, Models!Run,
       Models!Tested, Models!Keep, Models!Activate, Models!Succeed, Models!TrainingFails,
       Models!Rollback, Models!Stage, Models!SwapPrevious, Models!SwapActive,
       Models!RollbackFails, Models!Ask, Models!Stale, Models!Predict, Models!Die,
       Models!ServiceDies, Models!CliDies, Models!Next, WP!Jobs!Thread, WP!Jobs!Idle,
       WP!Jobs!NoCache, WP!Jobs!NotAsked, WP!Jobs!Training, WP!Jobs!Restoring,
       WP!Jobs!Unfinished, WP!Jobs!files, WP!Jobs!predictor, WP!Jobs!counters,
       WP!Jobs!Fault, WP!Jobs!Goes, WP!Jobs!Ends, WP!Jobs!Saved, WP!Jobs!Free,
       WP!Jobs!Built, WP!Jobs!Construct, WP!Jobs!Recover, WP!Jobs!Submit, WP!Jobs!Refused,
       WP!Jobs!Run, WP!Jobs!Tested, WP!Jobs!Keep, WP!Jobs!Activate, WP!Jobs!Succeed,
       WP!Jobs!TrainingFails, WP!Jobs!Rollback, WP!Jobs!Stage, WP!Jobs!SwapPrevious,
       WP!Jobs!SwapActive, WP!Jobs!RollbackFails, WP!Jobs!Ask, WP!Jobs!Stale,
       WP!Jobs!Predict, WP!Jobs!Die, WP!Jobs!ServiceDies, WP!Jobs!CliDies, WP!Jobs!Next
<1>3. UNCHANGED WP!Jobs!vars <=> UNCHANGED modVars
  BY DEF WP!Jobs!vars, modVars
<1>4. Models!FreshAnswers <=> WP!Jobs!FreshAnswers
  BY DEF Models!FreshAnswers, WP!Jobs!FreshAnswers
<1>5. Models!TypeOK <=> WP!Jobs!TypeOK
  BY DEF Models!Thread, Models!Model, Models!Stamp, Models!Training, Models!Restoring,
       Models!Unfinished, Models!TypeOK, WP!Jobs!Thread, WP!Jobs!Model, WP!Jobs!Stamp,
       WP!Jobs!Training, WP!Jobs!Restoring, WP!Jobs!Unfinished, WP!Jobs!TypeOK
<1> QED
  BY <1>1, <1>2, <1>3, <1>4, <1>5

LEMMA ModelsBehaves == Spec => WP!Jobs!Spec
<1>1. Init => WP!Jobs!Init
  BY SameModels DEF Init
<1>2. [Next]_vars => [WP!Jobs!Next]_WP!Jobs!vars
  <2>1. Next => Models!Next \/ UNCHANGED modVars
    BY DEF Next
  <2>2. UNCHANGED vars => UNCHANGED modVars
    BY DEF vars
  <2> QED
    BY <2>1, <2>2, SameModels
<1> QED
  BY <1>1, <1>2, PTL DEF Spec, WP!Jobs!Spec

\* The model that leaves use is kept for a rollback (ml-service/jobs.py).
THEOREM LastModelStaysKept == Spec => LastModelIsKept
<1>1. none \notin WP!Jobs!Thread
  BY Values DEF WP!Jobs!Thread
<1>2. WP!Jobs!Spec => WP!Jobs!LastModelIsKept
  BY <1>1, WP!ReplacedModelIsKept
<1> DEFINE Kept == /\ mod_active'.model # 0
                   /\ mod_active.model # 0 => mod_previous = mod_active.model
<1>3. [mod_active' # mod_active => Kept]_WP!Jobs!vars
        => [mod_active' # mod_active => Kept]_Models!vars
  <2>1. UNCHANGED WP!Jobs!vars => UNCHANGED Models!vars
    BY DEF WP!Jobs!vars, WP!Jobs!files, WP!Jobs!predictor, Models!vars, Models!files,
         Models!predictor
  <2> QED
    BY <2>1
<1> QED
  BY <1>2, <1>3, ModelsBehaves, PTL
  DEF LastModelIsKept, Models!LastModelIsKept, WP!Jobs!LastModelIsKept

\* A forecast is made with a model that was in use when it was asked for or later
\* (ml-service/predict.py:24-41).
THEOREM AnswersAlwaysFresh == Spec => []FreshAnswers
<1>1. WP!Jobs!FreshAnswers => FreshAnswers
  BY SameModels DEF FreshAnswers
<1> QED
  BY <1>1, WP!AnswersAreFresh, ModelsBehaves, PTL

-----------------------------------------------------------------------------
(* Accounts and their pictures.                                            *)
(*                                                                         *)
(* The picture an account names is stored.  What keeps it so is that the   *)
(* file of a new picture is written before the account names it, and that  *)
(* no other request can know its name; and that the file a request is      *)
(* about to remove is one the account named before and names no more.      *)

Drawing(r) == ava_request[r].at \in {"storing", "stored"}
Removing(r) == ava_request[r].at \in {"updated", "cleared"}

Uploads(n) == [at : Pictures!Steps, user : AvaUser \cup {Pictures!Ready.user},
               old : 0..n, new : 0..n]

AlbumShape ==
  /\ ava_images \in Nat /\ ava_faults \in Nat
  /\ ava_image \in [AvaUser -> 0..ava_images]
  /\ ava_request \in [Process -> Uploads(ava_images)]
  /\ \A r \in Process : ava_request[r].at # "ready" => ava_request[r].user \in AvaUser

\* The name of a picture on its way is nobody else's.
NewIsNew ==
  \A r \in Process : Drawing(r) =>
    /\ ava_request[r].new # 0
    /\ \A u \in AvaUser : ava_image[u] # ava_request[r].new
    /\ \A q \in Process : /\ ava_request[q].old # ava_request[r].new
                          /\ Drawing(q) /\ ava_request[q].new = ava_request[r].new => q = r

\* A removal takes the name from the account; an upload has no such name yet.
ClearsHaveNoNew == \A r \in Process : ava_request[r].at = "clearing" => ava_request[r].new = 0

\* A picture to be removed is not the account's, and never will be again.
OldIsPast ==
  \A r \in Process : Removing(r) /\ ava_request[r].old # 0 =>
    ava_image[ava_request[r].user] # ava_request[r].old

StoredIsThere ==
  \A r \in Process : ava_request[r].at = "stored" /\ ava_request[r].user \notin ava_gone =>
    Pictures!New(r) \in ava_files

GoneNamesNone == \A u \in ava_gone : u \in AvaUser => ava_image[u] = 0

AlbumInv ==
  /\ AlbumShape /\ NewIsNew /\ ClearsHaveNoNew /\ OldIsPast /\ StoredIsThere /\ GoneNamesNone
  /\ Pictures!ImageExists

USE DEF Drawing, Removing, Uploads

-----------------------------------------------------------------------------
LEMMA AlbumInitially == Pictures!Init => AlbumInv
<1> SUFFICES ASSUME Pictures!Init PROVE AlbumInv
  OBVIOUS
<1>1. Pictures!Ready \in Uploads(0)
  BY DEF Pictures!Ready, Pictures!Steps
<1>2. \A r \in Process : ava_request[r].at = "ready"
  BY DEF Pictures!Init, Pictures!Ready
<1>3. AlbumShape
  BY <1>1, <1>2 DEF Pictures!Init, AlbumShape
<1>4. NewIsNew /\ ClearsHaveNoNew /\ OldIsPast /\ StoredIsThere
  BY <1>2 DEF NewIsNew, ClearsHaveNoNew, OldIsPast, StoredIsThere
<1>5. GoneNamesNone /\ Pictures!ImageExists
  BY DEF Pictures!Init, GoneNamesNone, Pictures!ImageExists
<1> QED
  BY <1>3, <1>4, <1>5 DEF AlbumInv

LEMMA AlbumStutters ==
  ASSUME AlbumInv, UNCHANGED Pictures!vars
  PROVE  AlbumInv'
BY DEF AlbumInv, Pictures!vars, AlbumShape, NewIsNew, ClearsHaveNoNew, OldIsPast, StoredIsThere,
       GoneNamesNone, Pictures!ImageExists, Pictures!New, Pictures!Ready

\* The requests after one of them became idle.
LEMMA EndsAlbum ==
  ASSUME AlbumShape, NEW r \in Process, Pictures!Ends(r)
  PROVE  /\ ava_request' \in [Process -> Uploads(ava_images)]
         /\ ava_request'[r] = Pictures!Ready
         /\ \A q \in Process : q # r => ava_request'[q] = ava_request[q]
         /\ Pictures!Ready.at = "ready" /\ Pictures!Ready.old = 0 /\ Pictures!Ready.new = 0
<1>1. Pictures!Ready \in Uploads(ava_images)
      /\ Pictures!Ready.at = "ready" /\ Pictures!Ready.old = 0 /\ Pictures!Ready.new = 0
  BY DEF AlbumShape, Pictures!Ready, Pictures!Steps
<1> QED
  BY <1>1 DEF AlbumShape, Pictures!Ends

\* A request takes a step: only its position changes.
LEMMA GoesAlbum ==
  ASSUME AlbumShape, NEW r \in Process, NEW step \in Pictures!Steps, Pictures!Goes(r, step)
  PROVE  /\ ava_request' \in [Process -> Uploads(ava_images)]
         /\ ava_request'[r].at = step /\ ava_request'[r].user = ava_request[r].user
         /\ ava_request'[r].old = ava_request[r].old /\ ava_request'[r].new = ava_request[r].new
         /\ \A q \in Process : q # r => ava_request'[q] = ava_request[q]
BY DEF AlbumShape, Pictures!Goes

-----------------------------------------------------------------------------
LEMMA DrawKeeps ==
  ASSUME AlbumInv, NEW r \in Process, NEW u \in AvaUser, Pictures!Draw(r, u)
  PROVE  AlbumInv'
<1> DEFINE new == [at |-> "storing", user |-> u, old |-> ava_image[u], new |-> ava_images + 1]
<1>1. /\ ava_images' = ava_images + 1 /\ ava_image' = ava_image /\ ava_files' = ava_files
      /\ ava_gone' = ava_gone /\ ava_unheard' = ava_unheard /\ ava_faults' = ava_faults
      /\ AlbumShape
  BY DEF Pictures!Draw, AlbumInv
<1>2. /\ ava_request' = [ava_request EXCEPT ![r] = new]
      /\ ava_image[u] \in 0..ava_images
  BY <1>1 DEF Pictures!Draw, AlbumShape
<1>3. /\ ava_request'[r] = new
      /\ \A q \in Process : q # r => ava_request'[q] = ava_request[q]
  BY <1>1, <1>2 DEF AlbumShape
<1>4. ava_images + 1 \in Nat /\ 0..ava_images \subseteq 0..(ava_images + 1)
  BY <1>1 DEF AlbumShape
<1>5. new \in Uploads(ava_images + 1)
  BY <1>1, <1>2, <1>4 DEF Pictures!Steps, AlbumShape
<1>6. AlbumShape'
  <2>1. \A q \in Process :
          ava_request[q] \in Uploads(ava_images + 1)
    BY <1>1, <1>4 DEF AlbumShape
  <2>2. ava_request' \in [Process -> Uploads(ava_images + 1)]
    BY <1>1, <1>2, <1>5, <2>1 DEF AlbumShape
  <2>3. ava_image' \in [AvaUser -> 0..(ava_images + 1)]
    BY <1>1, <1>4 DEF AlbumShape
  <2>4. Pictures!Ready' = Pictures!Ready
    BY DEF Pictures!Ready
  <2> QED
    BY <1>1, <1>3, <1>4, <2>2, <2>3, <2>4 DEF AlbumShape
<1>7. NewIsNew'
  <2>1. \A v \in AvaUser : ava_image[v] # ava_images + 1
    BY <1>1 DEF AlbumShape
  <2>2. \A q \in Process : /\ ava_request[q].old # ava_images + 1
                           /\ ava_request[q].new # ava_images + 1
    BY <1>1 DEF AlbumShape
  <2>3. ava_image[u] # ava_images + 1 /\ ava_images + 1 # 0
    BY <1>1, <1>2 DEF AlbumShape
  <2> SUFFICES ASSUME NEW p \in Process, Drawing(p)'
      PROVE /\ ava_request'[p].new # 0
            /\ \A v \in AvaUser : ava_image'[v] # ava_request'[p].new
            /\ \A q \in Process :
                 /\ ava_request'[q].old # ava_request'[p].new
                 /\ Drawing(q)' /\ ava_request'[q].new = ava_request'[p].new => q = p
    BY DEF NewIsNew
  <2>4. CASE p = r
    BY <2>1, <2>2, <2>3, <2>4, <1>1, <1>3
  <2>5. CASE p # r
    BY <2>2, <2>5, <1>1, <1>3 DEF AlbumInv, NewIsNew
  <2> QED
    BY <2>4, <2>5
<1>8. (ClearsHaveNoNew /\ OldIsPast /\ StoredIsThere)'
  BY <1>1, <1>3 DEF AlbumInv, ClearsHaveNoNew, OldIsPast, StoredIsThere, Pictures!New
<1>9. (GoneNamesNone /\ Pictures!ImageExists)'
  BY <1>1 DEF AlbumInv, GoneNamesNone, Pictures!ImageExists
<1> QED
  BY <1>6, <1>7, <1>8, <1>9 DEF AlbumInv

LEMMA StoreKeeps ==
  ASSUME AlbumInv, NEW r \in Process, Pictures!Store(r)
  PROVE  AlbumInv'
<1>1. /\ AlbumShape /\ ava_request[r].at = "storing" /\ Pictures!Goes(r, "stored")
      /\ ava_files' = ava_files \cup {Pictures!New(r)}
      /\ UNCHANGED <<ava_gone, ava_image, ava_unheard, ava_images, ava_faults>>
  BY DEF Pictures!Store, AlbumInv
<1>2. "stored" \in Pictures!Steps
      /\ Pictures!Ready' = Pictures!Ready
  BY DEF Pictures!Steps, Pictures!Ready
<1>3. AlbumShape'
  BY <1>1, <1>2, GoesAlbum DEF AlbumShape
<1>4. NewIsNew'
  BY <1>1, <1>2, GoesAlbum DEF AlbumInv, NewIsNew
<1>5. (ClearsHaveNoNew /\ OldIsPast)'
  BY <1>1, <1>2, GoesAlbum DEF AlbumInv, ClearsHaveNoNew, OldIsPast
<1>6. StoredIsThere'
  BY <1>1, <1>2, GoesAlbum DEF AlbumInv, StoredIsThere, Pictures!New
<1>7. (GoneNamesNone /\ Pictures!ImageExists)'
  BY <1>1 DEF AlbumInv, GoneNamesNone, Pictures!ImageExists
<1> QED
  BY <1>3, <1>4, <1>5, <1>6, <1>7 DEF AlbumInv

LEMMA ClearKeeps ==
  ASSUME AlbumInv, NEW r \in Process, NEW u \in AvaUser, Pictures!Clear(r, u)
  PROVE  AlbumInv'
<1> DEFINE new == [at |-> "clearing", user |-> u, old |-> ava_image[u], new |-> 0]
<1>1. /\ AlbumShape /\ ava_request' = [ava_request EXCEPT ![r] = new]
      /\ UNCHANGED <<ava_gone, ava_image, ava_files, ava_unheard, ava_images, ava_faults>>
      /\ ava_image[u] \in 0..ava_images
      /\ Pictures!Ready' = Pictures!Ready
  BY DEF Pictures!Clear, AlbumInv, AlbumShape, Pictures!Ready
<1>2. /\ ava_request'[r] = new
      /\ \A q \in Process : q # r => ava_request'[q] = ava_request[q]
  BY <1>1 DEF AlbumShape
<1>3. new \in Uploads(ava_images)
  BY <1>1 DEF AlbumShape, Pictures!Steps
<1>4. AlbumShape'
  BY <1>1, <1>2, <1>3 DEF AlbumShape
<1>5. NewIsNew'
  BY <1>1, <1>2 DEF AlbumInv, NewIsNew
<1>6. (ClearsHaveNoNew /\ OldIsPast /\ StoredIsThere)'
  BY <1>1, <1>2 DEF AlbumInv, ClearsHaveNoNew, OldIsPast, StoredIsThere, Pictures!New
<1>7. (GoneNamesNone /\ Pictures!ImageExists)'
  BY <1>1 DEF AlbumInv, GoneNamesNone, Pictures!ImageExists
<1> QED
  BY <1>4, <1>5, <1>6, <1>7 DEF AlbumInv

\* The account names the new picture: its file was stored, and it is nobody's old one.
LEMMA UpdateKeeps ==
  ASSUME AlbumInv, NEW r \in Process, Pictures!Update(r)
  PROVE  AlbumInv'
<1> DEFINE u == ava_request[r].user
           step == IF ava_request[r].at = "stored" THEN "updated" ELSE "cleared"
<1>1. /\ AlbumShape /\ ava_request[r].at \in {"stored", "clearing"}
      /\ u \in AvaUser /\ u \notin ava_gone
      /\ ava_image' = [ava_image EXCEPT ![u] = ava_request[r].new]
      /\ Pictures!Goes(r, step)
      /\ UNCHANGED <<ava_gone, ava_files, ava_unheard, ava_images, ava_faults>>
  BY DEF Pictures!Update, AlbumInv, AlbumShape
<1>2. /\ step \in Pictures!Steps /\ step \in {"updated", "cleared"}
     
      /\ Pictures!Ready' = Pictures!Ready
  BY DEF Pictures!Steps, Pictures!Ready
<1>3. /\ ava_image'[u] = ava_request[r].new
      /\ \A v \in AvaUser : v # u => ava_image'[v] = ava_image[v]
      /\ ava_request[r].new \in 0..ava_images
  BY <1>1 DEF AlbumShape
<1> HIDE DEF step
<1>4. AlbumShape'
  BY <1>1, <1>2, <1>3, GoesAlbum DEF AlbumShape
<1>5. \A p \in Process : p # r /\ Drawing(p) => ava_request[p].new # ava_request[r].new
  BY <1>1 DEF AlbumInv, NewIsNew, ClearsHaveNoNew
<1>6. NewIsNew'
  BY <1>1, <1>2, <1>3, <1>5, GoesAlbum DEF AlbumInv, NewIsNew
<1>7. ClearsHaveNoNew'
  BY <1>1, <1>2, GoesAlbum DEF AlbumInv, ClearsHaveNoNew
<1>8. OldIsPast'
  <2>1. \A p \in Process : ava_request[p].old # 0 => ava_request[p].old # ava_request[r].new
    BY <1>1 DEF AlbumInv, NewIsNew, ClearsHaveNoNew
  <2> SUFFICES ASSUME NEW p \in Process, Removing(p)', ava_request'[p].old # 0
      PROVE ava_image'[ava_request'[p].user] # ava_request'[p].old
    BY DEF OldIsPast
  <2>2. CASE p = r
    BY <2>1, <2>2, <1>1, <1>2, <1>3, GoesAlbum
  <2>3. CASE p # r
    <3>1. ava_request'[p] = ava_request[p] /\ Removing(p) /\ ava_request[p].user \in AvaUser
      BY <2>3, <1>1, <1>2, GoesAlbum DEF AlbumShape
    <3> QED
      BY <3>1, <2>1, <1>3 DEF AlbumInv, OldIsPast
  <2> QED
    BY <2>2, <2>3
<1>9. StoredIsThere'
  BY <1>1, <1>2, GoesAlbum DEF AlbumInv, StoredIsThere, Pictures!New
<1>10. GoneNamesNone'
  BY <1>1, <1>3 DEF AlbumInv, GoneNamesNone
<1>11. Pictures!ImageExists'
  <2>1. ava_request[r].new # 0 => <<u, ava_request[r].new>> \in ava_files
    BY <1>1 DEF AlbumInv, StoredIsThere, ClearsHaveNoNew, Pictures!New
  <2> QED
    BY <2>1, <1>1, <1>3 DEF AlbumInv, Pictures!ImageExists
<1> QED
  BY <1>4, <1>6, <1>7, <1>8, <1>9, <1>10, <1>11 DEF AlbumInv

LEMMA UpdateFailsKeeps ==
  ASSUME AlbumInv, NEW r \in Process, Pictures!UpdateFails(r)
  PROVE  AlbumInv'
<1> DEFINE u == ava_request[r].user
<1>1. /\ AlbumShape /\ ava_request[r].at \in {"stored", "clearing"} /\ u \in AvaUser
      /\ ava_files' = ava_files \ {Pictures!New(r)} /\ Pictures!Ends(r)
      /\ UNCHANGED <<ava_gone, ava_images>>
     
      /\ Pictures!Ready' = Pictures!Ready
  BY DEF Pictures!UpdateFails, AlbumInv, AlbumShape, Pictures!Ready
<1>2. \/ UNCHANGED <<ava_image, ava_unheard, ava_faults>>
      \/ /\ u \notin ava_gone /\ ava_faults' = ava_faults + 1
         /\ ava_image' = [ava_image EXCEPT ![u] = ava_request[r].new]
         /\ ava_unheard' = ava_unheard \cup {Pictures!New(r)}
  BY DEF Pictures!UpdateFails
<1>3. /\ ava_request[r].new \in 0..ava_images /\ ava_faults' \in Nat
      /\ ava_image' \in [AvaUser -> 0..ava_images]
  BY <1>1, <1>2 DEF AlbumShape
<1>4. \A v \in AvaUser : \/ ava_image'[v] = ava_image[v]
                      \/ /\ v = u /\ u \notin ava_gone
                         /\ ava_image'[v] = ava_request[r].new
                         /\ Pictures!New(r) \in ava_unheard'
  BY <1>1, <1>2 DEF AlbumShape
<1>5. /\ ava_request'[r].at = "ready"
      /\ \A q \in Process : q # r => ava_request'[q] = ava_request[q]
      /\ ava_request'[r].old = 0
  BY <1>1, EndsAlbum
<1>6. AlbumShape'
  BY <1>1, <1>3, <1>5, EndsAlbum DEF AlbumShape
<1>7. \A p \in Process : p # r /\ Drawing(p) => ava_request[p].new # ava_request[r].new
  BY <1>1 DEF AlbumInv, NewIsNew, ClearsHaveNoNew
<1>8. NewIsNew'
  <2> SUFFICES ASSUME NEW p \in Process, Drawing(p)'
      PROVE /\ ava_request'[p].new # 0
            /\ \A v \in AvaUser : ava_image'[v] # ava_request'[p].new
            /\ \A q \in Process :
                 /\ ava_request'[q].old # ava_request'[p].new
                 /\ Drawing(q)' /\ ava_request'[q].new = ava_request'[p].new => q = p
    BY DEF NewIsNew
  <2>1. p # r /\ ava_request'[p] = ava_request[p] /\ Drawing(p)
    BY <1>5
  <2>2. ava_request[p].new # 0 /\ \A v \in AvaUser : ava_image'[v] # ava_request[p].new
    BY <2>1, <1>4, <1>7 DEF AlbumInv, NewIsNew
  <2> QED
    BY <2>1, <2>2, <1>5 DEF AlbumInv, NewIsNew
<1>9. ClearsHaveNoNew'
  BY <1>5 DEF AlbumInv, ClearsHaveNoNew
<1>10. OldIsPast'
  <2>1. \A p \in Process : ava_request[p].old # 0 => ava_request[p].old # ava_request[r].new
    BY <1>1 DEF AlbumInv, NewIsNew, ClearsHaveNoNew
  <2>2. \A p \in Process : Removing(p)' =>
          /\ p # r /\ ava_request'[p] = ava_request[p]
          /\ Removing(p) /\ ava_request[p].user \in AvaUser
    BY <1>1, <1>5 DEF AlbumShape
  <2> QED
    BY <2>1, <2>2, <1>4 DEF AlbumInv, OldIsPast
<1>11. StoredIsThere'
  <2> SUFFICES ASSUME NEW p \in Process, ava_request'[p].at = "stored",
                      ava_request'[p].user \notin ava_gone'
      PROVE Pictures!New(p)' \in ava_files'
    BY DEF StoredIsThere
  <2>1. p # r /\ ava_request'[p] = ava_request[p]
    BY <1>5
  <2>2. Pictures!New(p) \in ava_files /\ ava_request[p].new # ava_request[r].new
    BY <2>1, <1>1, <1>7 DEF AlbumInv, StoredIsThere
  <2> QED
    BY <2>1, <2>2, <1>1 DEF Pictures!New
<1>12. GoneNamesNone'
  BY <1>1, <1>4 DEF AlbumInv, GoneNamesNone
<1>13. Pictures!ImageExists'
  <2> SUFFICES ASSUME NEW v \in AvaUser, ava_image'[v] # 0
      PROVE <<v, ava_image'[v]>> \in ava_files' \cup ava_unheard'
    BY DEF Pictures!ImageExists
  <2>1. CASE ava_image'[v] = ava_image[v]
    <3>1. <<v, ava_image[v]>> \in ava_files \cup ava_unheard
      BY <2>1 DEF AlbumInv, Pictures!ImageExists
    <3>2. ava_image[v] # ava_request[r].new
      BY <2>1, <1>1 DEF AlbumInv, NewIsNew, ClearsHaveNoNew
    <3>3. ava_unheard \subseteq ava_unheard'
      BY <1>2
    <3> QED
      BY <2>1, <3>1, <3>2, <3>3, <1>1 DEF Pictures!New
  <2>2. CASE ava_image'[v] # ava_image[v]
    BY <2>2, <1>4 DEF Pictures!New
  <2> QED
    BY <2>1, <2>2
<1> QED
  BY <1>6, <1>8, <1>9, <1>10, <1>11, <1>12, <1>13 DEF AlbumInv

\* What is removed is no account's picture, and no picture on its way.
LEMMA ForgetKeeps ==
  ASSUME AlbumInv, NEW r \in Process, Pictures!Forget(r)
  PROVE  AlbumInv'
<1>1. /\ AlbumShape /\ Removing(r) /\ Pictures!Ends(r)
      /\ ava_files \ {Pictures!Old(r)} \subseteq ava_files'
      /\ UNCHANGED <<ava_gone, ava_image, ava_unheard, ava_images, ava_faults>>
     
      /\ Pictures!Ready' = Pictures!Ready
  BY DEF Pictures!Forget, AlbumInv, Pictures!Ready
<1>2. /\ ava_request'[r].at = "ready" /\ ava_request'[r].old = 0
      /\ \A q \in Process : q # r => ava_request'[q] = ava_request[q]
  BY <1>1, EndsAlbum
<1>3. AlbumShape'
  BY <1>1, <1>2, EndsAlbum DEF AlbumShape
<1>4. NewIsNew'
  BY <1>1, <1>2 DEF AlbumInv, NewIsNew
<1>5. (ClearsHaveNoNew /\ OldIsPast)'
  BY <1>1, <1>2 DEF AlbumInv, ClearsHaveNoNew, OldIsPast
<1>6. StoredIsThere'
  <2> SUFFICES ASSUME NEW p \in Process, ava_request'[p].at = "stored",
                      ava_request'[p].user \notin ava_gone'
      PROVE Pictures!New(p)' \in ava_files'
    BY DEF StoredIsThere
  <2>1. p # r /\ ava_request'[p] = ava_request[p]
    BY <1>2
  <2>2. Pictures!New(p) \in ava_files /\ ava_request[p].new # ava_request[r].old
    BY <2>1, <1>1 DEF AlbumInv, StoredIsThere, NewIsNew
  <2> QED
    BY <2>1, <2>2, <1>1 DEF Pictures!New, Pictures!Old
<1>7. GoneNamesNone'
  BY <1>1 DEF AlbumInv, GoneNamesNone
<1>8. Pictures!ImageExists'
  <2> SUFFICES ASSUME NEW v \in AvaUser, ava_image[v] # 0
      PROVE <<v, ava_image[v]>> \in ava_files' \cup ava_unheard
    BY <1>1 DEF Pictures!ImageExists
  <2>1. <<v, ava_image[v]>> \in ava_files \cup ava_unheard
    BY DEF AlbumInv, Pictures!ImageExists
  <2>2. <<v, ava_image[v]>> # Pictures!Old(r)
    BY <1>1 DEF AlbumInv, OldIsPast, Pictures!Old
  <2> QED
    BY <2>1, <2>2, <1>1
<1> QED
  BY <1>3, <1>4, <1>5, <1>6, <1>7, <1>8 DEF AlbumInv

LEMMA DeleteUserKeeps ==
  ASSUME AlbumInv, NEW u \in AvaUser, Pictures!DeleteUser(u)
  PROVE  AlbumInv'
<1>1. /\ AlbumShape /\ ava_gone' = ava_gone \cup {u} /\ ava_image' = [ava_image EXCEPT ![u] = 0]
      /\ UNCHANGED <<ava_files, ava_unheard, ava_request, ava_images, ava_faults>>
      /\ Pictures!Ready' = Pictures!Ready
  BY DEF Pictures!DeleteUser, AlbumInv, Pictures!Ready
<1>2. /\ \A v \in AvaUser : ava_image'[v] \in {0, ava_image[v]}
      /\ ava_image'[u] = 0
      /\ ava_image' \in [AvaUser -> 0..ava_images]
  BY <1>1 DEF AlbumShape
<1>3. AlbumShape'
  BY <1>1, <1>2 DEF AlbumShape
<1>4. NewIsNew'
  BY <1>1, <1>2 DEF AlbumInv, NewIsNew
<1>5. (ClearsHaveNoNew /\ StoredIsThere)'
  BY <1>1 DEF AlbumInv, ClearsHaveNoNew, StoredIsThere, Pictures!New
<1>6. OldIsPast'
  <2>1. \A p \in Process : Removing(p) => ava_request[p].user \in AvaUser
    BY <1>1 DEF AlbumShape
  <2> QED
    BY <2>1, <1>1, <1>2 DEF AlbumInv, OldIsPast
<1>7. (GoneNamesNone /\ Pictures!ImageExists)'
  BY <1>1, <1>2 DEF AlbumInv, GoneNamesNone, Pictures!ImageExists
<1> QED
  BY <1>3, <1>4, <1>5, <1>6, <1>7 DEF AlbumInv

LEMMA RemoveKeeps ==
  ASSUME AlbumInv, NEW u \in AvaUser, Pictures!RemoveUserAvatars(u)
  PROVE  AlbumInv'
<1>1. /\ u \in ava_gone /\ ava_files' = {f \in ava_files : f[1] # u}
      /\ UNCHANGED <<ava_gone, ava_image, ava_unheard, ava_request, ava_images, ava_faults>>
      /\ Pictures!Ready' = Pictures!Ready
  BY DEF Pictures!RemoveUserAvatars, Pictures!Ready
<1>2. (AlbumShape /\ NewIsNew /\ ClearsHaveNoNew /\ OldIsPast /\ GoneNamesNone)'
  BY <1>1 DEF AlbumInv, AlbumShape, NewIsNew, ClearsHaveNoNew, OldIsPast, GoneNamesNone
<1>3. StoredIsThere'
  BY <1>1 DEF AlbumInv, StoredIsThere, Pictures!New
<1>4. Pictures!ImageExists'
  BY <1>1 DEF AlbumInv, Pictures!ImageExists, GoneNamesNone
<1> QED
  BY <1>2, <1>3, <1>4 DEF AlbumInv

-----------------------------------------------------------------------------
\* For any number of accounts, requests and pictures: the picture an account
\* names is stored, but for an update whose answer was lost (the order of
\* api/profile/avatar/route.ts:87-106: write the file, update the row, remove
\* the file before).
THEOREM PictureIsStored == Pictures!Spec => []Pictures!ImageExists
<1>1. AlbumInv /\ [Pictures!Next]_(Pictures!vars) => AlbumInv'
  <2> SUFFICES ASSUME AlbumInv, [Pictures!Next]_(Pictures!vars) PROVE AlbumInv'
    OBVIOUS
  <2>1. ASSUME NEW r \in Process, \/ Pictures!Store(r) \/ Pictures!Update(r)
                                  \/ Pictures!UpdateFails(r) \/ Pictures!Forget(r)
        PROVE  AlbumInv'
    BY <2>1, StoreKeeps, UpdateKeeps, UpdateFailsKeeps, ForgetKeeps
  <2>2. ASSUME NEW r \in Process, NEW u \in AvaUser, Pictures!Draw(r, u) \/ Pictures!Clear(r, u)
        PROVE  AlbumInv'
    BY <2>2, DrawKeeps, ClearKeeps
  <2>3. ASSUME NEW u \in AvaUser, Pictures!DeleteUser(u) \/ Pictures!RemoveUserAvatars(u)
        PROVE  AlbumInv'
    BY <2>3, DeleteUserKeeps, RemoveKeeps
  <2>4. CASE UNCHANGED Pictures!vars
    BY <2>4, AlbumStutters
  <2> QED
    BY <2>1, <2>2, <2>3, <2>4 DEF Pictures!Next
<1>2. AlbumInv => Pictures!ImageExists
  BY DEF AlbumInv
<1> QED
  BY AlbumInitially, <1>1, <1>2, PTL DEF Pictures!Spec

-----------------------------------------------------------------------------
\* A picture is somebody's, and there is a bound of them.
Albums == AvaUser # {} /\ AvaImages \in Nat /\ AvaFaults \in Nat

LEMMA ReadyPicture ==
  ASSUME Albums
  PROVE  /\ Pictures!Ready \in [at : Pictures!Steps, user : AvaUser,
                                old : Pictures!Image, new : Pictures!Image]
         /\ 0 \in Pictures!Image
BY DEF Albums, Pictures!Ready, Pictures!Steps, Pictures!Image

\* A step keeps the types.
LEMMA PicturesTypeStep ==
  ASSUME Albums, Pictures!TypeOK, [Pictures!Next]_(Pictures!vars)
  PROVE  Pictures!TypeOK'
<1> USE DEF Pictures!TypeOK
<1> DEFINE Req == [at : Pictures!Steps, user : AvaUser,
                   old : Pictures!Image, new : Pictures!Image]
<1>0. /\ Pictures!Ready \in Req /\ 0 \in Pictures!Image
      /\ \A i \in Pictures!Image : i < AvaImages => i + 1 \in Pictures!Image
      /\ \A i \in 0..AvaFaults : i < AvaFaults => i + 1 \in 0..AvaFaults
  BY ReadyPicture DEF Albums, Pictures!Image
<1>1. ASSUME NEW r \in Process
      PROVE  /\ ava_request[r] \in Req
             /\ Pictures!Old(r) \in AvaUser \X Pictures!Image
             /\ Pictures!New(r) \in AvaUser \X Pictures!Image
  BY DEF Pictures!Old, Pictures!New
<1>2. ASSUME NEW r \in Process, NEW step \in Pictures!Steps, Pictures!Goes(r, step)
      PROVE  ava_request' \in [Process -> Req]
  BY <1>2 DEF Pictures!Goes
<1>3. ASSUME NEW r \in Process, Pictures!Ends(r)
      PROVE  ava_request' \in [Process -> Req]
  BY <1>0, <1>3 DEF Pictures!Ends
<1>4. ASSUME NEW r \in Process, NEW u \in AvaUser, Pictures!Draw(r, u)
      PROVE  Pictures!TypeOK'
  <2>1. ava_images' \in Pictures!Image
    BY <1>0, <1>4 DEF Pictures!Draw
  <2>2. [at |-> "storing", user |-> u, old |-> ava_image[u], new |-> ava_images'] \in Req
    BY <2>1 DEF Pictures!Steps
  <2> QED
    BY <1>4, <2>1, <2>2 DEF Pictures!Draw
<1>5. ASSUME NEW r \in Process, Pictures!Store(r)
      PROVE  Pictures!TypeOK'
  BY <1>1, <1>2, <1>5 DEF Pictures!Store, Pictures!Steps
<1>6. ASSUME NEW r \in Process, NEW u \in AvaUser, Pictures!Clear(r, u)
      PROVE  Pictures!TypeOK'
  <2>1. [at |-> "clearing", user |-> u, old |-> ava_image[u], new |-> 0] \in Req
    BY <1>0 DEF Pictures!Steps
  <2> QED
    BY <1>6, <2>1 DEF Pictures!Clear
<1>7. ASSUME NEW r \in Process, Pictures!Update(r)
      PROVE  Pictures!TypeOK'
  <2>1. ava_request' \in [Process -> Req]
    BY <1>2, <1>7 DEF Pictures!Update, Pictures!Steps
  <2>2. ava_image' \in [AvaUser -> Pictures!Image]
    BY <1>1, <1>7 DEF Pictures!Update
  <2> QED
    BY <1>7, <2>1, <2>2 DEF Pictures!Update
<1>8. ASSUME NEW r \in Process, Pictures!UpdateFails(r)
      PROVE  Pictures!TypeOK'
  <2>1. ava_request' \in [Process -> Req] /\ UNCHANGED <<ava_gone, ava_images>>
    BY <1>3, <1>8 DEF Pictures!UpdateFails
  <2>2. ava_files' \in SUBSET (AvaUser \X Pictures!Image)
    BY <1>8 DEF Pictures!UpdateFails
  <2>3. /\ ava_image' \in [AvaUser -> Pictures!Image]
        /\ ava_unheard' \in SUBSET (AvaUser \X Pictures!Image)
        /\ ava_faults' \in 0..AvaFaults
    BY <1>0, <1>1, <1>8 DEF Pictures!UpdateFails
  <2> QED
    BY <2>1, <2>2, <2>3
<1>9. ASSUME NEW r \in Process, Pictures!Forget(r)
      PROVE  Pictures!TypeOK'
  BY <1>3, <1>9 DEF Pictures!Forget
<1>10. ASSUME NEW u \in AvaUser, Pictures!DeleteUser(u) \/ Pictures!RemoveUserAvatars(u)
       PROVE  Pictures!TypeOK'
  BY <1>0, <1>10 DEF Pictures!DeleteUser, Pictures!RemoveUserAvatars
<1>11. CASE UNCHANGED Pictures!vars
  BY <1>11 DEF Pictures!vars
<1> QED
  BY <1>4, <1>5, <1>6, <1>7, <1>8, <1>9, <1>10, <1>11 DEF Pictures!Next

\* Pictures are those of accounts, and no step names one beyond the uploaded ones.
THEOREM PicturesTypeOK == ASSUME Albums PROVE Pictures!Spec => []Pictures!TypeOK
<1>1. Pictures!Init => Pictures!TypeOK
  BY ReadyPicture DEF Albums, Pictures!Init, Pictures!TypeOK
<1>2. Pictures!TypeOK /\ [Pictures!Next]_(Pictures!vars) => Pictures!TypeOK'
  BY PicturesTypeStep
<1> QED
  BY <1>1, <1>2, PTL DEF Pictures!Spec

HIDE DEF Drawing, Removing, Uploads

LEMMA PicturesBehaves == Spec => Pictures!Spec
<1>1. Init => Pictures!Init
  BY DEF Init
<1>2. [Next]_vars => [Pictures!Next]_(Pictures!vars)
  <2>1. Next => Pictures!Next \/ UNCHANGED avaVars
    BY DEF Next
  <2>2. UNCHANGED vars => UNCHANGED avaVars
    BY DEF vars
  <2>3. UNCHANGED avaVars => UNCHANGED Pictures!vars
    BY DEF avaVars, Pictures!vars
  <2> QED
    BY <2>1, <2>2, <2>3
<1> QED
  BY <1>1, <1>2, PTL DEF Spec, Pictures!Spec

\* The picture an account names is stored (api/profile/avatar/route.ts:87-106).
THEOREM ImageAlwaysExists == Spec => []ImageExists
<1>1. Pictures!ImageExists => ImageExists
  BY DEF ImageExists
<1> QED
  BY <1>1, PictureIsStored, PicturesBehaves, PTL

-----------------------------------------------------------------------------
(* The audit explains the roles.  An account that never was has no entry,  *)
(* and the hook of the signing up, which runs after the account is there   *)
(* and so after other changes of its role, only fills a row that is        *)
(* missing.                                                                *)

Change == [at : {"ready"} \cup Roles!Asked, user : AccUser \cup {Roles!Ready.user},
           role : Roles!Roles]

AccShape ==
  /\ acc_role \in [AccUser -> Roles!Roles \cup {"absent", "none"}]
  /\ acc_audit \in [AccUser -> Roles!Roles \cup {""}]
  /\ acc_request \in [Process -> Change]
  /\ \A r \in Process : acc_request[r].at # "ready" => acc_request[r].user \in AccUser

\* An account that can still sign up was never spoken of.
FreshUnspoken == \A u \in AccUser : Roles!Fresh(u) => acc_audit[u] = ""

AccInv == AccShape /\ FreshUnspoken /\ Roles!AuditExplainsRoles

USE DEF Change, Roles!Exists, Roles!Fresh, Roles!Roles, Roles!Asked

-----------------------------------------------------------------------------
LEMMA ReadyType ==
  /\ Roles!Ready \in Change
  /\ Roles!Ready.at = "ready"
  /\ Roles!Ready' = Roles!Ready
BY DEF Roles!Ready

LEMMA InitAccInv == Roles!Init => AccInv
<1> SUFFICES ASSUME Roles!Init PROVE AccInv
  OBVIOUS
<1>1. \A r \in Process : acc_request[r] = Roles!Ready
  BY DEF Roles!Init
<1>2. AccShape
  BY <1>1, ReadyType DEF Roles!Init, AccShape
<1>3. \A u \in AccUser : acc_role[u] = "absent" /\ acc_audit[u] = ""
  BY DEF Roles!Init
<1>4. FreshUnspoken /\ Roles!AuditExplainsRoles
  BY <1>3 DEF FreshUnspoken, Roles!AuditExplainsRoles
<1> QED
  BY <1>2, <1>4 DEF AccInv

LEMMA EndsAccShape ==
  ASSUME AccShape, NEW r \in Process, Roles!Ends(r)
  PROVE  /\ acc_request' \in [Process -> Change]
         /\ \A q \in Process : acc_request'[q].at # "ready" => acc_request'[q].user \in AccUser
BY ReadyType DEF AccShape, Roles!Ends

LEMMA GoesAccShape ==
  ASSUME AccShape, NEW r \in Process, acc_request[r].at # "ready", NEW step \in Roles!Asked,
         Roles!Goes(r, step)
  PROVE  /\ acc_request' \in [Process -> Change]
         /\ \A q \in Process : acc_request'[q].at # "ready" => acc_request'[q].user \in AccUser
BY DEF AccShape, Roles!Goes

\* Steps that leave the accounts alone.
LEMMA AccountsStay ==
  ASSUME AccInv, UNCHANGED Roles!accounts, AccShape'
  PROVE  AccInv'
BY DEF AccInv, Roles!accounts, FreshUnspoken, Roles!AuditExplainsRoles

-----------------------------------------------------------------------------
LEMMA BecomingKeeps ==
  ASSUME AccInv, NEW u \in AccUser, Roles!SignUp(u) \/ Roles!Hook(u) \/ Roles!Bootstrap(u)
  PROVE  AccInv'
<1>1. AccShape /\ UNCHANGED acc_request
  BY DEF AccInv, Roles!SignUp, Roles!Hook, Roles!Bootstrap
<1>2. CASE Roles!SignUp(u)
  <2>1. acc_role' = [acc_role EXCEPT ![u] = "none"] /\ UNCHANGED <<acc_hooked, acc_audit>>
        /\ Roles!Fresh(u) /\ acc_audit[u] = ""
    BY <1>2 DEF Roles!SignUp, AccInv, FreshUnspoken
  <2>2. AccShape'
    BY <1>1, <2>1, ReadyType DEF AccShape
  <2>3. FreshUnspoken' /\ Roles!AuditExplainsRoles'
    BY <1>1, <2>1 DEF AccInv, AccShape, FreshUnspoken, Roles!AuditExplainsRoles
  <2> QED
    BY <2>2, <2>3 DEF AccInv
<1>3. CASE Roles!Hook(u)
  <2>1. /\ Roles!Exists(u) /\ acc_hooked' = acc_hooked \cup {u} /\ UNCHANGED acc_audit
        /\ acc_role' = [acc_role EXCEPT ![u] = IF @ = "none" THEN "user" ELSE @]
    BY <1>3 DEF Roles!Hook
  <2>2. AccShape'
    BY <1>1, <2>1, ReadyType DEF AccShape
  <2>3. /\ acc_role'[u] = IF acc_role[u] = "none" THEN "user" ELSE acc_role[u]
        /\ \A v \in AccUser : v # u => acc_role'[v] = acc_role[v]
    BY <1>1, <2>1 DEF AccShape
  <2>4. acc_audit[u] # "none"
    BY <1>1 DEF AccShape
  <2>5. FreshUnspoken' /\ Roles!AuditExplainsRoles'
    BY <2>1, <2>3, <2>4 DEF AccInv, FreshUnspoken, Roles!AuditExplainsRoles
  <2> QED
    BY <2>2, <2>5 DEF AccInv
<1>4. CASE Roles!Bootstrap(u)
  <2>1. /\ acc_role' = [acc_role EXCEPT ![u] = "owner"]
        /\ acc_audit' = [acc_audit EXCEPT ![u] = "owner"]
        /\ acc_hooked \subseteq acc_hooked'
    BY <1>4 DEF Roles!Bootstrap
  <2>2. AccShape'
    BY <1>1, <2>1, ReadyType DEF AccShape
  <2>3. /\ acc_role'[u] = "owner" /\ acc_audit'[u] = "owner"
        /\ \A v \in AccUser : v # u => acc_role'[v] = acc_role[v] /\ acc_audit'[v] = acc_audit[v]
    BY <1>1, <2>1 DEF AccShape
  <2>4. FreshUnspoken' /\ Roles!AuditExplainsRoles'
    BY <2>1, <2>3 DEF AccInv, FreshUnspoken, Roles!AuditExplainsRoles
  <2> QED
    BY <2>2, <2>4 DEF AccInv
<1> QED
  BY <1>2, <1>3, <1>4

LEMMA EnterKeeps ==
  ASSUME AccInv, NEW r \in Process, Roles!Enter(r)
  PROVE  AccInv'
<1>1. PICK u \in AccUser, new \in {"user", "operator"} :
        \/ acc_request' = [acc_request EXCEPT ![r] =
             [Roles!Ready EXCEPT !.at = "patch", !.user = u, !.role = new]]
        \/ acc_request' = [acc_request EXCEPT ![r] =
             [Roles!Ready EXCEPT !.at = "delete", !.user = u]]
  BY DEF Roles!Enter
<1>2. UNCHANGED Roles!accounts
  BY DEF Roles!Enter
<1> DEFINE patch == [Roles!Ready EXCEPT !.at = "patch", !.user = u, !.role = new]
           delete == [Roles!Ready EXCEPT !.at = "delete", !.user = u]
<1>3. /\ patch \in Change
      /\ patch.user = u
  BY ReadyType
<1>4. /\ delete \in Change
      /\ delete.user = u
  BY ReadyType
<1>5. AccShape /\ Roles!Ready' = Roles!Ready
  BY ReadyType DEF AccInv
<1> HIDE DEF patch, delete
<1>6. PICK begun \in {patch, delete} : acc_request' = [acc_request EXCEPT ![r] = begun]
  BY <1>1 DEF patch, delete
<1>7. /\ begun \in Change
      /\ begun.user = u
  BY <1>3, <1>4
<1>8. AccShape'
  BY <1>2, <1>5, <1>6, <1>7 DEF AccShape, Roles!accounts
<1> QED
  BY <1>2, <1>8, AccountsStay

LEMMA WaitingKeeps ==
  ASSUME AccInv, NEW r \in Process,
         Roles!Authorize(r) \/ Roles!TimesOut(r) \/ Roles!Refuse(r) \/ Roles!Clean(r)
  PROVE  AccInv'
<1>1. UNCHANGED Roles!accounts /\ AccShape
  BY DEF AccInv, Roles!Authorize, Roles!TimesOut, Roles!Refuse, Roles!Clean
<1>2. CASE Roles!Authorize(r)
  <2>1. AccShape'
    BY <1>1, <1>2, GoesAccShape, ReadyType DEF Roles!Authorize, AccShape, Roles!accounts
  <2> QED
    BY <1>1, <2>1, AccountsStay
<1>3. CASE Roles!TimesOut(r) \/ Roles!Refuse(r) \/ Roles!Clean(r)
  <2>1. AccShape'
    BY <1>1, <1>3, EndsAccShape, ReadyType
    DEF Roles!TimesOut, Roles!Refuse, Roles!Clean, AccShape, Roles!accounts
  <2> QED
    BY <1>1, <2>1, AccountsStay
<1> QED
  BY <1>2, <1>3

LEMMA PatchKeeps ==
  ASSUME AccInv, NEW r \in Process, Roles!Patch(r)
  PROVE  AccInv'
<1> DEFINE u == acc_request[r].user
<1>1. /\ AccShape /\ u \in AccUser /\ Roles!Exists(u) /\ acc_request[r].role \in Roles!Roles
      /\ acc_role' = [acc_role EXCEPT ![u] = acc_request[r].role]
      /\ acc_audit' = [acc_audit EXCEPT ![u] = acc_request[r].role]
      /\ Roles!Ends(r) /\ UNCHANGED acc_hooked
  BY DEF AccInv, Roles!Patch, AccShape
<1>2. AccShape'
  BY <1>1, EndsAccShape, ReadyType DEF AccShape
<1>3. /\ acc_role'[u] = acc_request[r].role /\ acc_audit'[u] = acc_request[r].role
      /\ \A v \in AccUser : v # u => acc_role'[v] = acc_role[v] /\ acc_audit'[v] = acc_audit[v]
  BY <1>1 DEF AccShape
<1>4. FreshUnspoken' /\ Roles!AuditExplainsRoles'
  BY <1>1, <1>3 DEF AccInv, FreshUnspoken, Roles!AuditExplainsRoles
<1> QED
  BY <1>2, <1>4 DEF AccInv

LEMMA DeleteKeeps ==
  ASSUME AccInv, NEW r \in Process, Roles!Delete(r)
  PROVE  AccInv'
<1> DEFINE u == acc_request[r].user
<1>1. /\ AccShape /\ u \in AccUser /\ acc_request[r].at = "deleting"
      /\ acc_role' = [acc_role EXCEPT ![u] = "absent"]
      /\ acc_hooked' = acc_hooked \cup {u}
      /\ Roles!Goes(r, "cleaning") /\ UNCHANGED acc_audit
  BY DEF AccInv, Roles!Delete, AccShape
<1>2. AccShape'
  BY <1>1, GoesAccShape, ReadyType DEF AccShape
<1>3. FreshUnspoken' /\ Roles!AuditExplainsRoles'
  BY <1>1 DEF AccInv, AccShape, FreshUnspoken, Roles!AuditExplainsRoles
<1> QED
  BY <1>2, <1>3 DEF AccInv

-----------------------------------------------------------------------------
\* For any number of accounts and requests: an account has the role its last
\* audit entry gave it, or the one of signing up when there is none (auth.ts:66,
\* ON CONFLICT DO NOTHING; api/admin/users/[userId]/route.ts, PATCH).
THEOREM RolesAreExplained == Roles!Spec => []Roles!AuditExplainsRoles
<1>1. AccInv /\ [Roles!Next]_(Roles!vars) => AccInv'
  <2> SUFFICES ASSUME AccInv, [Roles!Next]_(Roles!vars) PROVE AccInv'
    OBVIOUS
  <2>1. ASSUME NEW u \in AccUser, Roles!SignUp(u) \/ Roles!Hook(u) \/ Roles!Bootstrap(u)
        PROVE  AccInv'
    BY <2>1, BecomingKeeps
  <2>2. ASSUME NEW r \in Process,
               Roles!Enter(r) \/ Roles!Authorize(r) \/ Roles!TimesOut(r) \/ Roles!Refuse(r)
               \/ Roles!Patch(r) \/ Roles!Delete(r) \/ Roles!Clean(r)
        PROVE  AccInv'
    BY <2>2, EnterKeeps, WaitingKeeps, PatchKeeps, DeleteKeeps
  <2>3. CASE UNCHANGED Roles!vars
    <3>1. UNCHANGED Roles!accounts /\ AccShape'
      BY <2>3, ReadyType DEF Roles!vars, Roles!accounts, AccInv, AccShape
    <3> QED
      BY <3>1, AccountsStay
  <2> QED
    BY <2>1, <2>2, <2>3 DEF Roles!Next
<1>2. AccInv => Roles!AuditExplainsRoles
  BY DEF AccInv
<1> QED
  BY InitAccInv, <1>1, <1>2, PTL DEF Roles!Spec





-----------------------------------------------------------------------------
\* There are accounts, and a number of requests and of connections.
Pool == /\ AccUser # {} /\ IsFiniteSet(Process)
        /\ AccPool \in Nat /\ AccChanges \in Nat

\* The requests that keep a connection.
Holding == {r \in Process : acc_request[r].at \in Roles!Asked}

Typed ==
  /\ acc_role \in [AccUser -> Roles!Roles \cup {"absent", "none"}]
  /\ acc_audit \in [AccUser -> Roles!Roles \cup {""}]
  /\ acc_hooked \subseteq AccUser /\ acc_changes \in 0..AccChanges
  /\ acc_request \in [Process -> [at : {"ready"} \cup Roles!Asked, user : AccUser,
                                  role : Roles!Roles]]
  /\ Cardinality(Holding) <= AccPool

LEMMA AccTypes == Roles!TypeOK <=> Typed
BY DEF Roles!TypeOK, Typed, Holding, Roles!Cardinality, Cardinality

\* What is under way after one request took a step, and how many hold a connection.
LEMMA HoldersKeep ==
  ASSUME Pool, Roles!TypeOK, NEW r \in Process, NEW c,
         acc_request' = [acc_request EXCEPT ![r] = c],
         c \in [at : {"ready"} \cup Roles!Asked, user : AccUser, role : Roles!Roles],
         c.at # "ready" => acc_request[r].at # "ready" \/ Roles!Unused > 0
  PROVE  /\ acc_request' \in [Process -> [at : {"ready"} \cup Roles!Asked, user : AccUser,
                                     role : Roles!Roles]]
         /\ Cardinality(Holding') <= AccPool
<1>1. acc_request' \in [Process -> [at : {"ready"} \cup Roles!Asked, user : AccUser,
                               role : Roles!Roles]]
  BY DEF Roles!TypeOK
<1>2. /\ acc_request'[r] = c
      /\ \A q \in Process : q # r => acc_request'[q] = acc_request[q]
  BY DEF Roles!TypeOK
<1>3. /\ IsFiniteSet(Holding) /\ Cardinality(Holding) \in Nat
      /\ Cardinality(Holding) <= AccPool
  <2>1. IsFiniteSet(Holding)
    BY FS_Subset DEF Pool, Holding
  <2>2. Cardinality(Holding) <= AccPool
    BY AccTypes DEF Typed
  <2> QED
    BY <2>1, <2>2, FS_CardinalityType
<1>4. CASE c.at = "ready" \/ r \in Holding
  <2>1. Holding' \subseteq Holding
    BY <1>2, <1>4 DEF Holding
  <2>2. Cardinality(Holding') <= Cardinality(Holding) /\ Cardinality(Holding') \in Nat
    BY <1>3, <2>1, FS_Subset, FS_CardinalityType
  <2> QED
    BY <1>1, <1>3, <2>2 DEF Pool
<1>5. CASE c.at # "ready" /\ r \notin Holding
  <2>1. acc_request[r].at = "ready"
    BY <1>5 DEF Roles!TypeOK, Holding
  <2>2. Roles!Unused > 0
    BY <1>5, <2>1
  <2>3. AccPool - Cardinality(Holding) > 0
    BY <2>2 DEF Roles!Unused, Holding, Roles!Cardinality, Cardinality
  <2>4. Holding' = Holding \cup {r}
    BY <1>2, <1>5 DEF Holding
  <2>5. Cardinality(Holding') = Cardinality(Holding) + 1
    BY <1>3, <1>5, <2>4, FS_AddElement
  <2> QED
    BY <1>1, <1>3, <2>3, <2>5 DEF Pool
<1> QED
  BY <1>4, <1>5

LEMMA RolesTypeStep ==
  ASSUME Pool, Roles!TypeOK, [Roles!Next]_(Roles!vars)
  PROVE  Roles!TypeOK'
<1> DEFINE Req == [at : {"ready"} \cup Roles!Asked, user : AccUser, role : Roles!Roles]
<1>1. Roles!Ready \in Req /\ Roles!Ready.at = "ready"
  BY DEF Pool, Roles!Ready
<1>2. /\ acc_role \in [AccUser -> Roles!Roles \cup {"absent", "none"}]
      /\ acc_audit \in [AccUser -> Roles!Roles \cup {""}] /\ acc_hooked \subseteq AccUser
      /\ acc_changes \in 0..AccChanges /\ acc_request \in [Process -> Req]
      /\ Cardinality(Holding) <= AccPool
  BY AccTypes DEF Typed
<1>3. ASSUME /\ acc_role' \in [AccUser -> Roles!Roles \cup {"absent", "none"}]
             /\ acc_audit' \in [AccUser -> Roles!Roles \cup {""}]
             /\ acc_hooked' \subseteq AccUser
             /\ acc_changes' \in 0..AccChanges /\ acc_request' \in [Process -> Req]
             /\ Cardinality(Holding') <= AccPool
      PROVE  Roles!TypeOK'
  <2>1. Typed'
    BY <1>3 DEF Typed
  <2> QED
    BY <2>1, AccTypes, PTL
<1>4. ASSUME NEW u \in AccUser, Roles!SignUp(u) \/ Roles!Hook(u) \/ Roles!Bootstrap(u)
      PROVE  Roles!TypeOK'
  <2>1. Cardinality(Holding') <= AccPool /\ acc_request' \in [Process -> Req]
        /\ acc_changes' \in 0..AccChanges
    BY <1>2, <1>4 DEF Roles!SignUp, Roles!Hook, Roles!Bootstrap, Holding
  <2>2. acc_hooked' \subseteq AccUser
    <3>1. acc_hooked' \in {acc_hooked, acc_hooked \cup {u}}
      BY <1>4 DEF Roles!SignUp, Roles!Hook, Roles!Bootstrap
    <3> QED
      BY <1>2, <3>1
  <2>3. acc_role' \in [AccUser -> Roles!Roles \cup {"absent", "none"}]
        /\ acc_audit' \in [AccUser -> Roles!Roles \cup {""}]
    <3>1. CASE Roles!SignUp(u)
      BY <1>2, <3>1 DEF Roles!SignUp
    <3>2. CASE Roles!Hook(u)
      <4>1. acc_role[u] \in Roles!Roles \cup {"absent", "none"}
        BY <1>2
      <4> QED
        BY <1>2, <3>2, <4>1 DEF Roles!Hook
    <3>3. CASE Roles!Bootstrap(u)
      BY <1>2, <3>3 DEF Roles!Bootstrap
    <3> QED
      BY <1>4, <3>1, <3>2, <3>3
  <2> QED
    BY <1>3, <2>1, <2>2, <2>3
<1>5. ASSUME NEW r \in Process, Roles!Enter(r)
      PROVE  Roles!TypeOK'
  <2>1. PICK u \in AccUser, new \in {"user", "operator"} :
          \/ acc_request' = [acc_request EXCEPT ![r] =
               [Roles!Ready EXCEPT !.at = "patch", !.user = u, !.role = new]]
          \/ acc_request' = [acc_request EXCEPT ![r] =
               [Roles!Ready EXCEPT !.at = "delete", !.user = u]]
    BY <1>5 DEF Roles!Enter
  <2> DEFINE patch == [Roles!Ready EXCEPT !.at = "patch", !.user = u, !.role = new]
             delete == [Roles!Ready EXCEPT !.at = "delete", !.user = u]
  <2>5. patch \in Req /\ delete \in Req
    BY <1>1
  <2> HIDE DEF patch, delete
  <2>2. PICK c \in Req : acc_request' = [acc_request EXCEPT ![r] = c]
    BY <2>1, <2>5 DEF patch, delete
  <2>3. acc_request' \in [Process -> Req] /\ Cardinality(Holding') <= AccPool
    <3>1. Roles!Unused > 0
      BY <1>5 DEF Roles!Enter
    <3> QED
      BY <2>2, <3>1, HoldersKeep
  <2>4. /\ acc_changes < AccChanges /\ acc_changes' = acc_changes + 1 /\ UNCHANGED Roles!accounts
    BY <1>5 DEF Roles!Enter
  <2>6. acc_changes' \in 0..AccChanges
    <3>1. acc_changes \in 0..AccChanges /\ AccChanges \in Nat
      BY <1>2 DEF Pool
    <3>2. acc_changes < AccChanges /\ acc_changes' = acc_changes + 1
      BY <2>4
    <3> QED
      BY <3>1, <3>2
  <2> QED
    BY <1>2, <1>3, <2>3, <2>4, <2>6 DEF Roles!accounts
<1>6. ASSUME NEW r \in Process, Roles!Authorize(r)
      PROVE  Roles!TypeOK'
  <2>1. PICK step \in {"patching", "deleting"} : Roles!Goes(r, step)
    BY <1>6 DEF Roles!Authorize
  <2>2. [acc_request[r] EXCEPT !.at = step] \in Req
    BY <1>2
  <2>3. /\ acc_request' = [acc_request EXCEPT ![r] = [acc_request[r] EXCEPT !.at = step]]
        /\ acc_request[r].at # "ready"
    BY <1>6, <2>1 DEF Roles!Goes, Roles!Authorize
  <2>4. acc_request' \in [Process -> Req] /\ Cardinality(Holding') <= AccPool
    BY <2>2, <2>3, HoldersKeep
  <2> QED
    BY <1>2, <1>3, <1>6, <2>4 DEF Roles!Authorize, Roles!accounts
<1>7. ASSUME NEW r \in Process, Roles!Ends(r)
      PROVE  acc_request' \in [Process -> Req] /\ Cardinality(Holding') <= AccPool
  BY <1>1, <1>7, HoldersKeep DEF Roles!Ends
<1>8. ASSUME NEW r \in Process, Roles!TimesOut(r) \/ Roles!Refuse(r) \/ Roles!Clean(r)
      PROVE  Roles!TypeOK'
  BY <1>2, <1>3, <1>7, <1>8 DEF Roles!TimesOut, Roles!Refuse, Roles!Clean, Roles!accounts
<1>9. ASSUME NEW r \in Process, Roles!Patch(r)
      PROVE  Roles!TypeOK'
  <2>1. acc_request[r].user \in AccUser /\ acc_request[r].role \in Roles!Roles
    BY <1>2
  <2>2. /\ acc_role' \in [AccUser -> Roles!Roles \cup {"absent", "none"}]
        /\ acc_audit' \in [AccUser -> Roles!Roles \cup {""}]
    BY <1>2, <1>9, <2>1 DEF Roles!Patch
  <2> QED
    BY <1>2, <1>3, <1>7, <1>9, <2>2 DEF Roles!Patch
<1>10. ASSUME NEW r \in Process, Roles!Delete(r)
       PROVE  Roles!TypeOK'
  <2>1. acc_request[r].user \in AccUser /\ [acc_request[r] EXCEPT !.at = "cleaning"] \in Req
    BY <1>2
  <2>2. /\ acc_request' = [acc_request EXCEPT ![r] = [acc_request[r] EXCEPT !.at = "cleaning"]]
        /\ acc_request[r].at # "ready"
    BY <1>10 DEF Roles!Goes, Roles!Delete
  <2>3. acc_request' \in [Process -> Req] /\ Cardinality(Holding') <= AccPool
    BY <2>1, <2>2, HoldersKeep
  <2>4. /\ acc_role' \in [AccUser -> Roles!Roles \cup {"absent", "none"}]
        /\ acc_hooked' \subseteq AccUser
    BY <1>2, <1>10, <2>1 DEF Roles!Delete
  <2> QED
    BY <1>2, <1>3, <1>10, <2>3, <2>4 DEF Roles!Delete
<1>11. CASE UNCHANGED Roles!vars
  BY <1>2, <1>3, <1>11 DEF Roles!vars, Holding
<1> QED
  BY <1>4, <1>5, <1>6, <1>8, <1>9, <1>10, <1>11 DEF Roles!Next

\* Every variable of the accounts has its type, and the owner's requests never keep more
\* connections than the pool has (api/admin/users, getAuthPool).
THEOREM RolesTypeOK == ASSUME Pool PROVE Roles!Spec => []Roles!TypeOK
<1>1. Roles!Init => Roles!TypeOK
  <2> SUFFICES ASSUME Roles!Init PROVE Roles!TypeOK
    OBVIOUS
  <2>1. /\ Roles!Ready \in [at : {"ready"} \cup Roles!Asked, user : AccUser, role : Roles!Roles]
        /\ Roles!Ready.at = "ready"
    BY DEF Pool, Roles!Ready
  <2>2. Holding = {}
    BY <2>1 DEF Roles!Init, Holding
  <2>3. Cardinality(Holding) <= AccPool
    BY <2>2, FS_EmptySet DEF Pool
  <2>4. acc_role \in [AccUser -> Roles!Roles \cup {"absent", "none"}]
        /\ acc_audit \in [AccUser -> Roles!Roles \cup {""}]
    BY DEF Roles!Init
  <2>5. acc_hooked \subseteq AccUser /\ acc_changes \in 0..AccChanges
    <3>1. acc_hooked = {} /\ acc_changes = 0
      BY DEF Roles!Init
    <3> QED
      BY <3>1 DEF Pool
  <2> QED
    BY <2>1, <2>3, <2>4, <2>5, AccTypes DEF Roles!Init, Typed
<1>2. Roles!TypeOK /\ [Roles!Next]_(Roles!vars) => Roles!TypeOK'
  BY RolesTypeStep
<1> QED
  BY <1>1, <1>2, PTL DEF Roles!Spec

HIDE DEF Change, Roles!Exists, Roles!Fresh, Roles!Roles, Roles!Asked

LEMMA RolesBehaves == Spec => Roles!Spec
<1>1. Init => Roles!Init
  BY DEF Init
<1>2. [Next]_vars => [Roles!Next]_(Roles!vars)
  <2>1. Next => Roles!Next \/ UNCHANGED accVars
    BY DEF Next
  <2>2. UNCHANGED vars => UNCHANGED accVars
    BY DEF vars
  <2>3. UNCHANGED accVars => UNCHANGED Roles!vars
    BY DEF accVars, Roles!vars
  <2> QED
    BY <2>1, <2>2, <2>3
<1> QED
  BY <1>1, <1>2, PTL DEF Spec, Roles!Spec

\* An account has the role its last entry in the audit gave it (auth.ts:66).
THEOREM RolesAlwaysExplained == Spec => []AuditExplainsRoles
<1>1. Roles!AuditExplainsRoles => AuditExplainsRoles
  BY DEF AuditExplainsRoles
<1> QED
  BY <1>1, RolesAreExplained, RolesBehaves, PTL

-----------------------------------------------------------------------------
(* Measurements *)

\* MeasurementIngestProofs speaks of measurements and of the snapshot (Tel!).
IP == INSTANCE MeasurementIngestProofs WITH
  Worker <- Process, Key <- IngKey, MaxFaults <- IngFaults, nobody <- none,
  measured <- ing_measured, forecast <- ing_forecast, status <- ing_status,
  advice <- ing_advice, answered <- ing_answered, inFlight <- ing_inFlight,
  job <- ing_job, faults <- ing_faults, MaxFrames <- TelFrames, MaxPrunes <- TelPrunes,
  frames <- tel_frames, arrived <- tel_arrived, kept <- tel_kept, boots <- tel_boots,
  head <- tel_head, told <- tel_told, report <- tel_report, prunes <- tel_prunes

LEMMA SameIngest ==
  /\ Ingest!Init <=> IP!Init
  /\ Ingest!Next <=> IP!Next
  /\ (UNCHANGED IP!vars <=> UNCHANGED ingVars)
  /\ Ingest!AnsweredIsDone <=> IP!AnsweredIsDone
  /\ Ingest!ForecastIsUsed <=> IP!ForecastIsUsed
  /\ Ingest!TypeOK <=> IP!TypeOK
<1>1. Ingest!Init <=> IP!Init
  BY DEF Ingest!Idle, Ingest!Init, IP!Idle, IP!Init
<1>2. Ingest!Next <=> IP!Next
  BY DEF Ingest!tables, Ingest!Idle, Ingest!Working, Ingest!Ingest, Ingest!Create,
       Ingest!Settled, Ingest!Historical, Ingest!Lookup, Ingest!Predict,
       Ingest!Outcome, Ingest!Advise, Ingest!Sharing, Ingest!Settle, Ingest!Answer,
       Ingest!Fail, Ingest!Crash, Ingest!Work, Ingest!Next, IP!tables, IP!Idle,
       IP!Working, IP!Ingest, IP!Create, IP!Settled, IP!Historical, IP!Lookup,
       IP!Predict, IP!Outcome, IP!Advise, IP!Sharing, IP!Settle, IP!Answer, IP!Fail,
       IP!Crash, IP!Work, IP!Next
<1>3. UNCHANGED IP!vars <=> UNCHANGED ingVars
  BY DEF IP!vars, ingVars
<1>4. Ingest!AnsweredIsDone <=> IP!AnsweredIsDone
  BY DEF Ingest!AnsweredIsDone, IP!AnsweredIsDone
<1>5. Ingest!ForecastIsUsed <=> IP!ForecastIsUsed
  BY DEF Ingest!ForecastIsUsed, IP!ForecastIsUsed
<1>6. Ingest!TypeOK <=> IP!TypeOK
  BY DEF Ingest!Idle, Ingest!Working, Ingest!TypeOK, IP!Idle, IP!Working, IP!TypeOK
<1> QED
  BY <1>1, <1>2, <1>3, <1>4, <1>5, <1>6

LEMMA IngestBehaves == Spec => IP!Spec
<1>1. Init => IP!Init
  BY SameIngest DEF Init
<1>2. [Next]_vars => [IP!Next]_IP!vars
  <2>1. Next => Ingest!Next \/ UNCHANGED ingVars
    BY DEF Next
  <2>2. UNCHANGED vars => UNCHANGED ingVars
    BY DEF vars
  <2> QED
    BY <2>1, <2>2, SameIngest
<1> QED
  BY <1>1, <1>2, PTL DEF Spec, IP!Spec

\* A measurement that was answered has its outcome and its advice (service.ts:83-170).
THEOREM AnsweredAlwaysDone == Spec => []AnsweredIsDone
<1>1. none \notin Process
  BY Values
<1>2. IP!Spec => []IP!AnsweredIsDone
  BY <1>1, IP!AnswersAreDone
<1>3. IP!AnsweredIsDone => AnsweredIsDone
  BY SameIngest DEF AnsweredIsDone
<1> QED
  BY <1>2, <1>3, IngestBehaves, PTL

\* A forecast that was saved is shown and used (service.ts:110-118).
THEOREM ForecastAlwaysUsed == Spec => []ForecastIsUsed
<1>1. none \notin Process
  BY Values
<1>2. IP!Spec => []IP!ForecastIsUsed
  BY <1>1, IP!ForecastsAreUsed
<1>3. IP!ForecastIsUsed => ForecastIsUsed
  BY SameIngest DEF ForecastIsUsed
<1> QED
  BY <1>2, <1>3, IngestBehaves, PTL

-----------------------------------------------------------------------------
(* The live snapshot *)

SP == INSTANCE MeasurementIngestProofs WITH
  Worker <- SesProcess, Key <- IngKey, MaxFaults <- IngFaults, nobody <- none,
  measured <- ing_measured, forecast <- ing_forecast, status <- ing_status,
  advice <- ing_advice, answered <- ing_answered, inFlight <- ing_inFlight,
  job <- ing_job, faults <- ing_faults, MaxFrames <- SesFrames, MaxPrunes <- 0,
  frames <- tel_frames, arrived <- tel_arrived, kept <- tel_kept, boots <- tel_boots,
  head <- tel_head, told <- tel_told, report <- tel_report, prunes <- tel_prunes

LEMMA SameTelemetry ==
  /\ Telemetry!Init <=> IP!Tel!Init
  /\ Telemetry!Next <=> IP!Tel!Next
  /\ (UNCHANGED IP!Tel!vars <=> UNCHANGED telVars)
  /\ Telemetry!TypeOK <=> IP!Tel!TypeOK
<1>1. Telemetry!Init <=> IP!Tel!Init
  BY DEF Telemetry!Init, IP!Tel!Init
<1>2. Telemetry!Next <=> IP!Tel!Next
  <2>1. ASSUME NEW restart, NEW synced
        PROVE  Telemetry!Make(restart, synced) <=> IP!Tel!Make(restart, synced)
    BY DEF Telemetry!Make, Telemetry!Boot, IP!Tel!Make, IP!Tel!Boot
  <2>2. ASSUME NEW n, NEW live
        PROVE  Telemetry!Supersedes(n, live) <=> IP!Tel!Supersedes(n, live)
    BY DEF Telemetry!Supersedes, Telemetry!Order, Telemetry!Boot,
         Telemetry!SelectInSeq, Telemetry!Min, Telemetry!Range, IP!Tel!Supersedes,
         IP!Tel!Order, IP!Tel!Boot, IP!Tel!SelectInSeq, IP!Tel!Min, IP!Tel!Range
  <2>3. ASSUME NEW n PROVE Telemetry!Row(n) = IP!Tel!Row(n)
    BY DEF Telemetry!Row, Telemetry!SelectLastInSeq, Telemetry!Max, IP!Tel!Row,
         IP!Tel!SelectLastInSeq, IP!Tel!Max
  <2>4. ASSUME NEW w, NEW n, NEW live, NEW fresh
        PROVE  Telemetry!Save(w, n, live, fresh) <=> IP!Tel!Save(w, n, live, fresh)
    BY <2>2, <2>3 DEF Telemetry!Save, Telemetry!Boot, Telemetry!Range, IP!Tel!Save,
         IP!Tel!Boot, IP!Tel!Range
  <2>5. ASSUME NEW w
        PROVE  /\ Telemetry!Report(w) <=> IP!Tel!Report(w)
               /\ Telemetry!Fail(w) <=> IP!Tel!Fail(w)
    BY DEF Telemetry!Report, Telemetry!Fail, IP!Tel!Report, IP!Tel!Fail
  <2>6. ASSUME NEW n PROVE Telemetry!Prune(n) <=> IP!Tel!Prune(n)
    BY <2>3 DEF Telemetry!Prune, Telemetry!Row, Telemetry!SelectLastInSeq,
         Telemetry!Max, IP!Tel!Prune, IP!Tel!Row, IP!Tel!SelectLastInSeq, IP!Tel!Max
  <2> QED
    BY <2>1, <2>4, <2>5, <2>6 DEF Telemetry!Next, Telemetry!N, IP!Tel!Next, IP!Tel!N
<1>3. UNCHANGED IP!Tel!vars <=> UNCHANGED telVars
  BY DEF IP!Tel!vars, telVars
<1>4. Telemetry!TypeOK <=> IP!Tel!TypeOK
  BY DEF Telemetry!N, Telemetry!Range, Telemetry!IsInjective, Telemetry!TypeOK, IP!Tel!N,
       IP!Tel!Range, IP!Tel!IsInjective, IP!Tel!TypeOK
<1> QED
  BY <1>1, <1>2, <1>3, <1>4

LEMMA SameSessions ==
  /\ Sessions!Init <=> SP!Tel!Init
  /\ Sessions!Next <=> SP!Tel!Next
  /\ (UNCHANGED SP!Tel!vars <=> UNCHANGED telVars)
  /\ Sessions!TypeOK <=> SP!Tel!TypeOK
<1>1. Sessions!Init <=> SP!Tel!Init
  BY DEF Sessions!Init, SP!Tel!Init
<1>2. Sessions!Next <=> SP!Tel!Next
  <2>1. ASSUME NEW restart, NEW synced
        PROVE  Sessions!Make(restart, synced) <=> SP!Tel!Make(restart, synced)
    BY DEF Sessions!Make, Sessions!Boot, SP!Tel!Make, SP!Tel!Boot
  <2>2. ASSUME NEW n, NEW live
        PROVE  Sessions!Supersedes(n, live) <=> SP!Tel!Supersedes(n, live)
    BY DEF Sessions!Supersedes, Sessions!Order, Sessions!Boot, Sessions!SelectInSeq,
         Sessions!Min, Sessions!Range, SP!Tel!Supersedes, SP!Tel!Order, SP!Tel!Boot,
         SP!Tel!SelectInSeq, SP!Tel!Min, SP!Tel!Range
  <2>3. ASSUME NEW n PROVE Sessions!Row(n) = SP!Tel!Row(n)
    BY DEF Sessions!Row, Sessions!SelectLastInSeq, Sessions!Max, SP!Tel!Row,
         SP!Tel!SelectLastInSeq, SP!Tel!Max
  <2>4. ASSUME NEW w, NEW n, NEW live, NEW fresh
        PROVE  Sessions!Save(w, n, live, fresh) <=> SP!Tel!Save(w, n, live, fresh)
    BY <2>2, <2>3 DEF Sessions!Save, Sessions!Boot, Sessions!Range, SP!Tel!Save,
         SP!Tel!Boot, SP!Tel!Range
  <2>5. ASSUME NEW w
        PROVE  /\ Sessions!Report(w) <=> SP!Tel!Report(w)
               /\ Sessions!Fail(w) <=> SP!Tel!Fail(w)
    BY DEF Sessions!Report, Sessions!Fail, SP!Tel!Report, SP!Tel!Fail
  <2>6. ASSUME NEW n PROVE Sessions!Prune(n) <=> SP!Tel!Prune(n)
    BY <2>3 DEF Sessions!Prune, Sessions!Row, Sessions!SelectLastInSeq, Sessions!Max,
         SP!Tel!Prune, SP!Tel!Row, SP!Tel!SelectLastInSeq, SP!Tel!Max
  <2> QED
    BY <2>1, <2>4, <2>5, <2>6 DEF Sessions!Next, Sessions!N, SP!Tel!Next, SP!Tel!N
<1>3. UNCHANGED SP!Tel!vars <=> UNCHANGED telVars
  BY DEF SP!Tel!vars, telVars
<1>4. Sessions!TypeOK <=> SP!Tel!TypeOK
  BY DEF Sessions!N, Sessions!Range, Sessions!IsInjective, Sessions!TypeOK, SP!Tel!N,
       SP!Tel!Range, SP!Tel!IsInjective, SP!Tel!TypeOK
<1> QED
  BY <1>1, <1>2, <1>3, <1>4

\* The snapshot runs with either of two instances.
InSessions == part = "sessions"

LEMMA TelemetryBehaves ==
  Spec => \/ IP!Tel!Spec /\ []~InSessions
          \/ SP!Tel!Spec /\ []InSessions
<1>1. Init /\ ~InSessions => IP!Tel!Init
  BY SameTelemetry DEF Init, InSessions
<1>2. Init /\ InSessions => SP!Tel!Init
  BY SameSessions DEF Init, InSessions
<1>3. ~InSessions /\ [Next]_vars => (~InSessions)' /\ [IP!Tel!Next]_IP!Tel!vars
  <2>1. ~InSessions /\ Next => Telemetry!Next \/ UNCHANGED telVars
    BY DEF Next, InSessions
  <2>2. UNCHANGED vars => UNCHANGED telVars
    BY DEF vars
  <2> QED
    BY <2>1, <2>2, PartStays, SameTelemetry DEF InSessions
<1>4. InSessions /\ [Next]_vars => InSessions' /\ [SP!Tel!Next]_SP!Tel!vars
  <2>1. InSessions /\ Next => Sessions!Next \/ UNCHANGED telVars
    BY DEF Next, InSessions
  <2>2. UNCHANGED vars => UNCHANGED telVars
    BY DEF vars
  <2> QED
    BY <2>1, <2>2, PartStays, SameSessions DEF InSessions
<1> QED
  BY <1>1, <1>2, <1>3, <1>4, PTL DEF Spec, IP!Tel!Spec, SP!Tel!Spec

\* The live snapshot never returns to a session it has left
\* (telemetry-store.ts, supersedes).
THEOREM SnapshotAlwaysMovesOn == Spec => SnapshotMovesOn
<1>1. IP!Tel!SnapshotMovesOn <=> SnapshotMovesOn
  BY PTL
  DEF SnapshotMovesOn, Telemetry!SnapshotMovesOn, Telemetry!vars, Telemetry!FirstHeard,
      Telemetry!Boot, Telemetry!SelectInSeq, Telemetry!Min, Telemetry!Range,
      IP!Tel!SnapshotMovesOn, IP!Tel!vars, IP!Tel!FirstHeard, IP!Tel!Boot,
      IP!Tel!SelectInSeq, IP!Tel!Min, IP!Tel!Range
<1>2. SP!Tel!SnapshotMovesOn <=> SnapshotMovesOn
  BY PTL
  DEF SnapshotMovesOn, Telemetry!SnapshotMovesOn, Telemetry!vars, Telemetry!FirstHeard,
      Telemetry!Boot, Telemetry!SelectInSeq, Telemetry!Min, Telemetry!Range,
      SP!Tel!SnapshotMovesOn, SP!Tel!vars, SP!Tel!FirstHeard, SP!Tel!Boot,
      SP!Tel!SelectInSeq, SP!Tel!Min, SP!Tel!Range
<1> QED
  BY <1>1, <1>2, IP!SnapshotOnlyMovesOn, SP!SnapshotOnlyMovesOn, TelemetryBehaves, PTL

-----------------------------------------------------------------------------
(* Conditions *)

\* NotificationProofs speaks of delivery and of conditions (Con!).
DP == INSTANCE NotificationProofs WITH
  Worker <- Process, Chat <- DelChat, Batch <- DelBatch, MaxEvents <- DelEvents,
  MaxFaults <- DelFaults, MaxChanges <- DelChanges, event <- del_event,
  settings <- del_settings, job <- del_job, calls <- del_calls, arrived <- del_arrived,
  faults <- del_faults, changes <- del_changes, Durations <- ConDurations,
  Suppressions <- ConPauses, MaxGap <- ConGap, MaxTime <- ConTime, MaxChecks <- ConChecks,
  clock <- con_clock, began <- con_began, condition <- con_condition,
  checks <- con_checks, events <- con_events, rules <- con_settings

LEMMA SameConditions ==
  /\ Conditions!Init <=> DP!Con!Init
  /\ Conditions!Next <=> DP!Con!Next
  /\ (UNCHANGED DP!Con!vars <=> UNCHANGED conVars)
  /\ Conditions!TypeOK <=> DP!Con!TypeOK
  /\ Conditions!EventsTellTheCondition <=> DP!Con!EventsTellTheCondition
<1>1. Conditions!Init <=> DP!Con!Init
  BY DEF Conditions!emptyCondition, Conditions!Init, DP!Con!emptyCondition, DP!Con!Init
<1>2. Conditions!Next <=> DP!Con!Next
  BY DEF Conditions!Seen, Conditions!emptyCondition, Conditions!Begin, Conditions!Pass,
       Conditions!Since, Conditions!Raises, Conditions!Active, Conditions!Stepped,
       Conditions!Recorded, Conditions!Check, Conditions!Fail,
       Conditions!SaveSettings, Conditions!SwitchMode, Conditions!Next, DP!Con!Seen,
       DP!Con!emptyCondition, DP!Con!Begin, DP!Con!Pass, DP!Con!Since, DP!Con!Raises,
       DP!Con!Active, DP!Con!Stepped, DP!Con!Recorded, DP!Con!Check, DP!Con!Fail,
       DP!Con!SaveSettings, DP!Con!SwitchMode, DP!Con!Next
<1>3. UNCHANGED DP!Con!vars <=> UNCHANGED conVars
  BY DEF DP!Con!vars, conVars
<1>4. Conditions!TypeOK <=> DP!Con!TypeOK
  BY DEF Conditions!Time, Conditions!Seen, Conditions!TypeOK, DP!Con!Time, DP!Con!Seen,
       DP!Con!TypeOK
<1>5. Conditions!EventsTellTheCondition <=> DP!Con!EventsTellTheCondition
  BY DEF Conditions!Alerted, Conditions!EventsTellTheCondition, Conditions!Last,
       DP!Con!Alerted, DP!Con!EventsTellTheCondition, DP!Con!Last
<1> QED
  BY <1>1, <1>2, <1>3, <1>4, <1>5

LEMMA ConditionsBehaves == Spec => DP!Con!Spec
<1>1. Init => DP!Con!Init
  BY SameConditions DEF Init
<1>2. [Next]_vars => [DP!Con!Next]_DP!Con!vars
  <2>1. Next => Conditions!Next \/ UNCHANGED conVars
    BY DEF Next
  <2>2. UNCHANGED vars => UNCHANGED conVars
    BY DEF vars
  <2> QED
    BY <2>1, <2>2, SameConditions
<1> QED
  BY <1>1, <1>2, PTL DEF Spec, DP!Con!Spec

\* Alerts and recoveries alternate and agree with the row (notifications.ts,
\* refreshEvents).
THEOREM EventsAlwaysTell == Spec => []EventsTellTheCondition
<1>1. DP!Numbers
  BY Values DEF DP!Numbers
<1>2. DP!Con!Spec => []DP!Con!EventsTellTheCondition
  BY <1>1, DP!EventsAlwaysTell
<1>3. DP!Con!EventsTellTheCondition => EventsTellTheCondition
  BY SameConditions DEF EventsTellTheCondition
<1> QED
  BY <1>2, <1>3, ConditionsBehaves, PTL

\* An operator is alerted when the settings say so and only then
\* (notification-policy.ts, stepCondition).
THEOREM AlertsAlwaysWhenDue == Spec => AlertsWhenDue
<1>1. DP!Numbers
  BY Values DEF DP!Numbers
<1>2. DP!Con!Spec => DP!Con!AlertsWhenDue
  BY <1>1, DP!AlertsAlwaysWhenDue
<1>3. [Len(con_checks') > Len(con_checks) =>
         (~DP!Con!Alerted(con_events) /\ DP!Con!Alerted(con_events')
            <=> ~DP!Con!Alerted(con_events) /\ DP!Con!Due(con_checks', con_events))]_DP!Con!vars
      => [Len(con_checks') > Len(con_checks) =>
            (~Conditions!Alerted(con_events) /\ Conditions!Alerted(con_events')
               <=> ~Conditions!Alerted(con_events)
                   /\ Conditions!Due(con_checks', con_events))]_Conditions!vars
  BY DEF DP!Con!vars, DP!Con!Run, DP!Con!Due, DP!Con!Alerted, DP!Con!Last, Conditions!vars,
       Conditions!Run, Conditions!Due, Conditions!Alerted, Conditions!Last
<1> QED
  BY <1>2, <1>3, ConditionsBehaves, PTL
  DEF AlertsWhenDue, Conditions!AlertsWhenDue, DP!Con!AlertsWhenDue

-----------------------------------------------------------------------------
(* Delivery *)

BP == INSTANCE NotificationProofs WITH
  Worker <- Process, Chat <- BatChat, Batch <- BatBatch, MaxEvents <- BatEvents,
  MaxFaults <- 0, MaxChanges <- 0, event <- del_event, settings <- del_settings,
  job <- del_job, calls <- del_calls, arrived <- del_arrived, faults <- del_faults,
  changes <- del_changes, Durations <- ConDurations, Suppressions <- ConPauses,
  MaxGap <- ConGap, MaxTime <- ConTime, MaxChecks <- ConChecks, clock <- con_clock,
  began <- con_began, condition <- con_condition, checks <- con_checks,
  events <- con_events, rules <- con_settings

LEMMA SameDelivery ==
  /\ Delivery!Init <=> DP!Init
  /\ Delivery!Next <=> DP!Next
  /\ (UNCHANGED DP!vars <=> UNCHANGED delVars)
  /\ Delivery!TypeOK <=> DP!TypeOK
  /\ Delivery!FewMessages <=> DP!FewMessages
<1>1. Delivery!Init <=> DP!Init
  BY DEF Delivery!Idle, Delivery!Init, DP!Idle, DP!Init
<1>2. Delivery!Next <=> DP!Next
  BY DEF Delivery!Id, Delivery!Idle, Delivery!Record, Delivery!Disabled, Delivery!SaveSettings,
       Delivery!SwitchMode, Delivery!Unanswered, Delivery!Due, Delivery!Oldest,
       Delivery!Claim, Delivery!Goto, Delivery!Leave, Delivery!Look, Delivery!Disable,
       Delivery!Send, Delivery!Mark, Delivery!Unmarked, Delivery!Miss,
       Delivery!Finish, Delivery!Die, Delivery!Elapse, Delivery!Step, Delivery!Next,
       Delivery!Cardinality, Delivery!IsInjective, DP!Id, DP!Idle, DP!Record,
       DP!Disabled, DP!SaveSettings, DP!SwitchMode, DP!Unanswered, DP!Due, DP!Oldest,
       DP!Claim, DP!Goto, DP!Leave, DP!Look, DP!Disable, DP!Send, DP!Mark,
       DP!Unmarked, DP!Miss, DP!Finish, DP!Die, DP!Elapse, DP!Step, DP!Next,
       DP!Cardinality, DP!IsInjective
<1>3. UNCHANGED DP!vars <=> UNCHANGED delVars
  BY DEF DP!vars, delVars
<1>4. Delivery!TypeOK <=> DP!TypeOK
  BY DEF Delivery!Id, Delivery!Status, Delivery!TypeOK, DP!Id, DP!Status, DP!TypeOK
<1>5. Delivery!FewMessages <=> DP!FewMessages
  BY DEF Delivery!Id, Delivery!FewMessages, DP!Id, DP!FewMessages
<1> QED
  BY <1>1, <1>2, <1>3, <1>4, <1>5

LEMMA SameBatches ==
  /\ Batches!Init <=> BP!Init
  /\ Batches!Next <=> BP!Next
  /\ (UNCHANGED BP!vars <=> UNCHANGED delVars)
  /\ Batches!TypeOK <=> BP!TypeOK
  /\ Batches!FewMessages <=> BP!FewMessages
<1>1. Batches!Init <=> BP!Init
  BY DEF Batches!Idle, Batches!Init, BP!Idle, BP!Init
<1>2. Batches!Next <=> BP!Next
  BY DEF Batches!Id, Batches!Idle, Batches!Record, Batches!Disabled, Batches!SaveSettings,
       Batches!SwitchMode, Batches!Unanswered, Batches!Due, Batches!Oldest,
       Batches!Claim, Batches!Goto, Batches!Leave, Batches!Look, Batches!Disable,
       Batches!Send, Batches!Mark, Batches!Unmarked, Batches!Miss, Batches!Finish,
       Batches!Die, Batches!Elapse, Batches!Step, Batches!Next, Batches!Cardinality,
       Batches!IsInjective, BP!Id, BP!Idle, BP!Record, BP!Disabled, BP!SaveSettings,
       BP!SwitchMode, BP!Unanswered, BP!Due, BP!Oldest, BP!Claim, BP!Goto, BP!Leave,
       BP!Look, BP!Disable, BP!Send, BP!Mark, BP!Unmarked, BP!Miss, BP!Finish, BP!Die,
       BP!Elapse, BP!Step, BP!Next, BP!Cardinality, BP!IsInjective
<1>3. UNCHANGED BP!vars <=> UNCHANGED delVars
  BY DEF BP!vars, delVars
<1>4. Batches!TypeOK <=> BP!TypeOK
  BY DEF Batches!Id, Batches!Status, Batches!TypeOK, BP!Id, BP!Status, BP!TypeOK
<1>5. Batches!FewMessages <=> BP!FewMessages
  BY DEF Batches!Id, Batches!FewMessages, BP!Id, BP!FewMessages
<1> QED
  BY <1>1, <1>2, <1>3, <1>4, <1>5

\* Delivery runs with either of two instances.
InBatches == part = "batches"

LEMMA DeliveryBehaves ==
  Spec => \/ DP!Spec /\ []~InBatches
          \/ BP!Spec /\ []InBatches
<1>1. Init /\ ~InBatches => DP!Init
  BY SameDelivery DEF Init, InBatches
<1>2. Init /\ InBatches => BP!Init
  BY SameBatches DEF Init, InBatches
<1>3. ~InBatches /\ [Next]_vars => (~InBatches)' /\ [DP!Next]_DP!vars
  <2>1. ~InBatches /\ Next => Delivery!Next \/ UNCHANGED delVars
    BY DEF Next, InBatches
  <2>2. UNCHANGED vars => UNCHANGED delVars
    BY DEF vars
  <2> QED
    BY <2>1, <2>2, PartStays, SameDelivery DEF InBatches
<1>4. InBatches /\ [Next]_vars => InBatches' /\ [BP!Next]_BP!vars
  <2>1. InBatches /\ Next => Batches!Next \/ UNCHANGED delVars
    BY DEF Next, InBatches
  <2>2. UNCHANGED vars => UNCHANGED delVars
    BY DEF vars
  <2> QED
    BY <2>1, <2>2, PartStays, SameBatches DEF InBatches
<1> QED
  BY <1>1, <1>2, <1>3, <1>4, PTL DEF Spec, DP!Spec, BP!Spec

\* Three calls for an event at most, and a second message only after a fault
\* (notifications.ts, deliverEvents).
THEOREM FewMessagesAlways == Spec => []FewMessages
<1>1. DP!FewMessages => FewMessages
  BY SameDelivery DEF FewMessages
<1>2. BP!FewMessages => FewMessages
  BY DEF FewMessages, Delivery!FewMessages, Delivery!Id, BP!FewMessages, BP!Id
<1> QED
  BY <1>1, <1>2, DP!FewMessagesAlways, BP!FewMessagesAlways, DeliveryBehaves, PTL

\* What is marked as sent has arrived and is left alone (notifications.ts, deliverEvents).
THEOREM SentStaysSent == Spec => SentIsSent
<1>1. [\A i \in DP!Id : del_event[i].status = "sent" =>
           del_event'[i].status = "sent" /\ del_calls'[i] = del_calls[i]
           /\ del_arrived[i] > 0]_DP!vars
      => [\A i \in Delivery!Id : del_event[i].status = "sent" =>
           del_event'[i].status = "sent" /\ del_calls'[i] = del_calls[i]
           /\ del_arrived[i] > 0]_Delivery!vars
  BY DEF DP!Id, DP!vars, Delivery!Id, Delivery!vars
<1>2. [\A i \in BP!Id : del_event[i].status = "sent" =>
           del_event'[i].status = "sent" /\ del_calls'[i] = del_calls[i]
           /\ del_arrived[i] > 0]_BP!vars
      => [\A i \in Delivery!Id : del_event[i].status = "sent" =>
           del_event'[i].status = "sent" /\ del_calls'[i] = del_calls[i]
           /\ del_arrived[i] > 0]_Delivery!vars
  BY DEF BP!Id, BP!vars, Delivery!Id, Delivery!vars
<1> QED
  BY <1>1, <1>2, DP!SentStaysSent, BP!SentStaysSent, DeliveryBehaves, PTL
  DEF SentIsSent, Delivery!SentIsSent, DP!SentIsSent, BP!SentIsSent

-----------------------------------------------------------------------------
(* The uplink *)

UP == INSTANCE FirmwareUplinkProofs WITH
  Slots <- UplSlots, QueueSize <- UplQueue, MaxGeneration <- UplGeneration,
  MaxPackets <- UplPackets, MaxFaults <- UplFaults, MaxLinks <- 0, made <- upl_made,
  queue <- upl_queue, pending <- upl_pending, failed <- upl_failed, wifi <- upl_wifi,
  synced <- upl_synced, disk <- upl_disk, generations <- upl_generations,
  generation <- upl_generation, healthy <- upl_healthy, pc <- upl_pc, slot <- upl_slot,
  answered <- upl_answered, lost <- upl_lost, faults <- upl_faults, links <- upl_links

LEMMA SameUplink ==
  /\ Uplink!Init <=> UP!Init
  /\ Uplink!Next <=> UP!Next
  /\ (UNCHANGED UP!vars <=> UNCHANGED uplVars)
  /\ Uplink!NothingForgotten <=> UP!NothingForgotten
  /\ Uplink!Log = UP!Log
  /\ Uplink!TypeOK <=> UP!TypeOK
<1>1. Uplink!Init <=> UP!Init
  BY DEF Uplink!Slot, Uplink!Empty, Uplink!Init, UP!Slot, UP!Empty, UP!Init
<1>2. Uplink!Next <=> UP!Next
  <2>1. (Uplink!Sample <=> UP!Sample) /\ (Uplink!Connect <=> UP!Connect)
        /\ (Uplink!Sync <=> UP!Sync)
    BY DEF Uplink!Sample, Uplink!Connect, Uplink!Sync, Uplink!task, Uplink!link,
         Uplink!journal, UP!Sample, UP!Connect, UP!Sync, UP!task, UP!link, UP!journal
  <2>2. ASSUME NEW works PROVE Uplink!Mount(works) <=> UP!Mount(works)
    BY DEF Uplink!Mount, Uplink!Stored, Uplink!Whole, Uplink!Slot, Uplink!Max, Uplink!Range,
         Uplink!link, UP!Mount, UP!Stored, UP!Whole, UP!Slot, UP!Max, UP!Range, UP!link
  <2>3. Uplink!Receive <=> UP!Receive
    BY DEF Uplink!Receive, Uplink!link, Uplink!journal, UP!Receive, UP!link, UP!journal
  <2>4. ASSUME NEW status PROVE Uplink!Live(status) <=> UP!Live(status)
    BY DEF Uplink!Live, Uplink!link, Uplink!journal, UP!Live, UP!link, UP!journal
  <2>5. ASSUME NEW status PROVE Uplink!Replay(status) <=> UP!Replay(status)
    <3>1. Uplink!Oldest = UP!Oldest /\ Uplink!Held = UP!Held
      BY DEF Uplink!Oldest, UP!Oldest, Uplink!Held, UP!Held, Uplink!Slot, UP!Slot
    <3>2. (Uplink!Replays <=> UP!Replays) /\ (Uplink!Readable <=> UP!Readable)
      BY <3>1 DEF Uplink!Replays, UP!Replays, Uplink!Readable, UP!Readable, Uplink!Whole,
           UP!Whole
    <3> QED
      BY <3>1, <3>2 DEF Uplink!Replay, UP!Replay, Uplink!link, Uplink!journal, UP!link,
           UP!journal
  <2>6. Uplink!Store <=> UP!Store
    <3>1. Uplink!Free = UP!Free
      BY DEF Uplink!Free, UP!Free, Uplink!Slot, UP!Slot
    <3>2. Uplink!Min(Uplink!Free) = UP!Min(UP!Free)
      BY <3>1 DEF Uplink!Min, UP!Min
    <3> QED
      BY <3>1, <3>2 DEF Uplink!Store, UP!Store, Uplink!link, Uplink!journal, UP!link,
           UP!journal
  <2>7. Uplink!Written = UP!Written /\ Uplink!Torn = UP!Torn /\ Uplink!Writes = UP!Writes
    BY DEF Uplink!Written, UP!Written, Uplink!Torn, UP!Torn, Uplink!Writes, UP!Writes
  <2>8. Uplink!Write <=> UP!Write
    BY <2>7 DEF Uplink!Write, UP!Write, Uplink!link, UP!link
  <2>9. Uplink!Left = UP!Left
    BY <2>7 DEF Uplink!Left, UP!Left
  <2>10. (Uplink!WriteFails <=> UP!WriteFails) /\ (Uplink!Reboot <=> UP!Reboot)
    BY <2>7, <2>9 DEF Uplink!WriteFails, UP!WriteFails, Uplink!Reboot, UP!Reboot,
         Uplink!link, UP!link, Uplink!Range, UP!Range, Uplink!Slot, UP!Slot
  <2>11. ASSUME NEW s PROVE Uplink!Rot(s) <=> UP!Rot(s)
    BY DEF Uplink!Rot, UP!Rot, Uplink!Whole, UP!Whole, Uplink!task, Uplink!link,
         Uplink!journal, UP!task, UP!link, UP!journal
  <2>12. Uplink!Network <=> UP!Network
    BY <2>2, <2>3, <2>4, <2>5, <2>6, <2>8 DEF Uplink!Network, UP!Network, Uplink!Statuses,
         UP!Statuses
  <2> QED
    BY <2>1, <2>10, <2>11, <2>12 DEF Uplink!Next, UP!Next, Uplink!Slot, UP!Slot
<1>3. UNCHANGED UP!vars <=> UNCHANGED uplVars
  BY DEF UP!vars, UP!task, UP!link, UP!journal, uplVars
<1>4. Uplink!Log = UP!Log
  BY DEF Uplink!Log, Uplink!Records, Uplink!Place, Uplink!Whole, Uplink!Slot,
       Uplink!Cardinality, UP!Log, UP!Records, UP!Place, UP!Whole, UP!Slot,
       UP!Cardinality
<1>5. Uplink!NothingForgotten <=> UP!NothingForgotten
  BY <1>4 DEF Uplink!NothingForgotten, UP!NothingForgotten, Uplink!Range, UP!Range
<1>6. Uplink!TypeOK <=> UP!TypeOK
  BY DEF Uplink!Slot, Uplink!Writes, Uplink!Written, Uplink!Torn, Uplink!TypeOK, UP!Slot,
       UP!Writes, UP!Written, UP!Torn, UP!TypeOK
<1> QED
  BY <1>1, <1>2, <1>3, <1>4, <1>5, <1>6

LEMMA UplinkBehaves == Spec => UP!Spec
<1>1. Init => UP!Init
  BY SameUplink DEF Init
<1>2. [Next]_vars => [UP!Next]_UP!vars
  <2>1. Next => Uplink!Next \/ UNCHANGED uplVars
    BY DEF Next
  <2>2. UNCHANGED vars => UNCHANGED uplVars
    BY DEF vars
  <2> QED
    BY <2>1, <2>2, SameUplink
<1> QED
  BY <1>1, <1>2, PTL DEF Spec, UP!Spec

\* A packet is waiting, stored, answered or accounted for (main.cpp, network_task).
THEOREM NoneIsForgotten == Spec => []NothingForgotten
<1>1. UP!Bounds
  BY Values DEF UP!Bounds
<1>2. UP!Spec => []UP!NothingForgotten
  BY <1>1, UP!NoneIsForgotten
<1>3. UP!NothingForgotten => NothingForgotten
  BY SameUplink DEF NothingForgotten
<1> QED
  BY <1>2, <1>3, UplinkBehaves, PTL

\* The card is a log, whatever fails (journal.cpp).
THEOREM CardIsLog == Spec => ImplementsRecordLog
<1>1. UP!Bounds
  BY Values DEF UP!Bounds
<1>2. UP!Spec => UP!ImplementsRecordLog
  BY <1>1, UP!UplinkIsLog
<1>3. UP!Abstract!Init => Uplink!Abstract!Init
  BY SameUplink DEF UP!Abstract!Init, Uplink!Abstract!Init
<1>4. Uplink!Log = UP!Log /\ Uplink!Log' = UP!Log'
  <2>1. (Uplink!Log = UP!Log)'
    BY SameUplink, PTL
  <2> QED
    BY <2>1, SameUplink
<1>5. [UP!Abstract!Next]_<<UP!Log, upl_answered, upl_lost>>
        => [Uplink!Abstract!Next]_<<Uplink!Log, upl_answered, upl_lost>>
  BY <1>4 DEF UP!Abstract!Next, UP!Abstract!Put, UP!Abstract!Answer, UP!Abstract!Drop,
       UP!Abstract!Rot, UP!Abstract!Lose, UP!Abstract!Last, UP!Abstract!RemoveAt, UP!Packet,
       Uplink!Abstract!Next, Uplink!Abstract!Put, Uplink!Abstract!Answer,
       Uplink!Abstract!Drop, Uplink!Abstract!Rot, Uplink!Abstract!Lose, Uplink!Abstract!Last,
       Uplink!Abstract!RemoveAt, Uplink!Packet
<1> QED
  BY <1>2, <1>3, <1>5, UplinkBehaves, PTL
  DEF ImplementsRecordLog, UP!ImplementsRecordLog, UP!Abstract!Spec,
      Uplink!ImplementsRecordLog, Uplink!Abstract!Spec

-----------------------------------------------------------------------------
(* The types of every part *)

LEMMA PartTypes ==
  /\ IP!Tel!Spec => []IP!Tel!TypeOK
  /\ SP!Tel!Spec => []SP!Tel!TypeOK
  /\ IP!Spec => []IP!TypeOK
  /\ DP!Con!Spec => []DP!Con!TypeOK
  /\ DP!Spec => []DP!TypeOK
  /\ BP!Spec => []BP!TypeOK
  /\ UP!Spec => []UP!TypeOK
  /\ WP!Spec => []WP!TypeOK
  /\ WP!Jobs!Spec => []WP!Jobs!TypeOK
  /\ Roles!Spec => []Roles!TypeOK
  /\ Pictures!Spec => []Pictures!TypeOK
<1>1. /\ none \notin Process /\ none \notin WP!Jobs!Thread
      /\ DP!Numbers /\ UP!Bounds
  BY Values DEF WP!Jobs!Thread, DP!Numbers, UP!Bounds
<1>2. TelFrames \in Nat /\ SesFrames \in Nat /\ WP!JobsBounds /\ Pool /\ Albums
  BY Sizes DEF WP!JobsBounds, Pool, Albums
<1>3. IP!Tel!Spec => []IP!Tel!TypeOK
  BY <1>2, IP!SnapshotTypeOK
<1>4. SP!Tel!Spec => []SP!Tel!TypeOK
  BY <1>2, SP!SnapshotTypeOK
<1>5. IP!Spec => []IP!TypeOK
  BY <1>1, IP!IngestTypeOK
<1>6. DP!Con!Spec => []DP!Con!TypeOK
  BY <1>1, DP!ConditionsTypeOK
<1>7. UP!Spec => []UP!TypeOK
  BY <1>1, UP!UplinkTypeOK
<1>8. WP!Jobs!Spec => []WP!Jobs!TypeOK
  BY <1>1, <1>2, WP!JobsTypeOK
<1>9. Roles!Spec => []Roles!TypeOK
  BY <1>2, RolesTypeOK
<1>10. Pictures!Spec => []Pictures!TypeOK
  BY <1>2, PicturesTypeOK
<1>11. (DP!Spec => []DP!TypeOK) /\ (BP!Spec => []BP!TypeOK) /\ (WP!Spec => []WP!TypeOK)
  BY DP!DeliveryTypeOK, BP!DeliveryTypeOK, WP!SimulatorTypeOK
<1> QED
  BY <1>3, <1>4, <1>5, <1>6, <1>7, <1>8, <1>9, <1>10, <1>11

\* Whatever runs, every part keeps to its types: the two that run with either of two sets
\* of values, to those of the one that was chosen.
THEOREM ServicesTypeOK == Spec => []TypeOK
<1>1. Spec => [](IF part = "sessions" THEN Sessions!TypeOK ELSE Telemetry!TypeOK)
  <2>1. IP!Tel!TypeOK /\ ~InSessions
          => IF part = "sessions" THEN Sessions!TypeOK ELSE Telemetry!TypeOK
    BY SameTelemetry DEF InSessions
  <2>2. SP!Tel!TypeOK /\ InSessions
          => IF part = "sessions" THEN Sessions!TypeOK ELSE Telemetry!TypeOK
    BY SameSessions DEF InSessions
  <2> QED
    BY <2>1, <2>2, TelemetryBehaves, PartTypes, PTL
<1>2. Spec => [](IF part = "batches" THEN Batches!TypeOK ELSE Delivery!TypeOK)
  <2>1. DP!TypeOK /\ ~InBatches
          => IF part = "batches" THEN Batches!TypeOK ELSE Delivery!TypeOK
    BY SameDelivery DEF InBatches
  <2>2. BP!TypeOK /\ InBatches
          => IF part = "batches" THEN Batches!TypeOK ELSE Delivery!TypeOK
    BY SameBatches DEF InBatches
  <2> QED
    BY <2>1, <2>2, DeliveryBehaves, PartTypes, PTL
<1>3. Spec => [](Ingest!TypeOK /\ Conditions!TypeOK)
  BY SameIngest, SameConditions, IngestBehaves, ConditionsBehaves, PartTypes, PTL
<1>4. Spec => [](Uplink!TypeOK /\ Simulator!TypeOK /\ Models!TypeOK)
  BY SameUplink, SameSimulator, SameModels, UplinkBehaves, SimulatorBehaves,
     ModelsBehaves, PartTypes, PTL
<1>5. Spec => [](Roles!TypeOK /\ Pictures!TypeOK)
  BY RolesBehaves, PicturesBehaves, PartTypes, PTL
<1> QED
  BY <1>1, <1>2, <1>3, <1>4, <1>5, PTL DEF TypeOK
=============================================================================
