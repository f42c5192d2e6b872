------------------------ MODULE MeasurementIngestProofs ------------------------
(***************************************************************************)
(* AirQualityService.ingest, for any number of measurements, requests,     *)
(* failures and crashes: what is answered is done, and a forecast that was *)
(* saved is used.  The map of promises keeps two requests from working on  *)
(* one measurement, so that each finds the rows at its next query as it    *)
(* left them; and the rows, of which an attempt may leave any beginning,   *)
(* tell the next attempt how far it came.                                  *)
(*                                                                         *)
(* And PostgresTelemetryStore, for any number of frames, restarts and      *)
(* prunes: the boots are kept in the order of their first frames, whatever *)
(* is pruned, and the live snapshot follows that order (Tel!).             *)
(***************************************************************************)
EXTENDS MeasurementIngest, Sequences, SequenceTheorems, WellFoundedInduction, TLAPS

Job == [pc : Working \cup {"waiting"}, key : Key, live : BOOLEAN, found : BOOLEAN]
Busy(w) == job[w].pc \in Working

Held == \A w \in Worker : Busy(w) => inFlight[job[w].key] = w

Done(k) ==
  /\ measured[k] # "none" /\ status[k] # "pending"
  /\ measured[k] = "live" => advice[k] # "none"
  /\ k \in forecast => status[k] = "ready" /\ advice[k] = "with"

\* Advice is made last: a row of it tells that all was done.
Row(k) ==
  /\ k \in forecast => measured[k] = "live"
  /\ advice[k] # "none" => measured[k] = "live" /\ Done(k)
  /\ k \in answered => Done(k)

\* How far a request has come with its measurement.
Phase(w) ==
  LET k == job[w].key
  IN /\ job[w].pc = "historical" => measured[k] = "historical"
     /\ job[w].pc \in {"lookup", "predict", "outcome", "advise"} => measured[k] = "live"
     /\ job[w].pc \in {"predict", "outcome", "advise"} => advice[k] = "none"
     /\ job[w].pc = "predict" => k \notin forecast
     /\ job[w].pc \in {"outcome", "advise"} => (job[w].found = TRUE <=> k \in forecast)
     /\ job[w].pc = "advise" => /\ status[k] # "pending"
                                /\ k \in forecast => status[k] = "ready"
     /\ job[w].pc = "answer" => Done(k)

IInv ==
  /\ TypeOK /\ Held
  /\ \A k \in Key : Row(k)
  /\ \A w \in Worker : Phase(w)

USE DEF Working

-----------------------------------------------------------------------------
LEMMA JobType ==
  ASSUME TypeOK, NEW w \in Worker
  PROVE  /\ Idle.pc = "idle"
         /\ job[w] = Idle \/ job[w] \in Job
         /\ Busy(w) => job[w] \in Job /\ job[w].key \in Key /\ job[w].found \in BOOLEAN
BY DEF TypeOK, Idle, Job, Busy

LEMMA InitIInv == Init => IInv
<1> SUFFICES ASSUME Init PROVE IInv
  OBVIOUS
<1>1. TypeOK
  BY DEF Init, TypeOK
<1>2. \A w \in Worker : job[w].pc = "idle"
  BY DEF Init, Idle
<1>3. Held /\ \A w \in Worker : Phase(w)
  BY <1>2 DEF Held, Busy, Phase
<1>4. \A k \in Key : Row(k)
  BY DEF Init, Row
<1> QED
  BY <1>1, <1>3, <1>4 DEF IInv

\* A request works on its measurement: the others find theirs as they left it.
LEMMA WorkIInv ==
  ASSUME IInv, NEW w \in Worker, NEW k \in Key, Busy(w), job[w].key = k,
         NEW new \in Job, job' = [job EXCEPT ![w] = new], new.pc \in Working, new.key = k,
         UNCHANGED <<inFlight, answered>>,
         measured' \in [Key -> {"none", "live", "historical"}],
         status' \in [Key -> {"pending", "ready", "unavailable"}],
         advice' \in [Key -> {"none", "without", "with"}],
         forecast' \subseteq Key, measured[k] # "none" => measured'[k] # "none",
         \A j \in Key : j # k =>
           /\ measured'[j] = measured[j] /\ status'[j] = status[j] /\ advice'[j] = advice[j]
           /\ j \in forecast' <=> j \in forecast,
         Row(k)',
         job'[w] = new => Phase(w)'
  PROVE  IInv'
<1>1. TypeOK /\ Held /\ inFlight[k] = w
  BY DEF IInv, Held
<1>2. job'[w] = new /\ \A v \in Worker : v # w => job'[v] = job[v]
  BY <1>1 DEF TypeOK
<1>3. \A j \in Key : Row(j)'
  BY DEF IInv, Row, Done
<1>4. TypeOK'
  <2>1. job' \in [Worker -> {Idle} \cup Job]
    BY <1>1 DEF TypeOK, Job
  <2>2. forecast' \subseteq {j \in Key : measured'[j] = "live"}
    BY <1>3 DEF Row
  <2>3. answered' \subseteq {j \in Key : measured'[j] # "none"}
    BY <1>1 DEF TypeOK
  <2> QED
    BY <1>1, <2>1, <2>2, <2>3 DEF TypeOK, Job
<1>5. \A v \in Worker : v # w /\ Busy(v) => job[v].key \in Key /\ job[v].key # k
  BY <1>1, JobType DEF Held
<1>6. Held'
  BY <1>1, <1>2 DEF Held, Busy
<1>7. \A v \in Worker : Phase(v)'
  <2> TAKE v \in Worker
  <2>1. CASE v = w
    BY <1>2, <2>1
  <2>2. CASE v # w /\ Busy(v)
    <3>1. job'[v] = job[v] /\ job[v].key \in Key /\ job[v].key # k /\ Phase(v)
      BY <1>2, <1>5, <2>2 DEF IInv
    <3> QED
      BY <3>1 DEF Phase, Done
  <2>3. CASE v # w /\ ~Busy(v)
    BY <1>2, <2>3 DEF Phase, Busy
  <2> QED
    BY <2>1, <2>2, <2>3
<1> QED
  BY <1>3, <1>4, <1>6, <1>7 DEF IInv

-----------------------------------------------------------------------------
LEMMA IngestIInv ==
  ASSUME nobody \notin Worker, IInv,
         NEW w \in Worker, NEW k \in Key, NEW live \in BOOLEAN, Ingest(w, k, live)
  PROVE  IInv'
<1> DEFINE pc == IF inFlight[k] = nobody THEN "create" ELSE "waiting"
           new == [pc |-> pc, key |-> k, live |-> live, found |-> FALSE]
<1>1. /\ TypeOK /\ Held /\ job' = [job EXCEPT ![w] = new]
      /\ inFlight' = IF inFlight[k] = nobody THEN [inFlight EXCEPT ![k] = w] ELSE inFlight
      /\ UNCHANGED <<measured, forecast, status, advice, answered>>
  BY DEF Ingest, IInv, tables
<1>2. /\ pc \in {"create", "waiting"}
      /\ pc = "create" => inFlight[k] = nobody /\ inFlight' = [inFlight EXCEPT ![k] = w]
      /\ pc = "waiting" => inFlight' = inFlight
  BY <1>1
<1>3. /\ new \in Job /\ new.pc = pc /\ new.key = k
      /\ job'[w] = new /\ \A v \in Worker : v # w => job'[v] = job[v]
  BY <1>1, <1>2 DEF TypeOK, Job
<1> HIDE DEF pc
<1>4. TypeOK'
  BY <1>1, <1>2, <1>3 DEF TypeOK, Job
<1>5. Held'
  <2> SUFFICES ASSUME NEW v \in Worker, Busy(v)'
      PROVE inFlight'[job'[v].key] = v
    BY DEF Held
  <2>1. CASE v = w
    BY <1>1, <1>2, <1>3, <2>1 DEF Busy, TypeOK
  <2>2. CASE v # w
    <3>1. Busy(v) /\ job'[v] = job[v] /\ inFlight[job[v].key] = v /\ job[v].key \in Key
      BY <1>1, <1>3, <2>2, JobType DEF Busy, Held
    <3> QED
      BY <1>1, <1>2, <3>1 DEF TypeOK
  <2> QED
    BY <2>1, <2>2
<1>6. \A j \in Key : Row(j)'
  BY <1>1 DEF IInv, Row, Done
<1>7. \A v \in Worker : Phase(v)'
  BY <1>1, <1>2, <1>3 DEF IInv, Phase, Done
<1> QED
  BY <1>4, <1>5, <1>6, <1>7 DEF IInv

LEMMA CreateIInv ==
  ASSUME IInv, NEW w \in Worker, Create(w)
  PROVE  IInv'
<1>1. Busy(w)
  BY DEF Create, Busy
<1>2. PICK k \in Key : job[w].key = k
  BY <1>1, JobType DEF IInv
<1> DEFINE kind == IF measured[k] # "none" THEN measured[k]
                   ELSE IF job[w].live THEN "live" ELSE "historical"
           new == [job[w] EXCEPT !.pc = IF kind = "live" THEN "lookup" ELSE "historical"]
<1>3. /\ TypeOK /\ Busy(w) /\ job[w] \in Job
      /\ measured' = [measured EXCEPT ![k] = kind] /\ job' = [job EXCEPT ![w] = new]
      /\ UNCHANGED <<forecast, status, advice, answered, inFlight>>
  BY <1>1, <1>2, JobType DEF Create, IInv, Busy
<1>4. kind \in {"live", "historical"} /\ (measured[k] # "none" => kind = measured[k])
  BY <1>2, <1>3 DEF TypeOK
<1> HIDE DEF kind
<1>5. /\ new \in Job /\ new.key = k
      /\ new.pc = IF kind = "live" THEN "lookup" ELSE "historical"
  BY <1>2, <1>3 DEF Job
<1>6. /\ measured' \in [Key -> {"none", "live", "historical"}] /\ measured'[k] = kind
      /\ \A j \in Key : j # k => measured'[j] = measured[j]
  BY <1>2, <1>3, <1>4 DEF TypeOK
<1> HIDE DEF new
<1>7. Row(k)'
  BY <1>2, <1>3, <1>4, <1>6 DEF IInv, Row, Done
<1>8. job'[w] = new => Phase(w)'
  BY <1>4, <1>5, <1>6 DEF Phase
<1> QED
  BY <1>2, <1>3, <1>4, <1>5, <1>6, <1>7, <1>8, WorkIInv DEF TypeOK

LEMMA HistoricalIInv ==
  ASSUME IInv, NEW w \in Worker, Historical(w)
  PROVE  IInv'
<1>1. Busy(w)
  BY DEF Historical, Busy
<1>2. PICK k \in Key : job[w].key = k
  BY <1>1, JobType DEF IInv
<1> DEFINE new == [job[w] EXCEPT !.pc = "answer"]
<1>3. /\ TypeOK /\ Busy(w) /\ job[w] \in Job
      /\ status' = [status EXCEPT ![k] = IF k \in forecast THEN "ready" ELSE "unavailable"]
      /\ job' = [job EXCEPT ![w] = new]
      /\ UNCHANGED <<measured, forecast, advice, answered, inFlight>>
      /\ measured[k] = "historical"
  BY <1>1, <1>2, JobType DEF Historical, IInv, Busy, Settled, Phase
<1>4. new \in Job /\ new.key = k /\ new.pc = "answer"
  BY <1>2, <1>3 DEF Job
<1>5. /\ status' \in [Key -> {"pending", "ready", "unavailable"}] /\ status'[k] # "pending"
      /\ \A j \in Key : j # k => status'[j] = status[j]
  BY <1>2, <1>3 DEF TypeOK
<1>6. k \notin forecast /\ advice[k] = "none"
  BY <1>2, <1>3 DEF IInv, Row
<1> HIDE DEF new
<1>7. Done(k)'
  BY <1>2, <1>3, <1>5, <1>6 DEF Done
<1>8. Row(k)' /\ (job'[w] = new => Phase(w)')
  BY <1>2, <1>3, <1>4, <1>6, <1>7 DEF Row, Phase
<1> QED
  BY <1>2, <1>3, <1>4, <1>5, <1>7, <1>8, WorkIInv DEF TypeOK

LEMMA LookupIInv ==
  ASSUME IInv, NEW w \in Worker, Lookup(w)
  PROVE  IInv'
<1>1. Busy(w)
  BY DEF Lookup, Busy
<1>2. PICK k \in Key : job[w].key = k
  BY <1>1, JobType DEF IInv
<1> DEFINE pc == IF advice[k] # "none" /\ status[k] # "pending" THEN "answer"
                 ELSE IF k \in forecast THEN "outcome" ELSE "predict"
           found == k \in forecast
           new == [job[w] EXCEPT !.found = found, !.pc = pc]
<1>3. /\ TypeOK /\ Busy(w) /\ job[w] \in Job
      /\ job' = [job EXCEPT ![w] = new]
      /\ UNCHANGED <<measured, forecast, status, advice, answered, inFlight>>
      /\ measured[k] = "live" /\ Row(k)
  BY <1>1, <1>2, JobType DEF Lookup, IInv, Busy, Phase, tables
<1>4. /\ pc \in {"answer", "outcome", "predict"}
      /\ pc = "answer" => Done(k)
      /\ pc # "answer" => advice[k] = "none" /\ (k \in forecast <=> pc = "outcome")
  BY <1>2, <1>3 DEF Row, Done
<1>5. found \in BOOLEAN /\ (found = TRUE <=> k \in forecast)
  OBVIOUS
<1> HIDE DEF pc, found
<1>6. new \in Job /\ new.key = k /\ new.pc = pc /\ new.found = found
  BY <1>2, <1>3, <1>4, <1>5 DEF Job
<1> HIDE DEF new
<1>7. Row(k)'
  BY <1>2, <1>3 DEF Row, Done
<1>8. job'[w] = new => Phase(w)'
  BY <1>2, <1>3, <1>4, <1>5, <1>6 DEF Phase, Done
<1> QED
  BY <1>2, <1>3, <1>4, <1>6, <1>7, <1>8, WorkIInv DEF TypeOK

LEMMA PredictIInv ==
  ASSUME IInv, NEW w \in Worker, NEW ok \in BOOLEAN, Predict(w, ok)
  PROVE  IInv'
<1>1. Busy(w)
  BY DEF Predict, Busy
<1>2. PICK k \in Key : job[w].key = k
  BY <1>1, JobType DEF IInv
<1> DEFINE new == [job[w] EXCEPT !.found = ok, !.pc = "outcome"]
<1>3. /\ TypeOK /\ Busy(w) /\ job[w] \in Job
      /\ forecast' = IF ok THEN forecast \cup {k} ELSE forecast
      /\ job' = [job EXCEPT ![w] = new]
      /\ UNCHANGED <<measured, status, advice, answered, inFlight>>
      /\ measured[k] = "live" /\ advice[k] = "none" /\ k \notin forecast /\ Row(k)
  BY <1>1, <1>2, JobType DEF Predict, IInv, Busy, Phase
<1>4. new \in Job /\ new.key = k /\ new.pc = "outcome" /\ new.found = ok
  BY <1>2, <1>3 DEF Job
<1> HIDE DEF new
<1>5. /\ forecast' \subseteq Key /\ (k \in forecast' <=> ok = TRUE)
      /\ \A j \in Key : j # k => (j \in forecast' <=> j \in forecast)
  BY <1>2, <1>3 DEF TypeOK
<1>6. Row(k)'
  BY <1>2, <1>3 DEF Row, Done
<1>7. job'[w] = new => Phase(w)'
  BY <1>2, <1>3, <1>4, <1>5 DEF Phase
<1> QED
  BY <1>2, <1>3, <1>4, <1>5, <1>6, <1>7, WorkIInv DEF TypeOK

LEMMA OutcomeIInv ==
  ASSUME IInv, NEW w \in Worker, Outcome(w)
  PROVE  IInv'
<1>1. Busy(w)
  BY DEF Outcome, Busy
<1>2. PICK k \in Key : job[w].key = k
  BY <1>1, JobType DEF IInv
<1> DEFINE new == [job[w] EXCEPT !.pc = "advise"]
<1>3. /\ TypeOK /\ Busy(w) /\ job[w] \in Job
      /\ status' = [status EXCEPT ![k] = IF k \in forecast THEN "ready" ELSE "unavailable"]
      /\ job' = [job EXCEPT ![w] = new]
      /\ UNCHANGED <<measured, forecast, advice, answered, inFlight>>
      /\ measured[k] = "live" /\ advice[k] = "none" /\ Row(k)
      /\ job[w].found = TRUE <=> k \in forecast
  BY <1>1, <1>2, JobType DEF Outcome, IInv, Busy, Settled, Phase
<1>4. new \in Job /\ new.key = k /\ new.pc = "advise" /\ new.found = job[w].found
  BY <1>2, <1>3 DEF Job
<1> HIDE DEF new
<1>5. /\ status' \in [Key -> {"pending", "ready", "unavailable"}]
      /\ status'[k] = IF k \in forecast THEN "ready" ELSE "unavailable"
      /\ \A j \in Key : j # k => status'[j] = status[j]
  BY <1>2, <1>3 DEF TypeOK
<1>6. k \notin answered
  BY <1>2, <1>3 DEF Row, Done
<1>7. Row(k)' /\ (job'[w] = new => Phase(w)')
  BY <1>2, <1>3, <1>4, <1>5, <1>6 DEF Row, Phase
<1> QED
  BY <1>2, <1>3, <1>4, <1>5, <1>7, WorkIInv DEF TypeOK

LEMMA AdviseIInv ==
  ASSUME IInv, NEW w \in Worker, Advise(w)
  PROVE  IInv'
<1>1. Busy(w)
  BY DEF Advise, Busy
<1>2. PICK k \in Key : job[w].key = k
  BY <1>1, JobType DEF IInv
<1> DEFINE new == [job[w] EXCEPT !.pc = "answer"]
<1>3. /\ TypeOK /\ Busy(w) /\ job[w] \in Job
      /\ advice' = [advice EXCEPT ![k] = IF job[w].found \/ advice[k] = "with" THEN "with"
                                         ELSE "without"]
      /\ job' = [job EXCEPT ![w] = new]
      /\ UNCHANGED <<measured, forecast, status, answered, inFlight>>
      /\ Phase(w) /\ job[w].pc = "advise" /\ Row(k)
  BY <1>1, <1>2, JobType DEF Advise, IInv, Busy
<1>4. new \in Job /\ new.key = k /\ new.pc = "answer"
  BY <1>2, <1>3 DEF Job
<1> HIDE DEF new
<1>5. /\ advice' \in [Key -> {"none", "without", "with"}]
      /\ advice'[k] # "none" /\ (job[w].found = TRUE => advice'[k] = "with")
      /\ \A j \in Key : j # k => advice'[j] = advice[j]
  BY <1>2, <1>3 DEF TypeOK
<1>6. Done(k)'
  BY <1>2, <1>3, <1>5 DEF Phase, Done
<1>7. Row(k)' /\ (job'[w] = new => Phase(w)')
  BY <1>2, <1>3, <1>4, <1>6 DEF Row, Phase
<1> QED
  BY <1>2, <1>3, <1>4, <1>5, <1>6, <1>7, WorkIInv DEF TypeOK

-----------------------------------------------------------------------------
\* A promise settles, as an answer or as a failure.
LEMMA SettleIInv ==
  ASSUME IInv, NEW w \in Worker, Busy(w), Settle(w), UNCHANGED tables,
         answered' = answered \/ (answered' = answered \cup {job[w].key} /\ Done(job[w].key))
  PROVE  IInv'
<1> DEFINE k == job[w].key
<1>1. /\ TypeOK /\ Held /\ k \in Key
      /\ job' = [v \in Worker |-> IF v \in Sharing(w) THEN Idle ELSE job[v]]
      /\ inFlight' = [inFlight EXCEPT ![k] = nobody]
      /\ UNCHANGED <<measured, forecast, status, advice>>
  BY JobType DEF Settle, IInv, tables
<1>2. \A v \in Worker : job'[v] = Idle \/ (job'[v] = job[v] /\ (Busy(v) => job[v].key # k))
  BY <1>1, JobType DEF Sharing, Busy
<1>3. \A j \in Key : Row(j)'
  BY <1>1 DEF IInv, Row, Done
<1>4. TypeOK'
  <2>1. job' \in [Worker -> {Idle} \cup Job]
    BY <1>1, <1>2, JobType
  <2>2. answered' \subseteq {j \in Key : measured'[j] # "none"}
    BY <1>1 DEF TypeOK, Done
  <2> QED
    BY <1>1, <2>1, <2>2 DEF TypeOK, Job
<1>5. Held'
  BY <1>1, <1>2, JobType DEF Held, Busy, TypeOK
<1>6. \A v \in Worker : Phase(v)'
  BY <1>1, <1>2, JobType DEF IInv, Phase, Done
<1> QED
  BY <1>3, <1>4, <1>5, <1>6 DEF IInv

LEMMA AnswerIInv ==
  ASSUME IInv, NEW w \in Worker, Answer(w)
  PROVE  IInv'
BY SettleIInv DEF Answer, IInv, Phase, Busy

LEMMA FailIInv ==
  ASSUME IInv, NEW w \in Worker, Fail(w)
  PROVE  IInv'
BY SettleIInv DEF Fail, Busy

LEMMA CrashIInv ==
  ASSUME IInv, Crash
  PROVE  IInv'
<1>1. /\ TypeOK /\ job' = [w \in Worker |-> Idle] /\ inFlight' = [k \in Key |-> nobody]
      /\ UNCHANGED <<measured, forecast, status, advice, answered>>
  BY DEF Crash, IInv, tables
<1>2. \A w \in Worker : job'[w].pc = "idle"
  BY <1>1 DEF Idle
<1>3. TypeOK'
  BY <1>1 DEF TypeOK
<1>4. \A k \in Key : Row(k)'
  BY <1>1 DEF IInv, Row, Done
<1>5. Held' /\ \A w \in Worker : Phase(w)'
  BY <1>2 DEF Held, Busy, Phase
<1> QED
  BY <1>3, <1>4, <1>5 DEF IInv

LEMMA StutterIInv ==
  ASSUME IInv, UNCHANGED vars
  PROVE  IInv'
BY DEF IInv, vars, TypeOK, Held, Busy, Row, Phase, Done

LEMMA NextIInv ==
  ASSUME nobody \notin Worker, IInv, [Next]_vars
  PROVE  IInv'
<1>1. ASSUME NEW w \in Worker, NEW k \in Key, NEW live \in BOOLEAN, Ingest(w, k, live)
      PROVE  IInv'
  BY <1>1, IngestIInv
<1>2. ASSUME NEW w \in Worker, Work(w)
      PROVE  IInv'
  BY <1>2, CreateIInv, HistoricalIInv, LookupIInv, PredictIInv, OutcomeIInv, AdviseIInv,
     AnswerIInv DEF Work
<1>3. ASSUME NEW w \in Worker, Fail(w)
      PROVE  IInv'
  BY <1>3, FailIInv
<1>4. CASE Crash
  BY <1>4, CrashIInv
<1>5. CASE UNCHANGED vars
  BY <1>5, StutterIInv
<1> QED
  BY <1>1, <1>2, <1>3, <1>4, <1>5 DEF Next

-----------------------------------------------------------------------------
LEMMA AlwaysIInv ==
  ASSUME nobody \notin Worker
  PROVE  Spec => []IInv
<1>1. IInv /\ [Next]_vars => IInv'
  BY NextIInv
<1> QED
  BY InitIInv, <1>1, PTL DEF Spec

\* The typing of the tables, the promises and the requests (service.ts, inFlight).
THEOREM IngestTypeOK ==
  ASSUME nobody \notin Worker
  PROVE  Spec => []TypeOK
<1>1. IInv => TypeOK
  BY DEF IInv
<1> QED
  BY <1>1, AlwaysIInv, PTL

\* One request at a time works on one measurement: the map of promises is read
\* and written without an await between (service.ts:66-81).
THEOREM WorksAlone ==
  ASSUME nobody \notin Worker
  PROVE  Spec => []OneWorksOnEach
<1>1. IInv => OneWorksOnEach
  BY DEF IInv, Held, Busy, OneWorksOnEach
<1> QED
  BY <1>1, AlwaysIInv, PTL

\* A measurement that is answered has an outcome and its advice, for any number
\* of retries, failures and crashes (service.ts:83-170).
THEOREM AnswersAreDone ==
  ASSUME nobody \notin Worker
  PROVE  Spec => []AnsweredIsDone
<1>1. IInv => AnsweredIsDone
  BY DEF IInv, TypeOK, Row, Done, AnsweredIsDone
<1> QED
  BY <1>1, AlwaysIInv, PTL

\* A forecast that was saved is the one the answered measurement shows, also when
\* the attempt that saved it failed (service.ts:110-118).
THEOREM ForecastsAreUsed ==
  ASSUME nobody \notin Worker
  PROVE  Spec => []ForecastIsUsed
<1>1. IInv => ForecastIsUsed
  BY DEF IInv, TypeOK, Row, Done, ForecastIsUsed
<1> QED
  BY <1>1, AlwaysIInv, PTL

-----------------------------------------------------------------------------
(* The live snapshot *)

CONSTANTS MaxFrames, MaxPrunes
VARIABLES frames, arrived, kept, boots, head, told, report, prunes

Tel == INSTANCE TelemetrySnapshot

Frame == [boot : Nat, at : Nat]

\* Of the frames f that arrived in the order q, the first of boot b came at place i.
IsFirst(f, q, b, i) ==
  /\ i \in 1..Len(q) /\ f[q[i]].boot = b
  /\ \A j \in 1..Len(q) : f[q[j]].boot = b => i <= j

\* o is the boots that were heard of, in the order of their first frames.
Heard(f, q, o) ==
  /\ \A i \in 1..Len(q) : \E k \in 1..Len(o) : o[k] = f[q[i]].boot
  /\ \A k \in 1..Len(o) : \E i \in 1..Len(q) : IsFirst(f, q, o[k], i)
  /\ \A k, l \in 1..Len(o) : \A i, j \in 1..Len(q) :
       k < l /\ IsFirst(f, q, o[k], i) /\ IsFirst(f, q, o[l], j) => i < j

\* Frames as they may have arrived.
Arrivals(f, q, o) ==
  /\ f \in Seq(Frame) /\ q \in Seq(1..Len(f)) /\ o \in Seq(Nat)
  /\ Heard(f, q, o)

TelInv ==
  /\ Arrivals(frames, arrived, boots)
  /\ head \in 0..Len(frames)
  /\ \A n \in kept \cup ({head} \ {0}) : \E i \in 1..Len(arrived) : arrived[i] = n

LEMMA TelInit == Tel!Init => TelInv
BY DEF Tel!Init, TelInv, Arrivals, Heard

\* A boot has one place.
LEMMA OnePlace ==
  ASSUME NEW f, NEW q, NEW o, Arrivals(f, q, o), NEW k \in 1..Len(o), NEW l \in 1..Len(o),
         o[k] = o[l]
  PROVE  k = l
<1>1. PICK i \in 1..Len(q) : IsFirst(f, q, o[k], i)
  BY DEF Arrivals, Heard
<1>2. \A m, n \in 1..Len(o) :
        m < n /\ IsFirst(f, q, o[m], i) /\ IsFirst(f, q, o[n], i) => i < i
  BY DEF Arrivals, Heard
<1>3. ~(i < i) /\ k \in Int /\ l \in Int
  BY DEF Arrivals
<1>4. ~(k < l) /\ ~(l < k)
  BY <1>1, <1>2, <1>3
<1> QED
  BY <1>3, <1>4

LEMMA OrderIs ==
  ASSUME TelInv, NEW b
  PROVE  /\ \A k \in 1..Len(boots) : boots[k] = b => Tel!Order(b) = k
         /\ (\A k \in 1..Len(boots) : boots[k] # b) => Tel!Order(b) = Len(boots) + 1
<1>1. boots \in Seq(Nat) /\ Len(boots) \in Nat
  BY DEF TelInv, Arrivals
<1>2. Tel!Range(boots) = {boots[k] : k \in 1..Len(boots)}
  BY <1>1 DEF Tel!Range
<1>3. ASSUME NEW k \in 1..Len(boots), boots[k] = b PROVE Tel!Order(b) = k
  <2> DEFINE I == {i \in 1..Len(boots) : boots[i] = b}
  <2>1. I = {k}
    BY <1>3, OnePlace DEF TelInv
  <2>2. Tel!Min(I) = k
    BY <2>1 DEF Tel!Min
  <2>3. Tel!Order(b) = Tel!SelectInSeq(boots, LAMBDA x : x = b)
    BY <1>2, <1>3 DEF Tel!Order
  <2>4. Tel!SelectInSeq(boots, LAMBDA x : x = b) = IF I # {} THEN Tel!Min(I) ELSE 0
    BY DEF Tel!SelectInSeq
  <2> QED
    BY <2>1, <2>2, <2>3, <2>4
<1>4. ASSUME \A k \in 1..Len(boots) : boots[k] # b PROVE Tel!Order(b) = Len(boots) + 1
  BY <1>2, <1>4 DEF Tel!Order
<1> QED
  BY <1>3, <1>4

\* A frame that is made changes nothing of what arrived.
LEMMA ArrivalsAfterMake ==
  ASSUME NEW f, NEW q, NEW o, Arrivals(f, q, o), NEW x \in Frame, NEW g, g = Append(f, x)
  PROVE  Arrivals(g, q, o) /\ Len(g) = Len(f) + 1
<1>1. /\ f \in Seq(Frame) /\ Len(f) \in Nat /\ q \in Seq(1..Len(f)) /\ o \in Seq(Nat)
  BY DEF Arrivals
<1>2. /\ g \in Seq(Frame) /\ Len(g) = Len(f) + 1 /\ \A i \in 1..Len(f) : g[i] = f[i]
  BY <1>1
<1>3. \A i \in 1..Len(q) : q[i] \in 1..Len(f)
  BY <1>1, ElementOfSeq
<1>4. \A i \in 1..Len(q) : g[q[i]] = f[q[i]]
  BY <1>2, <1>3
<1>5. q \in Seq(1..Len(g))
  <2>1. \A i \in 1..Len(q) : q[i] \in 1..Len(g)
    BY <1>1, <1>2, <1>3
  <2>2. q = [i \in 1..Len(q) |-> q[i]] /\ Len(q) \in Nat
    BY <1>1
  <2> HIDE DEF IsFirst
  <2> QED
    BY <2>1, <2>2
<1>6. Heard(g, q, o)
  <2>1. \A b : \A i \in 1..Len(q) : IsFirst(g, q, b, i) <=> IsFirst(f, q, b, i)
    BY <1>4 DEF IsFirst
  <2>2. \A i \in 1..Len(q) : \E k \in 1..Len(o) : o[k] = g[q[i]].boot
    BY <1>4 DEF Arrivals, Heard
  <2>3. \A k \in 1..Len(o) : \E i \in 1..Len(q) : IsFirst(g, q, o[k], i)
    BY <2>1 DEF Arrivals, Heard
  <2>4. \A k, l \in 1..Len(o) : \A i, j \in 1..Len(q) :
          k < l /\ IsFirst(g, q, o[k], i) /\ IsFirst(g, q, o[l], j) => i < j
    BY <2>1 DEF Arrivals, Heard
  <2> QED
    BY <2>2, <2>3, <2>4 DEF Heard
<1> QED
  BY <1>1, <1>2, <1>5, <1>6 DEF Arrivals

\* A frame that arrives is the first of its boot, or leaves the first ones as they are.
Arrives(f, q, n, r) == n \in 1..Len(f) /\ r = Append(q, n)

LEMMA FirstsAfter ==
  ASSUME NEW f, NEW q, NEW o, Arrivals(f, q, o), NEW n, NEW r, Arrives(f, q, n, r)
  PROVE  /\ r \in Seq(1..Len(f)) /\ Len(r) = Len(q) + 1 /\ Len(q) \in Nat
         /\ \A i \in 1..Len(q) : r[i] = q[i]
         /\ r[Len(q) + 1] = n
         /\ \A b : \A i \in 1..Len(q) : IsFirst(f, q, b, i) => IsFirst(f, r, b, i)
         /\ \A b : \A i \in 1..Len(r) : IsFirst(f, r, b, i) =>
              \/ i \in 1..Len(q) /\ IsFirst(f, q, b, i)
              \/ /\ i = Len(q) + 1 /\ b = f[n].boot
                 /\ \A j \in 1..Len(q) : f[q[j]].boot # b
<1>1. q \in Seq(1..Len(f)) /\ Len(q) \in Nat /\ n \in 1..Len(f) /\ r = Append(q, n)
  BY DEF Arrivals, Arrives
<1>2. /\ r \in Seq(1..Len(f)) /\ Len(r) = Len(q) + 1
      /\ \A i \in 1..Len(q) : r[i] = q[i]
      /\ r[Len(q) + 1] = n
  BY <1>1
<1>3. \A i \in 1..Len(r) : i \in 1..Len(q) \/ i = Len(q) + 1
  BY <1>1, <1>2
<1>4. 1..Len(q) \subseteq 1..Len(r)
  BY <1>1, <1>2
<1>5. ASSUME NEW b, NEW i \in 1..Len(q), IsFirst(f, q, b, i) PROVE IsFirst(f, r, b, i)
  <2>1. ASSUME NEW j \in 1..Len(r), f[r[j]].boot = b PROVE i <= j
    <3>1. CASE j \in 1..Len(q)
      BY <2>1, <3>1, <1>2, <1>5 DEF IsFirst
    <3>2. CASE j = Len(q) + 1
      BY <3>2, <1>1
    <3> QED
      BY <3>1, <3>2, <1>3
  <2> QED
    BY <2>1, <1>2, <1>4, <1>5 DEF IsFirst
<1>6. ASSUME NEW b, NEW i \in 1..Len(r), IsFirst(f, r, b, i)
      PROVE  \/ i \in 1..Len(q) /\ IsFirst(f, q, b, i)
             \/ /\ i = Len(q) + 1 /\ b = f[n].boot
                /\ \A j \in 1..Len(q) : f[q[j]].boot # b
  <2>1. CASE i \in 1..Len(q)
    BY <2>1, <1>2, <1>4, <1>6 DEF IsFirst
  <2>2. CASE i = Len(q) + 1
    <3>1. b = f[n].boot
      BY <2>2, <1>2, <1>6 DEF IsFirst
    <3>2. ASSUME NEW j \in 1..Len(q), f[q[j]].boot = b PROVE FALSE
      <4>1. i <= j
        BY <3>2, <1>2, <1>4, <1>6 DEF IsFirst
      <4> QED
        BY <4>1, <2>2, <1>1
    <3> QED
      BY <2>2, <3>1, <3>2
  <2> QED
    BY <2>1, <2>2, <1>3
<1> QED
  BY <1>1, <1>2, <1>5, <1>6

\* A boot heard of for the first time takes its place behind the others.
HasPlace(o, c) == \E k \in 1..Len(o) : o[k] = c
Listens(o, c, p) == p = IF HasPlace(o, c) THEN o ELSE Append(o, c)

LEMMA PlacesAfter ==
  ASSUME NEW o \in Seq(Nat), NEW c \in Nat, NEW p, Listens(o, c, p)
  PROVE  /\ p \in Seq(Nat) /\ HasPlace(p, c)
         /\ \A k \in 1..Len(o) : k \in 1..Len(p) /\ p[k] = o[k]
         /\ HasPlace(o, c) => p = o
         /\ ~HasPlace(o, c) => /\ p[Len(o) + 1] = c /\ Len(o) + 1 \in 1..Len(p)
                               /\ \A k \in 1..Len(p) : k \in 1..Len(o) \/ k = Len(o) + 1
                               /\ \A k \in 1..Len(o) : o[k] # c
<1>1. CASE HasPlace(o, c)
  BY <1>1 DEF Listens
<1>2. CASE ~HasPlace(o, c)
  <2>1. p = Append(o, c) /\ Len(o) \in Nat
    BY <1>2 DEF Listens
  <2>2. /\ p \in Seq(Nat) /\ Len(p) = Len(o) + 1 /\ p[Len(o) + 1] = c
        /\ \A k \in 1..Len(o) : p[k] = o[k]
    BY <2>1
  <2> QED
    BY <1>2, <2>1, <2>2 DEF HasPlace
<1> QED
  BY <1>1, <1>2

LEMMA ArrivalsAfterSave ==
  ASSUME NEW f, NEW q, NEW o, Arrivals(f, q, o), NEW n, NEW r, Arrives(f, q, n, r),
         NEW p, Listens(o, f[n].boot, p)
  PROVE  Arrivals(f, r, p)
<1> DEFINE c == f[n].boot
<1>1. /\ r \in Seq(1..Len(f)) /\ Len(r) = Len(q) + 1 /\ Len(q) \in Nat
      /\ \A i \in 1..Len(q) : r[i] = q[i]
      /\ r[Len(q) + 1] = n
      /\ \A b : \A i \in 1..Len(q) : IsFirst(f, q, b, i) => IsFirst(f, r, b, i)
      /\ \A b : \A i \in 1..Len(r) : IsFirst(f, r, b, i) =>
           \/ i \in 1..Len(q) /\ IsFirst(f, q, b, i)
           \/ /\ i = Len(q) + 1 /\ b = c
              /\ \A j \in 1..Len(q) : f[q[j]].boot # b
  BY FirstsAfter
<1>2. /\ 1..Len(q) \subseteq 1..Len(r) /\ Len(q) + 1 \in 1..Len(r)
      /\ \A i \in 1..Len(r) : i \in 1..Len(q) \/ i = Len(q) + 1
  BY <1>1
<1>3. f \in Seq(Frame) /\ o \in Seq(Nat) /\ c \in Nat
  <2>1. f \in Seq(Frame) /\ o \in Seq(Nat) /\ n \in 1..Len(f)
    BY DEF Arrivals, Arrives
  <2>2. f[n] \in Frame
    BY <2>1, ElementOfSeq
  <2> QED
    BY <2>1, <2>2 DEF Frame
<1>4. /\ \A i \in 1..Len(q) : \E k \in 1..Len(o) : o[k] = f[q[i]].boot
      /\ \A k \in 1..Len(o) : \E i \in 1..Len(q) : IsFirst(f, q, o[k], i)
      /\ \A k, l \in 1..Len(o) : \A i, j \in 1..Len(q) :
           k < l /\ IsFirst(f, q, o[k], i) /\ IsFirst(f, q, o[l], j) => i < j
  BY DEF Arrivals, Heard
<1>5. r[Len(q) + 1] = n /\ f[r[Len(q) + 1]].boot = c
  BY <1>1
<1> HIDE DEF c
<1>6. /\ p \in Seq(Nat) /\ HasPlace(p, c)
      /\ \A k \in 1..Len(o) : k \in 1..Len(p) /\ p[k] = o[k]
      /\ HasPlace(o, c) => p = o
      /\ ~HasPlace(o, c) => /\ p[Len(o) + 1] = c /\ Len(o) + 1 \in 1..Len(p)
                            /\ \A k \in 1..Len(p) : k \in 1..Len(o) \/ k = Len(o) + 1
                            /\ \A k \in 1..Len(o) : o[k] # c
  BY <1>3, PlacesAfter DEF c
<1>7. \A i \in 1..Len(r) : \E k \in 1..Len(p) : p[k] = f[r[i]].boot
  <2> SUFFICES ASSUME NEW i \in 1..Len(r) PROVE \E k \in 1..Len(p) : p[k] = f[r[i]].boot
    OBVIOUS
  <2>1. CASE i = Len(q) + 1
    BY <2>1, <1>5, <1>6 DEF HasPlace
  <2>2. CASE i \in 1..Len(q)
    <3>1. PICK k \in 1..Len(o) : o[k] = f[q[i]].boot
      BY <2>2, <1>4
    <3> QED
      BY <2>2, <3>1, <1>1, <1>6
  <2> QED
    BY <2>1, <2>2, <1>2
<1>8. CASE HasPlace(o, c)
  <2>1. PICK j \in 1..Len(q) : IsFirst(f, q, c, j)
    BY <1>4, <1>8 DEF HasPlace
  <2>2. f[q[j]].boot = c
    BY <2>1 DEF IsFirst
  <2>3. \A b : \A i \in 1..Len(r) : IsFirst(f, r, b, i) => i \in 1..Len(q) /\ IsFirst(f, q, b, i)
    BY <2>2, <1>1
  <2>4. \A k \in 1..Len(o) : \E i \in 1..Len(r) : IsFirst(f, r, o[k], i)
    BY <1>1, <1>2, <1>4
  <2>5. \A k, l \in 1..Len(o) : \A i, m \in 1..Len(r) :
          k < l /\ IsFirst(f, r, o[k], i) /\ IsFirst(f, r, o[l], m) => i < m
    BY <2>3, <1>4
  <2>6. Heard(f, r, o)
    BY <2>4, <2>5, <1>6, <1>7, <1>8 DEF Heard
  <2> QED
    BY <2>6, <1>1, <1>3, <1>6, <1>8 DEF Arrivals
<1>9. CASE ~HasPlace(o, c)
  <2>1. \A j \in 1..Len(q) : f[q[j]].boot # c
    BY <1>4, <1>9 DEF HasPlace
  <2>2. IsFirst(f, r, c, Len(q) + 1)
    <3>1. ASSUME NEW j \in 1..Len(r), f[r[j]].boot = c PROVE Len(q) + 1 <= j
      <4>1. j = Len(q) + 1
        BY <3>1, <2>1, <1>1, <1>2
      <4> QED
        BY <4>1, <1>1
    <3> QED
      BY <3>1, <1>2, <1>5 DEF IsFirst
  <2>3. ASSUME NEW k \in 1..Len(p) PROVE \E i \in 1..Len(r) : IsFirst(f, r, p[k], i)
    <3>1. CASE k = Len(o) + 1
      BY <3>1, <2>2, <1>2, <1>6, <1>9
    <3>2. CASE k \in 1..Len(o)
      <4>1. PICK i \in 1..Len(q) : IsFirst(f, q, o[k], i)
        BY <3>2, <1>4
      <4> QED
        BY <3>2, <4>1, <1>1, <1>2, <1>6
    <3> QED
      BY <3>1, <3>2, <1>6, <1>9
  <2>4. ASSUME NEW k \in 1..Len(p), NEW l \in 1..Len(p), NEW i \in 1..Len(r),
               NEW j \in 1..Len(r),
               k < l, IsFirst(f, r, p[k], i), IsFirst(f, r, p[l], j)
        PROVE  i < j
    <3>1. k \in 1..Len(o) /\ p[k] = o[k] /\ o[k] # c
      <4>1. k # Len(o) + 1
        <5>1. Len(o) \in Nat /\ (l \in 1..Len(o) \/ l = Len(o) + 1)
          BY <1>3, <1>6, <1>9, LenProperties
        <5> QED
          BY <5>1, <2>4
      <4> QED
        BY <4>1, <1>6, <1>9
    <3>2. i \in 1..Len(q) /\ IsFirst(f, q, o[k], i)
      BY <3>1, <2>4, <1>1
    <3>3. CASE l = Len(o) + 1
      <4>1. f[r[j]].boot = c
        BY <3>3, <2>4, <1>6, <1>9 DEF IsFirst
      <4>2. j = Len(q) + 1
        BY <4>1, <2>1, <1>1, <1>2
      <4> QED
        BY <3>2, <4>2, <1>1
    <3>4. CASE l \in 1..Len(o)
      <4>1. p[l] = o[l] /\ o[l] # c
        BY <3>4, <1>6, <1>9
      <4>2. j \in 1..Len(q) /\ IsFirst(f, q, o[l], j)
        BY <4>1, <2>4, <1>1
      <4> QED
        BY <2>4, <3>1, <3>2, <3>4, <4>2, <1>4
    <3> QED
      BY <3>3, <3>4, <1>6, <1>9
  <2>5. Heard(f, r, p)
    BY <2>3, <2>4, <1>7 DEF Heard
  <2> QED
    BY <2>5, <1>1, <1>3, <1>6 DEF Arrivals
<1> QED
  BY <1>8, <1>9

LEMMA TelStays ==
  ASSUME TelInv, UNCHANGED <<frames, arrived, boots, head>>, kept' \subseteq kept
  PROVE  TelInv'
BY DEF TelInv

LEMMA MakeTelInv ==
  ASSUME TelInv, NEW restart \in BOOLEAN, NEW clocked \in BOOLEAN, Tel!Make(restart, clocked)
  PROVE  TelInv'
<1> DEFINE n == Len(frames) + 1
           b == IF frames = <<>> THEN 1
                ELSE Tel!Boot(n - 1) + (IF restart THEN 1 ELSE 0)
           f == [boot |-> b, at |-> IF clocked THEN n ELSE 0]
<1>1. frames' = Append(frames, f) /\ UNCHANGED <<arrived, kept, boots, head>>
  BY DEF Tel!Make
<1>2. frames \in Seq(Frame) /\ Len(frames) \in Nat /\ head \in 0..Len(frames)
  BY DEF TelInv, Arrivals
<1>3. b \in Nat
  <2>1. CASE frames = <<>>
    BY <2>1
  <2>2. CASE frames # <<>>
    <3>1. n - 1 \in 1..Len(frames)
      BY <2>2, <1>2
    <3>2. frames[n - 1] \in Frame
      BY <3>1, <1>2, ElementOfSeq
    <3> QED
      BY <2>2, <3>2 DEF Tel!Boot, Frame
  <2> QED
    BY <2>1, <2>2
<1>4. f \in Frame
  BY <1>2, <1>3 DEF Frame
<1> HIDE DEF f
<1>5. Arrivals(frames', arrived, boots) /\ Len(frames') = Len(frames) + 1
  BY <1>1, <1>4, ArrivalsAfterMake DEF TelInv
<1>6. head \in 0..Len(frames')
  BY <1>2, <1>5
<1> QED
  BY <1>1, <1>5, <1>6 DEF TelInv

\* What save does to the arrivals, whether or not the frame becomes the live one.
LEMMA SaveIs ==
  ASSUME TelInv, NEW w \in Worker, NEW n \in 1..Len(frames), NEW live \in BOOLEAN,
         NEW fresh \in BOOLEAN, Tel!Save(w, n, live, fresh)
  PROVE  /\ frames' = frames /\ kept' = kept \cup {n} /\ head' \in {head, n}
         /\ n \in kept => arrived' = arrived /\ boots' = boots
         /\ n \notin kept => /\ Arrives(frames, arrived, n, arrived')
                           /\ Listens(boots, frames[n].boot, boots')
         /\ head' # head => n \notin kept /\ head' = n /\ Tel!Supersedes(n, live)
<1>1. boots \in Seq(Nat)
  BY DEF TelInv, Arrivals
<1>2. Tel!Range(boots) = {boots[k] : k \in 1..Len(boots)}
  BY <1>1 DEF Tel!Range
<1>3. \A c : c \in Tel!Range(boots) <=> HasPlace(boots, c)
  BY <1>2 DEF HasPlace
<1>4. Listens(boots, frames[n].boot, boots')
  BY <1>3 DEF Tel!Save, Tel!Boot, Listens
<1>5. n \in kept => HasPlace(boots, frames[n].boot)
  BY DEF TelInv, Arrivals, Heard, HasPlace
<1>6. n \in kept => arrived' = arrived /\ boots' = boots
  BY <1>4, <1>5 DEF Tel!Save, Listens
<1>7. n \notin kept => Arrives(frames, arrived, n, arrived')
  BY DEF Tel!Save, Arrives
<1>8. /\ frames' = frames /\ kept' = kept \cup {n} /\ head' \in {head, n}
      /\ head' # head => n \notin kept /\ head' = n /\ Tel!Supersedes(n, live)
  BY DEF Tel!Save
<1> QED
  BY <1>4, <1>6, <1>7, <1>8

LEMMA SaveTelInv ==
  ASSUME TelInv, NEW w \in Worker, NEW n \in 1..Len(frames), NEW live \in BOOLEAN,
         NEW fresh \in BOOLEAN, Tel!Save(w, n, live, fresh)
  PROVE  TelInv'
<1>1. /\ frames' = frames /\ kept' = kept \cup {n} /\ head' \in {head, n}
      /\ n \in kept => arrived' = arrived /\ boots' = boots
      /\ n \notin kept => /\ Arrives(frames, arrived, n, arrived')
                        /\ Listens(boots, frames[n].boot, boots')
  BY SaveIs
<1>2. head' \in 0..Len(frames)
  BY <1>1 DEF TelInv
<1>3. CASE n \in kept
  <2>1. arrived' = arrived /\ boots' = boots /\ kept' = kept
    BY <1>1, <1>3
  <2>2. \A m \in kept' \cup ({head'} \ {0}) : m \in kept \cup ({head} \ {0})
    BY <2>1, <1>1, <1>3
  <2> QED
    BY <2>1, <2>2, <1>1, <1>2 DEF TelInv
<1>4. CASE n \notin kept
  <2>1. Arrivals(frames, arrived', boots')
    BY <1>1, <1>4, ArrivalsAfterSave DEF TelInv
  <2>2. /\ Len(arrived') = Len(arrived) + 1 /\ Len(arrived) \in Nat
        /\ arrived'[Len(arrived) + 1] = n
        /\ \A i \in 1..Len(arrived) : arrived'[i] = arrived[i]
    BY <1>1, <1>4, FirstsAfter DEF TelInv
  <2>3. Len(arrived) + 1 \in 1..Len(arrived') /\ 1..Len(arrived) \subseteq 1..Len(arrived')
    BY <2>2
  <2>4. ASSUME NEW m \in kept' \cup ({head'} \ {0})
        PROVE  \E i \in 1..Len(arrived') : arrived'[i] = m
    <3>1. CASE m = n
      BY <3>1, <2>2, <2>3
    <3>2. CASE m # n
      <4>1. PICK i \in 1..Len(arrived) : arrived[i] = m
        BY <3>2, <1>1 DEF TelInv
      <4> QED
        BY <4>1, <2>2, <2>3
    <3> QED
      BY <3>1, <3>2
  <2> QED
    BY <2>1, <2>4, <1>1, <1>2 DEF TelInv
<1> QED
  BY <1>3, <1>4

LEMMA NextTelInv == TelInv /\ [Tel!Next]_Tel!vars => TelInv'
<1> SUFFICES ASSUME TelInv, [Tel!Next]_Tel!vars PROVE TelInv'
  OBVIOUS
<1>1. CASE \E restart, clocked \in BOOLEAN : Tel!Make(restart, clocked)
  BY <1>1, MakeTelInv
<1>2. CASE \E w \in Worker, n \in 1..Len(frames), live, fresh \in BOOLEAN :
             Tel!Save(w, n, live, fresh)
  BY <1>2, SaveTelInv
<1>3. CASE (\E w \in Worker : Tel!Report(w) \/ Tel!Fail(w)) \/ UNCHANGED Tel!vars
  <2>1. UNCHANGED <<frames, arrived, boots, head>> /\ kept' \subseteq kept
    BY <1>3 DEF Tel!Report, Tel!Fail, Tel!vars
  <2> QED
    BY <2>1, TelStays
<1>4. CASE \E n \in Tel!N : Tel!Prune(n)
  <2>1. UNCHANGED <<frames, arrived, boots, head>> /\ kept' \subseteq kept
    BY <1>4 DEF Tel!Prune
  <2> QED
    BY <2>1, TelStays
<1> QED
  BY <1>1, <1>2, <1>3, <1>4 DEF Tel!Next

\* A set of numbers has a least one.
LEMMA LeastNat ==
  ASSUME NEW T \in SUBSET Nat, T # {}
  PROVE  \E n \in T : \A m \in T : n <= m
<1> DEFINE Less == {p \in Nat \X Nat : p[1] < p[2]}
<1>1. IsWellFoundedOn(Less, Nat)
  BY NatLessThanWellFounded DEF OpToRel
<1>2. \A x, y \in T : <<y, x>> \in Less <=> y < x
  OBVIOUS
<1> HIDE DEF Less
<1>3. \E x \in T : \A y \in T : ~ (<<y, x>> \in Less)
  BY <1>1, WFMin
<1>4. PICK x \in T : \A y \in T : ~ (<<y, x>> \in Less)
  BY <1>3
<1>5. \A y \in T : x <= y
  <2> SUFFICES ASSUME NEW y \in T PROVE x <= y
    OBVIOUS
  <2>1. x \in Nat /\ y \in Nat /\ ~(y < x)
    BY <1>2, <1>4
  <2> QED
    BY <2>1
<1> QED
  BY <1>5

\* The place at which a boot was first heard of, of those that were.
FirstAt(f, q, b) == LET I == {i \in 1..Len(q) : f[q[i]].boot = b}
                    IN IF I # {} THEN Tel!Min(I) ELSE 0

LEMMA FirstAtIs ==
  ASSUME NEW f, NEW q, NEW o, Arrivals(f, q, o), NEW b,
         NEW i \in 1..Len(q), f[q[i]].boot = b
  PROVE  IsFirst(f, q, b, FirstAt(f, q, b))
<1> DEFINE I == {k \in 1..Len(q) : f[q[k]].boot = b}
<1>1. I \in SUBSET Nat
  OBVIOUS
<1>2. i \in I
  OBVIOUS
<1>3. Tel!Min(I) \in I /\ \A k \in I : Tel!Min(I) <= k
  <2> HIDE DEF I
  <2> QED
    BY <1>1, <1>2, LeastNat DEF Tel!Min
<1>4. FirstAt(f, q, b) = Tel!Min(I)
  BY <1>2 DEF FirstAt
<1>5. IsFirst(f, q, b, Tel!Min(I))
  BY <1>3 DEF IsFirst
<1> QED
  BY <1>4, <1>5

HeardAt == /\ DOMAIN Tel!FirstHeard = {frames[n].boot : n \in Tel!Range(arrived)}
           /\ \A b \in DOMAIN Tel!FirstHeard :
                Tel!FirstHeard[b] = FirstAt(frames, arrived, b)

LEMMA FirstHeardIs == HeardAt
<1>1. DOMAIN Tel!FirstHeard = {frames[n].boot : n \in Tel!Range(arrived)}
  BY DEF Tel!FirstHeard, Tel!Boot
<1>2. ASSUME NEW b \in DOMAIN Tel!FirstHeard
      PROVE  Tel!FirstHeard[b] = FirstAt(frames, arrived, b)
  <2> DEFINE I == {i \in 1..Len(arrived) : frames[arrived[i]].boot = b}
  <2>1. Tel!FirstHeard[b] = Tel!SelectInSeq(arrived, LAMBDA n : Tel!Boot(n) = b)
    BY <1>2 DEF Tel!FirstHeard
  <2>2. Tel!SelectInSeq(arrived, LAMBDA n : Tel!Boot(n) = b)
          = IF I # {} THEN Tel!Min(I) ELSE 0
    BY DEF Tel!SelectInSeq, Tel!Boot
  <2> QED
    BY <2>1, <2>2 DEF FirstAt
<1> QED
  BY <1>1, <1>2 DEF HeardAt

Moves ==
  head # 0 /\ head' # head =>
    /\ head' # 0
    /\ IF Tel!Boot(head') = Tel!Boot(head) THEN head' > head
       ELSE Tel!FirstHeard'[Tel!Boot(head)] < Tel!FirstHeard'[Tel!Boot(head')]

LEMMA StepMoves ==
  ASSUME TelInv, TelInv', [Tel!Next]_Tel!vars
  PROVE  Moves
<1>1. SUFFICES ASSUME head # 0, head' # head PROVE Moves
  BY DEF Moves
<1>2. PICK w \in Worker, n \in 1..Len(frames), live \in BOOLEAN, fresh \in BOOLEAN :
        Tel!Save(w, n, live, fresh)
  BY <1>1 DEF Tel!Next, Tel!Make, Tel!Report, Tel!Fail, Tel!Prune, Tel!vars
<1>3. /\ frames' = frames /\ n \notin kept /\ head' = n /\ Tel!Supersedes(n, live)
      /\ Arrives(frames, arrived, n, arrived')
      /\ Listens(boots, frames[n].boot, boots')
  BY <1>1, <1>2, SaveIs
<1> DEFINE b == frames[head].boot
           c == frames[n].boot
           at(x) == FirstAt(frames, arrived', x)
<1>4. Tel!Order(c) >= Tel!Order(b) /\ (c = b => n > head)
  BY <1>1, <1>3 DEF Tel!Supersedes, Tel!Boot
<1>5. /\ Arrivals(frames, arrived, boots) /\ Arrivals(frames, arrived', boots')
      /\ \E i \in 1..Len(arrived) : arrived[i] = head
  BY <1>1, <1>3 DEF TelInv
<1>6. /\ Len(arrived') = Len(arrived) + 1 /\ Len(arrived) \in Nat
      /\ arrived'[Len(arrived) + 1] = n
      /\ \A i \in 1..Len(arrived) : arrived'[i] = arrived[i]
  BY <1>3, <1>5, FirstsAfter
<1>7. PICK i \in 1..Len(arrived') : arrived'[i] = head
  BY <1>5, <1>6
<1>8. PICK j \in 1..Len(arrived') : arrived'[j] = n
  BY <1>6
<1>9. IsFirst(frames, arrived', b, at(b)) /\ IsFirst(frames, arrived', c, at(c))
  <2>1. frames[arrived'[i]].boot = b /\ frames[arrived'[j]].boot = c
    BY <1>7, <1>8
  <2>2. IsFirst(frames, arrived', b, at(b))
    BY <2>1, <1>5, FirstAtIs
  <2>3. IsFirst(frames, arrived', c, at(c))
    BY <2>1, <1>5, FirstAtIs
  <2> QED
    BY <2>2, <2>3
<1>10. Tel!FirstHeard'[b] = at(b) /\ Tel!FirstHeard'[c] = at(c)
  <2>1. arrived' \in Seq(1..Len(frames))
    BY <1>5 DEF Arrivals
  <2>2. head \in Tel!Range(arrived') /\ n \in Tel!Range(arrived')
    BY <2>1, <1>7, <1>8 DEF Tel!Range
  <2>3. HeardAt'
    BY FirstHeardIs, PTL
  <2> QED
    BY <2>2, <2>3, <1>3 DEF HeardAt
<1> HIDE DEF at
<1>11. ASSUME c # b PROVE at(b) < at(c)
  <2>1. /\ boots \in Seq(Nat) /\ Len(boots) \in Nat /\ c \in Nat
    <3>1. frames \in Seq(Frame) /\ boots \in Seq(Nat)
      BY <1>5 DEF Arrivals
    <3>2. frames[n] \in Frame
      BY <3>1, ElementOfSeq
    <3> QED
      BY <3>1, <3>2 DEF Frame
  <2>2. PICK k \in 1..Len(boots) : boots[k] = b
    BY <1>5 DEF Arrivals, Heard
  <2>3. Tel!Order(b) = k
    BY <2>2, OrderIs
  <2>4. k \in 1..Len(boots') /\ boots'[k] = b
    BY <2>1, <2>2, <1>3, PlacesAfter
  <2>5. PICK l \in 1..Len(boots') : boots'[l] = c /\ k < l
    <3>1. CASE HasPlace(boots, c)
      <4>1. PICK l \in 1..Len(boots) : boots[l] = c
        BY <3>1 DEF HasPlace
      <4>2. Tel!Order(c) = l
        BY <4>1, OrderIs
      <4>3. l >= k /\ l # k
        BY <4>1, <4>2, <2>2, <2>3, <1>4, <1>11
      <4>4. k < l
        BY <4>3, <2>1
      <4>5. boots' = boots
        BY <3>1, <1>3 DEF Listens
      <4> QED
        BY <4>1, <4>4, <4>5
    <3>2. CASE ~HasPlace(boots, c)
      <4>1. boots' = Append(boots, c)
        BY <3>2, <1>3 DEF Listens
      <4>2. boots'[Len(boots) + 1] = c /\ Len(boots) + 1 \in 1..Len(boots')
        BY <4>1, <2>1
      <4>3. k < Len(boots) + 1
        BY <2>1
      <4> QED
        BY <4>2, <4>3
    <3> QED
      BY <3>1, <3>2
  <2>6. at(b) \in 1..Len(arrived') /\ at(c) \in 1..Len(arrived')
    BY <1>9 DEF IsFirst
  <2>7. \A m, o \in 1..Len(boots') : \A x, y \in 1..Len(arrived') :
          /\ m < o
          /\ IsFirst(frames, arrived', boots'[m], x)
          /\ IsFirst(frames, arrived', boots'[o], y)
          => x < y
    BY <1>5 DEF Arrivals, Heard
  <2> QED
    BY <2>4, <2>5, <2>6, <2>7, <1>9
<1>12. Tel!Boot(head') = c /\ Tel!Boot(head) = b /\ n # 0
  BY <1>3 DEF Tel!Boot
<1> QED
  BY <1>3, <1>4, <1>10, <1>11, <1>12 DEF Moves

\* The live snapshot moves on within a boot, or to one that was first heard of later.
THEOREM SnapshotOnlyMovesOn == Tel!Spec => Tel!SnapshotMovesOn
<1>1. Tel!Spec => []TelInv
  BY TelInit, NextTelInv, PTL DEF Tel!Spec
<1>2. TelInv /\ TelInv' /\ [Tel!Next]_Tel!vars => [Moves]_Tel!vars
  BY StepMoves
<1>3. Tel!Spec => [][Moves]_Tel!vars
  BY <1>1, <1>2, PTL DEF Tel!Spec
<1> QED
  BY <1>3 DEF Tel!SnapshotMovesOn, Moves
-----------------------------------------------------------------------------
(* The types of the snapshot *)

TelTypes ==
  /\ frames \in Seq([boot : Nat \ {0}, at : 0..MaxFrames]) /\ Len(frames) <= MaxFrames
  /\ head \in kept \cup {0}
  /\ told \in 0..Len(arrived)
  /\ report \in [Worker -> 0..Len(arrived)]

\* The greatest of the numbers up to n that are in a set.
LEMMA GreatestUpTo ==
  ASSUME NEW n \in Nat, NEW T \in SUBSET (1..n), T # {}
  PROVE  Tel!Max(T) \in T
<1> DEFINE Above == {k \in Nat : \A m \in T : m <= k}
<1>1. n \in Above /\ Above \in SUBSET Nat
  OBVIOUS
<1>2. PICK k \in Above : \A m \in Above : k <= m
  <2> HIDE DEF Above
  <2> QED
    BY <1>1, LeastNat
<1>3. k \in Nat /\ \A m \in T : m <= k
  BY <1>2
<1>4. k \in T
  <2> SUFFICES ASSUME k \notin T PROVE FALSE
    OBVIOUS
  <2>1. \A m \in T : m <= k - 1
    <3> SUFFICES ASSUME NEW m \in T PROVE m <= k - 1
      OBVIOUS
    <3>1. m \in Nat /\ m <= k /\ m # k
      BY <1>3
    <3> QED
      BY <1>3, <3>1
  <2>2. PICK m \in T : m \in 1..n
    OBVIOUS
  <2>3. k - 1 \in Above
    BY <1>3, <2>1, <2>2
  <2> QED
    BY <1>2, <1>3, <2>3
<1> QED
  BY <1>3, <1>4 DEF Tel!Max

LEMMA RowIs ==
  ASSUME TelInv, NEW n
  PROVE  Tel!Row(n) \in 0..Len(arrived)
<1> DEFINE I == {i \in 1..Len(arrived) : arrived[i] = n}
<1>1. Len(arrived) \in Nat
  BY DEF TelInv, Arrivals
<1>2. Tel!SelectLastInSeq(arrived, LAMBDA m : m = n) = IF I # {} THEN Tel!Max(I) ELSE 0
  BY DEF Tel!SelectLastInSeq
<1>3. I # {} => Tel!Max(I) \in I
  BY <1>1, GreatestUpTo
<1>4. I \in SUBSET (0..Len(arrived))
  BY <1>1
<1> HIDE DEF I
<1> QED
  BY <1>1, <1>2, <1>3, <1>4 DEF Tel!Row

LEMMA MakeTelTypes ==
  ASSUME MaxFrames \in Nat, TelInv, TelTypes, NEW restart \in BOOLEAN,
         NEW clocked \in BOOLEAN, Tel!Make(restart, clocked)
  PROVE  TelTypes'
<1> DEFINE n == Len(frames) + 1
           b == IF frames = <<>> THEN 1
                ELSE Tel!Boot(n - 1) + (IF restart THEN 1 ELSE 0)
           f == [boot |-> b, at |-> IF clocked THEN n ELSE 0]
           Made == [boot : Nat \ {0}, at : 0..MaxFrames]
<1>1. /\ frames' = Append(frames, f) /\ n <= MaxFrames
      /\ UNCHANGED <<arrived, kept, head, told, report>>
  BY DEF Tel!Make
<1>2. frames \in Seq(Made) /\ Len(frames) \in Nat
  BY DEF TelTypes
<1>3. b \in Nat \ {0}
  <2>1. CASE frames = <<>>
    BY <2>1
  <2>2. CASE frames # <<>>
    <3>1. n - 1 \in 1..Len(frames)
      BY <2>2, <1>2
    <3>2. frames[n - 1] \in Made
      BY <3>1, <1>2, ElementOfSeq
    <3> QED
      BY <2>2, <3>2 DEF Tel!Boot
  <2> QED
    BY <2>1, <2>2
<1>4. f \in Made
  BY <1>1, <1>2, <1>3
<1> HIDE DEF f, Made
<1>5. frames' \in Seq(Made) /\ Len(frames') = n
  BY <1>1, <1>2, <1>4
<1> QED
  BY <1>1, <1>5 DEF TelTypes, Made

LEMMA SaveTelTypes ==
  ASSUME TelInv, TelTypes, NEW w \in Worker, NEW n \in 1..Len(frames),
         NEW live \in BOOLEAN, NEW fresh \in BOOLEAN, Tel!Save(w, n, live, fresh)
  PROVE  TelTypes'
<1>1. /\ frames' = frames /\ told' = told /\ kept' = kept \cup {n} /\ head' \in {head, n}
  BY SaveIs DEF Tel!Save
<1>2. Len(arrived) \in Nat /\ Len(arrived') \in {Len(arrived), Len(arrived) + 1}
  <2>1. arrived \in Seq(1..Len(frames)) /\ arrived' \in {arrived, Append(arrived, n)}
    BY DEF TelInv, Arrivals, Tel!Save
  <2> QED
    BY <2>1
<1>3. \E x \in 0..Len(arrived') : report' = [report EXCEPT ![w] = x]
  <2>1. PICK x \in {Len(arrived'), Tel!Row(n), 0} : report' = [report EXCEPT ![w] = x]
    BY DEF Tel!Save
  <2>2. x \in 0..Len(arrived')
    BY <1>2, <2>1, RowIs
  <2> QED
    BY <2>1, <2>2
<1>4. report' \in [Worker -> 0..Len(arrived')]
  <2>1. report \in [Worker -> 0..Len(arrived')]
    BY <1>2 DEF TelTypes
  <2> QED
    BY <1>3, <2>1
<1>5. told' \in 0..Len(arrived')
  BY <1>1, <1>2 DEF TelTypes
<1> QED
  BY <1>1, <1>4, <1>5 DEF TelTypes

LEMMA NextTelTypes ==
  ASSUME MaxFrames \in Nat, TelInv, TelTypes, [Tel!Next]_Tel!vars
  PROVE  TelTypes'
<1>1. CASE \E restart, clocked \in BOOLEAN : Tel!Make(restart, clocked)
  BY <1>1, MakeTelTypes
<1>2. CASE \E w \in Worker, n \in 1..Len(frames), live, fresh \in BOOLEAN :
             Tel!Save(w, n, live, fresh)
  BY <1>2, SaveTelTypes
<1>3. ASSUME NEW w \in Worker, Tel!Report(w) \/ Tel!Fail(w)
      PROVE  TelTypes'
  <2>1. /\ UNCHANGED <<frames, arrived, kept, head>> /\ told' \in {told, report[w]}
        /\ report' = [report EXCEPT ![w] = 0]
    BY <1>3 DEF Tel!Report, Tel!Fail
  <2>2. Len(arrived) \in Nat
    BY DEF TelInv, Arrivals
  <2> QED
    BY <2>1, <2>2 DEF TelTypes
<1>4. CASE \E n \in Tel!N : Tel!Prune(n)
  <2>1. /\ UNCHANGED <<frames, arrived, head, told, report>>
        /\ head \in kept => head \in kept'
    BY <1>4 DEF Tel!Prune
  <2> QED
    BY <2>1 DEF TelTypes
<1>5. CASE UNCHANGED Tel!vars
  BY <1>5 DEF TelTypes, Tel!vars
<1> QED
  BY <1>1, <1>2, <1>3, <1>4, <1>5 DEF Tel!Next

LEMMA TypesOfTel ==
  ASSUME MaxFrames \in Nat, TelInv, TelTypes
  PROVE  Tel!TypeOK
<1>1. /\ Len(frames) \in Nat /\ arrived \in Seq(1..Len(frames)) /\ boots \in Seq(Nat)
      /\ frames \in Seq([boot : Nat \ {0}, at : 0..MaxFrames])
  BY DEF TelInv, Arrivals, TelTypes
<1>2. arrived \in Seq(Tel!N)
  BY <1>1 DEF TelTypes, Tel!N
<1>3. kept \subseteq Tel!Range(arrived)
  <2> SUFFICES ASSUME NEW n \in kept PROVE n \in Tel!Range(arrived)
    OBVIOUS
  <2>1. PICK i \in 1..Len(arrived) : arrived[i] = n
    BY DEF TelInv
  <2>2. i \in DOMAIN arrived
    BY <1>1
  <2> QED
    BY <2>1, <2>2 DEF Tel!Range
<1>4. boots \in Seq(Nat \ {0})
  <2>1. ASSUME NEW k \in 1..Len(boots) PROVE boots[k] \in Nat \ {0}
    <3>1. PICK i \in 1..Len(arrived) : frames[arrived[i]].boot = boots[k]
      BY DEF TelInv, Arrivals, Heard, IsFirst
    <3>2. arrived[i] \in 1..Len(frames)
      BY <1>1, ElementOfSeq
    <3>3. frames[arrived[i]] \in [boot : Nat \ {0}, at : 0..MaxFrames]
      BY <1>1, <3>2, ElementOfSeq
    <3> QED
      BY <3>1, <3>3
  <2>2. Len(boots) \in Nat /\ boots \in [1..Len(boots) -> Nat \ {0}]
    BY <1>1, <2>1
  <2> QED
    BY <2>2, SeqDef
<1>5. Tel!IsInjective(boots)
  <2>1. DOMAIN boots = 1..Len(boots)
    BY <1>1
  <2> QED
    BY <2>1, OnePlace DEF Tel!IsInjective, TelInv
<1> QED
  BY <1>1, <1>2, <1>3, <1>4, <1>5 DEF TelTypes, Tel!TypeOK

\* Every variable of the snapshot has its type: what is reported and what is live are rows
\* that arrived, and a boot is listed once (telemetry-store.ts, save and prune).
THEOREM SnapshotTypeOK == ASSUME MaxFrames \in Nat PROVE Tel!Spec => []Tel!TypeOK
<1>1. Tel!Init => TelInv /\ TelTypes
  BY TelInit DEF Tel!Init, TelTypes
<1>2. TelInv /\ TelTypes /\ [Tel!Next]_Tel!vars => (TelInv /\ TelTypes)'
  BY NextTelInv, NextTelTypes
<1>3. TelInv /\ TelTypes => Tel!TypeOK
  BY TypesOfTel
<1> QED
  BY <1>1, <1>2, <1>3, PTL DEF Tel!Spec
=============================================================================
