-------------------------- MODULE MeasurementIngest --------------------------
(***************************************************************************)
(* AirQualityService.ingest: a measurement is stored, a forecast is asked  *)
(* of the model and saved, its outcome is noted, a recommendation is made  *)
(* and the automation runs.  Each step is a query of its own, between      *)
(* which other requests run; any of them may fail, and the process may     *)
(* die.  A device sends the same measurement until it is answered, and     *)
(* requests with an equal measurement share one promise.                   *)
(***************************************************************************)
EXTENDS Integers, FiniteSets

CONSTANTS
  Key,       \* the identities of measurements (ingest_key)
  Worker,    \* bound: requests at once
  MaxFaults, \* bound: failures and crashes
  nobody

VARIABLES
  measured,  \* rows of measurements: "none", "live", "historical"
  forecast,  \* the measurements with a row of predictions
  status,    \* measurements.prediction_status
  advice,    \* rows of recommendations: "none", "without" or "with" a forecast
  answered,  \* the measurements the device has got a 2xx for
  inFlight,  \* AirQualityService.inFlight
  job,       \* the requests
  faults

vars == <<measured, forecast, status, advice, answered, inFlight, job, faults>>
tables == <<measured, forecast, status, advice>>

Idle == [pc |-> "idle"]
Working == {"create", "historical", "lookup", "predict", "outcome", "advise", "answer"}

TypeOK ==
  /\ measured \in [Key -> {"none", "live", "historical"}]
  /\ forecast \subseteq {k \in Key : measured[k] = "live"}
  /\ status \in [Key -> {"pending", "ready", "unavailable"}]
  /\ advice \in [Key -> {"none", "without", "with"}]
  /\ answered \subseteq {k \in Key : measured[k] # "none"}
  /\ inFlight \in [Key -> Worker \cup {nobody}]
  /\ job \in [Worker -> {Idle} \cup [pc : Working \cup {"waiting"}, key : Key, live : BOOLEAN,
                                   found : BOOLEAN]]

Init ==
  /\ measured = [k \in Key |-> "none"] /\ forecast = {}
  /\ status = [k \in Key |-> "pending"] /\ advice = [k \in Key |-> "none"]
  /\ answered = {} /\ inFlight = [k \in Key |-> nobody]
  /\ job = [w \in Worker |-> Idle] /\ faults = 0

-----------------------------------------------------------------------------
\* ingest; live: not historicalOnly.
Ingest(w, k, live) ==
  /\ job[w] = Idle
  /\ inFlight' = IF inFlight[k] = nobody THEN [inFlight EXCEPT ![k] = w] ELSE inFlight
  /\ job' = [job EXCEPT ![w] = [pc |-> IF inFlight[k] = nobody THEN "create" ELSE "waiting",
                               key |-> k, live |-> live, found |-> FALSE]]
  /\ UNCHANGED <<tables, answered, faults>>

\* ingestOnce, await by await.  createMeasurement inserts or finds the row; what was
\* inserted first decides whether it is history only.
Create(w) ==
  LET k    == job[w].key
      kind == IF measured[k] # "none" THEN measured[k]
              ELSE IF job[w].live THEN "live" ELSE "historical"
  IN /\ job[w].pc = "create"
     /\ measured' = [measured EXCEPT ![k] = kind]
     /\ job' = [job EXCEPT ![w].pc = IF kind = "live" THEN "lookup" ELSE "historical"]
     /\ UNCHANGED <<forecast, status, advice, answered, inFlight, faults>>

\* setPredictionOutcome; a forecast that exists wins.
Settled(k) == [status EXCEPT ![k] = IF k \in forecast THEN "ready" ELSE "unavailable"]

Historical(w) ==
  /\ job[w].pc = "historical"
  /\ status' = Settled(job[w].key)
  /\ job' = [job EXCEPT ![w].pc = "answer"]
  /\ UNCHANGED <<measured, forecast, advice, answered, inFlight, faults>>

\* Mistake: a settled outcome is taken for a completed measurement.
LookupOutcome(w) ==
  LET k == job[w].key
  IN /\ job[w].pc = "lookup"
     /\ job' = [job EXCEPT ![w].found = k \in forecast,
                           ![w].pc = IF status[k] # "pending" THEN "answer"
                                     ELSE IF k \in forecast THEN "outcome" ELSE "predict"]
     /\ UNCHANGED <<tables, answered, inFlight, faults>>

\* Mistake: a forecast that is already there is not looked for.
LookupNothing(w) ==
  /\ job[w].pc = "lookup"
  /\ job' = [job EXCEPT ![w].pc = "predict"]
  /\ UNCHANGED <<tables, answered, inFlight, faults>>

\* A retry of what was completed returns it; a retry after a failure resumes.
Lookup(w) ==
  LET k == job[w].key
  IN /\ job[w].pc = "lookup"
     /\ job' = [job EXCEPT ![w].found = k \in forecast,
                           ![w].pc = IF advice[k] # "none" /\ status[k] # "pending"
                                     THEN "answer"
                                     ELSE IF k \in forecast THEN "outcome" ELSE "predict"]
     /\ UNCHANGED <<tables, answered, inFlight, faults>>

\* MlClient.predict and savePrediction.  Too little history, a refusal, a timeout and an
\* invalid answer all leave the measurement without a forecast.
Predict(w, ok) ==
  /\ job[w].pc = "predict"
  /\ forecast' = IF ok THEN forecast \cup {job[w].key} ELSE forecast
  /\ job' = [job EXCEPT ![w].found = ok, ![w].pc = "outcome"]
  /\ UNCHANGED <<measured, status, advice, answered, inFlight, faults>>

Outcome(w) ==
  /\ job[w].pc = "outcome"
  /\ status' = Settled(job[w].key)
  /\ job' = [job EXCEPT ![w].pc = "advise"]
  /\ UNCHANGED <<measured, forecast, advice, answered, inFlight, faults>>

\* createRecommendation; one made with a forecast stays.  The reconcile that follows is
\* ControlService's, and its failure is only logged.
Advise(w) ==
  LET k == job[w].key
  IN /\ job[w].pc = "advise"
     /\ advice' = [advice EXCEPT ![k] = IF job[w].found \/ @ = "with" THEN "with"
                                        ELSE "without"]
     /\ job' = [job EXCEPT ![w].pc = "answer"]
     /\ UNCHANGED <<measured, forecast, status, answered, inFlight, faults>>

-----------------------------------------------------------------------------
\* The promise of w settles: its entry goes, and those who share it end with it.
Sharing(w) == {v \in Worker : job[v] # Idle /\ job[v].key = job[w].key}
Settle(w) ==
  /\ job' = [v \in Worker |-> IF v \in Sharing(w) THEN Idle ELSE job[v]]
  /\ inFlight' = [inFlight EXCEPT ![job[w].key] = nobody]

Answer(w) ==
  /\ job[w].pc = "answer"
  /\ answered' = answered \cup {job[w].key}
  /\ Settle(w)
  /\ UNCHANGED <<tables, faults>>

\* Mistake: a promise that failed stays in the map.
FailRemembered(w) ==
  /\ faults < MaxFaults
  /\ job[w].pc \in Working
  /\ job' = [v \in Worker |-> IF v \in Sharing(w) THEN Idle ELSE job[v]]
  /\ faults' = faults + 1
  /\ UNCHANGED <<tables, answered, inFlight>>

\* A query fails: the requests end with 500, and the device will try again.
Fail(w) ==
  /\ faults < MaxFaults
  /\ job[w].pc \in Working
  /\ Settle(w)
  /\ faults' = faults + 1
  /\ UNCHANGED <<tables, answered>>

Crash ==
  /\ faults < MaxFaults
  /\ job' = [w \in Worker |-> Idle]
  /\ inFlight' = [k \in Key |-> nobody]
  /\ faults' = faults + 1
  /\ UNCHANGED <<tables, answered>>

Work(w) == \/ Create(w) \/ Historical(w) \/ Lookup(w)
           \/ \E ok \in BOOLEAN : Predict(w, ok)
           \/ Outcome(w) \/ Advise(w) \/ Answer(w)

Next ==
  \/ \E w \in Worker : \/ \E k \in Key, live \in BOOLEAN : Ingest(w, k, live)
                      \/ Work(w)
                      \/ Fail(w)
  \/ Crash

Spec == Init /\ [][Next]_vars

\* A device sends a measurement until it is answered, and the database and the model
\* answer or time out.
Sent(k) == k \notin answered /\ \E w \in Worker, live \in BOOLEAN : Ingest(w, k, live)
Fairness ==
  /\ \A w \in Worker : WF_vars(Work(w))
  /\ \A k \in Key : SF_vars(Sent(k))
FairSpec == Spec /\ Fairness

-----------------------------------------------------------------------------
\* A measurement that is answered has an outcome, and advice unless it is history
\* only: however many retries, failures and crashes it took.
AnsweredIsDone ==
  \A k \in answered : /\ status[k] # "pending"
                       /\ measured[k] = "live" => advice[k] # "none"

\* A forecast that was saved is what the answered measurement shows and what its
\* advice rests on, also when the attempt that saved it did not finish.
ForecastIsUsed ==
  \A k \in answered \cap forecast : status[k] = "ready" /\ advice[k] = "with"

\* One request at a time works on one measurement.
OneWorksOnEach ==
  \A v, w \in Worker :
    job[v] # Idle /\ job[w] # Idle /\ job[v].key = job[w].key
    /\ {job[v].pc, job[w].pc} \subseteq Working => v = w

\* A measurement the device keeps sending is answered in the end.
EachIsAnswered == \A k \in Key : <>[](k \in answered)
=============================================================================
