------------------------ MODULE ControlServiceProofs ------------------------
(***************************************************************************)
(* Theorems about the control service, for every number of fans and jobs,  *)
(* whatever the measurements, the requests and the reports may be.         *)
(***************************************************************************)
EXTENDS ControlService, TLAPS

Steps == [step: {"idle", "reset", "queue"}, plan: Plans]

LEMMA QueueTypes ==
  ASSUME last \in [Target -> Command], NEW plan \in Plans,
         NEW source \in {"manual", "automatic"}, Queue(plan, source)
  PROVE  last' \in [Target -> Command]
<1>1. ASSUME NEW t \in Created(plan, source)
      PROVE  [status |-> "pending", want |-> plan[t], source |-> source] \in Command
  <2>1. t \in DOMAIN plan /\ plan \in [DOMAIN plan -> BOOLEAN]
    BY <1>1 DEF Created, Plans
  <2>2. plan[t] \in BOOLEAN
    BY <2>1
  <2> QED
    BY <2>2 DEF Command
<1> QED
  BY <1>1 DEF Queue

LEMMA EndTypes ==
  ASSUME last \in [Target -> Command], NEW T, End(T)
  PROVE  last' \in [Target -> Command]
<1>1. ASSUME NEW t \in Target PROVE [last[t] EXCEPT !.status = "failed"] \in Command
  <2>1. last[t] \in Command
    OBVIOUS
  <2> QED
    BY <2>1 DEF Command
<1> QED
  BY <1>1 DEF End

LEMMA DecisionTypes == Decision \in Plans
<1>1. Starts \cup Stops \in SUBSET Target
  BY DEF Starts, Stops
<1>2. Decision \in [Starts \cup Stops -> BOOLEAN]
  BY DEF Decision
<1> QED
  BY <1>1, <1>2 DEF Plans

LEMMA ReportTypes ==
  ASSUME TypeOK, NEW seen \in Coverage, NEW position \in [seen -> BOOLEAN],
         NEW answers \in Answers, Report(seen, position, answers)
  PROVE  TypeOK'
<1>1. reported' \in [Target -> BOOLEAN]
  BY DEF TypeOK, Report
<1>2. known' \in SUBSET Target
  BY ControlServiceAssumption DEF Report
<1>3. last' \in [Target -> Command]
  <2>1. ASSUME NEW t \in Target, t \in DOMAIN answers
        PROVE  [last[t] EXCEPT !.status = answers[t]] \in Command
    <3>1. last[t] \in Command /\ answers[t] \in {"applied", "failed"}
      BY <2>1 DEF TypeOK, Answers
    <3> QED
      BY <3>1 DEF Command
  <2> QED
    BY <2>1 DEF TypeOK, Report
<1>4. /\ aired' \in BOOLEAN /\ (aired' => reported'[Window])
      /\ vented' \in BOOLEAN /\ (vented' => \E f \in Fan : reported'[f])
  BY DEF TypeOK, Report, FanRuns
<1> QED
  BY <1>1, <1>2, <1>3, <1>4 DEF TypeOK, Report

LEMMA IdleTypes ==
  /\ Idle \in Steps
  /\ NoPlan \in Plans
<1>1. NoPlan \in Plans
  <2>1. NoPlan \in [{} -> BOOLEAN] /\ {} \in SUBSET Target
    BY DEF NoPlan
  <2> QED
    BY <2>1, Zenon DEF Plans
<1> QED
  BY <1>1 DEF Idle, Steps

LEMMA TypeInductive == ASSUME TypeOK, [Next]_vars PROVE TypeOK'
<1> USE ControlServiceAssumption DEF Steps
<1>1. ASSUME NEW j \in Job, SeeExpired(j) \/ Reset(j) \/ Decide(j) PROVE TypeOK'
  <2>1. job[j] \in Steps
    BY DEF TypeOK
  <2>2. [job[j] EXCEPT !.step = "reset"] \in Steps
    BY <2>1
  <2>3. [step |-> "queue", plan |-> Decision] \in Steps
    BY DecisionTypes
  <2>4. job' \in [Job -> Steps]
    BY <1>1, <2>2, <2>3, IdleTypes DEF TypeOK, SeeExpired, Reset, Decide
  <2> QED
    BY <1>1, <2>4 DEF TypeOK, SeeExpired, Reset, Decide, tables
<1>2. ASSUME NEW j \in Job, Submit(j) PROVE TypeOK'
  <2>1. job[j].plan \in Plans
    BY DEF TypeOK
  <2>2. last' \in [Target -> Command]
    BY <1>2, <2>1, QueueTypes DEF TypeOK, Submit
  <2>3. job' \in [Job -> Steps]
    BY <1>2, IdleTypes DEF TypeOK, Submit
  <2> QED
    BY <1>2, <2>2, <2>3 DEF TypeOK, Submit
<1>3. ASSUME NEW plan \in Requests, RequestFans(plan) \/ RequestWindow(plan)
      PROVE  TypeOK'
  <2>1. plan \in Plans
    OBVIOUS
  <2>2. RequestFans(plan) => last' \in [Target -> Command]
    BY <2>1, QueueTypes DEF TypeOK, RequestFans
  <2> QED
    BY <1>3, <2>1, <2>2 DEF TypeOK, RequestFans, RequestWindow, tables
<1>4. CASE IssueAuto \/ LoseRequest \/ Measure \/ RunOverride \/ Elapse
  <2>1. CASE IssueAuto \/ LoseRequest \/ Measure
    BY <2>1, IdleTypes DEF TypeOK, IssueAuto, LoseRequest, Measure, tables
  <2>2. CASE RunOverride
    BY <2>2 DEF TypeOK, RunOverride, tables
  <2>3. CASE Elapse
    <3>1. reported[Window] \in BOOLEAN /\ FanRuns \in BOOLEAN
      BY DEF TypeOK, FanRuns, Target
    <3>2. /\ aired' \in BOOLEAN /\ (aired' => reported[Window])
          /\ vented' \in BOOLEAN /\ (vented' => \E f \in Fan : reported[f])
      BY <2>3, <3>1, Zenon DEF Elapse, FanRuns
    <3> QED
      BY <2>3, <3>2 DEF TypeOK, Elapse
  <2> QED
    BY <1>4, <2>1, <2>2, <2>3
<1>5. CASE QueueRequest
  <2>1. last' \in [Target -> Command]
    BY <1>5, QueueTypes DEF TypeOK, QueueRequest
  <2> QED
    BY <1>5, <2>1, IdleTypes DEF TypeOK, QueueRequest
<1>6. ASSUME NEW T, End(T),
             UNCHANGED <<reported, known, aired, vented, mode, left, air, job, request>>
      PROVE  TypeOK'
  <2>1. last' \in [Target -> Command]
    BY <1>6, EndTypes DEF TypeOK
  <2> QED
    BY <1>6, <2>1 DEF TypeOK
<1>7. ASSUME NEW t \in Target, Forget(t) PROVE TypeOK'
  BY <1>7 DEF TypeOK, Forget, None, Command
<1>8. CASE UNCHANGED vars
  BY <1>8 DEF TypeOK, vars, tables
<1>9. CASE Automation
  BY <1>1, <1>2, <1>9 DEF Automation
<1>10. CASE Operator
  BY <1>3, <1>4, <1>5, <1>6, <1>10 DEF Operator, Cancel
<1>11. CASE Room
  BY <1>4, <1>11, ReportTypes DEF Room
<1>12. CASE \E t \in Target : Expire(t) \/ Forget(t)
  BY <1>6, <1>7, <1>12 DEF Expire
<1> QED
  BY <1>8, <1>9, <1>10, <1>11, <1>12 DEF Next

\* ControlService keeps the rows, the mode and the jobs well typed, and takes the minimum
\* time as passed only for a window that is open and fans that run.
THEOREM ControlTypeOK == Spec => []TypeOK
<1> USE ControlServiceAssumption DEF Steps
<1>1. Init => TypeOK
  <2>1. None \in Command
    BY DEF None, Command
  <2> SUFFICES ASSUME Init PROVE TypeOK
    OBVIOUS
  <2>2. last \in [Target -> Command] /\ reported \in [Target -> BOOLEAN]
    BY <2>1 DEF Init
  <2>3. job \in [Job -> Steps] /\ request \in Plans
    BY IdleTypes DEF Init
  <2>4. /\ aired = FALSE /\ vented = FALSE /\ known = {} /\ mode = "auto" /\ left = 0
        /\ air \in Air
    BY DEF Init
  <2>5. left \in 0..OverrideLife
    BY <2>4, ControlServiceAssumption
  <2>6. /\ aired \in BOOLEAN /\ (aired => reported[Window])
        /\ vented \in BOOLEAN /\ (vented => \E f \in Fan : reported[f])
    BY <2>4
  <2> QED
    BY <2>2, <2>3, <2>4, <2>5, <2>6 DEF TypeOK
<1> QED
  BY <1>1, TypeInductive, PTL DEF Spec

=============================================================================
