------------------------- MODULE CommandQueueProofs -------------------------
(***************************************************************************)
(* Theorems about the control tables, for every number of targets,         *)
(* commands, mode switches and ticks, and for every command life.          *)
(***************************************************************************)
EXTENDS CommandQueue, WellFoundedInduction, TLAPS

Rows == [Batch -> [Target -> Command]]

USE CommandQueueAssumption

-----------------------------------------------------------------------------
(* The typing of what the transactions compute.                            *)

LEMMA ConstantTypes ==
  /\ MaxBatch \in Nat /\ MaxEra \in Nat /\ MaxTime \in Nat
  /\ ManualLife \in Nat /\ AutomaticLife \in Nat /\ Skew \in Nat
  /\ MaxWait \in Nat /\ Retention \in Nat
  /\ 0 \in Time /\ 0 \in Era /\ 0 \in Expiry
BY DEF CommandQueueAssumption, Time, Era, Expiry

LEMMA RowTypes ==
  /\ Absent \in Command
  /\ Deleted \in Command
  /\ \A c \in Command, s \in Status : [c EXCEPT !.status = s] \in Command
BY ConstantTypes DEF Absent, Deleted, Command, Status, Ended, Source

LEMMA SettledRows ==
  ASSUME commands \in Rows
  PROVE  /\ Settled \in Rows
         /\ \A b \in Batch, t \in Target :
              Settled[b][t] = IF Overdue(commands[b][t])
                              THEN [commands[b][t] EXCEPT !.status = "expired"]
                              ELSE commands[b][t]
<1>1. "expired" \in Status
  BY DEF Status, Ended
<1>2. \A b \in Batch, t \in Target : commands[b][t] \in Command
  BY DEF Rows
<1> QED
  BY <1>1, <1>2, RowTypes DEF Settled, Rows

LEMMA IntentType ==
  ASSUME NEW cs \in Rows, NEW rep \in [Target -> BOOLEAN]
  PROVE  Intent(cs, rep) \in [Target -> BOOLEAN]
BY DEF Intent

\* Only the commands that wait decide.
LEMMA IntentAgrees ==
  ASSUME NEW cs, NEW ds, NEW rep, NEW t \in Target,
         Pending(ds, t) = Pending(cs, t),
         \A b \in Pending(cs, t) : ds[b][t] = cs[b][t]
  PROVE  Intent(ds, rep)[t] = Intent(cs, rep)[t]
<1> DEFINE P == Pending(cs, t)
<1>1. /\ Intent(cs, rep)[t] = IF P = {} THEN rep[t]
                              ELSE \E b \in P : IsLast(b, P) /\ cs[b][t].want
      /\ Intent(ds, rep)[t] = IF P = {} THEN rep[t]
                              ELSE \E b \in P : IsLast(b, P) /\ ds[b][t].want
  BY DEF Intent
<1>2. (\E b \in P : IsLast(b, P) /\ ds[b][t].want)
        = (\E b \in P : IsLast(b, P) /\ cs[b][t].want)
  OBVIOUS
<1> HIDE DEF P
<1> QED
  BY <1>1, <1>2

LEMMA QueuedRows ==
  ASSUME TypeOK, lastBatch < MaxBatch, NEW cs \in Rows, NEW source \in Source,
         NEW T \in SUBSET Target, NEW plan \in [T -> BOOLEAN],
         NEW new \in SUBSET T, NEW began \in Era, NEW start \in Time
  PROVE  Queued(cs, new, plan, source, began, start) \in Rows
<1>1. \A t \in new :
        [status |-> "pending", want |-> plan[t], source |-> source,
         era |-> began, created |-> start, expires |-> now + Life(source)] \in Command
  <2>1. now + Life(source) \in Expiry
    BY ConstantTypes DEF TypeOK, Time, Expiry, Life
  <2> QED
    BY <2>1 DEF Command, Status
<1>2. "cancelled" \in Status
  BY DEF Status, Ended
<1>3. \A b \in Batch, t \in Target : cs[b][t] \in Command
  BY DEF Rows
<1> QED
  BY <1>1, <1>2, <1>3, RowTypes DEF Queued, Rows

LEMMA AnsweredRows ==
  ASSUME NEW cs \in Rows, NEW seen, NEW rep, NEW answers
  PROVE  Answered(cs, seen, rep, answers) \in Rows
<1>1. "failed" \in Status /\ "applied" \in Status
  BY DEF Status, Ended
<1>2. \A b \in Batch, t \in Target : cs[b][t] \in Command
  BY DEF Rows
<1> QED
  BY <1>1, <1>2, RowTypes DEF Answered, Rows

-----------------------------------------------------------------------------
(* Type correctness.  A switch that is under way has room for one more     *)
(* mode, and holds only commands that are pending.                         *)

SwitchBounded == switching => era < MaxEra

TInv == TypeOK /\ SwitchBounded

LEMMA TypeInitially == Init => TInv
<1> SUFFICES ASSUME Init PROVE TInv
  OBVIOUS
<1>1. commands \in [Batch -> [Target -> Command]]
  BY RowTypes DEF Init
<1>2. /\ lastBatch \in 0..MaxBatch
      /\ lastReported \in Stamp \cup {Never}
      /\ era \in Era /\ now \in Time
  BY ConstantTypes DEF Init
<1>3. /\ reported \in [Target -> BOOLEAN]
      /\ desired \in [Target -> BOOLEAN]
  BY DEF Init
<1>4. /\ known \in SUBSET Target /\ locked \in SUBSET Id
      /\ switching \in BOOLEAN /\ ~switching
  BY DEF Init
<1> QED
  BY <1>1, <1>2, <1>3, <1>4 DEF TInv, TypeOK, SwitchBounded

LEMMA TypeInductive == TInv /\ [Next]_vars => TInv'
<1> SUFFICES ASSUME TInv, [Next]_vars PROVE TInv'
  OBVIOUS
<1> USE DEF TInv, SwitchBounded
<1>0. commands \in Rows
  BY DEF TypeOK, Rows
<1>1. CASE Read
  BY <1>0, <1>1, SettledRows, IntentType DEF Read, TypeOK, Rows
<1>2. ASSUME NEW plan \in Plans, NEW source \in Source, NEW began \in Began,
             NEW start \in Starts, Queue(plan, source, began, start)
      PROVE  TInv'
  <2>1. PICK T \in SUBSET Target : plan \in [T -> BOOLEAN]
    BY DEF Plans
  <2> DEFINE new == Accepted(Settled, plan, source)
  <2>2. new \in SUBSET T
    BY <2>1 DEF Accepted
  <2>3. began \in Era /\ start \in Time
    BY DEF Began, Starts
  <2>4. commands' \in Rows
    BY <1>0, <1>2, <2>1, <2>2, <2>3, SettledRows, QueuedRows DEF Queue
  <2>5. desired' \in [Target -> BOOLEAN]
    BY <1>0, <1>2, <2>1, <2>2, SettledRows, IntentType DEF Queue, TypeOK
  <2>6. lastBatch' \in 0..MaxBatch
    BY <1>2, ConstantTypes DEF Queue, TypeOK
  <2> QED
    BY <1>2, <2>4, <2>5, <2>6 DEF Queue, TypeOK, Rows
<1>3. ASSUME NEW batch \in Batch, CancelBatch(batch)
      PROVE  TInv'
  <2>1. "cancelled" \in Status
    BY DEF Status, Ended
  <2>2. commands' \in Rows
    BY <1>0, <1>3, <2>1, SettledRows, RowTypes DEF CancelBatch, Rows
  <2> QED
    BY <1>3, <2>2, IntentType DEF CancelBatch, TypeOK, Rows
<1>4. ASSUME NEW stamp \in Stamp, NEW seen \in SUBSET Target, NEW answers,
             NEW position \in [seen -> BOOLEAN],
             Report(stamp, seen, position, answers)
      PROVE  TInv'
  <2> DEFINE rep == [t \in Target |-> IF t \in seen THEN position[t] ELSE reported[t]]
             after == Answered(Settled, seen, rep, answers)
  <2>1. rep \in [Target -> BOOLEAN] /\ after \in Rows /\ Settled \in Rows
    BY <1>0, SettledRows, AnsweredRows DEF TypeOK
  <2>2. Intent(after, rep) \in [Target -> BOOLEAN]
        /\ Intent(Settled, reported) \in [Target -> BOOLEAN]
    BY <2>1, IntentType DEF TypeOK
  <2> HIDE DEF rep, after
  <2> QED
    BY <1>4, <2>1, <2>2 DEF Report, TypeOK, Rows, rep, after
<1>5. CASE Purge
  <2>1. commands' \in Rows
    BY <1>0, <1>5, SettledRows, RowTypes DEF Purge, Rows
  <2> QED
    BY <1>0, <1>5, <2>1, SettledRows, IntentType DEF Purge, TypeOK, Rows
<1>6. CASE BeginSwitch
  BY <1>6 DEF BeginSwitch, TypeOK, stateRow
<1>7. CASE CommitSwitch
  <2>1. "cancelled" \in Status
    BY DEF Status, Ended
  <2>2. commands' \in Rows
    BY <1>0, <1>7, <2>1, RowTypes DEF CommitSwitch, Rows
  <2>3. era' \in Era
    BY <1>7, ConstantTypes DEF CommitSwitch, TypeOK, Era
  <2>4. /\ reported' \in [Target -> BOOLEAN]
        /\ desired' \in [Target -> BOOLEAN]
    BY <1>7 DEF CommitSwitch
  <2>5. /\ known' \in SUBSET Target /\ locked' \in SUBSET Id
        /\ switching' \in BOOLEAN /\ ~switching'
        /\ lastReported' \in Stamp \cup {Never}
    BY <1>7 DEF CommitSwitch
  <2>6. lastBatch' \in 0..MaxBatch /\ now' \in Time
    BY <1>7 DEF CommitSwitch, TypeOK
  <2> QED
    BY <2>2, <2>3, <2>4, <2>5, <2>6 DEF TypeOK, Rows
<1>8. CASE AbortSwitch
  BY <1>8 DEF AbortSwitch, TypeOK, stateRow
<1>9. CASE Tick
  BY <1>9, ConstantTypes DEF Tick, TypeOK, Time, stateRow
<1>10. CASE SetClockBack
  BY <1>10, ConstantTypes DEF SetClockBack, TypeOK, Time, stateRow
<1>11. CASE UNCHANGED vars
  BY <1>11 DEF vars, stateRow, TypeOK
<1> QED
  BY <1>1, <1>2, <1>3, <1>4, <1>5, <1>6, <1>7, <1>8, <1>9, <1>10, <1>11 DEF Next

\* Every variable has its type in every reachable state of the control tables.
THEOREM TypeCorrect == Spec => []TypeOK
<1>1. TInv => TypeOK
  BY DEF TInv
<1> QED
  BY <1>1, TypeInitially, TypeInductive, PTL DEF Spec

-----------------------------------------------------------------------------
(* What one step does to a command.  Every property below follows from     *)
(* this, so the actions are taken apart once.                              *)

\* A command that was not issued has no row, and none is from a later mode.
Unissued == \A b \in Batch, t \in Target :
              b > lastBatch => commands[b][t].status = "absent"
EraBound == \A b \in Batch, t \in Target : commands[b][t].era <= era

\* Nothing but the switch can touch the rows it has locked.
LockedPending == \A id \in locked : commands[id[1]][id[2]].status = "pending"

IInv == TypeOK /\ SwitchBounded /\ Unissued /\ EraBound /\ LockedPending
        /\ OnePendingPerTarget

SameOrder(c, d) == /\ c.want = d.want /\ c.source = d.source
                   /\ c.era = d.era /\ c.created = d.created /\ c.expires = d.expires

Ends(c, d) == c.status = "pending" /\ d.status \in Ended /\ SameOrder(c, d)

Removed(c, d) == c.status \in {"pending"} \cup Ended /\ d = Deleted

\* A new command is the latest of its target, the only one that waits, and no
\* repetition of an automatic command that did not succeed.
Issued(b, t) ==
  /\ b = lastBatch + 1 /\ lastBatch' = b /\ era' = era
  /\ commands'[b][t].status = "pending"
  /\ commands'[b][t].era <= era
  /\ \A c \in Batch : commands'[c][t].status = "pending" => c = b
  /\ \A c \in Epoch(commands', t) :
       ( /\ c < b
         /\ \A d \in (c + 1)..(b - 1) : commands'[d][t].status = "absent"
         /\ commands'[b][t].source = "automatic"
         /\ commands'[c][t].source = "automatic"
         /\ commands'[b][t].want = commands'[c][t].want )
       => commands'[c][t].status = "applied"

Advances(b, t) == \/ commands'[b][t] = commands[b][t]
                  \/ Ends(commands[b][t], commands'[b][t])
                  \/ Removed(commands[b][t], commands'[b][t])
                  \/ Issued(b, t)

LEMMA SettledSteps ==
  ASSUME TypeOK
  PROVE  \A b \in Batch, t \in Target :
           /\ Settled[b][t] \in Command
           /\ \/ Settled[b][t] = commands[b][t]
              \/ /\ Ends(commands[b][t], Settled[b][t])
                 /\ Settled[b][t].status = "expired"
<1> SUFFICES ASSUME NEW b \in Batch, NEW t \in Target
             PROVE  /\ Settled[b][t] \in Command
                    /\ \/ Settled[b][t] = commands[b][t]
                       \/ /\ Ends(commands[b][t], Settled[b][t])
                          /\ Settled[b][t].status = "expired"
  OBVIOUS
<1>1. commands[b][t] \in Command /\ commands \in Rows
  BY DEF TypeOK, Rows
<1>2. /\ Settled \in Rows
      /\ Settled[b][t] = IF Overdue(commands[b][t])
                         THEN [commands[b][t] EXCEPT !.status = "expired"]
                         ELSE commands[b][t]
  BY <1>1, SettledRows
<1> QED
  BY <1>1, <1>2 DEF Overdue, Ends, SameOrder, Ended, Command, Rows

LEMMA QueueSteps ==
  ASSUME IInv, NEW plan \in Plans, NEW source \in Source, NEW began \in Began,
         NEW start \in Starts, Queue(plan, source, began, start),
         NEW b \in Batch, NEW t \in Target
  PROVE  Advances(b, t)
<1> DEFINE cs == Settled
           new == Accepted(cs, plan, source)
           issued == lastBatch + 1
<1>1. PICK T \in SUBSET Target : plan \in [T -> BOOLEAN]
  BY DEF Plans
<1>2. lastBatch \in Nat /\ issued \in Batch /\ issued > lastBatch
  BY ConstantTypes DEF IInv, TypeOK, Queue, Batch
<1>3. /\ commands' = Queued(cs, new, plan, source, began, start)
      /\ lastBatch' = IF new = {} THEN lastBatch ELSE issued
      /\ era' = era /\ now' = now
  BY DEF Queue
<1>4. \A c \in Batch :
        /\ cs[c][t] \in Command /\ commands[c][t] \in Command
        /\ \/ cs[c][t] = commands[c][t]
           \/ Ends(commands[c][t], cs[c][t]) /\ cs[c][t].status = "expired"
  BY SettledSteps DEF IInv, TypeOK
<1>5. began \in Era /\ began <= era /\ era \in Nat
  BY DEF Began, IInv, TypeOK, Era
<1> HIDE DEF cs, new, issued
<1>6. /\ t \notin new => \A c \in Batch : commands'[c][t] = cs[c][t]
      /\ t \in new =>
           commands'[issued][t] =
             [status |-> "pending", want |-> plan[t], source |-> source,
              era |-> began, created |-> start, expires |-> now + Life(source)]
      /\ t \in new =>
           \A c \in Batch \ {issued} :
             commands'[c][t] =
               IF cs[c][t].status = "pending" /\ cs[c][t].want # plan[t]
               THEN [cs[c][t] EXCEPT !.status = "cancelled"] ELSE cs[c][t]
  BY <1>2, <1>3 DEF Queued, issued
<1>7. \A c \in Batch : t \notin new \/ c # issued =>
        \/ /\ commands'[c][t] = cs[c][t]
           /\ t \in new /\ cs[c][t].status = "pending" => cs[c][t].want = plan[t]
        \/ /\ Ends(cs[c][t], commands'[c][t])
           /\ commands'[c][t].status = "cancelled"
           /\ cs[c][t].want # plan[t]
  <2> SUFFICES ASSUME NEW c \in Batch, t \in new, c # issued
               PROVE  \/ /\ commands'[c][t] = cs[c][t]
                         /\ cs[c][t].status = "pending" => cs[c][t].want = plan[t]
                      \/ /\ Ends(cs[c][t], commands'[c][t])
                         /\ commands'[c][t].status = "cancelled"
                         /\ cs[c][t].want # plan[t]
    BY <1>6
  <2>1. CASE cs[c][t].status = "pending" /\ cs[c][t].want # plan[t]
    <3>1. commands'[c][t] = [cs[c][t] EXCEPT !.status = "cancelled"]
      BY <1>6, <2>1
    <3> QED
      BY <1>4, <2>1, <3>1 DEF Ends, SameOrder, Ended, Command
  <2>2. CASE ~(cs[c][t].status = "pending" /\ cs[c][t].want # plan[t])
    <3>1. commands'[c][t] = cs[c][t]
      BY <1>6, <2>2
    <3> QED
      BY <2>2, <3>1
  <2> QED
    BY <2>1, <2>2
<1>8. CASE t \notin new \/ b # issued
  BY <1>4, <1>7, <1>8 DEF Advances, Ends, SameOrder, Ended
<1>9. CASE t \in new /\ b = issued
  <2>1. /\ commands'[b][t].status = "pending"
        /\ commands'[b][t].want = plan[t]
        /\ commands'[b][t].source = source
        /\ commands'[b][t].era = began
    <3>1. commands'[b][t] =
             [status |-> "pending", want |-> plan[t], source |-> source,
              era |-> began, created |-> start, expires |-> now + Life(source)]
      BY <1>6, <1>9
    <3> QED
      BY <3>1
  <2>2. /\ ~Refused(cs, t, plan[t], source)
        /\ ~Satisfied(cs, t, plan[t])
        /\ t \in T
    BY <1>1, <1>9 DEF new, Accepted
  <2>3. \A c \in Batch : commands'[c][t].status = "pending" => c = b
    <3> SUFFICES ASSUME NEW c \in Batch, commands'[c][t].status = "pending", c # b
                 PROVE  FALSE
      OBVIOUS
    <3>1. /\ cs[c][t].status = "pending"
          /\ cs[c][t].want = plan[t]
      BY <1>7, <1>9 DEF Ends
    <3>2. Pending(cs, t) = {c}
      <4>1. \A d \in Pending(cs, t) : d \in Pending(commands, t)
        BY <1>4 DEF Pending, Ends, Ended
      <4> QED
        BY <3>1, <4>1 DEF Pending, IInv, OnePendingPerTarget
    <3>3. Intent(cs, reported)[t] = plan[t]
      <4>1. IsLast(c, Pending(cs, t)) /\ \A d \in Pending(cs, t) : d = c
        BY <3>2 DEF IsLast, Batch
      <4>2. Intent(cs, reported)[t] =
              \E d \in Pending(cs, t) : IsLast(d, Pending(cs, t)) /\ cs[d][t].want
        BY <3>2 DEF Intent
      <4>3. Intent(cs, reported)[t] = cs[c][t].want
        <5>1. cs[c][t].want \in BOOLEAN
          BY <1>4 DEF Command
        <5> QED
          BY <3>2, <4>1, <4>2, <5>1
      <4> QED
        BY <3>1, <4>3
    <3> QED
      BY <2>2, <3>1, <3>2, <3>3 DEF Satisfied
  <2>4. ASSUME NEW c \in Epoch(commands', t), c < b,
               \A d \in (c + 1)..(b - 1) : commands'[d][t].status = "absent",
               source = "automatic", commands'[c][t].source = "automatic",
               plan[t] = commands'[c][t].want
        PROVE  commands'[c][t].status = "applied"
    <3>1. /\ c \in Batch /\ commands'[c][t].era = era
          /\ commands'[c][t].status \notin {"absent", "deleted"}
      BY <1>3, <2>4 DEF Epoch
    <3>2. commands'[c][t].status # "pending" /\ c # issued
      BY <2>3, <2>4, <3>1, <1>9 DEF Batch
    <3>3. /\ cs[c][t].status \notin {"absent", "deleted"}
          /\ SameOrder(cs[c][t], commands'[c][t])
      BY <1>4, <1>7, <3>1, <3>2 DEF SameOrder, Ends
    <3>4. IsLast(c, Epoch(cs, t))
      <4>1. c \in Epoch(cs, t)
        BY <3>1, <3>3 DEF Epoch, SameOrder
      <4>2. ASSUME NEW d \in Epoch(cs, t) PROVE d <= c
        <5>0. d \in Batch /\ cs[d][t].status # "absent"
          BY DEF Epoch
        <5>1. d <= lastBatch
          BY <1>2, <1>4, <5>0 DEF IInv, Unissued, Ends, Batch
        <5>2. CASE d > c
          <6>1. d \in (c + 1)..(b - 1) /\ d # b
            BY <1>2, <1>9, <5>1, <5>2, <5>0, <3>1, ConstantTypes DEF Batch, issued
          <6>2. commands'[d][t].status = "absent"
            BY <6>1, <2>4
          <6> QED
            BY <1>4, <1>7, <1>9, <5>0, <6>1, <6>2 DEF Ends
        <5> QED
          BY <5>0, <5>2, <3>1, ConstantTypes DEF Batch
      <4> QED
        BY <4>1, <4>2 DEF IsLast
    <3>5. cs[c][t].status \notin {"failed", "expired", "cancelled"}
      BY <2>2, <2>4, <3>3, <3>4 DEF Refused, IsLast, SameOrder
    <3>6. cs[c][t].status # "pending"
      BY <1>7, <1>9, <2>4, <3>1, <3>2, <3>3 DEF SameOrder, Ends
    <3>7. commands'[c][t] = cs[c][t]
      BY <1>7, <3>1, <3>2, <3>6 DEF Ends
    <3>8. cs[c][t].status \in Status
      BY <1>4, <3>1 DEF Command
    <3> QED
      BY <3>3, <3>5, <3>6, <3>7, <3>8 DEF Status, Ended
  <2> QED
    BY <1>2, <1>3, <1>5, <1>9, <2>1, <2>3, <2>4 DEF Advances, Issued, issued
<1> QED
  BY <1>8, <1>9

\* A transaction that settles, and ends or deletes some rows.
LEMMA EndSteps ==
  ASSUME TypeOK, NEW b \in Batch, NEW t \in Target,
         \/ commands'[b][t] = Settled[b][t]
         \/ Ends(Settled[b][t], commands'[b][t])
         \/ Removed(Settled[b][t], commands'[b][t])
  PROVE  Advances(b, t)
<1>1. \/ Settled[b][t] = commands[b][t]
      \/ /\ Ends(commands[b][t], Settled[b][t])
         /\ Settled[b][t].status = "expired"
  BY SettledSteps
<1> QED
  BY <1>1 DEF Advances, Ends, Removed, SameOrder, Ended

LEMMA AnsweredSteps ==
  ASSUME NEW cs \in Rows, NEW seen, NEW rep, NEW answers,
         NEW b \in Batch, NEW t \in Target
  PROVE  LET c == cs[b][t]
             d == Answered(cs, seen, rep, answers)[b][t]
         IN \/ d = c
            \/ Ends(c, d) /\ d.status = "failed"
            \/ /\ Ends(c, d) /\ d.status = "applied"
               /\ t \in seen /\ c.want = rep[t]
<1> DEFINE c == cs[b][t]
           d == Answered(cs, seen, rep, answers)[b][t]
<1>1. c \in Command
  BY DEF Rows
<1>2. \/ d = c
      \/ c.status = "pending" /\ d = [c EXCEPT !.status = "failed"]
      \/ /\ c.status = "pending" /\ d = [c EXCEPT !.status = "applied"]
         /\ t \in seen /\ c.want = rep[t]
  BY DEF Answered
<1> HIDE DEF c, d
<1>3. \/ d = c
      \/ Ends(c, d) /\ d.status = "failed"
      \/ Ends(c, d) /\ d.status = "applied" /\ t \in seen /\ c.want = rep[t]
  BY <1>1, <1>2 DEF Ends, SameOrder, Ended, Command
<1> QED
  BY <1>3 DEF c, d

LEMMA RowSteps ==
  ASSUME IInv, [Next]_vars
  PROVE  /\ \A b \in Batch, t \in Target : Advances(b, t)
         /\ lastBatch' \in {lastBatch, lastBatch + 1}
         /\ era' \in {era, era + 1}
         /\ (era' # era => lastBatch' = lastBatch)
         /\ (RowsFree /\ locked' = locked) \/ locked' = {}
            \/ (locked' = {id \in Id : commands[id[1]][id[2]].status = "pending"}
                /\ commands' = commands)
<1> USE DEF IInv
<1>0. /\ commands \in Rows
      /\ Settled \in Rows
  BY SettledRows DEF TypeOK, Rows
<1>1. CASE Read
  BY <1>1, EndSteps DEF Read
<1>2. ASSUME NEW plan \in Plans, NEW source \in Source, NEW began \in Began,
             NEW start \in Starts, Queue(plan, source, began, start)
      PROVE  /\ \A b \in Batch, t \in Target : Advances(b, t)
             /\ lastBatch' \in {lastBatch, lastBatch + 1}
             /\ RowsFree /\ locked' = locked /\ era' = era
  <2>1. \A b \in Batch, t \in Target : Advances(b, t)
    BY <1>2, QueueSteps
  <2> QED
    BY <1>2, <2>1 DEF Queue
<1>3. ASSUME NEW batch \in Batch, CancelBatch(batch)
      PROVE  \A b \in Batch, t \in Target : Advances(b, t)
  <2> SUFFICES ASSUME NEW b \in Batch, NEW t \in Target
               PROVE  Advances(b, t)
    OBVIOUS
  <2>1. Settled[b][t] \in Command
    BY SettledSteps
  <2>2. \/ commands'[b][t] = Settled[b][t]
        \/ /\ Settled[b][t].status = "pending"
           /\ commands'[b][t] = [Settled[b][t] EXCEPT !.status = "cancelled"]
    BY <1>3 DEF CancelBatch
  <2>3. \/ commands'[b][t] = Settled[b][t]
        \/ Ends(Settled[b][t], commands'[b][t])
    BY <2>1, <2>2 DEF Ends, SameOrder, Ended, Command
  <2> QED
    BY <2>3, EndSteps
<1>4. ASSUME NEW stamp \in Stamp, NEW seen \in SUBSET Target, NEW answers,
             NEW position \in [seen -> BOOLEAN],
             Report(stamp, seen, position, answers)
      PROVE  \A b \in Batch, t \in Target : Advances(b, t)
  <2> SUFFICES ASSUME NEW b \in Batch, NEW t \in Target
               PROVE  Advances(b, t)
    OBVIOUS
  <2>1. PICK rep : \/ commands' = Settled
                   \/ commands' = Answered(Settled, seen, rep, answers)
    BY <1>4 DEF Report
  <2>2. \/ commands'[b][t] = Settled[b][t]
        \/ Ends(Settled[b][t], commands'[b][t])
    BY <1>0, <2>1, AnsweredSteps
  <2> QED
    BY <2>2, EndSteps
<1>5. CASE Purge
  <2>1. \A b \in Batch, t \in Target :
          \/ commands'[b][t] = Settled[b][t]
          \/ Removed(Settled[b][t], commands'[b][t])
    BY <1>5 DEF Purge, Removed
  <2>2. \A b \in Batch, t \in Target : Advances(b, t)
    BY <2>1, EndSteps
  <2> QED
    BY <1>5, <2>2 DEF Purge
<1>6. CASE BeginSwitch
  BY <1>6 DEF BeginSwitch, Advances
<1>7. CASE CommitSwitch
  <2>1. ASSUME NEW b \in Batch, NEW t \in Target PROVE Advances(b, t)
    <3>1. commands[b][t] \in Command
      BY <1>0 DEF Rows
    <3>2. <<b, t>> \in locked => commands[b][t].status = "pending"
      BY DEF LockedPending
    <3>3. \/ commands'[b][t] = commands[b][t]
          \/ /\ commands[b][t].status = "pending"
             /\ commands'[b][t] = [commands[b][t] EXCEPT !.status = "cancelled"]
      BY <1>7, <3>2 DEF CommitSwitch
    <3>4. \/ commands'[b][t] = commands[b][t]
          \/ Ends(commands[b][t], commands'[b][t])
      BY <3>1, <3>3 DEF Ends, SameOrder, Ended, Command
    <3> QED
      BY <3>4 DEF Advances
  <2> QED
    BY <1>7, <2>1 DEF CommitSwitch
<1>8. CASE AbortSwitch
  BY <1>8 DEF AbortSwitch, Advances
<1>9. CASE Tick
  BY <1>9 DEF Tick, Advances, RowsFree
<1>10. CASE SetClockBack
  BY <1>10 DEF SetClockBack, Advances, RowsFree
<1>11. CASE UNCHANGED vars
  BY <1>11 DEF vars, Advances, RowsFree
<1>12. CASE \E batch \in Batch : CancelBatch(batch)
  <2>1. /\ RowsFree /\ UNCHANGED <<lastBatch, era, locked>>
        /\ \A b \in Batch, t \in Target : Advances(b, t)
    BY <1>3, <1>12 DEF CancelBatch
  <2> QED
    BY <2>1
<1>13. CASE \E stamp \in Stamp, seen \in SUBSET Target, answers \in Answers :
              \E position \in [seen -> BOOLEAN] :
                stamp >= now - MaxDelay /\ Report(stamp, seen, position, answers)
  <2>1. /\ RowsFree /\ UNCHANGED <<lastBatch, era, locked>>
        /\ \A b \in Batch, t \in Target : Advances(b, t)
    BY <1>4, <1>13 DEF Report
  <2> QED
    BY <2>1
<1> QED
  BY <1>1, <1>2, <1>5, <1>6, <1>7, <1>8, <1>9, <1>10, <1>11, <1>12, <1>13 DEF Next

-----------------------------------------------------------------------------
(* The inductive invariant.                                                *)

LEMMA Initially == Init => IInv
<1> SUFFICES ASSUME Init PROVE IInv
  OBVIOUS
<1>1. TInv
  BY TypeInitially
<1>2. \A b \in Batch, t \in Target :
        commands[b][t].status = "absent" /\ commands[b][t].era = 0
  BY DEF Init, Absent
<1>3. era = 0 /\ locked = {}
  BY DEF Init
<1> QED
  BY <1>1, <1>2, <1>3
     DEF IInv, TInv, Unissued, EraBound, LockedPending, OnePendingPerTarget, Pending

LEMMA Inductive == IInv /\ [Next]_vars => IInv'
<1> SUFFICES ASSUME IInv, [Next]_vars PROVE IInv'
  OBVIOUS
<1>1. TInv'
  BY TypeInductive DEF IInv, TInv
<1>2. /\ \A b \in Batch, t \in Target : Advances(b, t)
      /\ lastBatch' \in {lastBatch, lastBatch + 1}
      /\ era' \in {era, era + 1}
      /\ (RowsFree /\ locked' = locked) \/ locked' = {}
         \/ (locked' = {id \in Id : commands[id[1]][id[2]].status = "pending"}
             /\ commands' = commands)
  BY RowSteps
<1>3. /\ lastBatch \in Nat /\ era \in Nat /\ locked \in SUBSET Id
      /\ \A b \in Batch, t \in Target : commands[b][t] \in Command
  BY ConstantTypes DEF IInv, TypeOK, Era
<1>4. Unissued'
  <2> SUFFICES ASSUME NEW b \in Batch, NEW t \in Target, b > lastBatch'
               PROVE  commands'[b][t].status = "absent"
    BY DEF Unissued
  <2>1. commands[b][t].status = "absent" /\ ~Issued(b, t)
    BY <1>2, <1>3 DEF IInv, Unissued, Issued, Batch
  <2> QED
    BY <1>2, <2>1 DEF Advances, Ends, Removed, Ended
<1>5. EraBound'
  <2> SUFFICES ASSUME NEW b \in Batch, NEW t \in Target
               PROVE  commands'[b][t].era <= era'
    BY DEF EraBound
  <2>1. commands[b][t].era <= era /\ commands[b][t].era \in Nat
    BY <1>3 DEF IInv, EraBound, Command, Era
  <2>2. Deleted.era = 0
    BY DEF Deleted, Absent
  <2> QED
    BY <1>2, <1>3, <2>1, <2>2 DEF Advances, Ends, Removed, SameOrder, Issued
<1>6. LockedPending'
  BY <1>2, <1>3 DEF IInv, LockedPending, RowsFree
<1>7. OnePendingPerTarget'
  <2> SUFFICES ASSUME NEW t \in Target, NEW b \in Batch, NEW c \in Batch,
                      commands'[b][t].status = "pending",
                      commands'[c][t].status = "pending"
               PROVE  b = c
    BY DEF OnePendingPerTarget, Pending
  <2>1. CASE Issued(b, t) \/ Issued(c, t)
    BY <2>1 DEF Issued
  <2>2. CASE ~Issued(b, t) /\ ~Issued(c, t)
    <3>1. Deleted.status = "deleted"
      BY DEF Deleted, Absent
    <3>2. /\ commands[b][t].status = "pending"
          /\ commands[c][t].status = "pending"
      BY <1>2, <2>2, <3>1 DEF Advances, Ends, Removed, Ended
    <3> QED
      BY <3>2 DEF IInv, OnePendingPerTarget, Pending
  <2> QED
    BY <2>1, <2>2
<1> QED
  BY <1>1, <1>4, <1>5, <1>6, <1>7 DEF IInv, TInv

LEMMA Invariant == Spec => []IInv
BY Initially, Inductive, PTL DEF Spec

\* Whatever requests run at the same time, at most one command waits for an
\* actuator (queueControlCommands).
THEOREM OneCommandWaits == Spec => []OnePendingPerTarget
<1>1. IInv => OnePendingPerTarget
  BY DEF IInv
<1> QED
  BY <1>1, Invariant, PTL

\* A failed automatic command is never followed by the same one in one mode.
THEOREM AutomationDoesNotRepeat == Spec => []NoAutomaticRepeat
<1>1. Init => NoAutomaticRepeat
  BY DEF Init, NoAutomaticRepeat, Epoch, Absent
<1>2. IInv /\ NoAutomaticRepeat /\ [Next]_vars => NoAutomaticRepeat'
  <2> SUFFICES ASSUME IInv, NoAutomaticRepeat, [Next]_vars,
                      NEW t \in Target,
                      NEW b \in Epoch(commands, t)', NEW c \in Epoch(commands, t)',
                      b < c,
                      \A d \in (b + 1)..(c - 1) : commands'[d][t].status = "absent",
                      commands'[b][t].source = "automatic",
                      commands'[c][t].source = "automatic",
                      commands'[b][t].want = commands'[c][t].want
               PROVE  commands'[b][t].status = "applied"
    BY DEF NoAutomaticRepeat
  <2>1. /\ \A d \in Batch : Advances(d, t)
        /\ era' \in {era, era + 1}
    BY RowSteps
  <2>2. /\ b \in Batch /\ c \in Batch
        /\ commands'[b][t].status \notin {"absent", "deleted"}
        /\ commands'[c][t].status \notin {"absent", "deleted"}
        /\ commands'[b][t].era = era' /\ commands'[c][t].era = era'
    BY DEF Epoch
  <2>3. Deleted.status = "deleted"
    BY DEF Deleted, Absent
  <2>4. lastBatch \in Nat /\ era \in Nat
    BY ConstantTypes DEF IInv, TypeOK, Era
  <2>5. CASE Issued(c, t)
    <3>1. b \in Epoch(commands', t)
      BY <2>2, <2>5 DEF Epoch, Issued
    <3> QED
      BY <2>5, <3>1 DEF Issued
  <2>6. CASE ~Issued(c, t)
    <3>1. /\ commands[c][t].status \notin {"absent", "deleted"}
          /\ SameOrder(commands[c][t], commands'[c][t])
      BY <2>1, <2>2, <2>3, <2>6 DEF Advances, Ends, Removed, SameOrder, Ended
    <3>2. ~Issued(b, t)
      BY <2>2, <2>4, <3>1 DEF IInv, Unissued, Issued, Batch
    <3>3. /\ commands[b][t].status \notin {"absent", "deleted"}
          /\ SameOrder(commands[b][t], commands'[b][t])
      BY <2>1, <2>2, <2>3, <3>2 DEF Advances, Ends, Removed, SameOrder, Ended
    <3>4. era' = era
      BY <2>1, <2>2, <2>4, <3>3 DEF IInv, EraBound, SameOrder
    <3>5. b \in Epoch(commands, t) /\ c \in Epoch(commands, t)
      BY <2>2, <3>1, <3>3, <3>4 DEF Epoch, SameOrder
    <3>6. \A d \in (b + 1)..(c - 1) : commands[d][t].status = "absent"
      <4> SUFFICES ASSUME NEW d \in (b + 1)..(c - 1)
                   PROVE  commands[d][t].status = "absent"
        OBVIOUS
      <4>1. d \in Batch /\ commands'[d][t].status = "absent"
        BY <2>2, ConstantTypes DEF Batch
      <4> QED
        BY <2>1, <2>3, <4>1 DEF Advances, Ends, Removed, Issued, Ended
    <3>7. commands[b][t].status = "applied"
      BY <3>1, <3>3, <3>5, <3>6 DEF NoAutomaticRepeat, SameOrder
    <3> QED
      BY <2>1, <2>2, <2>3, <3>2, <3>7 DEF Advances, Ends, Removed
  <2> QED
    BY <2>5, <2>6
<1> QED
  BY <1>1, <1>2, Invariant, PTL DEF Spec

-----------------------------------------------------------------------------
(* The desired state, feedback and confirmations.                          *)

LEMMA QueueSynchronises ==
  ASSUME IInv, NEW plan \in Plans, NEW source \in Source, NEW began \in Began,
         NEW start \in Starts, Queue(plan, source, began, start)
  PROVE  \A t \in Target : desired'[t] = Intent(commands', reported')[t]
<1> SUFFICES ASSUME NEW t \in Target
             PROVE  desired'[t] = Intent(commands', reported')[t]
  OBVIOUS
<1> DEFINE cs == Settled
           new == Accepted(cs, plan, source)
           issued == lastBatch + 1
<1>1. /\ commands' = Queued(cs, new, plan, source, began, start)
      /\ desired' = [u \in Target |-> IF u \in new THEN plan[u]
                                      ELSE Intent(cs, reported)[u]]
      /\ reported' = reported
  BY DEF Queue
<1>2. PICK T \in SUBSET Target : plan \in [T -> BOOLEAN]
  BY DEF Plans
<1>3. issued \in Batch /\ lastBatch \in Nat
  BY ConstantTypes DEF IInv, TypeOK, Queue, Batch
<1>4. \A b \in Batch : b > lastBatch => cs[b][t].status = "absent"
  BY SettledSteps DEF IInv, Unissued, Ends
<1> HIDE DEF cs, new, issued
<1>5. CASE t \notin new
  <2>1. \A b \in Batch : commands'[b][t] = cs[b][t]
    BY <1>1, <1>5 DEF Queued
  <2>2. Pending(commands', t) = Pending(cs, t)
    BY <2>1 DEF Pending
  <2>3. Intent(commands', reported)[t] = Intent(cs, reported)[t]
    BY <2>1, <2>2 DEF Intent, Pending
  <2> QED
    BY <1>1, <1>5, <2>3
<1>6. CASE t \in new
  <2>1. /\ commands'[issued][t].status = "pending"
        /\ commands'[issued][t].want = plan[t]
    <3>1. commands'[issued][t] =
             [status |-> "pending", want |-> plan[t], source |-> source,
              era |-> began, created |-> start, expires |-> now + Life(source)]
      BY <1>1, <1>3, <1>6 DEF Queued, issued
    <3> QED
      BY <3>1
  <2>2. ASSUME NEW b \in Pending(commands', t) PROVE b <= issued
    <3>1. b \in Batch /\ commands'[b][t].status = "pending"
      BY DEF Pending
    <3>2. CASE b > issued
      <4>1. commands'[b][t] = cs[b][t]
        BY <1>1, <1>3, <1>4, <3>1, <3>2 DEF Queued, issued, Batch
      <4> QED
        BY <1>3, <1>4, <3>1, <3>2, <4>1 DEF issued, Batch
    <3> QED
      BY <3>1, <3>2, <1>3 DEF Batch
  <2>3. /\ issued \in Pending(commands', t)
        /\ \A b \in Pending(commands', t) :
             IsLast(b, Pending(commands', t)) => b = issued
        /\ IsLast(issued, Pending(commands', t))
    BY <1>3, <2>1, <2>2 DEF Pending, IsLast, Batch
  <2>4. Intent(commands', reported')[t] =
          \E b \in Pending(commands', t) :
            IsLast(b, Pending(commands', t)) /\ commands'[b][t].want
    BY <2>3 DEF Intent
  <2>5. plan[t] \in BOOLEAN
    BY <1>2, <1>6 DEF new, Accepted
  <2>6. desired'[t] = plan[t]
    BY <1>1, <1>6
  <2> QED
    BY <2>1, <2>3, <2>4, <2>5, <2>6
<1> QED
  BY <1>5, <1>6

\* After any sequence of queueing, reports, cancellations, expiries and
\* clean-ups, desired is what the waiting command asks for (syncDesired).
THEOREM DesiredIsTheIntent == Spec => []DesiredFollowsIntent
<1>1. Init => DesiredFollowsIntent
  BY DEF Init, DesiredFollowsIntent, Intent, Pending, Absent
<1>2. IInv /\ DesiredFollowsIntent /\ [Next]_vars => DesiredFollowsIntent'
  <2> SUFFICES ASSUME IInv, DesiredFollowsIntent, [Next]_vars
               PROVE  DesiredFollowsIntent'
    OBVIOUS
  <2>1. (\A t \in Target : desired'[t] = Intent(commands', reported')[t])
          => DesiredFollowsIntent'
    BY DEF DesiredFollowsIntent
  <2>2. UNCHANGED <<commands, stateRow, era>> => DesiredFollowsIntent'
    BY DEF DesiredFollowsIntent, stateRow
  <2>3. CASE Read \/ Purge
    <3>1. CASE Read
      BY <2>1, <3>1 DEF Read
    <3>2. CASE Purge
      <4> DEFINE cs == Settled
      <4>1. \A b \in Batch, t \in Target :
              \/ commands'[b][t] = cs[b][t]
              \/ /\ commands'[b][t].status = "deleted"
                 /\ cs[b][t].status \in Ended
        <5>1. Deleted.status = "deleted"
          BY DEF Deleted, Absent
        <5> QED
          BY <3>2, <5>1 DEF Purge
      <4>2. desired' = Intent(cs, reported) /\ reported' = reported
        BY <3>2 DEF Purge
      <4> HIDE DEF cs
      <4>3. \A t \in Target : Intent(commands', reported)[t] = Intent(cs, reported)[t]
        <5> SUFFICES ASSUME NEW t \in Target
                     PROVE  Intent(commands', reported)[t] = Intent(cs, reported)[t]
          OBVIOUS
        <5>1. Pending(commands', t) = Pending(cs, t)
          BY <4>1 DEF Pending, Ended
        <5>2. \A b \in Pending(cs, t) : commands'[b][t] = cs[b][t]
          BY <4>1 DEF Pending, Ended
        <5> QED
          BY <5>1, <5>2, IntentAgrees
      <4> QED
        BY <2>1, <4>2, <4>3
    <3> QED
      BY <2>3, <3>1, <3>2
  <2>4. CASE \E plan \in Plans, source \in Source, began \in Began, start \in Starts :
               Queue(plan, source, began, start)
    BY <2>1, <2>4, QueueSynchronises
  <2>5. CASE \E batch \in Batch : CancelBatch(batch)
    BY <2>1, <2>5 DEF CancelBatch
  <2>6. CASE \E stamp \in Stamp, seen \in SUBSET Target, answers \in Answers :
               \E position \in [seen -> BOOLEAN] :
                 stamp >= now - MaxDelay /\ Report(stamp, seen, position, answers)
    BY <2>1, <2>6 DEF Report
  <2>7. CASE CommitSwitch
    <3> SUFFICES ASSUME NEW t \in Target,
                        \A b \in Pending(commands', t) : commands'[b][t].era = era'
                 PROVE  desired'[t] = Intent(commands', reported')[t]
      BY DEF DesiredFollowsIntent, Pending, Intent
    <3>1. era \in Nat /\ era' = era + 1
      BY <2>7, ConstantTypes DEF CommitSwitch, IInv, TypeOK, Era
    <3>2. ASSUME NEW b \in Pending(commands', t) PROVE FALSE
      <4>1. b \in Batch /\ commands'[b][t].status = "pending"
            /\ commands'[b][t].era = era + 1
        BY <3>1 DEF Pending
      <4>2. Advances(b, t)
        BY <4>1, RowSteps
      <4>3. commands[b][t].era <= era
        BY <4>1 DEF IInv, EraBound
      <4>4. Deleted.status = "deleted"
        BY DEF Deleted, Absent
      <4>5. commands[b][t].era \in Nat
        BY <4>1, ConstantTypes DEF IInv, TypeOK, Command, Era
      <4> QED
        BY <3>1, <4>1, <4>2, <4>3, <4>4, <4>5
           DEF Advances, Ends, Removed, Issued, Ended
    <3>3. Intent(commands', reported')[t] = reported'[t]
      BY <3>2 DEF Intent
    <3> QED
      BY <2>7, <3>3 DEF CommitSwitch
  <2>8. CASE BeginSwitch \/ AbortSwitch \/ Tick \/ SetClockBack \/ UNCHANGED vars
    BY <2>2, <2>8 DEF BeginSwitch, AbortSwitch, Tick, SetClockBack, vars
  <2> QED
    BY <2>3, <2>4, <2>5, <2>6, <2>7, <2>8 DEF Next
<1> QED
  BY <1>1, <1>2, Invariant, PTL DEF Spec

\* Feedback moves back only for a reason (the WHERE of reportControlState).
THEOREM FeedbackIsOrdered == Spec => FeedbackNeverRegresses
<1>1. IInv /\ [Next]_vars =>
        (lastReported' < lastReported => era' # era \/ lastReported > now + Skew)
  <2> SUFFICES ASSUME IInv, [Next]_vars, lastReported' < lastReported
               PROVE  era' # era \/ lastReported > now + Skew
    OBVIOUS
  <2>1. lastReported \in Int /\ now \in Nat /\ Skew \in Nat /\ era \in Nat
    BY ConstantTypes DEF IInv, TypeOK, Stamp, Never, Time, Era
  <2>2. CASE UNCHANGED lastReported
    BY <2>1, <2>2
  <2>3. CASE CommitSwitch
    BY <2>1, <2>3 DEF CommitSwitch
  <2>4. ASSUME NEW stamp \in Stamp, NEW seen \in SUBSET Target, NEW answers,
               NEW position, Report(stamp, seen, position, answers)
        PROVE  era' # era \/ lastReported > now + Skew
    <3>1. stamp \in Nat
      BY ConstantTypes DEF Stamp
    <3>2. lastReported' = lastReported \/ (Fresh(stamp) /\ lastReported' = stamp)
      BY <2>4 DEF Report
    <3> QED
      BY <2>1, <3>1, <3>2 DEF Fresh, Never
  <2> QED
    BY <2>2, <2>3, <2>4
       DEF Next, Read, Queue, CancelBatch, Purge, BeginSwitch, AbortSwitch,
           Tick, SetClockBack, stateRow, vars
<1> QED
  BY <1>1, Invariant, PTL DEF Spec, FeedbackNeverRegresses, vars

\* A confirmation is believed only in time, from a report that is not older
\* than the last, and that measured the target in the state asked for.
THEOREM AppliedWasObserved == Spec => AppliedIsObserved
<1>1. ASSUME IInv, [Next]_vars, NEW b \in Batch, NEW t \in Target,
             commands[b][t].status = "pending",
             commands'[b][t].status = "applied"
      PROVE  /\ commands[b][t].expires > now
             /\ t \in known'
             /\ reported'[t] = commands[b][t].want
             /\ lastReported' # Never
             /\ lastReported' >= lastReported \/ lastReported > now + Skew
  <2>1. commands[b][t] \in Command /\ commands \in Rows
    BY <1>1 DEF IInv, TypeOK, Rows
  <2>2. Settled \in Rows
        /\ \/ Settled[b][t] = commands[b][t]
           \/ Settled[b][t].status = "expired"
    BY <1>1, <2>1, SettledRows, SettledSteps DEF IInv
  <2>3. Deleted.status = "deleted"
    BY DEF Deleted, Absent
  <2>4. CASE \E stamp \in Stamp, seen \in SUBSET Target, answers \in Answers :
               \E position \in [seen -> BOOLEAN] :
                 stamp >= now - MaxDelay /\ Report(stamp, seen, position, answers)
    <3>1. PICK stamp \in Stamp, seen \in SUBSET Target, answers \in Answers :
                 \E position \in [seen -> BOOLEAN] :
                   Report(stamp, seen, position, answers)
      BY <2>4
    <3>2. PICK position \in [seen -> BOOLEAN] : Report(stamp, seen, position, answers)
      BY <3>1
    <3> DEFINE rep == [u \in Target |-> IF u \in seen THEN position[u] ELSE reported[u]]
    <3>3. \/ commands' = Settled
          \/ /\ Fresh(stamp)
             /\ reported' = rep /\ known' = seen /\ lastReported' = stamp
             /\ commands' = Answered(Settled, seen, rep, answers)
      BY <3>2 DEF Report
    <3> HIDE DEF rep
    <3>4. /\ Fresh(stamp)
          /\ reported' = rep /\ known' = seen /\ lastReported' = stamp
          /\ commands' = Answered(Settled, seen, rep, answers)
      BY <1>1, <2>2, <3>3
    <3>5. /\ Settled[b][t] = commands[b][t]
          /\ t \in seen /\ commands[b][t].want = rep[t]
      BY <1>1, <2>2, <3>4, AnsweredSteps DEF Ends
    <3>6. ~Overdue(commands[b][t])
      <4>1. Settled[b][t] = IF Overdue(commands[b][t])
                            THEN [commands[b][t] EXCEPT !.status = "expired"]
                            ELSE commands[b][t]
        BY <2>1, SettledRows
      <4>2. [commands[b][t] EXCEPT !.status = "expired"].status = "expired"
        BY <2>1 DEF Command
      <4> QED
        BY <1>1, <3>5, <4>1, <4>2
    <3>7. /\ commands[b][t].expires \in Nat /\ now \in Nat
          /\ stamp \in Nat /\ lastReported \in Int
      BY <1>1, <2>1, ConstantTypes
         DEF IInv, TypeOK, Command, Time, Expiry, Stamp, Never
    <3> QED
      BY <1>1, <3>4, <3>5, <3>6, <3>7 DEF Fresh, Overdue, Never
  <2>5. CASE Read
    BY <1>1, <2>2, <2>5 DEF Read
  <2>6. CASE \E plan \in Plans, source \in Source, began \in Began, start \in Starts :
               Queue(plan, source, began, start)
    <3>1. PICK plan \in Plans, source \in Source, began \in Began, start \in Starts :
                 Queue(plan, source, began, start)
      BY <2>6
    <3>2. commands'[b][t].status \in {"pending", "cancelled", Settled[b][t].status}
      <4> DEFINE new == Accepted(Settled, plan, source)
                 row == [status |-> "pending", want |-> plan[t], source |-> source,
                         era |-> began, created |-> start, expires |-> now + Life(source)]
      <4>1. \/ commands'[b][t] = row
            \/ commands'[b][t] = [Settled[b][t] EXCEPT !.status = "cancelled"]
            \/ commands'[b][t] = Settled[b][t]
        BY <3>1 DEF Queue, Queued
      <4>2. row.status = "pending"
        OBVIOUS
      <4>3. [Settled[b][t] EXCEPT !.status = "cancelled"].status = "cancelled"
        BY <2>2 DEF Rows, Command
      <4> QED
        BY <4>1, <4>2, <4>3
    <3> QED
      BY <1>1, <2>2, <3>2
  <2>7. CASE \E batch \in Batch : CancelBatch(batch)
    <3>1. \/ commands'[b][t] = [Settled[b][t] EXCEPT !.status = "cancelled"]
          \/ commands'[b][t] = Settled[b][t]
      BY <2>7 DEF CancelBatch
    <3>2. [Settled[b][t] EXCEPT !.status = "cancelled"].status = "cancelled"
      BY <2>2 DEF Rows, Command
    <3> QED
      BY <1>1, <2>2, <3>1, <3>2
  <2>8. CASE Purge
    <3>1. commands'[b][t] \in {Deleted, Settled[b][t]}
      BY <2>8 DEF Purge
    <3> QED
      BY <1>1, <2>2, <2>3, <3>1
  <2>9. CASE CommitSwitch
    <3>1. \/ commands'[b][t] = [commands[b][t] EXCEPT !.status = "cancelled"]
          \/ commands'[b][t] = commands[b][t]
      BY <2>9 DEF CommitSwitch
    <3>2. [commands[b][t] EXCEPT !.status = "cancelled"].status = "cancelled"
      BY <2>1 DEF Command
    <3> QED
      BY <1>1, <3>1, <3>2
  <2>10. CASE UNCHANGED commands
    BY <1>1, <2>10
  <2> QED
    BY <1>1, <2>4, <2>5, <2>6, <2>7, <2>8, <2>9, <2>10
       DEF Next, BeginSwitch, AbortSwitch, Tick, SetClockBack, vars
<1>2. IInv /\ [Next]_vars =>
        \A b \in Batch, t \in Target :
          commands[b][t].status = "pending" /\ commands'[b][t].status = "applied"
            => /\ commands[b][t].expires > now
               /\ t \in known'
               /\ reported'[t] = commands[b][t].want
               /\ lastReported' # Never
               /\ lastReported' >= lastReported \/ lastReported > now + Skew
  BY <1>1
<1> QED
  BY <1>2, Invariant, PTL DEF Spec, AppliedIsObserved

-----------------------------------------------------------------------------
(* The control tables implement the life of a command.                     *)

\* Every step of the transactions is a step of CommandLife: a command is
\* issued after the others of its target, waits alone and ends once.
THEOREM ImplementsLife == Spec => ImplementsCommandLife
<1> DEFINE S == [b \in Batch |-> [t \in Target |-> commands[b][t].status]]
<1>1. Init => Intents!Init
  BY DEF Init, Absent, Intents!Init
<1>2. IInv /\ [Next]_vars => [Intents!Step]_S
  <2> SUFFICES ASSUME IInv, [Next]_vars PROVE Intents!Step
    OBVIOUS
  <2>1. \A b \in Batch, t \in Target : Advances(b, t)
    BY RowSteps
  <2>2. IInv'
    BY Inductive
  <2>3. \A b \in Batch, t \in Target :
          /\ commands[b][t].status \in Status
          /\ commands'[b][t].status \in Status
          /\ S[b][t] = commands[b][t].status
          /\ S'[b][t] = commands'[b][t].status
    BY <2>2 DEF IInv, TypeOK, Command
  <2>4. S' \in [Batch -> [Target -> Status]]
    BY <2>3
  <2>5. Deleted.status = "deleted"
    BY DEF Deleted, Absent
  <2> HIDE DEF S
  <2>6. ASSUME NEW b \in Batch, NEW t \in Target, S'[b][t] # S[b][t]
        PROVE  <<S[b][t], S'[b][t]>> \in Intents!Edges
    <3>1. \/ S[b][t] = "pending" /\ S'[b][t] \in Ended
          \/ S[b][t] \in {"pending"} \cup Ended /\ S'[b][t] = "deleted"
          \/ S[b][t] = "absent" /\ S'[b][t] = "pending"
      <4>1. CASE Issued(b, t)
        <5>1. commands[b][t].status = "absent"
          BY <4>1, ConstantTypes DEF Issued, IInv, Unissued, TypeOK, Batch
        <5> QED
          BY <2>3, <4>1, <5>1 DEF Issued
      <4>2. CASE ~Issued(b, t)
        BY <2>1, <2>3, <2>5, <2>6, <4>2 DEF Advances, Ends, Removed
      <4> QED
        BY <4>1, <4>2
    <3> QED
      BY <3>1 DEF Intents!Edges, Intents!Ended, Ended
  <2>7. ASSUME NEW b \in Batch, NEW t \in Target,
               S[b][t] = "absent", S'[b][t] = "pending"
        PROVE  /\ \A c \in Batch : c > b => S'[c][t] = "absent"
               /\ {c \in Batch : S'[c][t] = "pending"} = {b}
    <3>1. Issued(b, t)
      BY <2>1, <2>3, <2>5, <2>7 DEF Advances, Ends, Removed
    <3>2. \A c \in Batch : c > b => S'[c][t] = "absent"
      BY <2>2, <2>3, <3>1 DEF Issued, IInv, Unissued
    <3>3. {c \in Batch : S'[c][t] = "pending"} = {b}
      BY <2>3, <2>7, <3>1 DEF Issued
    <3> QED
      BY <3>2, <3>3
  <2> QED
    BY <2>4, <2>6, <2>7
       DEF Intents!Step, Intents!Waiting, Intents!Ended, Status, Ended, S
<1> QED
  BY <1>1, <1>2, Invariant, PTL DEF Spec, ImplementsCommandLife, Intents!Spec

-----------------------------------------------------------------------------
(* The control tables implement LastCommands: until the mode of the        *)
(* installation is switched, who decides about the room needs the last     *)
(* command of each target and none before it.  What makes it so is the     *)
(* order of the rows (Ordered): only the last can wait.  It does not need  *)
(* the clock, nor an order of created_at.                                  *)

Live(c) == c.status \notin {"absent", "deleted"}

\* Of the rows of a target, those before the last do not wait.
Ordered(cs) ==
  \A t \in Target, b \in Batch, c \in Batch :
    b < c /\ cs[c][t].status # "absent" => cs[b][t].status # "pending"

\* No switch of the mode was committed: every row is of the present mode.
FirstMode == era = 0 /\ \A b \in Batch, t \in Target : commands[b][t].era = era

LEMMA FirstRows == /\ IInv /\ era = 0 => FirstMode
                   /\ IInv' /\ era' = 0 => FirstMode'
<1>1. ASSUME IInv, era = 0 PROVE FirstMode
  BY <1>1 DEF IInv, TypeOK, EraBound, Command, Era, FirstMode
<1>2. ASSUME IInv', era' = 0 PROVE FirstMode'
  BY <1>2 DEF IInv, TypeOK, EraBound, Command, Era, FirstMode
<1> QED
  BY <1>1, <1>2

LEMMA OInductive == ASSUME IInv, Ordered(commands), [Next]_vars PROVE Ordered(commands')
<1>1. /\ \A b \in Batch, t \in Target : Advances(b, t)
      /\ lastBatch \in Nat
  BY RowSteps, ConstantTypes DEF IInv, TypeOK
<1>2. Deleted.status = "deleted"
  BY DEF Deleted, Absent
<1> SUFFICES ASSUME NEW t \in Target, NEW b \in Batch, NEW c \in Batch, b < c,
                    commands'[c][t].status # "absent"
             PROVE  commands'[b][t].status # "pending"
  BY DEF Ordered
<1>3. CASE Issued(c, t)
  <2>1. b # c
    BY DEF Batch
  <2> QED
    BY <1>3, <2>1 DEF Issued
<1>4. CASE ~Issued(c, t)
  <2>1. commands[c][t].status # "absent"
    BY <1>1, <1>4 DEF Advances, Ends, Removed, Ended
  <2>2. ~Issued(b, t)
    <3>1. c <= lastBatch
      BY <1>1, <2>1 DEF IInv, Unissued, Batch
    <3>2. b # lastBatch + 1
      BY <1>1, <3>1 DEF Batch
    <3> QED
      BY <3>2 DEF Issued
  <2> QED
    BY <1>1, <1>2, <2>1, <2>2 DEF Ordered, Advances, Ends, Removed, Ended
<1> QED
  BY <1>3, <1>4

LEMMA OInitially == Init => Ordered(commands)
BY DEF Init, Ordered, Absent

-----------------------------------------------------------------------------
(* The last row of a target, as those see it who decide.                   *)

Mine(cs, t) == {b \in Batch : Live(cs[b][t])}

Seen(c) == [status |-> Outcome(c.status), want |-> c.want, source |-> c.source]

RowOf(cs, t) == IF Mine(cs, t) = {} THEN Tables!None
                ELSE Seen(cs[CHOOSE b \in Mine(cs, t) : IsLast(b, Mine(cs, t))][t])

Latest(cs) == [t \in Target |-> RowOf(cs, t)]

LEMMA LeastNat ==
  ASSUME NEW T \in SUBSET Nat, T # {}
  PROVE  \E n \in T : \A m \in T : n <= m
<1> DEFINE Less == {p \in Nat \X Nat : p[1] < p[2]}
<1>1. IsWellFoundedOn(Less, Nat)
  BY NatLessThanWellFounded DEF OpToRel
<1>2. \A x, y \in T : <<y, x>> \in Less <=> y < x
  OBVIOUS
<1> HIDE DEF Less
<1>3. \E x \in T : \A y \in T : ~ (<<y, x>> \in Less)
  BY <1>1, WFMin
<1>4. PICK x \in T : \A y \in T : ~ (<<y, x>> \in Less)
  BY <1>3
<1>5. \A y \in T : x <= y
  <2> SUFFICES ASSUME NEW y \in T PROVE x <= y
    OBVIOUS
  <2>1. x \in Nat /\ y \in Nat /\ ~(y < x)
    BY <1>2, <1>4
  <2> QED
    BY <2>1
<1> QED
  BY <1>5

LEMMA LastExists ==
  ASSUME NEW S \in SUBSET Batch, S # {}
  PROVE  \E b \in S : IsLast(b, S)
<1>1. MaxBatch \in Nat /\ \A m \in S : m \in Nat /\ m <= MaxBatch
  BY ConstantTypes DEF Batch
<1> DEFINE Above == {k \in Nat : \A m \in S : m <= k}
<1>2. MaxBatch \in Above /\ Above \in SUBSET Nat
  BY <1>1
<1>3. PICK k \in Above : \A m \in Above : k <= m
  <2> HIDE DEF Above
  <2> QED
    BY <1>2, LeastNat
<1>4. k \in Nat /\ \A m \in S : m <= k
  BY <1>3
<1>5. k \in S
  <2> SUFFICES ASSUME k \notin S PROVE FALSE
    OBVIOUS
  <2>1. \A m \in S : m <= k - 1
    <3> SUFFICES ASSUME NEW m \in S PROVE m <= k - 1
      OBVIOUS
    <3>1. m \in Nat /\ m <= k /\ m # k
      BY <1>1, <1>4
    <3> QED
      BY <1>4, <3>1
  <2>2. PICK m \in S : TRUE
    OBVIOUS
  <2>3. m \in Nat /\ 1 <= m
    BY <2>2 DEF Batch
  <2>4. k - 1 \in Nat
    BY <1>4, <2>1, <2>3
  <2>5. k - 1 \in Above
    BY <2>1, <2>4
  <2> QED
    BY <1>3, <1>4, <2>5
<1> QED
  BY <1>4, <1>5 DEF IsLast

LEMMA RowIs ==
  ASSUME NEW cs, NEW t, NEW b, IsLast(b, Mine(cs, t))
  PROVE  RowOf(cs, t) = Seen(cs[b][t])
<1> DEFINE S == Mine(cs, t)
           c == CHOOSE c \in S : IsLast(c, S)
<1>1. b \in S /\ c \in S /\ IsLast(c, S)
  BY DEF IsLast
<1>2. b <= c /\ c <= b /\ b \in Nat /\ c \in Nat
  BY <1>1 DEF IsLast, Mine, Batch
<1>3. b = c
  BY <1>2
<1>4. S # {}
  BY <1>1
<1> HIDE DEF S
<1> QED
  BY <1>3, <1>4 DEF RowOf, S

LEMMA RowCases ==
  ASSUME NEW cs \in Rows, NEW t \in Target
  PROVE  /\ RowOf(cs, t) \in Tables!Command
         /\ \/ Mine(cs, t) = {} /\ RowOf(cs, t) = Tables!None
            \/ \E b \in Mine(cs, t) : IsLast(b, Mine(cs, t)) /\ RowOf(cs, t) = Seen(cs[b][t])
<1>1. CASE Mine(cs, t) = {}
  <2>1. RowOf(cs, t) = Tables!None
    BY <1>1 DEF RowOf
  <2> QED
    BY <1>1, <2>1 DEF Tables!None, Tables!Command
<1>2. CASE Mine(cs, t) # {}
  <2>1. PICK b \in Mine(cs, t) : IsLast(b, Mine(cs, t))
    BY <1>2, LastExists DEF Mine
  <2>2. RowOf(cs, t) = Seen(cs[b][t])
    BY <2>1, RowIs
  <2>3. cs[b][t] \in Command /\ Live(cs[b][t])
    BY DEF Mine, Rows
  <2>4. Seen(cs[b][t]) \in Tables!Command
    BY <2>3 DEF Seen, Outcome, Live, Command, Status, Ended, Source, Tables!Command
  <2> QED
    BY <2>1, <2>2, <2>4
<1> QED
  BY <1>1, <1>2

LEMMA SeenIs ==
  ASSUME NEW c \in Command
  PROVE  /\ Seen(c).status = "pending" <=> c.status = "pending"
         /\ Seen(c).status = "failed" <=> c.status \in {"failed", "expired", "cancelled"}
         /\ Seen(c).want = c.want /\ Seen(c).source = c.source
BY DEF Seen, Outcome

\* Under Ordered nothing but the last row of a target can wait.
LEMMA OnlyLastWaits ==
  ASSUME NEW cs \in Rows, Ordered(cs), NEW t \in Target
  PROVE  IF RowOf(cs, t).status = "pending"
         THEN \E b \in Mine(cs, t) : /\ Pending(cs, t) = {b} /\ IsLast(b, Pending(cs, t))
                                     /\ RowOf(cs, t) = Seen(cs[b][t])
         ELSE Pending(cs, t) = {}
<1>1. CASE Mine(cs, t) = {}
  <2>1. RowOf(cs, t) = Tables!None
    BY <1>1 DEF RowOf
  <2>2. Pending(cs, t) = {}
    BY <1>1 DEF Pending, Mine, Live
  <2> QED
    BY <2>1, <2>2 DEF Tables!None
<1>2. ASSUME NEW b \in Mine(cs, t), IsLast(b, Mine(cs, t)), RowOf(cs, t) = Seen(cs[b][t])
      PROVE  /\ RowOf(cs, t).status = "pending" <=> cs[b][t].status = "pending"
             /\ \A p \in Pending(cs, t) : p = b
  <2>1. cs[b][t] \in Command /\ b \in Batch /\ Live(cs[b][t])
    BY DEF Mine, Rows
  <2>2. ASSUME NEW p \in Pending(cs, t) PROVE p = b
    <3>1. p \in Batch /\ cs[p][t].status = "pending" /\ p \in Mine(cs, t)
      BY DEF Pending, Mine, Live
    <3>2. p <= b
      BY <1>2, <3>1 DEF IsLast
    <3>3. ~(p < b)
      BY <2>1, <3>1 DEF Ordered, Live
    <3> QED
      BY <2>1, <3>1, <3>2, <3>3 DEF Batch
  <2> QED
    BY <1>2, <2>1, <2>2, SeenIs
<1>3. ASSUME NEW b \in Mine(cs, t), IsLast(b, Mine(cs, t)), RowOf(cs, t) = Seen(cs[b][t])
      PROVE  IF RowOf(cs, t).status = "pending"
             THEN Pending(cs, t) = {b} /\ IsLast(b, Pending(cs, t))
             ELSE Pending(cs, t) = {}
  <2>1. b \in Batch /\ b <= b
    BY DEF Mine, Batch
  <2> QED
    BY <1>2, <1>3, <2>1 DEF Pending, IsLast
<1> QED
  BY <1>1, <1>3, RowCases

LEMMA IntentIsWanted ==
  ASSUME NEW cs \in Rows, Ordered(cs), NEW rep, NEW t \in Target
  PROVE  Intent(cs, rep)[t] = Tables!Wanted(Latest(cs), rep)[t]
<1> DEFINE P == Pending(cs, t)
<1>1. /\ Intent(cs, rep)[t] = IF P = {} THEN rep[t]
                              ELSE \E b \in P : IsLast(b, P) /\ cs[b][t].want
      /\ Tables!Wanted(Latest(cs), rep)[t] = IF RowOf(cs, t).status = "pending"
                                             THEN RowOf(cs, t).want ELSE rep[t]
  BY DEF Intent, Latest, Tables!Wanted, Tables!Waits
<1> HIDE DEF P
<1>2. CASE RowOf(cs, t).status = "pending"
  <2>1. PICK b \in Mine(cs, t) : P = {b} /\ IsLast(b, P) /\ RowOf(cs, t) = Seen(cs[b][t])
    BY <1>2, OnlyLastWaits DEF P
  <2>2. cs[b][t] \in Command
    BY DEF Mine, Rows
  <2>3. RowOf(cs, t).want = cs[b][t].want /\ cs[b][t].want \in BOOLEAN
    BY <2>1, <2>2, SeenIs DEF Command
  <2>4. (\E d \in P : IsLast(d, P) /\ cs[d][t].want) = cs[b][t].want
    BY <2>1, <2>3
  <2> QED
    BY <1>1, <1>2, <2>1, <2>3, <2>4
<1>3. CASE RowOf(cs, t).status # "pending"
  BY <1>1, <1>3, OnlyLastWaits DEF P
<1> QED
  BY <1>2, <1>3

\* A transaction that only ends commands leaves the last rows where they are.
OnlyEnds(cs, ds) == \A b \in Batch, t \in Target :
                    ds[b][t] = cs[b][t] \/ Ends(cs[b][t], ds[b][t])

LEMMA RowEnds ==
  ASSUME NEW cs \in Rows, NEW ds \in Rows, OnlyEnds(cs, ds), NEW t \in Target
  PROVE  \/ RowOf(ds, t) = RowOf(cs, t)
         \/ \E b \in Batch :
              /\ Ends(cs[b][t], ds[b][t])
              /\ RowOf(cs, t) = Seen(cs[b][t]) /\ RowOf(cs, t).status = "pending"
              /\ RowOf(ds, t) = [RowOf(cs, t) EXCEPT !.status = Outcome(ds[b][t].status)]
<1>1. \A b \in Batch : Live(ds[b][t]) <=> Live(cs[b][t])
  BY DEF OnlyEnds, Ends, Ended, Live
<1>2. Mine(ds, t) = Mine(cs, t)
  BY <1>1 DEF Mine
<1>3. CASE Mine(cs, t) = {}
  BY <1>2, <1>3 DEF RowOf
<1>4. CASE Mine(cs, t) # {}
  <2>1. PICK b \in Mine(cs, t) : IsLast(b, Mine(cs, t))
    BY <1>4, LastExists DEF Mine
  <2>2. RowOf(cs, t) = Seen(cs[b][t]) /\ RowOf(ds, t) = Seen(ds[b][t])
    BY <1>2, <2>1, RowIs
  <2>3. b \in Batch /\ cs[b][t] \in Command /\ ds[b][t] \in Command
    BY DEF Mine, Rows
  <2>4. CASE ds[b][t] = cs[b][t]
    BY <2>2, <2>4
  <2>5. CASE Ends(cs[b][t], ds[b][t])
    <3>1. RowOf(cs, t).status = "pending"
      BY <2>2, <2>3, <2>5, SeenIs DEF Ends
    <3>2. Seen(ds[b][t]) = [Seen(cs[b][t]) EXCEPT !.status = Outcome(ds[b][t].status)]
      BY <2>5 DEF Ends, SameOrder, Seen
    <3> QED
      BY <2>2, <2>3, <2>5, <3>1, <3>2
  <2> QED
    BY <2>3, <2>4, <2>5 DEF OnlyEnds
<1> QED
  BY <1>3, <1>4

LEMMA OrderedEnds ==
  ASSUME NEW cs \in Rows, NEW ds \in Rows, OnlyEnds(cs, ds), Ordered(cs)
  PROVE  Ordered(ds)
<1> SUFFICES ASSUME NEW t \in Target, NEW b \in Batch, NEW c \in Batch, b < c,
                    ds[c][t].status # "absent"
             PROVE  ds[b][t].status # "pending"
  BY DEF Ordered
<1>1. cs[c][t].status # "absent"
  BY DEF OnlyEnds, Ends
<1>2. cs[b][t].status # "pending"
  BY <1>1 DEF Ordered
<1> QED
  BY <1>2 DEF OnlyEnds, Ends

\* In the first mode the rows of the present mode are all rows.
LEMMA LastIs ==
  /\ FirstMode => [t \in Target |-> LastOf(t)] = Latest(commands)
  /\ FirstMode' => [t \in Target |-> LastOf(t)]' = Latest(commands')
<1>1. ASSUME FirstMode PROVE [t \in Target |-> LastOf(t)] = Latest(commands)
  <2>1. ASSUME NEW t \in Target PROVE LastOf(t) = RowOf(commands, t)
    <3>1. \A b \in Batch : commands[b][t].era = era
      BY <1>1 DEF FirstMode
    <3>2. Epoch(commands, t) = Mine(commands, t)
      BY <3>1 DEF Epoch, Mine, Live
    <3> QED
      BY <3>2 DEF LastOf, RowOf, Seen, Tables!None
  <2> QED
    BY <2>1 DEF Latest
<1>2. ASSUME FirstMode'
      PROVE  [t \in Target |-> LastOf(t)]' = Latest(commands')
  <2>1. ASSUME NEW t \in Target PROVE LastOf(t)' = RowOf(commands', t)
    <3>1. \A b \in Batch : commands'[b][t].era = era'
      BY <1>2 DEF FirstMode
    <3>2. Epoch(commands, t)' = Mine(commands', t)
      BY <3>1 DEF Epoch, Mine, Live
    <3> QED
      BY <3>2 DEF LastOf, RowOf, Seen, Tables!None
  <2> QED
    BY <2>1 DEF Latest
<1> QED
  BY <1>1, <1>2

\* Commands that end without success.
LEMMA RowsFail ==
  ASSUME FirstMode, TypeOK, NEW ds \in Rows, OnlyEnds(commands, ds),
         \A b \in Batch, t \in Target :
           ds[b][t].status = "applied" => ds[b][t] = commands[b][t]
  PROVE  \E T \in SUBSET Target : Latest(ds) = Tables!Ending(T)
<1> DEFINE T == {t \in Target : RowOf(ds, t) # RowOf(commands, t)}
<1>1. commands \in Rows /\ T \in SUBSET Target
  BY DEF TypeOK, Rows
<1>2. Tables!Ending(T) = [t \in Target |->
         IF t \in T /\ RowOf(commands, t).status = "pending"
         THEN [RowOf(commands, t) EXCEPT !.status = "failed"] ELSE RowOf(commands, t)]
  BY LastIs DEF Tables!Ending, Tables!Waits, Latest
<1>3. ASSUME NEW t \in Target
      PROVE  RowOf(ds, t) = IF t \in T /\ RowOf(commands, t).status = "pending"
                            THEN [RowOf(commands, t) EXCEPT !.status = "failed"]
                            ELSE RowOf(commands, t)
  <2>1. CASE t \notin T
    BY <2>1
  <2>2. CASE t \in T
    <3>1. PICK b \in Batch :
              /\ Ends(commands[b][t], ds[b][t])
              /\ RowOf(commands, t).status = "pending"
              /\ RowOf(ds, t) = [RowOf(commands, t) EXCEPT !.status = Outcome(ds[b][t].status)]
      BY <1>1, <2>2, RowEnds
    <3>2. ds[b][t].status \in Ended \ {"applied"}
      BY <3>1 DEF Ends, Ended
    <3>3. Outcome(ds[b][t].status) = "failed"
      BY <3>2 DEF Outcome, Ended
    <3> QED
      BY <2>2, <3>1, <3>3
  <2> QED
    BY <2>1, <2>2
<1> HIDE DEF T
<1> QED
  BY <1>1, <1>2, <1>3 DEF Latest

LEMMA SettledFails ==
  ASSUME FirstMode, TypeOK
  PROVE  /\ Settled \in Rows /\ OnlyEnds(commands, Settled)
         /\ \E T \in SUBSET Target : Latest(Settled) = Tables!Ending(T)
<1>1. Settled \in Rows /\ OnlyEnds(commands, Settled)
  BY SettledRows, SettledSteps DEF TypeOK, Rows, OnlyEnds
<1>2. \A b \in Batch, t \in Target :
        Settled[b][t].status = "applied" => Settled[b][t] = commands[b][t]
  BY SettledSteps
<1> QED
  BY <1>1, <1>2, RowsFail

\* What the new batch repeats or finds done follows from the last rows.
LEMMA RefusedIs ==
  ASSUME NEW cs \in Rows, NEW t \in Target, NEW want, NEW source,
         \A b \in Batch : cs[b][t].era = era
  PROVE  Refused(cs, t, want, source) <=> Tables!Refused(Latest(cs), t, want, source)
<1>1. \A b \in Batch : cs[b][t] \in Command /\ cs[b][t].era = era
  BY DEF Rows
<1>2. Epoch(cs, t) = Mine(cs, t)
  BY <1>1 DEF Epoch, Mine, Live
<1>3. Tables!Refused(Latest(cs), t, want, source) <=>
        /\ source = "automatic"
        /\ RowOf(cs, t) = [status |-> "failed", want |-> want, source |-> source]
  BY DEF Tables!Refused, Latest
<1>4. CASE Mine(cs, t) = {}
  BY <1>2, <1>3, <1>4 DEF Refused, RowOf, Tables!None
<1>5. CASE Mine(cs, t) # {}
  <2>1. PICK b \in Mine(cs, t) : IsLast(b, Mine(cs, t))
    BY <1>5, LastExists DEF Mine
  <2>2. \A c \in Mine(cs, t) : IsLast(c, Mine(cs, t)) => c = b
    <3> SUFFICES ASSUME NEW c \in Mine(cs, t), IsLast(c, Mine(cs, t)) PROVE c = b
      OBVIOUS
    <3>1. b <= c /\ c <= b /\ b \in Nat /\ c \in Nat
      BY <2>1 DEF IsLast, Mine, Batch
    <3> QED
      BY <3>1
  <2>3. RowOf(cs, t) = Seen(cs[b][t]) /\ cs[b][t] \in Command
    BY <1>1, <2>1, RowIs DEF Mine
  <2>4. Refused(cs, t, want, source) <=>
          /\ source = "automatic"
          /\ cs[b][t].source = "automatic" /\ cs[b][t].want = want
          /\ cs[b][t].status \in {"failed", "expired", "cancelled"}
    BY <1>2, <2>1, <2>2 DEF Refused
  <2>5. Seen(cs[b][t]) = [status |-> "failed", want |-> want, source |-> source] <=>
          /\ cs[b][t].status \in {"failed", "expired", "cancelled"}
          /\ cs[b][t].want = want /\ cs[b][t].source = source
    BY <2>3 DEF Seen, Outcome
  <2> QED
    BY <1>3, <2>3, <2>4, <2>5
<1> QED
  BY <1>4, <1>5

LEMMA SatisfiedIs ==
  ASSUME NEW cs \in Rows, Ordered(cs), NEW t \in Target, NEW want
  PROVE  Satisfied(cs, t, want) <=> Tables!Satisfied(Latest(cs), t, want)
<1>1. Tables!Satisfied(Latest(cs), t, want) <=>
        /\ Tables!Wanted(Latest(cs), reported)[t] = want
        /\ RowOf(cs, t).status = "pending" \/ (t \in known /\ reported[t] = want)
  BY DEF Tables!Satisfied, Tables!Waits, Latest
<1>2. Intent(cs, reported)[t] = Tables!Wanted(Latest(cs), reported)[t]
  BY IntentIsWanted
<1>3. CASE RowOf(cs, t).status = "pending"
  <2>1. PICK b \in Mine(cs, t) : /\ Pending(cs, t) = {b}
                                 /\ RowOf(cs, t) = Seen(cs[b][t])
    BY <1>3, OnlyLastWaits
  <2>2. cs[b][t] \in Command
    BY DEF Mine, Rows
  <2>3. Tables!Wanted(Latest(cs), reported)[t] = cs[b][t].want
    BY <1>3, <2>1, <2>2, SeenIs DEF Tables!Wanted, Tables!Waits, Latest
  <2> QED
    BY <1>1, <1>2, <1>3, <2>1, <2>3 DEF Satisfied
<1>4. CASE RowOf(cs, t).status # "pending"
  <2>1. Pending(cs, t) = {}
    BY <1>4, OnlyLastWaits
  <2> QED
    BY <1>1, <1>2, <1>4, <2>1 DEF Satisfied
<1> QED
  BY <1>3, <1>4

-----------------------------------------------------------------------------
(* Each transaction is one of LastCommands.                                *)

LEMMA QueueIsQueue ==
  ASSUME FirstMode, IInv, Ordered(commands), IInv',
         NEW plan \in Plans, NEW source \in Source, NEW began \in Began,
         NEW start \in Starts, Queue(plan, source, began, start)
  PROVE  /\ plan \in Tables!Plans
         /\ Latest(commands') = [t \in Target |->
              IF /\ t \in DOMAIN plan
                 /\ ~Tables!Refused(Latest(Settled), t, plan[t], source)
                 /\ ~Tables!Satisfied(Latest(Settled), t, plan[t])
              THEN [status |-> "pending", want |-> plan[t], source |-> source]
              ELSE Latest(Settled)[t]]
<1> DEFINE cs == Settled
           new == Accepted(cs, plan, source)
           issued == lastBatch + 1
<1>1. PICK T \in SUBSET Target : plan \in [T -> BOOLEAN]
  BY DEF Plans
<1>2. plan \in Tables!Plans
  BY <1>1 DEF Tables!Plans
<1>3. /\ commands' = Queued(cs, new, plan, source, began, start)
      /\ lastBatch' = IF new = {} THEN lastBatch ELSE issued
  BY DEF Queue
<1>4. lastBatch \in Nat /\ issued \in Batch
  BY ConstantTypes DEF IInv, TypeOK, Queue, Batch
<1>5. cs \in Rows /\ OnlyEnds(commands, cs) /\ TypeOK
  BY SettledFails DEF IInv
<1>6. Ordered(cs)
  BY <1>5, OrderedEnds DEF TypeOK, Rows
<1>7. \A t \in Target : t \in new <=>
        /\ t \in DOMAIN plan
        /\ ~Tables!Refused(Latest(cs), t, plan[t], source)
        /\ ~Tables!Satisfied(Latest(cs), t, plan[t])
  <2> SUFFICES ASSUME NEW t \in Target, t \in DOMAIN plan
               PROVE  t \in new <=> /\ ~Tables!Refused(Latest(cs), t, plan[t], source)
                                    /\ ~Tables!Satisfied(Latest(cs), t, plan[t])
    BY DEF Accepted
  <2>1. t \in new <=> ~Refused(cs, t, plan[t], source) /\ ~Satisfied(cs, t, plan[t])
    BY DEF Accepted
  <2>2. \A b \in Batch : cs[b][t].era = era
    BY <1>5 DEF OnlyEnds, Ends, SameOrder, FirstMode
  <2> HIDE DEF cs, new
  <2> QED
    BY <1>5, <1>6, <2>1, <2>2, RefusedIs, SatisfiedIs
<1>8. new \subseteq Target
  BY <1>1 DEF Accepted
<1> HIDE DEF cs, new, issued
<1>9. ASSUME NEW t \in Target
      PROVE  RowOf(commands', t) =
               IF t \in new
               THEN [status |-> "pending", want |-> plan[t], source |-> source]
               ELSE RowOf(cs, t)
  <2>1. CASE t \notin new
    <3>1. \A b \in Batch : commands'[b][t] = cs[b][t]
      BY <1>3, <2>1 DEF Queued
    <3>2. Mine(commands', t) = Mine(cs, t)
      BY <3>1 DEF Mine
    <3>3. CASE Mine(cs, t) = {}
      BY <2>1, <3>2, <3>3 DEF RowOf
    <3>4. CASE Mine(cs, t) # {}
      <4>1. PICK b \in Mine(cs, t) : IsLast(b, Mine(cs, t))
        BY <3>4, LastExists DEF Mine
      <4>2. b \in Batch /\ RowOf(cs, t) = Seen(cs[b][t])
            /\ RowOf(commands', t) = Seen(commands'[b][t])
        BY <3>2, <4>1, RowIs DEF Mine
      <4> QED
        BY <2>1, <3>1, <4>2
    <3> QED
      BY <3>3, <3>4
  <2>2. CASE t \in new
    <3>1. commands'[issued][t] = [status |-> "pending", want |-> plan[t], source |-> source,
                                  era |-> began, created |-> start, expires |-> now + Life(source)]
      BY <1>3, <1>4, <2>2 DEF Queued, issued
    <3>2. lastBatch' = issued
      BY <1>3, <2>2
    <3>3. ASSUME NEW b \in Mine(commands', t) PROVE b <= issued
      <4>1. ~(b > lastBatch')
        BY DEF IInv, Unissued, Mine, Live
      <4> QED
        BY <1>4, <3>2, <4>1 DEF Mine, Batch, issued
    <3>4. Live(commands'[issued][t])
      BY <3>1 DEF Live
    <3>5. IsLast(issued, Mine(commands', t))
      BY <1>4, <3>3, <3>4 DEF IsLast, Mine
    <3>6. RowOf(commands', t) = Seen(commands'[issued][t])
      BY <3>5, RowIs
    <3> QED
      BY <2>2, <3>1, <3>6 DEF Seen, Outcome
  <2> QED
    BY <2>1, <2>2
<1>10. Latest(commands') = [t \in Target |->
         IF t \in new THEN [status |-> "pending", want |-> plan[t], source |-> source]
         ELSE Latest(cs)[t]]
  BY <1>9 DEF Latest
<1> QED
  BY <1>2, <1>7, <1>10 DEF cs

LEMMA ReportIsReport ==
  ASSUME FirstMode, TypeOK, TypeOK',
         NEW stamp \in Stamp, NEW seen \in SUBSET Target, NEW answers \in Answers,
         NEW position \in [seen -> BOOLEAN], Report(stamp, seen, position, answers),
         Fresh(stamp)
  PROVE  /\ known' \subseteq Target /\ reported' \in [Target -> BOOLEAN]
         /\ \A t \in Target \ known' : reported'[t] = reported[t]
         /\ \E T \in [Target -> {"pending", "applied", "failed"}] :
              /\ \A t \in Target : T[t] = "applied" =>
                   t \in known' /\ Latest(Settled)[t].want = reported'[t]
              /\ Latest(commands') = [t \in Target |->
                   IF Tables!Waits(Latest(Settled), t)
                   THEN [Latest(Settled)[t] EXCEPT !.status = T[t]] ELSE Latest(Settled)[t]]
<1> DEFINE cs == Settled
<1>1. /\ reported' = [t \in Target |-> IF t \in seen THEN position[t] ELSE reported[t]]
      /\ known' = seen
      /\ commands' = Answered(cs, seen, reported', answers)
  BY DEF Report
<1>2. cs \in Rows
  BY SettledFails
<1> HIDE DEF cs
<1>3. commands' \in Rows /\ OnlyEnds(cs, commands')
      /\ \A b \in Batch, t \in Target :
           Ends(cs[b][t], commands'[b][t]) =>
             \/ commands'[b][t].status = "failed"
             \/ /\ commands'[b][t].status = "applied"
                /\ t \in known' /\ cs[b][t].want = reported'[t]
  <2>1. commands' \in Rows
    BY <1>1, <1>2, AnsweredRows
  <2>2. \A b \in Batch, t \in Target :
          LET c == cs[b][t]
              d == commands'[b][t]
          IN \/ d = c
             \/ Ends(c, d) /\ d.status = "failed"
             \/ /\ Ends(c, d) /\ d.status = "applied"
                /\ t \in seen /\ c.want = reported'[t]
    BY <1>1, <1>2, AnsweredSteps
  <2>3. \A c : ~Ends(c, c)
    BY DEF Ends, Ended
  <2> QED
    BY <1>1, <2>1, <2>2, <2>3 DEF OnlyEnds
<1> DEFINE T == [t \in Target |-> IF RowOf(commands', t) = RowOf(cs, t) THEN "pending"
                                  ELSE RowOf(commands', t).status]
<1>4. ASSUME NEW t \in Target
      PROVE  /\ T[t] \in {"pending", "applied", "failed"}
             /\ T[t] = "applied" => t \in known' /\ RowOf(cs, t).want = reported'[t]
             /\ RowOf(commands', t) = IF RowOf(cs, t).status = "pending"
                                      THEN [RowOf(cs, t) EXCEPT !.status = T[t]]
                                      ELSE RowOf(cs, t)
  <2>1. RowOf(cs, t) \in Tables!Command
    BY <1>2, RowCases
  <2>2. CASE RowOf(commands', t) = RowOf(cs, t)
    <3>1. T[t] = "pending"
      BY <2>2
    <3>2. RowOf(cs, t).status = "pending" =>
            RowOf(cs, t) = [RowOf(cs, t) EXCEPT !.status = "pending"]
      BY <2>1 DEF Tables!Command
    <3> HIDE DEF T
    <3> QED
      BY <2>2, <3>1, <3>2
  <2>3. CASE RowOf(commands', t) # RowOf(cs, t)
    <3>1. PICK b \in Batch :
              /\ Ends(cs[b][t], commands'[b][t])
              /\ RowOf(cs, t) = Seen(cs[b][t]) /\ RowOf(cs, t).status = "pending"
              /\ RowOf(commands', t)
                   = [RowOf(cs, t) EXCEPT !.status = Outcome(commands'[b][t].status)]
      BY <1>2, <1>3, <2>3, RowEnds
    <3>2. T[t] = Outcome(commands'[b][t].status)
      BY <2>1, <2>3, <3>1 DEF Tables!Command
    <3>3. RowOf(cs, t).want = cs[b][t].want
      BY <3>1 DEF Seen
    <3> HIDE DEF T
    <3> QED
      BY <1>3, <3>1, <3>2, <3>3 DEF Outcome
  <2> QED
    BY <2>2, <2>3
<1>5. T \in [Target -> {"pending", "applied", "failed"}]
  BY <1>4
<1>6. known' \subseteq Target /\ reported' \in [Target -> BOOLEAN]
      /\ \A t \in Target \ known' : reported'[t] = reported[t]
  BY <1>1 DEF TypeOK
<1> HIDE DEF T
<1>7. Latest(commands') = [t \in Target |->
        IF Tables!Waits(Latest(cs), t)
        THEN [Latest(cs)[t] EXCEPT !.status = T[t]] ELSE Latest(cs)[t]]
  BY <1>4 DEF Latest, Tables!Waits
<1>8. \A t \in Target : T[t] = "applied" =>
                   t \in known' /\ Latest(cs)[t].want = reported'[t]
  BY <1>4 DEF Latest
<1> QED
  BY <1>5, <1>6, <1>7, <1>8 DEF cs

LEMMA PurgeIsForget ==
  ASSUME FirstMode, IInv, IInv', Ordered(commands'), Purge
  PROVE  /\ Latest(commands') \in [Target -> Tables!Command]
         /\ \A t \in Target : Latest(commands')[t] # Latest(Settled)[t] =>
              /\ Latest(Settled)[t].status # "pending"
              /\ Latest(commands')[t].status # "pending"
<1> DEFINE cs == Settled
<1>1. \A b \in Batch, t \in Target :
        \/ commands'[b][t] = cs[b][t]
        \/ commands'[b][t] = Deleted /\ cs[b][t].status \in Ended
  BY DEF Purge
<1>2. cs \in Rows /\ commands' \in Rows
  BY SettledFails DEF IInv, TypeOK, Rows
<1>3. ~Live(Deleted) /\ \A c : c.status \in Ended => Live(c) /\ c.status # "pending"
  BY DEF Live, Deleted, Absent, Ended
<1> HIDE DEF cs
<1>4. \A t \in Target : RowOf(commands', t) \in Tables!Command
  BY <1>2, RowCases
<1>5. ASSUME NEW t \in Target, RowOf(commands', t) # RowOf(cs, t)
      PROVE  RowOf(cs, t).status # "pending" /\ RowOf(commands', t).status # "pending"
  <2>1. Mine(commands', t) \subseteq Mine(cs, t)
    BY <1>1, <1>3 DEF Mine
  <2>2. Mine(cs, t) # {}
    BY <1>5, <2>1 DEF RowOf
  <2>3. PICK b \in Mine(cs, t) : IsLast(b, Mine(cs, t))
    BY <2>2, LastExists DEF Mine
  <2>4. RowOf(cs, t) = Seen(cs[b][t]) /\ b \in Batch /\ cs[b][t] \in Command
    BY <1>2, <2>3, RowIs DEF Mine, Rows
  <2>5. commands'[b][t] # cs[b][t]
    <3> SUFFICES ASSUME commands'[b][t] = cs[b][t] PROVE FALSE
      OBVIOUS
    <3>1. b \in Mine(commands', t)
      BY <2>3 DEF Mine
    <3>2. IsLast(b, Mine(commands', t))
      BY <2>1, <2>3, <3>1 DEF IsLast
    <3>3. RowOf(commands', t) = Seen(commands'[b][t])
      BY <3>2, RowIs
    <3> QED
      BY <1>5, <2>4, <3>3
  <2>6. commands'[b][t] = Deleted /\ cs[b][t].status \in Ended
    BY <1>1, <2>4, <2>5
  <2>7. RowOf(cs, t).status # "pending"
    BY <1>3, <2>4, <2>6, SeenIs
  <2>8. RowOf(commands', t).status # "pending"
    <3> SUFFICES ASSUME RowOf(commands', t).status = "pending" PROVE FALSE
      OBVIOUS
    <3>1. PICK d \in Mine(commands', t) : Pending(commands', t) = {d}
      BY <1>2, OnlyLastWaits
    <3>2. d \in Batch /\ commands'[d][t].status = "pending" /\ d \in Mine(cs, t)
      BY <2>1, <3>1 DEF Pending
    <3>3. d # b /\ d <= b
      BY <1>3, <2>3, <2>6, <3>2 DEF IsLast, Live
    <3>4. d < b
      BY <2>4, <3>2, <3>3 DEF Batch
    <3>5. commands'[b][t].status # "absent"
      BY <2>6 DEF Deleted, Absent
    <3> QED
      BY <2>4, <3>2, <3>4, <3>5 DEF Ordered
  <2> QED
    BY <2>7, <2>8
<1> QED
  BY <1>4, <1>5 DEF Latest, cs

LEMMA StepImplements ==
  ASSUME FirstMode, FirstMode', IInv, IInv', Ordered(commands), Ordered(commands'),
         DesiredFollowsIntent', [Next]_vars
  PROVE  [Tables!Next]_<<[t \in Target |-> LastOf(t)], reported, desired, known>>
<1>1. /\ [t \in Target |-> LastOf(t)] = Latest(commands)
      /\ [t \in Target |-> LastOf(t)]' = Latest(commands')
  BY LastIs DEF IInv
<1>2. desired' = Tables!Wanted([t \in Target |-> LastOf(t)]', reported')
  <2>1. \A b \in Batch, t \in Target : commands'[b][t].era = era'
    BY DEF FirstMode
  <2>2. \A t \in Target : desired'[t] = Intent(commands', reported')[t]
    BY <2>1 DEF DesiredFollowsIntent, Pending
  <2>3. commands' \in Rows /\ Ordered(commands') /\ desired' \in [Target -> BOOLEAN]
    BY DEF IInv, TypeOK, Rows
  <2>4. \A t \in Target : desired'[t] = Tables!Wanted(Latest(commands'), reported')[t]
    BY <2>2, <2>3, IntentIsWanted
  <2> QED
    BY <1>1, <2>3, <2>4 DEF Tables!Wanted
<1>3. PICK S \in SUBSET Target : Latest(Settled) = Tables!Ending(S)
  BY SettledFails DEF IInv
<1>4. ASSUME NEW T \in SUBSET Target, Tables!Transaction(Tables!Ending(T))
      PROVE  Tables!Next
  BY <1>2, <1>4 DEF Tables!Next
<1>5. ASSUME NEW ds \in Rows, OnlyEnds(commands, ds), commands' = ds,
             \A b \in Batch, t \in Target :
               ds[b][t].status = "applied" => ds[b][t] = commands[b][t],
             UNCHANGED <<reported, known>>
      PROVE  Tables!Next
  <2>1. PICK T \in SUBSET Target : Latest(ds) = Tables!Ending(T)
    BY <1>5, RowsFail DEF IInv
  <2>2. Tables!End(Tables!Ending(T))
    BY <1>1, <1>5, <2>1 DEF Tables!End
  <2> QED
    BY <1>4, <2>2 DEF Tables!Transaction
<1>6. /\ Settled \in Rows /\ OnlyEnds(commands, Settled)
      /\ \A b \in Batch, t \in Target :
           Settled[b][t].status = "applied" => Settled[b][t] = commands[b][t]
  BY SettledFails, SettledSteps DEF IInv
<1>7. CASE Read
  BY <1>5, <1>6, <1>7 DEF Read
<1>8. ASSUME NEW plan \in Plans, NEW source \in Source, NEW began \in Began,
             NEW start \in Starts, Queue(plan, source, began, start)
      PROVE  Tables!Next
  <2>1. /\ plan \in Tables!Plans
        /\ Latest(commands') = [t \in Target |->
              IF /\ t \in DOMAIN plan
                 /\ ~Tables!Refused(Latest(Settled), t, plan[t], source)
                 /\ ~Tables!Satisfied(Latest(Settled), t, plan[t])
              THEN [status |-> "pending", want |-> plan[t], source |-> source]
              ELSE Latest(Settled)[t]]
    BY <1>8, QueueIsQueue
  <2>2. UNCHANGED <<reported, known>>
    BY <1>8 DEF Queue
  <2>3. Tables!Queue(Latest(Settled), plan, source)
    BY <1>1, <2>1, <2>2 DEF Tables!Queue
  <2> QED
    BY <1>3, <1>4, <2>1, <2>3 DEF Tables!Transaction, Source
<1>9. ASSUME NEW batch \in Batch, CancelBatch(batch) PROVE Tables!Next
  <2>1. commands' \in Rows /\ UNCHANGED <<reported, known>>
    BY <1>9 DEF CancelBatch, IInv, TypeOK, Rows
  <2>2. ASSUME NEW b \in Batch, NEW t \in Target
        PROVE  /\ commands'[b][t] = commands[b][t] \/ Ends(commands[b][t], commands'[b][t])
               /\ commands'[b][t].status = "applied" => commands'[b][t] = commands[b][t]
    <3>1. Settled[b][t] \in Command
      BY <1>6 DEF Rows
    <3>2. \/ commands'[b][t] = Settled[b][t]
          \/ /\ Settled[b][t].status = "pending"
             /\ commands'[b][t] = [Settled[b][t] EXCEPT !.status = "cancelled"]
      BY <1>9 DEF CancelBatch
    <3>3. \/ Settled[b][t] = commands[b][t]
          \/ Ends(commands[b][t], Settled[b][t]) /\ Settled[b][t].status = "expired"
      BY SettledSteps DEF IInv
    <3>4. \/ commands'[b][t] = commands[b][t]
          \/ /\ Ends(commands[b][t], commands'[b][t])
             /\ commands'[b][t].status \in {"expired", "cancelled"}
      BY <3>1, <3>2, <3>3 DEF Ends, SameOrder, Ended, Command
    <3> QED
      BY <3>4
  <2> QED
    BY <1>5, <2>1, <2>2 DEF OnlyEnds
<1>10. ASSUME NEW stamp \in Stamp, NEW seen \in SUBSET Target, NEW answers \in Answers,
              NEW position \in [seen -> BOOLEAN], Report(stamp, seen, position, answers)
       PROVE  Tables!Next
  <2>1. CASE Fresh(stamp)
    <3>1. /\ known' \subseteq Target /\ reported' \in [Target -> BOOLEAN]
          /\ \A t \in Target \ known' : reported'[t] = reported[t]
          /\ \E T \in [Target -> {"pending", "applied", "failed"}] :
               /\ \A t \in Target : T[t] = "applied" =>
                    t \in known' /\ Latest(Settled)[t].want = reported'[t]
               /\ Latest(commands') = [t \in Target |->
                    IF Tables!Waits(Latest(Settled), t)
                    THEN [Latest(Settled)[t] EXCEPT !.status = T[t]] ELSE Latest(Settled)[t]]
      BY <1>10, <2>1, ReportIsReport DEF IInv
    <3>2. Tables!Report(Latest(Settled))
      BY <1>1, <3>1 DEF Tables!Report
    <3> QED
      BY <1>3, <1>4, <3>2 DEF Tables!Transaction
  <2>2. CASE ~Fresh(stamp)
    BY <1>5, <1>6, <1>10, <2>2 DEF Report
  <2> QED
    BY <2>1, <2>2
<1>11. CASE Purge
  <2>1. Tables!Forget(Latest(Settled))
    BY <1>1, <1>11, PurgeIsForget DEF Tables!Forget, Tables!Waits, Purge
  <2> QED
    BY <1>3, <1>4, <2>1 DEF Tables!Transaction
<1>12. ~CommitSwitch
  BY DEF FirstMode, CommitSwitch
<1>13. CASE BeginSwitch \/ AbortSwitch \/ Tick \/ SetClockBack \/ UNCHANGED vars
  BY <1>1, <1>13 DEF BeginSwitch, AbortSwitch, Tick, SetClockBack, vars, stateRow
<1> QED
  BY <1>7, <1>8, <1>9, <1>10, <1>11, <1>12, <1>13 DEF Next

\* No step leads back to the first mode.
LEMMA ModeGoesOn == ASSUME TypeOK, [Next]_vars, era' = 0 PROVE era = 0
<1>1. era' = era \/ era' = era + 1
  <2>1. ASSUME NEW plan \in Plans, NEW source \in Source, NEW began \in Began,
               NEW start \in Starts, Queue(plan, source, began, start)
        PROVE  era' = era
    BY <2>1 DEF Queue
  <2>2. ASSUME NEW batch \in Batch, CancelBatch(batch) PROVE era' = era
    BY <2>2 DEF CancelBatch
  <2>3. ASSUME NEW stamp \in Stamp, NEW seen \in SUBSET Target, NEW answers \in Answers,
               NEW position \in [seen -> BOOLEAN], Report(stamp, seen, position, answers)
        PROVE  era' = era
    BY <2>3 DEF Report
  <2> QED
    BY <2>1, <2>2, <2>3
       DEF Next, Read, Purge, BeginSwitch, CommitSwitch, AbortSwitch, Tick, SetClockBack, vars
<1>2. era \in Nat
  BY DEF TypeOK, Era
<1> QED
  BY <1>1, <1>2

\* Until the mode is switched, whatever the clock does and however long a request waited,
\* the last command of each target in the order of the ids is enough: what is refused,
\* satisfied, confirmed and shown as desired follows from it, not from those before it.
THEOREM ImplementsLast == Spec => ImplementsLastCommands
<1>1. Init => Ordered(commands) /\ Tables!Init
  <2> SUFFICES ASSUME Init PROVE Tables!Init
    BY OInitially
  <2>1. \A t \in Target : Mine(commands, t) = {}
    BY DEF Init, Mine, Live, Absent
  <2>2. Latest(commands) = [t \in Target |-> Tables!None]
    BY <2>1 DEF Latest, RowOf
  <2>3. IInv /\ era = 0
    BY Initially DEF Init
  <2>4. [t \in Target |-> LastOf(t)] = Latest(commands)
    BY <2>3, FirstRows, LastIs
  <2> QED
    BY <2>2, <2>4 DEF Init, Tables!Init
<1>2. IInv /\ Ordered(commands) /\ [Next]_vars => Ordered(commands)'
  BY OInductive
<1>3. IInv /\ IInv' /\ Ordered(commands) /\ Ordered(commands)'
          /\ DesiredFollowsIntent' /\ [Next]_vars
        => [era' = 0 => Tables!Next]_<<[t \in Target |-> LastOf(t)], reported, desired, known>>
  <2> SUFFICES ASSUME IInv, IInv', Ordered(commands), Ordered(commands)',
                      DesiredFollowsIntent', [Next]_vars, era' = 0
               PROVE  [Tables!Next]_<<[t \in Target |-> LastOf(t)], reported, desired, known>>
    OBVIOUS
  <2>1. era = 0
    BY ModeGoesOn DEF IInv
  <2>2. FirstMode /\ FirstMode'
    BY <2>1, FirstRows
  <2> QED
    BY <2>2, StepImplements
<1> QED
  BY <1>1, <1>2, <1>3, Invariant, DesiredIsTheIntent, PTL
     DEF Spec, ImplementsLastCommands

=============================================================================
