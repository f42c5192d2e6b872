-------------------------- MODULE NotificationProofs --------------------------
(***************************************************************************)
(* Notifications, for any number of processes, chats, events and checks.   *)
(*                                                                         *)
(* Delivery: a claimed event has a lease and one process, which has        *)
(* counted the attempt it is about to make; what the messenger confirmed   *)
(* is either marked or still in the hands of the process that marks it,    *)
(* and only a fault loses it.                                              *)
(*                                                                         *)
(* Conditions (Con!): what one row remembers of the checks, the start of   *)
(* the bad ones, the last check and the last alert, is all that the        *)
(* decision to alert an operator needs.                                    *)
(***************************************************************************)
EXTENDS NotificationDelivery, FiniteSetTheorems, SequenceTheorems, TLAPS

Row == [status : Status, attempts : 0..3, wait : 0..2, chat : Chat \cup {none},
        test : BOOLEAN]
Place == {"idle", "look", "disable", "send", "mark", "miss"}

Positions(w) == 1..Len(job[w].batch)

\* A claimed event has a lease, and nobody has answered it.
Held(i) == /\ event[i].status \in {"sending", "disabled"}
           /\ event[i].wait = 1 /\ event[i].chat # none

\* The attempt that was counted when it was claimed has not yet been made.
Unspent(w, k) == k # 1 \/ job[w].pc \notin {"mark", "miss"}

Shape ==
  /\ job \in [Worker -> [pc : Place, batch : Seq(Nat)]]
  /\ faults \in Nat
  /\ \A w \in Worker : job[w].pc = "idle" => job[w].batch = <<>>

Leased ==
  \A w \in Worker : \A k \in Positions(w) :
     LET i == job[w].batch[k]
     IN Held(i) /\ (Unspent(w, k) => calls[i] < event[i].attempts)

\* No event is claimed twice at a time.
Alone ==
  \A w, v \in Worker : \A k \in Positions(w), l \in Positions(v) :
     job[w].batch[k] = job[v].batch[l] => w = v /\ k = l

\* The messenger has confirmed it, and that is not lost.
Told(i) == \/ event[i].status = "sent"
           \/ \E w \in Worker : job[w].pc = "mark" /\ job[w].batch[1] = i

Counted ==
  \A i \in Id : /\ calls[i] <= event[i].attempts
                /\ arrived[i] <= faults + (IF Told(i) THEN 1 ELSE 0)
                /\ Told(i) => arrived[i] > 0

IInv == TypeOK /\ Shape /\ Leased /\ Alone /\ Counted

-----------------------------------------------------------------------------

LEMMA FunctionIsSeq ==
  ASSUME NEW S, NEW n \in Nat, NEW f \in [1..n -> S]
  PROVE  f \in Seq(S) /\ Len(f) = n
<1>1. f \in Seq(S)
  OBVIOUS
<1>2. DOMAIN f = 1..n /\ DOMAIN f = 1..Len(f) /\ Len(f) \in Nat
  BY <1>1, LenProperties
<1> QED
  BY <1>1, <1>2

LEMMA Basics ==
  ASSUME IInv
  PROVE  /\ event \in Seq(Row) /\ Len(event) \in Nat /\ Id = 1..Len(event)
         /\ event \in [Id -> Row] /\ DOMAIN event = Id
         /\ calls \in [Id -> Nat] /\ arrived \in [Id -> Nat]
         /\ \A w \in Worker :
               /\ job[w].pc \in Place /\ job[w].batch \in Seq(Id)
               /\ Len(job[w].batch) \in Nat /\ DOMAIN job[w].batch = Positions(w)
               /\ \A k \in Positions(w) : job[w].batch[k] \in Id
               /\ job[w].batch # <<>> => 1 \in Positions(w)
                     /\ Head(job[w].batch) = job[w].batch[1]
                     /\ job[w].batch[1] \in Id
               /\ job[w].pc \in {"disable", "send", "mark", "miss"} => job[w].batch # <<>>
<1>1. event \in Seq(Row)
  BY DEF IInv, TypeOK, Row
<1>2. /\ Len(event) \in Nat /\ Id = 1..Len(event)
      /\ event \in [Id -> Row] /\ DOMAIN event = Id
  BY <1>1, LenProperties DEF Id
<1>3. calls \in [Id -> Nat] /\ arrived \in [Id -> Nat]
  BY DEF IInv, TypeOK
<1>4. ASSUME NEW w \in Worker
      PROVE  /\ job[w].pc \in Place /\ job[w].batch \in Seq(Id)
             /\ Len(job[w].batch) \in Nat /\ DOMAIN job[w].batch = Positions(w)
             /\ \A k \in Positions(w) : job[w].batch[k] \in Id
             /\ job[w].batch # <<>> => 1 \in Positions(w)
                   /\ Head(job[w].batch) = job[w].batch[1]
                   /\ job[w].batch[1] \in Id
             /\ job[w].pc \in {"disable", "send", "mark", "miss"} => job[w].batch # <<>>
  <2> DEFINE b == job[w].batch
  <2>1. b \in Seq(Id) /\ job[w].pc \in Place
        /\ (job[w].pc \in {"disable", "send", "mark", "miss"} => b # <<>>)
    BY DEF IInv, TypeOK, Place
  <2> HIDE DEF b
  <2>2. Len(b) \in Nat /\ DOMAIN b = 1..Len(b) /\ \A k \in 1..Len(b) : b[k] \in Id
    BY <2>1, LenProperties, ElementOfSeq
  <2>3. b # <<>> => 1 \in 1..Len(b) /\ Head(b) = b[1]
    BY <2>1, <2>2, EmptySeq
  <2>4. b # <<>> => b[1] \in Id
    BY <2>2, <2>3
  <2> QED
    BY <2>1, <2>2, <2>3, <2>4 DEF b, Positions
<1> QED
  BY <1>1, <1>2, <1>3, <1>4

LEMMA LeasedRow ==
  ASSUME IInv, NEW w \in Worker, NEW k \in Positions(w)
  PROVE  LET i == job[w].batch[k]
         IN /\ i \in Id /\ Held(i) /\ event[i].status # "sent"
            /\ Unspent(w, k) => calls[i] < event[i].attempts
<1>1. job[w].batch[k] \in Id
  BY Basics
<1> QED
  BY <1>1 DEF IInv, Leased, Held

LEMMA CountedRow ==
  ASSUME IInv, NEW i \in Id
  PROVE  /\ event[i] \in Row /\ event[i].attempts \in Nat /\ event[i].attempts <= 3
         /\ calls[i] \in Nat /\ arrived[i] \in Nat /\ faults \in Nat
         /\ calls[i] <= event[i].attempts
         /\ arrived[i] <= faults + (IF Told(i) THEN 1 ELSE 0)
         /\ Told(i) => arrived[i] > 0
         /\ event[i].status \in {"pending", "sending"} => event[i].chat # none
<1>1. event \in [Id -> Row] /\ calls \in [Id -> Nat] /\ arrived \in [Id -> Nat]
  BY Basics
<1>2. event[i] \in Row /\ event[i].attempts \in Nat /\ event[i].attempts <= 3
  BY <1>1 DEF Row
<1> QED
  BY <1>1, <1>2 DEF IInv, Counted, TypeOK, Shape

\* Nothing changes that a lease or a confirmation rests on.
LEMMA Recast ==
  ASSUME IInv, event' \in [Id -> Row],
         settings' \in [chat : Chat \cup {none}, enabled : BOOLEAN],
         settings'.enabled => settings'.chat # none,
         \A i \in Id : /\ event'[i].attempts = event[i].attempts
                       /\ event'[i].status = "sent" <=> event[i].status = "sent"
                       /\ event'[i].status \in {"pending", "sending"} => event'[i].chat # none,
         \A w \in Worker : \A k \in Positions(w) : Held(job[w].batch[k])',
         job' \in [Worker -> [pc : Place, batch : Seq(Nat)]],
         \A w \in Worker : /\ job'[w].batch = job[w].batch
                           /\ job'[w].pc = "mark" <=> job[w].pc = "mark"
                           /\ job'[w].pc = "miss" <=> job[w].pc = "miss"
                           /\ job'[w].pc = "idle" => job[w].batch = <<>>
                           /\ job'[w].pc \in {"disable", "send"} => job[w].batch # <<>>,
         UNCHANGED <<calls, arrived, faults>>
  PROVE  IInv'
<1>1. /\ event \in Seq(Row) /\ Len(event) \in Nat /\ Id = 1..Len(event)
      /\ calls \in [Id -> Nat] /\ arrived \in [Id -> Nat]
      /\ \A w \in Worker : /\ job[w].batch \in Seq(Id)
                           /\ \A k \in Positions(w) : job[w].batch[k] \in Id
                           /\ job[w].pc \in {"mark", "miss"} => job[w].batch # <<>>
  BY Basics
<1>2. event' \in Seq(Row) /\ Len(event') = Len(event) /\ Id' = Id
  <2>1. event' \in [1..Len(event) -> Row]
    BY <1>1
  <2>2. event' \in Seq(Row) /\ Len(event') = Len(event)
    <3> DEFINE n == Len(event)
               f == event'
    <3>1. n \in Nat /\ f \in [1..n -> Row]
      BY <1>1, <2>1
    <3> HIDE DEF n, f
    <3>2. f \in Seq(Row) /\ Len(f) = n
      BY <3>1, FunctionIsSeq
    <3> QED
      BY <3>2 DEF n, f
  <2> QED
    BY <1>1, <2>2 DEF Id
<1>3. \A w \in Worker : Positions(w)' = Positions(w)
  BY DEF Positions
<1>4. \A w \in Worker : /\ job'[w].pc \in Place /\ job'[w].batch \in Seq(Id)
                        /\ job'[w].pc \in {"disable", "send", "mark", "miss"} =>
                              job'[w].batch # <<>>
  BY <1>1
<1>5. TypeOK'
  BY <1>1, <1>2, <1>4 DEF TypeOK, Row, Place
<1>6. Shape'
  BY DEF Shape, IInv
<1>7. Leased'
  <2> SUFFICES ASSUME NEW w \in Worker, NEW k \in Positions(w),
                      Unspent(w, k)'
               PROVE  calls[job[w].batch[k]] < event'[job[w].batch[k]].attempts
    BY <1>3 DEF Leased
  <2>1. Unspent(w, k)
    BY DEF Unspent
  <2> QED
    BY <1>1, <2>1 DEF IInv, Leased
<1>8. Alone'
  BY <1>3 DEF Alone, IInv
<1>9. \A i \in Id : Told(i)' <=> Told(i)
  BY DEF Told
<1>10. Counted'
  BY <1>2, <1>9 DEF Counted, IInv
<1> QED
  BY <1>5, <1>6, <1>7, <1>8, <1>10 DEF IInv

LEMMA InitEstablishes == Init => IInv
<1> SUFFICES ASSUME Init PROVE IInv
  OBVIOUS
<1>1. /\ event = <<>> /\ calls = <<>> /\ arrived = <<>> /\ faults = 0
      /\ settings \in [chat : Chat \cup {none}, enabled : BOOLEAN]
      /\ settings.enabled => settings.chat # none
      /\ job = [w \in Worker |-> Idle]
  BY DEF Init
<1>2. Id = {} /\ <<>> \in Seq(Row) /\ <<>> \in Seq(Id) /\ <<>> \in Seq(Nat)
      /\ Len(<<>>) = 0
  BY <1>1 DEF Id
<1>3. \A w \in Worker : job[w].pc = "idle" /\ job[w].batch = <<>> /\ Positions(w) = {}
  BY <1>1, <1>2 DEF Idle, Positions
<1>4. TypeOK
  <2>1. <<>> \in [1..Len(<<>>) -> Nat]
    BY <1>2, LenProperties
  <2>2. calls \in [Id -> Nat] /\ arrived \in [Id -> Nat]
    BY <1>1, <1>2, <2>1
  <2> QED
    BY <1>1, <1>2, <1>3, <2>2 DEF TypeOK, Row
<1>5. Shape
  BY <1>1, <1>2, <1>3 DEF Shape, Idle, Place
<1> QED
  BY <1>2, <1>3, <1>4, <1>5 DEF IInv, Leased, Alone, Counted

\* The steps that claim and answer nothing.
LEMMA SaveSettingsKeeps ==
  ASSUME IInv, NEW chat \in Chat \cup {none}, NEW enabled \in BOOLEAN,
         SaveSettings(chat, enabled)
  PROVE  IInv'
<1>1. /\ settings' = [chat |-> chat, enabled |-> enabled]
      /\ enabled => chat # none
      /\ event' = [i \in Id |-> IF event[i].status = "pending"
                                     /\ (~enabled \/ event[i].chat # chat)
                                THEN [event[i] EXCEPT !.status = "disabled"] ELSE event[i]]
      /\ UNCHANGED <<job, calls, arrived, faults>>
  BY DEF SaveSettings, Disabled
<1>2. event \in [Id -> Row]
      /\ \A i \in Id : event[i].status \in {"pending", "sending"} => event[i].chat # none
  BY Basics DEF IInv, TypeOK
<1>3. /\ event' \in [Id -> Row]
      /\ \A i \in Id : /\ event'[i].attempts = event[i].attempts
                       /\ event'[i].status = "sent" <=> event[i].status = "sent"
                       /\ event'[i].status \in {"pending", "sending"} => event'[i].chat # none
                       /\ Held(i) => Held(i)'
  BY <1>1, <1>2 DEF Row, Status, Held
<1>4. settings' \in [chat : Chat \cup {none}, enabled : BOOLEAN]
      /\ (settings'.enabled => settings'.chat # none)
  BY <1>1
<1> QED
  BY <1>1, <1>3, <1>4, Basics, Recast DEF IInv, Shape, Leased

LEMMA SwitchModeKeeps ==
  ASSUME IInv, SwitchMode
  PROVE  IInv'
<1>1. /\ event' = [i \in Id |-> IF event[i].status \in {"pending", "sending"}
                                THEN [event[i] EXCEPT !.status = "disabled"] ELSE event[i]]
      /\ UNCHANGED <<settings, job, calls, arrived, faults>>
  BY DEF SwitchMode, Disabled
<1>2. event \in [Id -> Row]
      /\ \A i \in Id : event[i].status \in {"pending", "sending"} => event[i].chat # none
  BY Basics DEF IInv, TypeOK
<1>3. /\ event' \in [Id -> Row]
      /\ \A i \in Id : /\ event'[i].attempts = event[i].attempts
                       /\ event'[i].status = "sent" <=> event[i].status = "sent"
                       /\ event'[i].status \in {"pending", "sending"} => event'[i].chat # none
                       /\ Held(i) => Held(i)'
  BY <1>1, <1>2 DEF Row, Status, Held
<1> QED
  BY <1>1, <1>3, Basics, Recast DEF IInv, Shape, Leased, TypeOK

LEMMA LookKeeps ==
  ASSUME IInv, NEW w \in Worker, Look(w)
  PROVE  IInv'
<1>1. /\ job[w].pc = "look" /\ job[w].batch # <<>>
      /\ job' \in {[job EXCEPT ![w].pc = "send"], [job EXCEPT ![w].pc = "disable"]}
      /\ UNCHANGED <<event, settings, calls, arrived, faults>>
  BY DEF Look, Goto
<1>2. job \in [Worker -> [pc : Place, batch : Seq(Nat)]]
  BY DEF IInv, Shape
<1>3. /\ job' \in [Worker -> [pc : Place, batch : Seq(Nat)]]
      /\ job'[w].batch = job[w].batch /\ job'[w].pc \in {"send", "disable"}
      /\ \A v \in Worker \ {w} : job'[v] = job[v]
  BY <1>1, <1>2 DEF Place
<1>4. \A i : Held(i)' <=> Held(i)
  BY <1>1 DEF Held
<1> QED
  BY <1>1, <1>3, <1>4, Basics, Recast DEF IInv, Shape, Leased, TypeOK

LEMMA FinishKeeps ==
  ASSUME IInv, NEW w \in Worker, Finish(w)
  PROVE  IInv'
<1>1. /\ job[w].pc = "look" /\ job[w].batch = <<>>
      /\ event' = [i \in Id |-> IF event[i].status = "sending" /\ event[i].wait = 0
                                     /\ event[i].attempts >= 3
                                THEN [event[i] EXCEPT !.status = "failed"] ELSE event[i]]
      /\ job' = [job EXCEPT ![w] = Idle]
      /\ UNCHANGED <<settings, calls, arrived, faults>>
  BY DEF Finish
<1>2. event \in [Id -> Row]
      /\ \A i \in Id : event[i].status \in {"pending", "sending"} => event[i].chat # none
  BY Basics DEF IInv, TypeOK
<1>3. /\ event' \in [Id -> Row]
      /\ \A i \in Id : /\ event'[i].attempts = event[i].attempts
                       /\ event'[i].status = "sent" <=> event[i].status = "sent"
                       /\ event'[i].status \in {"pending", "sending"} => event'[i].chat # none
                       /\ Held(i) => Held(i)'
  BY <1>1, <1>2 DEF Row, Status, Held
<1>4. /\ job' \in [Worker -> [pc : Place, batch : Seq(Nat)]]
      /\ job'[w].batch = <<>> /\ job'[w].pc = "idle"
      /\ \A v \in Worker \ {w} : job'[v] = job[v]
  BY <1>1 DEF IInv, Shape, Idle, Place
<1>5. /\ settings' \in [chat : Chat \cup {none}, enabled : BOOLEAN]
      /\ settings'.enabled => settings'.chat # none
  BY <1>1 DEF IInv, TypeOK
<1>6. \A v \in Worker : \A k \in Positions(v) : Held(job[v].batch[k])'
  <2> SUFFICES ASSUME NEW v \in Worker, NEW k \in Positions(v)
               PROVE  Held(job[v].batch[k])'
    OBVIOUS
  <2>1. job'[v].batch = job[v].batch
    BY <1>1, <1>4
  <2>2. job[v].batch[k] \in Id /\ Held(job[v].batch[k])
    BY LeasedRow
  <2> QED
    BY <1>3, <2>1, <2>2 DEF Held
<1>7. \A v \in Worker : /\ job'[v].batch = job[v].batch
                        /\ job'[v].pc = "mark" <=> job[v].pc = "mark"
                        /\ job'[v].pc = "miss" <=> job[v].pc = "miss"
                        /\ job'[v].pc = "idle" => job[v].batch = <<>>
                        /\ job'[v].pc \in {"disable", "send"} => job[v].batch # <<>>
  BY <1>1, <1>4, Basics DEF IInv, Shape
<1> QED
  BY <1>1, <1>3, <1>4, <1>5, <1>6, <1>7, Recast

LEMMA ElapseKeeps ==
  ASSUME IInv, Elapse
  PROVE  IInv'
<1>1. /\ \A w \in Worker : job[w].batch = <<>>
      /\ event' = [i \in Id |-> [event[i] EXCEPT !.wait = IF @ = 0 THEN 0 ELSE @ - 1]]
      /\ UNCHANGED <<settings, job, calls, arrived, faults>>
  BY DEF Elapse
<1>2. event \in [Id -> Row]
      /\ \A i \in Id : event[i].status \in {"pending", "sending"} => event[i].chat # none
  BY Basics DEF IInv, TypeOK
<1>3. /\ event' \in [Id -> Row]
      /\ \A i \in Id : /\ event'[i].attempts = event[i].attempts
                       /\ event'[i].status = event[i].status
                       /\ event'[i].chat = event[i].chat
  <2> DEFINE less(i) == IF event[i].wait = 0 THEN 0 ELSE event[i].wait - 1
  <2>1. \A i \in Id : less(i) \in 0..2
    BY <1>2 DEF Row
  <2>2. \A i \in Id : event'[i] = [event[i] EXCEPT !.wait = less(i)]
    BY <1>1
  <2>3. event' = [i \in Id |-> event'[i]]
    BY <1>1
  <2> HIDE DEF less
  <2>4. \A i \in Id : event'[i] \in Row
    <3> SUFFICES ASSUME NEW i \in Id
                 PROVE  event'[i] \in Row
      OBVIOUS
    <3>1. \A r \in Row, d \in 0..2 : [r EXCEPT !.wait = d] \in Row
      BY DEF Row
    <3>2. event[i] \in Row /\ less(i) \in 0..2
      BY <1>2, <2>1
    <3>3. [event[i] EXCEPT !.wait = less(i)] \in Row
      BY <3>1, <3>2
    <3> QED
      BY <2>2, <3>3
  <2> QED
    BY <1>2, <2>2, <2>3, <2>4 DEF Row
<1>4. \A w \in Worker : Positions(w) = {}
  BY <1>1, EmptySeq DEF Positions
<1> QED
  BY <1>1, <1>2, <1>3, <1>4, Basics, Recast DEF IInv, Shape, TypeOK

\* A new event waits for nobody.
LEMMA RecordKeeps ==
  ASSUME IInv, NEW test \in BOOLEAN, Record(test)
  PROVE  IInv'
<1> DEFINE channel == settings.chat # none /\ (settings.enabled \/ test)
           e == [status |-> IF channel THEN "pending" ELSE "disabled",
                 attempts |-> 0, wait |-> 0, test |-> test,
                 chat |-> IF channel THEN settings.chat ELSE none]
           n == Len(event)
<1>1. /\ event' = Append(event, e) /\ calls' = Append(calls, 0)
      /\ arrived' = Append(arrived, 0)
      /\ UNCHANGED <<settings, job, faults>>
  BY DEF Record
<1>2. /\ event \in Seq(Row) /\ n \in Nat /\ Id = 1..n
      /\ calls \in [Id -> Nat] /\ arrived \in [Id -> Nat]
  BY Basics
<1>3. /\ e \in Row /\ e.attempts = 0 /\ e.status \in {"pending", "disabled"}
      /\ (e.status = "pending" => e.chat # none)
  BY DEF Row, Status, IInv, TypeOK
<1> HIDE DEF e
<1>4. /\ event' \in Seq(Row) /\ Id' = 1..(n + 1) /\ n + 1 \in Id' /\ Id \subseteq Id'
      /\ event'[n + 1] = e
      /\ \A i \in Id : event'[i] = event[i]
  BY <1>1, <1>2, <1>3, AppendProperties DEF Id
<1>5. /\ calls \in Seq(Nat) /\ arrived \in Seq(Nat) /\ Len(calls) = n /\ Len(arrived) = n
  <2>1. calls \in Seq(Nat) /\ arrived \in Seq(Nat)
    BY <1>2
  <2> QED
    BY <1>2, <2>1, LenProperties
<1>6. /\ calls' \in Seq(Nat) /\ Len(calls') = n + 1 /\ calls'[n + 1] = 0
      /\ \A i \in Id : calls'[i] = calls[i]
  BY <1>1, <1>2, <1>5, AppendProperties
<1>7. /\ arrived' \in Seq(Nat) /\ Len(arrived') = n + 1 /\ arrived'[n + 1] = 0
      /\ \A i \in Id : arrived'[i] = arrived[i]
  BY <1>1, <1>2, <1>5, AppendProperties
<1>8. calls' \in [Id' -> Nat] /\ arrived' \in [Id' -> Nat]
  BY <1>4, <1>6, <1>7, LenProperties
<1>9. \A w \in Worker : /\ job[w].batch \in Seq(Id) /\ Positions(w)' = Positions(w)
                        /\ \A k \in Positions(w) : job[w].batch[k] \in Id
                        /\ job[w].pc = "mark" => job[w].batch[1] \in Id
  BY <1>1, Basics DEF Positions
<1>10. \A i \in Id' : i \in Id \/ i = n + 1
  BY <1>2, <1>4
<1>11. n + 1 \notin Id
  BY <1>2
<1>12. TypeOK'
  <2>1. \A w \in Worker : job'[w].batch \in Seq(Id')
    <3> SUFFICES ASSUME NEW w \in Worker
                 PROVE  job[w].batch \in Seq(Id')
      BY <1>1
    <3> DEFINE b == job[w].batch
               S == Id'
    <3>1. b \in Seq(Id) /\ Id \subseteq S
      BY <1>4, <1>9
    <3> HIDE DEF b, S
    <3>2. b \in [1..Len(b) -> Id] /\ Len(b) \in Nat
      BY <3>1, LenProperties
    <3>3. b \in [1..Len(b) -> S]
      BY <3>1, <3>2
    <3>4. b \in Seq(S)
      BY <3>2, <3>3
    <3> QED
      BY <3>4 DEF b, S
  <2>2. \A i \in Id' : event'[i].status \in {"pending", "sending"} => event'[i].chat # none
    BY <1>3, <1>4, <1>10 DEF IInv, TypeOK
  <2> QED
    BY <1>1, <1>4, <1>8, <2>1, <2>2 DEF IInv, TypeOK, Row
<1>13. Shape'
  BY <1>1 DEF IInv, Shape
<1>14. Leased'
  <2> SUFFICES ASSUME NEW w \in Worker, NEW k \in Positions(w)
               PROVE  LET i == job[w].batch[k]
                      IN Held(i)' /\ (Unspent(w, k)' => calls'[i] < event'[i].attempts)
    BY <1>1, <1>9 DEF Leased
  <2> DEFINE i == job[w].batch[k]
  <2>1. i \in Id /\ Held(i) /\ (Unspent(w, k) => calls[i] < event[i].attempts)
    BY LeasedRow
  <2>2. event'[i] = event[i] /\ calls'[i] = calls[i]
    BY <1>4, <1>6, <2>1
  <2>3. Unspent(w, k)' = Unspent(w, k)
    BY <1>1 DEF Unspent
  <2>4. Held(i)'
    BY <1>1, <2>1, <2>2 DEF Held
  <2> QED
    BY <2>1, <2>2, <2>3, <2>4
<1>15. Alone'
  <2>1. Alone
    BY DEF IInv
  <2> QED
    BY <1>1, <1>9, <2>1 DEF Alone
<1>16. /\ \A i \in Id : Told(i)' <=> Told(i)
       /\ \A i \in Id' : i \notin Id => ~Told(i)'
  <2>1. \A i \in Id : Told(i)' <=> Told(i)
    BY <1>1, <1>4 DEF Told
  <2>2. \A i \in Id' : i \notin Id => event'[i].status # "sent"
    BY <1>3, <1>4, <1>10
  <2>3. \A w \in Worker : job[w].pc = "mark" => job[w].batch[1] \in Id
    BY <1>9
  <2> QED
    BY <1>1, <2>1, <2>2, <2>3 DEF Told
<1>17. Counted'
  <2> SUFFICES ASSUME NEW i \in Id'
               PROVE  /\ calls'[i] <= event'[i].attempts
                      /\ arrived'[i] <= faults + (IF Told(i)' THEN 1 ELSE 0)
                      /\ Told(i)' => arrived'[i] > 0
    BY <1>1 DEF Counted
  <2>1. CASE i \in Id
    BY <1>4, <1>6, <1>7, <1>16, <2>1, CountedRow
  <2>2. CASE i = n + 1
    <3>1. faults \in Nat
      BY DEF IInv, Shape
    <3> QED
      BY <1>3, <1>4, <1>6, <1>7, <1>11, <1>16, <2>2, <3>1
  <2> QED
    BY <1>10, <2>1, <2>2
<1> QED
  BY <1>12, <1>13, <1>14, <1>15, <1>17 DEF IInv

\* What is claimed was nobody's, since a lease that has run out has no process.
LEMMA ClaimKeeps ==
  ASSUME IInv, NEW w \in Worker, Claim(w)
  PROVE  IInv'
<1> DEFINE n == Cardinality(Oldest)
<1>1. PICK batch \in [1..n -> Oldest] :
        /\ job[w].pc = "idle" /\ IsInjective(batch)
        /\ event' = [i \in Id |-> IF i \in Oldest
                                  THEN [event[i] EXCEPT !.status = "sending", !.wait = 1,
                                                        !.attempts = @ + 1]
                                  ELSE event[i]]
        /\ job' = [job EXCEPT ![w] = [pc |-> "look", batch |-> batch]]
        /\ UNCHANGED <<settings, calls, arrived, faults>>
  BY DEF Claim
<1>2. /\ event \in [Id -> Row] /\ Len(event) \in Nat /\ Id = 1..Len(event)
      /\ calls \in [Id -> Nat] /\ arrived \in [Id -> Nat]
  BY Basics
<1>3. \A i \in Oldest : /\ i \in Id /\ event[i].status \in {"pending", "sending"}
                        /\ event[i].wait = 0 /\ event[i].attempts < 3
                        /\ event[i].chat # none
  BY DEF Oldest, Due, Unanswered, IInv, TypeOK
<1>4. Oldest \subseteq Id /\ n \in Nat
  <2>1. IsFiniteSet(Id)
    BY <1>2, FS_Interval
  <2>2. Oldest \subseteq Id
    BY <1>3
  <2> QED
    BY <2>1, <2>2, FS_Subset, FS_CardinalityType
<1> HIDE DEF n
<1>4a. Oldest \subseteq Nat
  BY <1>2, <1>4
<1>5. /\ batch \in Seq(Id) /\ batch \in Seq(Nat) /\ Len(batch) = n
      /\ \A k \in 1..n : batch[k] \in Oldest
      /\ \A k, l \in 1..n : batch[k] = batch[l] => k = l
  <2>1. batch \in [1..n -> Id] /\ batch \in [1..n -> Nat]
    BY <1>4, <1>4a
  <2>2. batch \in Seq(Id) /\ batch \in Seq(Nat)
    BY <1>4, <2>1
  <2>3. DOMAIN batch = 1..n /\ DOMAIN batch = 1..Len(batch) /\ Len(batch) \in Nat
    BY <2>1, <2>2, LenProperties
  <2>4. Len(batch) = n
    BY <1>4, <2>3
  <2> QED
    BY <1>1, <2>2, <2>3, <2>4 DEF IsInjective
<1>6. /\ event' \in [Id -> Row]
      /\ \A i \in Oldest : /\ event'[i].status = "sending" /\ event'[i].wait = 1
                           /\ event'[i].chat = event[i].chat
                           /\ event'[i].attempts = event[i].attempts + 1
      /\ \A i \in Id : i \notin Oldest => event'[i] = event[i]
      /\ \A i \in Id : event'[i].status = "sent" <=> event[i].status = "sent"
      /\ \A i \in Id : event'[i].status \in {"pending", "sending"} => event'[i].chat # none
  <2>1. \A i \in Oldest : event[i] \in Row /\ event[i].attempts + 1 \in 0..3
    BY <1>3, CountedRow
  <2>2. \A i \in Oldest : event'[i] = [event[i] EXCEPT !.status = "sending", !.wait = 1,
                                                       !.attempts = event[i].attempts + 1]
    BY <1>1, <1>3
  <2>3. \A i \in Id : i \notin Oldest => event'[i] = event[i]
    BY <1>1
  <2>4. \A i \in Oldest : /\ event'[i] \in Row
                          /\ event'[i].status = "sending" /\ event'[i].wait = 1
                          /\ event'[i].chat = event[i].chat
                          /\ event'[i].attempts = event[i].attempts + 1
    <3> SUFFICES ASSUME NEW i \in Oldest
                 PROVE  /\ event'[i] \in Row
                        /\ event'[i].status = "sending" /\ event'[i].wait = 1
                        /\ event'[i].chat = event[i].chat
                        /\ event'[i].attempts = event[i].attempts + 1
      OBVIOUS
    <3> DEFINE r == event[i]
               a == r.attempts + 1
    <3>1. r \in Row /\ a \in 0..3
      BY <2>1
    <3>2. event'[i] = [r EXCEPT !.status = "sending", !.wait = 1, !.attempts = a]
      BY <2>2
    <3> HIDE DEF r, a
    <3>3. [r EXCEPT !.status = "sending", !.wait = 1, !.attempts = a] \in Row
      <4>1. [r EXCEPT !.status = "sending"] \in Row
        BY <3>1 DEF Row, Status
      <4>2. \A q \in Row : [q EXCEPT !.wait = 1] \in Row
        BY DEF Row
      <4>3. \A q \in Row : [q EXCEPT !.attempts = a] \in Row
        BY <3>1 DEF Row
      <4> QED
        BY <4>1, <4>2, <4>3
    <3>4. /\ event'[i].status = "sending" /\ event'[i].wait = 1
          /\ event'[i].chat = r.chat /\ event'[i].attempts = a
      BY <3>1, <3>2 DEF Row
    <3> QED
      BY <3>2, <3>3, <3>4 DEF r, a
  <2>5. event' \in [Id -> Row]
    BY <1>1, <1>2, <2>3, <2>4
  <2> QED
    BY <1>3, <2>3, <2>4, <2>5 DEF IInv, TypeOK
<1>7. event' \in Seq(Row) /\ Len(event') = Len(event) /\ Id' = Id
  <2>1. event' \in [1..Len(event) -> Row]
    BY <1>2, <1>6
  <2>2. event' \in Seq(Row) /\ Len(event') = Len(event)
    BY <1>2, <2>1, FunctionIsSeq
  <2> QED
    BY <1>2, <2>2 DEF Id
<1>8. /\ job' \in [Worker -> [pc : Place, batch : Seq(Nat)]]
      /\ job'[w] = [pc |-> "look", batch |-> batch]
      /\ \A v \in Worker \ {w} : job'[v] = job[v]
  BY <1>1, <1>5 DEF IInv, Shape, Place
<1>9. /\ Positions(w)' = 1..n
      /\ \A v \in Worker \ {w} : Positions(v)' = Positions(v)
  BY <1>5, <1>8 DEF Positions
<1>10. \A v \in Worker : \A k \in Positions(v) : job[v].batch[k] \notin Oldest
  BY <1>3 DEF IInv, Leased, Held
<1>11. TypeOK'
  BY <1>1, <1>2, <1>5, <1>6, <1>7, <1>8 DEF IInv, TypeOK, Row
<1>12. Shape'
  BY <1>1, <1>8 DEF IInv, Shape
<1>13. Leased'
  <2> SUFFICES ASSUME NEW v \in Worker, NEW k \in Positions(v)'
               PROVE  /\ Held(job[v].batch[k])'
                      /\ Unspent(v, k)' => calls'[job'[v].batch[k]]
                                             < event'[job'[v].batch[k]].attempts
    BY DEF Leased
  <2>1. CASE v = w
    <3> DEFINE i == batch[k]
    <3>1. i \in Oldest /\ job'[v].batch[k] = i
      BY <1>5, <1>8, <1>9, <2>1
    <3>2. calls[i] <= event[i].attempts /\ calls[i] \in Nat /\ event[i].attempts \in Nat
      BY <1>3, <3>1, CountedRow
    <3>3. Held(i)'
      BY <1>3, <1>6, <3>1 DEF Held
    <3>4. calls'[i] < event'[i].attempts
      <4>1. calls'[i] = calls[i] /\ event'[i].attempts = event[i].attempts + 1
        BY <1>1, <1>6, <3>1
      <4> HIDE DEF i
      <4> QED
        BY <3>2, <4>1
    <3> QED
      BY <3>1, <3>3, <3>4
  <2>2. CASE v # w
    <3> DEFINE i == job[v].batch[k]
    <3>1. k \in Positions(v) /\ job'[v] = job[v]
      BY <1>8, <1>9, <2>2
    <3>2. i \in Id /\ i \notin Oldest
      BY <1>10, <3>1, Basics
    <3>3. Held(i) /\ (Unspent(v, k) => calls[i] < event[i].attempts)
      BY <3>1, LeasedRow
    <3>4. event'[i] = event[i]
      BY <1>6, <3>2
    <3>5. Unspent(v, k)' = Unspent(v, k)
      BY <3>1 DEF Unspent
    <3>6. Held(i)'
      BY <3>1, <3>3, <3>4 DEF Held
    <3> QED
      BY <1>1, <3>1, <3>3, <3>4, <3>5, <3>6
  <2> QED
    BY <2>1, <2>2
<1>14. Alone'
  <2> SUFFICES ASSUME NEW u \in Worker, NEW v \in Worker,
                      NEW k \in Positions(u)', NEW l \in Positions(v)',
                      job'[u].batch[k] = job'[v].batch[l]
               PROVE  u = v /\ k = l
    BY DEF Alone
  <2>1. CASE u = w /\ v = w
    BY <1>5, <1>8, <1>9, <2>1
  <2>2. CASE u # w /\ v # w
    <3>1. Alone
      BY DEF IInv
    <3>2. /\ k \in Positions(u) /\ l \in Positions(v)
          /\ job[u].batch[k] = job[v].batch[l]
      BY <1>8, <1>9, <2>2
    <3> QED
      BY <3>1, <3>2 DEF Alone
  <2>3. CASE u = w /\ v # w
    BY <1>5, <1>8, <1>9, <1>10, <2>3
  <2>4. CASE u # w /\ v = w
    BY <1>5, <1>8, <1>9, <1>10, <2>4
  <2> QED
    BY <2>1, <2>2, <2>3, <2>4
<1>15. \A i \in Id : Told(i)' <=> Told(i)
  BY <1>1, <1>6, <1>8 DEF Told
<1>16. Counted'
  <2> SUFFICES ASSUME NEW i \in Id
               PROVE  /\ calls[i] <= event'[i].attempts
                      /\ arrived[i] <= faults + (IF Told(i) THEN 1 ELSE 0)
                      /\ Told(i) => arrived[i] > 0
    BY <1>1, <1>7, <1>15 DEF Counted
  <2>1. event[i].attempts \in Nat /\ calls[i] \in Nat
    BY <1>2 DEF Row
  <2>2. event[i].attempts <= event'[i].attempts
    BY <1>6, <2>1
  <2>3. event'[i].attempts \in Nat
    BY <1>6 DEF Row
  <2> QED
    BY <2>1, <2>2, <2>3 DEF IInv, Counted
<1> QED
  BY <1>11, <1>12, <1>13, <1>14, <1>16 DEF IInv

\* The process that works on an event is the only one that has it.
LEMMA HeadIsMine ==
  ASSUME IInv, NEW w \in Worker, job[w].batch # <<>>
  PROVE  LET i == job[w].batch[1]
         IN /\ i \in Id /\ event[i].status # "sent" /\ 1 \in Positions(w)
            /\ \A v \in Worker : \A k \in Positions(v) : job[v].batch[k] = i => v = w /\ k = 1
            /\ Told(i) <=> job[w].pc = "mark"
<1>1. 1 \in Positions(w) /\ job[w].batch[1] \in Id
  BY Basics
<1>2. event[job[w].batch[1]].status # "sent"
  BY <1>1, LeasedRow
<1>3. \A v \in Worker : \A k \in Positions(v) :
         job[v].batch[k] = job[w].batch[1] => v = w /\ k = 1
  BY <1>1 DEF IInv, Alone
<1>4. \A v \in Worker : job[v].pc = "mark" => 1 \in Positions(v)
  BY Basics
<1> QED
  BY <1>1, <1>2, <1>3, <1>4 DEF Told

LEMMA SendKeeps ==
  ASSUME IInv, NEW w \in Worker, NEW there \in BOOLEAN, NEW answer \in BOOLEAN,
         Send(w, there, answer)
  PROVE  IInv'
<1>0. job[w].pc = "send" /\ job[w].batch # <<>>
  BY Basics DEF Send
<1> PICK i \in Id : i = job[w].batch[1]
  BY <1>0, Basics
<1>1. /\ job[w].pc = "send" /\ job[w].batch # <<>> /\ Head(job[w].batch) = i
  BY <1>0, Basics
<1>2. /\ answer => there
      /\ faults' = faults + (IF there /\ ~answer THEN 1 ELSE 0)
      /\ calls' = [calls EXCEPT ![i] = @ + 1]
      /\ arrived' = [arrived EXCEPT ![i] = @ + (IF there THEN 1 ELSE 0)]
      /\ job' = [job EXCEPT ![w].pc = IF answer THEN "mark" ELSE "miss"]
      /\ event' = event /\ settings' = settings
  BY <1>1 DEF Send, Goto
<1>3. /\ i \in Id /\ 1 \in Positions(w) /\ event[i].status # "sent" /\ ~Told(i)
      /\ \A v \in Worker : \A k \in Positions(v) : job[v].batch[k] = i => v = w /\ k = 1
  BY <1>1, HeadIsMine
<1>4. /\ calls \in [Id -> Nat] /\ arrived \in [Id -> Nat] /\ faults \in Nat
      /\ job \in [Worker -> [pc : Place, batch : Seq(Nat)]]
  BY Basics DEF IInv, Shape
<1>5. /\ job' \in [Worker -> [pc : Place, batch : Seq(Nat)]]
      /\ job'[w].pc = (IF answer THEN "mark" ELSE "miss")
      /\ \A v \in Worker : job'[v].batch = job[v].batch
      /\ \A v \in Worker \ {w} : job'[v] = job[v]
  BY <1>2, <1>4 DEF Place
<1>6. /\ Id' = Id /\ faults' \in Nat /\ faults' >= faults
      /\ calls' \in [Id -> Nat] /\ arrived' \in [Id -> Nat]
      /\ calls'[i] = calls[i] + 1
      /\ arrived'[i] = arrived[i] + (IF there THEN 1 ELSE 0)
      /\ \A j \in Id \ {i} : calls'[j] = calls[j] /\ arrived'[j] = arrived[j]
  <2>1. /\ calls' \in [Id -> Nat] /\ calls'[i] = calls[i] + 1
        /\ \A j \in Id \ {i} : calls'[j] = calls[j]
    BY <1>2, <1>3, <1>4
  <2>2. /\ arrived' \in [Id -> Nat]
        /\ arrived'[i] = arrived[i] + (IF there THEN 1 ELSE 0)
        /\ \A j \in Id \ {i} : arrived'[j] = arrived[j]
    <3> DEFINE d == IF there THEN 1 ELSE 0
    <3>1. d \in Nat /\ arrived' = [arrived EXCEPT ![i] = @ + d]
      BY <1>2
    <3> HIDE DEF d
    <3>2. /\ arrived' \in [Id -> Nat] /\ arrived'[i] = arrived[i] + d
          /\ \A j \in Id \ {i} : arrived'[j] = arrived[j]
      BY <1>3, <1>4, <3>1
    <3> QED
      BY <3>2 DEF d
  <2>3. faults' \in Nat /\ faults' >= faults
    BY <1>2, <1>4
  <2>4. Id' = Id
    BY <1>2 DEF Id
  <2> QED
    BY <2>1, <2>2, <2>3, <2>4
<1>7. \A v \in Worker : Positions(v)' = Positions(v)
  BY <1>5 DEF Positions
<1>8. TypeOK'
  BY <1>1, <1>2, <1>5, <1>6 DEF IInv, TypeOK
<1>9. Shape'
  BY <1>5, <1>6 DEF IInv, Shape
<1>10. Leased'
  <2> SUFFICES ASSUME NEW v \in Worker, NEW k \in Positions(v), NEW j,
                      j = job'[v].batch[k]
               PROVE  Held(j)' /\ (Unspent(v, k)' => calls'[j] < event'[j].attempts)
    BY <1>7 DEF Leased
  <2>1. job[v].batch[k] = j /\ j \in Id /\ Held(j)
        /\ (Unspent(v, k) => calls[j] < event[j].attempts)
    BY <1>5, LeasedRow
  <2>2. Held(j)'
    BY <1>2, <2>1 DEF Held
  <2>3. CASE j = i
    <3>1. v = w /\ k = 1
      BY <1>3, <2>1, <2>3
    <3>2. ~Unspent(v, k)'
      BY <1>5, <3>1 DEF Unspent
    <3> QED
      BY <2>1, <2>2, <3>2
  <2>4. CASE j # i
    <3>1. calls'[j] = calls[j]
      BY <1>6, <2>1, <2>4
    <3>2. Unspent(v, k)' => Unspent(v, k)
      BY <1>1, <1>5, <2>1, <2>4 DEF Unspent
    <3> QED
      BY <1>2, <2>1, <2>2, <3>1, <3>2
  <2> QED
    BY <2>3, <2>4
<1>11. Alone'
  <2> SUFFICES ASSUME NEW u \in Worker, NEW v \in Worker,
                      NEW k \in Positions(u), NEW l \in Positions(v),
                      job'[u].batch[k] = job'[v].batch[l]
               PROVE  u = v /\ k = l
    BY <1>7 DEF Alone
  <2>1. job[u].batch[k] = job[v].batch[l]
    BY <1>5
  <2> QED
    BY <2>1 DEF IInv, Alone
<1>12. \A j \in Id \ {i} : Told(j)' <=> Told(j)
  BY <1>1, <1>2, <1>5 DEF Told
<1>13. Told(i)' <=> answer
  <2>1. \A v \in Worker \ {w} : job[v].pc = "mark" => job[v].batch[1] # i
    BY <1>3, Basics
  <2> QED
    BY <1>2, <1>3, <1>5, <2>1 DEF Told
<1>14. Counted'
  <2> SUFFICES ASSUME NEW j \in Id
               PROVE  /\ calls'[j] <= event[j].attempts
                      /\ arrived'[j] <= faults' + (IF Told(j)' THEN 1 ELSE 0)
                      /\ Told(j)' => arrived'[j] > 0
    BY <1>2, <1>6 DEF Counted
  <2>1. /\ event[j].attempts \in Nat /\ calls[j] \in Nat /\ arrived[j] \in Nat
        /\ calls[j] <= event[j].attempts
        /\ arrived[j] <= faults + (IF Told(j) THEN 1 ELSE 0)
        /\ Told(j) => arrived[j] > 0
    BY CountedRow
  <2>2. CASE j # i
    BY <1>4, <1>6, <1>12, <2>1, <2>2
  <2>3. CASE j = i
    <3>1. Unspent(w, 1)
      BY <1>1 DEF Unspent
    <3>2. calls[j] < event[j].attempts
      BY <1>3, <2>3, <3>1, LeasedRow
    <3>3. arrived[j] <= faults
      BY <1>3, <1>4, <2>1, <2>3
    <3>4. calls'[j] <= event[j].attempts
      BY <1>6, <2>1, <2>3, <3>2
    <3>5. /\ arrived'[j] <= faults' + (IF answer THEN 1 ELSE 0)
          /\ answer => arrived'[j] > 0
      BY <1>2, <1>4, <1>6, <2>1, <2>3, <3>3
    <3> QED
      BY <1>13, <2>3, <3>4, <3>5
  <2> QED
    BY <2>2, <2>3
<1> QED
  BY <1>8, <1>9, <1>10, <1>11, <1>14 DEF IInv

\* An event is answered, and its process goes on with the next.
LEMMA Leaving ==
  ASSUME IInv, NEW w \in Worker, job[w].batch # <<>>, Leave(w),
         NEW i \in Id, i = job[w].batch[1], NEW r \in Row,
         event' = [event EXCEPT ![i] = r], r.attempts = event[i].attempts,
         r.status \in {"pending", "sending"} => r.chat # none,
         r.status = "sent" <=> job[w].pc = "mark",
         UNCHANGED <<settings, calls, arrived, faults>>
  PROVE  IInv'
<1> DEFINE b == job[w].batch
<1>1. /\ event \in [Id -> Row] /\ Len(event) \in Nat /\ Id = 1..Len(event)
      /\ job \in [Worker -> [pc : Place, batch : Seq(Nat)]]
      /\ b \in Seq(Id) /\ b \in Seq(Nat) /\ b # <<>>
  BY Basics DEF IInv, Shape
<1>2. /\ i \in Id /\ 1 \in Positions(w)
      /\ \A v \in Worker : \A k \in Positions(v) : job[v].batch[k] = i => v = w /\ k = 1
      /\ Told(i) <=> job[w].pc = "mark"
  BY HeadIsMine
<1>3. job' = [job EXCEPT ![w] = [pc |-> "look", batch |-> Tail(b)]]
  BY DEF Leave
<1>4. Positions(w) = 1..Len(b)
  BY DEF Positions
<1> HIDE DEF b
<1>5. /\ Tail(b) \in Seq(Id) /\ Tail(b) \in Seq(Nat) /\ Len(b) \in Nat
      /\ Len(Tail(b)) = Len(b) - 1
      /\ \A k \in 1..Len(b) - 1 : Tail(b)[k] = b[k + 1]
  BY <1>1, HeadTailProperties, LenProperties
<1>6. /\ event' \in [Id -> Row] /\ event'[i] = r
      /\ \A j \in Id \ {i} : event'[j] = event[j]
  BY <1>1
<1>7. event' \in Seq(Row) /\ Id' = Id
  <2>1. event' \in [1..Len(event) -> Row] /\ Len(event) \in Nat
    BY <1>1, <1>6
  <2>2. event' \in Seq(Row) /\ Len(event') = Len(event)
    <3> DEFINE n == Len(event)
               f == event'
    <3>1. n \in Nat /\ f \in [1..n -> Row]
      BY <2>1
    <3> HIDE DEF n, f
    <3>2. f \in Seq(Row) /\ Len(f) = n
      BY <3>1, FunctionIsSeq
    <3> QED
      BY <3>2 DEF n, f
  <2> QED
    BY <1>1, <2>2 DEF Id
<1>8. /\ job' \in [Worker -> [pc : Place, batch : Seq(Nat)]]
      /\ job'[w].pc = "look" /\ job'[w].batch = Tail(b)
      /\ \A v \in Worker \ {w} : job'[v] = job[v]
  BY <1>1, <1>3, <1>5 DEF Place
<1>9. Positions(w)' = 1..Len(b) - 1 /\ \A v \in Worker \ {w} : Positions(v)' = Positions(v)
  BY <1>5, <1>8 DEF Positions
\* What is still claimed was claimed before, later in its batch.
<1>10. \A v \in Worker : \A k \in Positions(v)' :
          LET m == IF v = w THEN k + 1 ELSE k
          IN /\ m \in Positions(v) /\ job'[v].batch[k] = job[v].batch[m]
             /\ job[v].batch[m] \in Id \ {i}
             /\ Unspent(v, k)' => Unspent(v, m)
  <2> SUFFICES ASSUME NEW v \in Worker, NEW k \in Positions(v)'
               PROVE  LET m == IF v = w THEN k + 1 ELSE k
                      IN /\ m \in Positions(v) /\ job'[v].batch[k] = job[v].batch[m]
                         /\ job[v].batch[m] \in Id \ {i}
                         /\ Unspent(v, k)' => Unspent(v, m)
    OBVIOUS
  <2>1. CASE v = w
    <3>1. k \in 1..Len(b) - 1 /\ k + 1 \in Positions(w) /\ k + 1 # 1
      BY <1>4, <1>5, <1>9, <2>1
    <3>2. job'[w].batch[k] = job[w].batch[k + 1]
      BY <1>5, <1>8, <3>1 DEF b
    <3>3. job[w].batch[k + 1] \in Id \ {i}
      BY <1>2, <3>1, Basics
    <3>4. Unspent(w, k + 1)
      BY <3>1 DEF Unspent
    <3> QED
      BY <2>1, <3>1, <3>2, <3>3, <3>4
  <2>2. CASE v # w
    <3>1. k \in Positions(v) /\ job'[v] = job[v]
      BY <1>8, <1>9, <2>2
    <3>2. job[v].batch[k] \in Id \ {i}
      BY <1>2, <2>2, <3>1, Basics
    <3>3. Unspent(v, k)' => Unspent(v, k)
      BY <3>1 DEF Unspent
    <3> QED
      BY <2>2, <3>1, <3>2, <3>3
  <2> QED
    BY <2>1, <2>2
<1>11. TypeOK'
  <2>1. \A v \in Worker : /\ job'[v].pc \in Place /\ job'[v].batch \in Seq(Id)
                          /\ job'[v].pc \in {"disable", "send", "mark", "miss"} =>
                                job'[v].batch # <<>>
    BY <1>5, <1>8, Basics
  <2>2. \A j \in Id : event'[j].status \in {"pending", "sending"} => event'[j].chat # none
    BY <1>6 DEF IInv, TypeOK
  <2> QED
    BY <1>7, <2>1, <2>2 DEF IInv, TypeOK, Row, Place
<1>12. Shape'
  BY <1>8 DEF IInv, Shape
<1>13. Leased'
  <2> SUFFICES ASSUME NEW v \in Worker, NEW k \in Positions(v)', NEW j,
                      j = job'[v].batch[k]
               PROVE  Held(j)' /\ (Unspent(v, k)' => calls'[j] < event'[j].attempts)
    BY DEF Leased
  <2> DEFINE m == IF v = w THEN k + 1 ELSE k
  <2>1. /\ m \in Positions(v) /\ j = job[v].batch[m] /\ j \in Id \ {i}
        /\ Unspent(v, k)' => Unspent(v, m)
    BY <1>10
  <2>2. Held(j) /\ (Unspent(v, m) => calls[j] < event[j].attempts)
    BY <2>1, LeasedRow
  <2>3. event'[j] = event[j] /\ calls'[j] = calls[j]
    BY <1>6, <2>1
  <2> HIDE DEF m
  <2>4. Held(j)'
    BY <2>1, <2>2, <2>3 DEF Held
  <2> QED
    BY <2>1, <2>2, <2>3, <2>4
<1>14. Alone'
  <2> SUFFICES ASSUME NEW u \in Worker, NEW v \in Worker,
                      NEW k \in Positions(u)', NEW l \in Positions(v)',
                      job'[u].batch[k] = job'[v].batch[l]
               PROVE  u = v /\ k = l
    BY DEF Alone
  <2> DEFINE m == IF u = w THEN k + 1 ELSE k
             n == IF v = w THEN l + 1 ELSE l
  <2>1. m \in Positions(u) /\ n \in Positions(v) /\ job[u].batch[m] = job[v].batch[n]
    BY <1>10
  <2>2. u = v /\ m = n
    BY <2>1 DEF IInv, Alone
  <2>3. k \in Int /\ l \in Int
    <3>1. CASE u = w
      BY <1>5, <1>9, <2>2, <3>1
    <3>2. CASE u # w
      BY <2>1, <2>2, <3>2 DEF Positions
    <3> QED
      BY <3>1, <3>2
  <2> QED
    BY <2>2, <2>3
<1>15. \A j \in Id : Told(j)' <=> Told(j)
  <2>1. \A j \in Id \ {i} : Told(j)' <=> Told(j)
    <3> SUFFICES ASSUME NEW j \in Id \ {i}
                 PROVE  Told(j)' <=> Told(j)
      OBVIOUS
    <3>1. event'[j] = event[j]
      BY <1>6
    <3>2. \A v \in Worker : job'[v].pc = "mark" /\ job'[v].batch[1] = j
                             <=> job[v].pc = "mark" /\ job[v].batch[1] = j
      BY <1>8
    <3> QED
      BY <3>1, <3>2 DEF Told
  <2>2. \A v \in Worker \ {w} : job[v].pc = "mark" => job[v].batch[1] # i
    BY <1>2, Basics
  <2>3. Told(i)' <=> r.status = "sent"
    BY <1>6, <1>8, <2>2 DEF Told
  <2> QED
    BY <1>2, <2>1, <2>3
<1>16. Counted'
  <2>1. \A j \in Id : event'[j].attempts = event[j].attempts
    BY <1>6
  <2> QED
    BY <1>7, <1>15, <2>1 DEF IInv, Counted
<1> QED
  BY <1>11, <1>12, <1>13, <1>14, <1>16 DEF IInv

LEMMA DisableKeeps ==
  ASSUME IInv, NEW w \in Worker, Disable(w)
  PROVE  IInv'
<1>1. job[w].batch # <<>> /\ job[w].pc = "disable" /\ Leave(w)
      /\ UNCHANGED <<settings, calls, arrived, faults>>
  BY Basics DEF Disable
<1> PICK i \in Id : i = job[w].batch[1] /\ i = Head(job[w].batch)
  BY <1>1, Basics
<1> DEFINE r == [event[i] EXCEPT !.status = "disabled"]
<1>2. event' = [event EXCEPT ![i] = r]
  BY Basics DEF Disable
<1>3. r \in Row /\ r.attempts = event[i].attempts /\ r.status = "disabled"
  BY CountedRow DEF Row, Status
<1> QED
  BY <1>1, <1>2, <1>3, Leaving

LEMMA MarkKeeps ==
  ASSUME IInv, NEW w \in Worker, Mark(w)
  PROVE  IInv'
<1>1. job[w].batch # <<>> /\ job[w].pc = "mark" /\ Leave(w)
      /\ UNCHANGED <<settings, calls, arrived, faults>>
  BY Basics DEF Mark
<1> PICK i \in Id : i = job[w].batch[1] /\ i = Head(job[w].batch)
  BY <1>1, Basics
<1> DEFINE r == [event[i] EXCEPT !.status = "sent"]
<1>2. event' = [event EXCEPT ![i] = r]
  BY Basics DEF Mark
<1>3. r \in Row /\ r.attempts = event[i].attempts /\ r.status = "sent"
  BY CountedRow DEF Row, Status
<1> QED
  BY <1>1, <1>2, <1>3, Leaving

LEMMA MissKeeps ==
  ASSUME IInv, NEW w \in Worker, Miss(w)
  PROVE  IInv'
<1>1. job[w].batch # <<>> /\ job[w].pc = "miss" /\ Leave(w)
      /\ UNCHANGED <<settings, calls, arrived, faults>>
  BY Basics DEF Miss
<1> PICK i \in Id : i = job[w].batch[1] /\ i = Head(job[w].batch)
  BY <1>1, Basics
<1> DEFINE n == event[i].attempts
           s == IF n >= 3 THEN "failed" ELSE "pending"
           d == IF n >= 3 THEN 0 ELSE n
           r == [[event[i] EXCEPT !.status = s] EXCEPT !.wait = d]
<1>2. event' = [event EXCEPT ![i].status = s, ![i].wait = d]
  BY <1>1 DEF Miss
<1>3. /\ event[i] \in Row /\ n \in Nat /\ n <= 3 /\ event[i].chat # none
      /\ event \in [Id -> Row]
  BY <1>1, CountedRow, LeasedRow, Basics DEF Held
<1>4. s \in Status /\ s # "sent" /\ d \in 0..2
  BY <1>3 DEF Status
<1> HIDE DEF n, s, d
<1>5. event' = [event EXCEPT ![i] = r]
  BY <1>2, <1>3
<1>6. /\ r \in Row /\ r.attempts = event[i].attempts /\ r.status # "sent"
      /\ r.chat # none
  BY <1>3, <1>4 DEF Row
<1> QED
  BY <1>1, <1>5, <1>6, Leaving

\* The confirmation is lost with the query that failed, or with the process that died.
LEMMA Losing ==
  ASSUME IInv, NEW w \in Worker, faults' = faults + 1,
         UNCHANGED <<event, settings, calls, arrived>>,
         job' \in [Worker -> [pc : Place, batch : Seq(Nat)]],
         \A v \in Worker \ {w} : job'[v] = job[v],
         job'[w].pc # "mark",
         \/ job'[w] = Idle
         \/ job[w].pc = "mark" /\ job'[w].pc = "miss" /\ job'[w].batch = job[w].batch
  PROVE  IInv'
<1>1. \A v \in Worker : /\ job'[v].batch \in Seq(Id)
                        /\ job'[v].pc = "idle" => job'[v].batch = <<>>
                        /\ job'[v].pc \in {"disable", "send", "mark", "miss"} =>
                              job'[v].batch # <<>>
  <2> SUFFICES ASSUME NEW v \in Worker
               PROVE  /\ job'[v].batch \in Seq(Id)
                      /\ job'[v].pc = "idle" => job'[v].batch = <<>>
                      /\ job'[v].pc \in {"disable", "send", "mark", "miss"} =>
                            job'[v].batch # <<>>
    OBVIOUS
  <2>1. CASE job'[v] = Idle
    <3>1. job'[v].batch = <<>> /\ job'[v].pc = "idle"
      BY <2>1 DEF Idle
    <3>2. <<>> \in Seq(Id)
      OBVIOUS
    <3> QED
      BY <3>1, <3>2
  <2>2. CASE job'[v] # Idle
    <3>1. job'[v].batch = job[v].batch /\ job'[v].pc \in {job[v].pc, "miss"}
          /\ (job[v].pc # job'[v].pc => job[v].pc = "mark")
      BY <2>2
    <3>2. job[v].pc = "idle" => job[v].batch = <<>>
      BY DEF IInv, Shape
    <3> QED
      BY <3>1, <3>2, Basics
  <2> QED
    BY <2>1, <2>2
<1>2. \A v \in Worker : \A k \in Positions(v)' :
         /\ k \in Positions(v) /\ job'[v].batch[k] = job[v].batch[k]
         /\ Unspent(v, k)' => Unspent(v, k)
  <2> SUFFICES ASSUME NEW v \in Worker, NEW k \in Positions(v)'
               PROVE  /\ k \in Positions(v) /\ job'[v].batch[k] = job[v].batch[k]
                      /\ Unspent(v, k)' => Unspent(v, k)
    OBVIOUS
  <2>1. CASE job'[v] = Idle
    <3>1. Len(<<>>) = 0 /\ job'[v].batch = <<>>
      BY <2>1 DEF Idle
    <3> QED
      BY <3>1 DEF Positions
  <2>2. CASE job'[v] # Idle
    BY <2>2 DEF Positions, Unspent
  <2> QED
    BY <2>1, <2>2
<1>3. Id' = Id /\ faults \in Nat /\ faults' \in Nat
  BY DEF Id, IInv, Shape
<1>4. TypeOK'
  <2>1. \A v \in Worker : job'[v].pc \in Place
    OBVIOUS
  <2> QED
    BY <1>1, <1>3, <2>1 DEF IInv, TypeOK, Place
<1>5. Shape'
  BY <1>1, <1>3 DEF Shape
<1>6. Leased'
  <2> SUFFICES ASSUME NEW v \in Worker, NEW k \in Positions(v)', NEW j,
                      j = job'[v].batch[k]
               PROVE  Held(j)' /\ (Unspent(v, k)' => calls'[j] < event'[j].attempts)
    BY DEF Leased
  <2>1. /\ k \in Positions(v) /\ j = job[v].batch[k]
        /\ Unspent(v, k)' => Unspent(v, k)
    BY <1>2
  <2>2. Held(j) /\ (Unspent(v, k) => calls[j] < event[j].attempts)
    BY <2>1, LeasedRow
  <2>3. Held(j)'
    BY <2>2 DEF Held
  <2> QED
    BY <2>1, <2>2, <2>3
<1>7. Alone'
  <2> SUFFICES ASSUME NEW u \in Worker, NEW v \in Worker,
                      NEW k \in Positions(u)', NEW l \in Positions(v)',
                      job'[u].batch[k] = job'[v].batch[l]
               PROVE  u = v /\ k = l
    BY DEF Alone
  <2>1. /\ k \in Positions(u) /\ l \in Positions(v)
        /\ job[u].batch[k] = job[v].batch[l]
    BY <1>2
  <2> QED
    BY <2>1 DEF IInv, Alone
<1>8. \A j \in Id : Told(j)' => Told(j)
  BY DEF Told
<1>9. Counted'
  <2> SUFFICES ASSUME NEW j \in Id
               PROVE  /\ calls[j] <= event[j].attempts
                      /\ arrived[j] <= faults' + (IF Told(j)' THEN 1 ELSE 0)
                      /\ Told(j)' => arrived[j] > 0
    BY <1>3 DEF Counted
  <2> QED
    BY <1>3, <1>8, CountedRow
<1> QED
  BY <1>4, <1>5, <1>6, <1>7, <1>9 DEF IInv

LEMMA UnmarkedKeeps ==
  ASSUME IInv, NEW w \in Worker, Unmarked(w)
  PROVE  IInv'
<1>1. /\ job[w].pc = "mark" /\ faults' = faults + 1
      /\ job' = [job EXCEPT ![w].pc = "miss"]
      /\ UNCHANGED <<event, settings, calls, arrived>>
  BY DEF Unmarked, Goto
<1>2. job \in [Worker -> [pc : Place, batch : Seq(Nat)]]
  BY DEF IInv, Shape
<1>3. /\ job' \in [Worker -> [pc : Place, batch : Seq(Nat)]]
      /\ job'[w].pc = "miss" /\ job'[w].batch = job[w].batch
      /\ \A v \in Worker \ {w} : job'[v] = job[v]
  BY <1>1, <1>2 DEF Place
<1> QED
  BY <1>1, <1>3, Losing

LEMMA DieKeeps ==
  ASSUME IInv, NEW w \in Worker, Die(w)
  PROVE  IInv'
<1>1. /\ faults' = faults + 1 /\ job' = [job EXCEPT ![w] = Idle]
      /\ UNCHANGED <<event, settings, calls, arrived>>
  BY DEF Die
<1>2. job \in [Worker -> [pc : Place, batch : Seq(Nat)]]
  BY DEF IInv, Shape
<1>3. Idle \in [pc : Place, batch : Seq(Nat)] /\ Idle.pc = "idle"
  BY DEF Idle, Place
<1>4. /\ job' \in [Worker -> [pc : Place, batch : Seq(Nat)]]
      /\ job'[w] = Idle
      /\ \A v \in Worker \ {w} : job'[v] = job[v]
  BY <1>1, <1>2, <1>3
<1> QED
  BY <1>1, <1>3, <1>4, Losing

LEMMA StepKeeps == IInv /\ [Next]_vars => IInv'
<1> SUFFICES ASSUME IInv, [Next]_vars PROVE IInv'
  OBVIOUS
<1>1. CASE UNCHANGED vars
  <2>1. /\ event' = event /\ settings' = settings /\ job' = job /\ calls' = calls
        /\ arrived' = arrived /\ faults' = faults
    BY <1>1 DEF vars
  <2> QED
    BY <2>1 DEF IInv, TypeOK, Shape, Leased, Alone, Counted, Held, Unspent, Told, Id,
                Positions
<1>2. ASSUME NEW test \in BOOLEAN, Record(test) PROVE IInv'
  BY <1>2, RecordKeeps
<1>3. ASSUME NEW chat \in Chat \cup {none}, NEW enabled \in BOOLEAN,
             SaveSettings(chat, enabled)
      PROVE  IInv'
  BY <1>3, SaveSettingsKeeps
<1>4. CASE SwitchMode
  BY <1>4, SwitchModeKeeps
<1>5. ASSUME NEW w \in Worker, Step(w) \/ Die(w) PROVE IInv'
  <2>1. ASSUME NEW there \in BOOLEAN, NEW answer \in BOOLEAN, Send(w, there, answer)
        PROVE  IInv'
    BY <2>1, SendKeeps
  <2> QED
    BY <1>5, <2>1, ClaimKeeps, LookKeeps, DisableKeeps, MarkKeeps, UnmarkedKeeps,
       MissKeeps, FinishKeeps, DieKeeps DEF Step
<1>6. CASE Elapse
  BY <1>6, ElapseKeeps
<1> QED
  BY <1>1, <1>2, <1>3, <1>4, <1>5, <1>6 DEF Next

THEOREM Invariant == Spec => []IInv
<1> QED
  BY InitEstablishes, StepKeeps, PTL DEF Spec

-----------------------------------------------------------------------------
\* Rows, jobs and counters keep their types; a row that waits to be sent has its chat.
THEOREM DeliveryTypeOK == Spec => []TypeOK
<1>1. IInv => TypeOK
  BY DEF IInv
<1> QED
  BY <1>1, Invariant, PTL

\* An event is handed to the messenger three times at most, and arrives twice only
\* after a fault: an attempt is counted before it is made, by the one process that
\* claimed it.
THEOREM FewMessagesAlways == Spec => []FewMessages
<1>1. IInv => FewMessages
  <2> SUFFICES ASSUME IInv, NEW i \in Id
               PROVE  calls[i] <= 3 /\ arrived[i] <= 1 + faults
    BY DEF FewMessages
  <2> QED
    BY CountedRow
<1> QED
  BY <1>1, Invariant, PTL

\* What is marked as sent has arrived and is left alone by every process.
THEOREM SentStaysSent == Spec => SentIsSent
<1> DEFINE Kept(i) == event'[i].status = "sent" /\ calls'[i] = calls[i]
<1>1. IInv /\ Next => \A i \in Id : event[i].status = "sent" => Kept(i) /\ arrived[i] > 0
  <2> SUFFICES ASSUME IInv, Next, NEW i \in Id, event[i].status = "sent"
               PROVE  Kept(i) /\ arrived[i] > 0
    OBVIOUS
  <2>1. arrived[i] > 0
    BY CountedRow DEF Told
  <2>2. /\ event \in [Id -> Row] /\ calls \in [Id -> Nat] /\ event \in Seq(Row)
        /\ Len(event) \in Nat /\ Id = 1..Len(event)
    BY Basics
  <2>3. ASSUME NEW test \in BOOLEAN, Record(test) PROVE Kept(i)
    <3>1. calls \in Seq(Nat) /\ Len(calls) = Len(event)
      BY <2>2, FunctionIsSeq
    <3>2. PICK e : event' = Append(event, e) /\ calls' = Append(calls, 0)
      BY <2>3 DEF Record
    <3>3. event'[i] = event[i]
      BY <2>2, <3>2
    <3>4. calls'[i] = calls[i]
      BY <2>2, <3>1, <3>2
    <3> QED
      BY <3>3, <3>4
  <2>4. ASSUME NEW chat \in Chat \cup {none}, NEW enabled \in BOOLEAN,
               SaveSettings(chat, enabled)
        PROVE  Kept(i)
    BY <2>4 DEF SaveSettings, Disabled
  <2>5. CASE SwitchMode
    <3>1. event' = [j \in Id |-> IF event[j].status \in {"pending", "sending"}
                                 THEN [event[j] EXCEPT !.status = "disabled"] ELSE event[j]]
          /\ calls' = calls
      BY <2>5 DEF SwitchMode, Disabled
    <3>2. event'[i] = event[i]
      BY <3>1
    <3> QED
      BY <2>1, <3>1, <3>2
  <2>6. ASSUME NEW w \in Worker, Step(w) \/ Die(w) PROVE Kept(i)
    <3>1. job[w].batch # <<>> => job[w].batch[1] # i /\ Head(job[w].batch) # i
      BY HeadIsMine, Basics
    <3>2. job[w].pc \in {"disable", "send", "mark", "miss"} => job[w].batch # <<>>
      BY Basics
    <3>3. CASE Claim(w)
      <4>1. i \notin Oldest
        BY DEF Oldest, Due, Unanswered
      <4> QED
        BY <3>3, <4>1 DEF Claim
    <3>4. CASE Look(w) \/ Unmarked(w) \/ Die(w)
      BY <3>4 DEF Look, Unmarked, Die
    <3>5. CASE Disable(w)
      BY <2>2, <3>1, <3>2, <3>5 DEF Disable
    <3>6. CASE \E there, answer \in BOOLEAN : Send(w, there, answer)
      BY <2>2, <3>1, <3>2, <3>6 DEF Send
    <3>7. CASE Mark(w)
      BY <2>2, <3>1, <3>2, <3>7 DEF Mark
    <3>8. CASE Miss(w)
      BY <2>2, <3>1, <3>2, <3>8 DEF Miss
    <3>9. CASE Finish(w)
      BY <3>9 DEF Finish
    <3> QED
      BY <2>6, <3>3, <3>4, <3>5, <3>6, <3>7, <3>8, <3>9 DEF Step
  <2>7. CASE Elapse
    <3> DEFINE less == IF event[i].wait = 0 THEN 0 ELSE event[i].wait - 1
    <3>1. event'[i] = [event[i] EXCEPT !.wait = less] /\ calls' = calls
      BY <2>7 DEF Elapse
    <3>2. event[i] \in Row
      BY <2>2
    <3> HIDE DEF less
    <3> QED
      BY <2>1, <3>1, <3>2 DEF Row
  <2> QED
    BY <2>1, <2>3, <2>4, <2>5, <2>6, <2>7 DEF Next
<1>2. IInv /\ [Next]_vars =>
        [\A i \in Id : event[i].status = "sent" =>
            event'[i].status = "sent" /\ calls'[i] = calls[i] /\ arrived[i] > 0]_vars
  BY <1>1
<1> QED
  BY <1>2, Invariant, PTL DEF Spec, SentIsSent

-----------------------------------------------------------------------------
(* The conditions of an alert. *)

CONSTANTS Durations, Suppressions, MaxGap, MaxTime, MaxChecks
VARIABLES clock, began, condition, rules, checks, events

Con == INSTANCE NotificationConditions WITH settings <- rules

\* What the code takes for granted: a time is a number and no other value is, and the
\* pause between alerts is not negative (notifications.ts:76).
Numbers ==
  /\ MaxTime \in Nat /\ MaxGap \in Int /\ none \notin Int
  /\ Durations \subseteq Int /\ Suppressions \subseteq Nat

\* No two checks have the same time, and no event has the time of a check to come.
OwnTimes ==
  \A w \in Worker : began[w] # none =>
     /\ began[w] < clock
     /\ \A v \in Worker : began[v] = began[w] => v = w
     /\ \A i \in DOMAIN events : events[i].key # began[w]

KeysPassed == \A i \in DOMAIN events : events[i].key < clock

\* Every alert is later than those before it.
Ascending ==
  \A i, j \in DOMAIN events :
     i < j /\ events[i].kind = "problem" /\ events[j].kind = "problem" =>
       events[i].key < events[j].key

\* The row remembers the last alert and the last check...
Remembered ==
  /\ condition.lastAlert = (IF events = <<>> THEN none ELSE events[Len(events)].key)
  /\ condition.lastCheck = (IF checks = <<>> THEN none ELSE checks[Len(checks)].at)

\* ... and, while nothing is reported, since when it has been bad at every check.
KnownSince(seq, since) ==
  IF Con!Run(seq) = {} THEN since = none
  ELSE \E j \in Con!Run(seq) : (\A k \in Con!Run(seq) : j <= k) /\ since = seq[j].at

BadSince == ~condition.active => KnownSince(checks, condition.since)

ConInv ==
  /\ Con!TypeOK /\ OwnTimes /\ KeysPassed /\ Ascending /\ Remembered /\ BadSince
  /\ Con!EventsTellTheCondition

-----------------------------------------------------------------------------
CheckRow == [at : Con!Time, seen : Con!Seen]
EventRow == [kind : {"problem", "recovery"}, key : Con!Time, check : Nat]

LEMMA Parity == \A n \in Nat : (n + 1) % 2 = 1 <=> n % 2 # 1
  BY SMT

LEMMA ConTypes ==
  ASSUME Numbers, ConInv
  PROVE  /\ events \in Seq(EventRow) /\ Len(events) \in Nat
         /\ DOMAIN events = 1..Len(events)
         /\ \A i \in DOMAIN events : events[i] \in EventRow /\ events[i].key \in Int
         /\ checks \in Seq(CheckRow) /\ Len(checks) \in Nat
         /\ DOMAIN checks = 1..Len(checks)
         /\ \A i \in DOMAIN checks : checks[i] \in CheckRow /\ checks[i].at \in Int
         /\ clock \in Int /\ Con!Time \subseteq Int /\ none \notin Con!Time /\ 1 \in Con!Time
         /\ rules.suppression \in Nat /\ rules.duration \in Int
<1>1. Con!Time \subseteq Int /\ none \notin Con!Time /\ 1 \in Con!Time
  BY DEF Numbers, Con!Time
<1>2. events \in Seq(EventRow) /\ checks \in Seq(CheckRow)
  BY DEF ConInv, Con!TypeOK, EventRow, CheckRow
<1>3. /\ Len(events) \in Nat /\ DOMAIN events = 1..Len(events)
      /\ Len(checks) \in Nat /\ DOMAIN checks = 1..Len(checks)
      /\ \A i \in DOMAIN events : events[i] \in EventRow
      /\ \A i \in DOMAIN checks : checks[i] \in CheckRow
  BY <1>2, LenProperties, ElementOfSeq
<1>4. /\ \A i \in DOMAIN events : events[i].key \in Int
      /\ \A i \in DOMAIN checks : checks[i].at \in Int
  BY <1>1, <1>3 DEF EventRow, CheckRow
<1> QED
  BY <1>1, <1>2, <1>3, <1>4 DEF ConInv, Con!TypeOK, Numbers

\* Between two alerts there is a recovery, and the row knows the last alert.
LEMMA LastAlert ==
  ASSUME Numbers, ConInv, NEW n, n = Len(events)
  PROVE  /\ events = <<>> => condition.lastAlert = none
         /\ events # <<>> => /\ n \in DOMAIN events
                             /\ condition.lastAlert = events[n].key
                             /\ condition.lastAlert \in Con!Time /\ condition.lastAlert # none
                             /\ \E j \in DOMAIN events : /\ events[j].kind = "problem"
                                                         /\ events[j].key = events[n].key
         /\ Con!Alerted(events) <=> n % 2 = 1
         /\ \A i \in DOMAIN events : events[i].kind = "problem" =>
              events[i].key <= condition.lastAlert
<1>1. /\ n \in Nat /\ DOMAIN events = 1..n /\ events \in Seq(EventRow)
      /\ \A i \in 1..n : events[i] \in EventRow /\ events[i].key \in Int
      /\ none \notin Con!Time
  BY ConTypes
<1>2. events = <<>> <=> n = 0
  BY <1>1, EmptySeq
<1>3. n # 0 => n \in 1..n
  BY <1>1
<1>4. condition.lastAlert = IF events = <<>> THEN none ELSE events[n].key
  BY DEF ConInv, Remembered
<1>5. \A i \in 1..n : IF i % 2 = 1 THEN events[i].kind = "problem"
                      ELSE events[i].kind = "recovery" /\ events[i].key = events[i - 1].key
  BY <1>1 DEF ConInv, Con!EventsTellTheCondition
<1>6. \A i \in 1..n : i % 2 # 1 => i - 1 \in 1..n /\ (i - 1) % 2 = 1
  <2> SUFFICES ASSUME NEW i \in 1..n, i % 2 # 1
               PROVE  i - 1 \in 1..n /\ (i - 1) % 2 = 1
    OBVIOUS
  <2>1. i # 1 /\ i \in Int /\ 1 <= i /\ i <= n
    BY <1>1
  <2>2. i - 1 \in Nat /\ (i - 1) + 1 = i /\ i - 1 \in 1..n
    BY <1>1, <2>1
  <2> QED
    BY <2>2, Parity
<1>7. n # 0 => \E j \in 1..n : /\ events[j].kind = "problem" /\ events[j].key = events[n].key
                               /\ n - 1 <= j
  <2> SUFFICES ASSUME n # 0
               PROVE  \E j \in 1..n : /\ events[j].kind = "problem"
                                      /\ events[j].key = events[n].key /\ n - 1 <= j
    OBVIOUS
  <2>1. CASE n % 2 = 1
    BY <1>1, <1>3, <1>5, <2>1
  <2>2. CASE n % 2 # 1
    BY <1>1, <1>3, <1>5, <1>6, <2>2
  <2> QED
    BY <2>1, <2>2
<1>8. Con!Alerted(events) <=> n % 2 = 1
  <2>1. CASE n = 0
    BY <1>2, <2>1 DEF Con!Alerted
  <2>2. CASE n # 0
    BY <1>2, <1>3, <1>5, <2>2 DEF Con!Alerted, Con!Last
  <2> QED
    BY <2>1, <2>2
<1>9. ASSUME NEW i \in DOMAIN events, events[i].kind = "problem"
      PROVE  events[i].key <= condition.lastAlert
  <2>1. n # 0 /\ i \in 1..n /\ condition.lastAlert = events[n].key
    BY <1>1, <1>2, <1>4
  <2>2. PICK j \in 1..n : /\ events[j].kind = "problem" /\ events[j].key = events[n].key
                          /\ n - 1 <= j
    BY <1>7, <2>1
  <2>3. CASE i <= j
    <3>1. i < j => events[i].key < events[j].key
      BY <1>1, <1>9, <2>2 DEF ConInv, Ascending
    <3>2. i = j \/ i < j
      BY <1>1, <2>1, <2>2, <2>3
    <3> QED
      BY <1>1, <2>1, <2>2, <3>1, <3>2
  <2>4. CASE i > j
    <3>1. i = n
      BY <1>1, <2>1, <2>2, <2>4
    <3> QED
      BY <1>1, <2>1, <3>1
  <2> QED
    BY <1>1, <2>1, <2>2, <2>3, <2>4
<1>10. n # 0 => events[n].key \in Con!Time
  BY <1>1, <1>3 DEF EventRow
<1> QED
  BY <1>1, <1>2, <1>3, <1>4, <1>7, <1>8, <1>9, <1>10

\* One more check.
LEMMA RunGrows ==
  ASSUME NEW seq \in Seq(CheckRow), NEW c \in CheckRow, NEW n, n = Len(seq),
         NEW t, t = Append(seq, c)
  PROVE  /\ Len(t) = n + 1 /\ t[n + 1] = c /\ \A j \in 1..n : t[j] = seq[j]
         /\ c.seen # "bad" => Con!Run(t) = {}
         /\ c.seen = "bad" => n + 1 \in Con!Run(t)
         /\ c.seen = "bad" => \A j \in 1..n :
              j \in Con!Run(t) <=> j \in Con!Run(seq) /\ c.at - seq[n].at <= MaxGap
         /\ Con!Run(t) \subseteq 1..n + 1
<1> DEFINE Good(s, j, k) == s[k].seen = "bad" /\ (k > j => s[k].at - s[k - 1].at <= MaxGap)
<1>0. /\ n \in Nat /\ Len(t) = n + 1 /\ t[n + 1] = c
      /\ \A j \in 1..n : t[j] = seq[j]
  BY LenProperties, AppendProperties
<1>1. Con!Run(t) = {j \in 1..n + 1 : \A k \in j..n + 1 : Good(t, j, k)}
  BY <1>0 DEF Con!Run
<1>2. Con!Run(seq) = {j \in 1..n : \A k \in j..n : Good(seq, j, k)}
  BY DEF Con!Run
<1>3. \A j \in 1..n + 1 : n + 1 \in j..n + 1
  BY <1>0
<1>4. c.seen # "bad" => Con!Run(t) = {}
  BY <1>0, <1>1, <1>3
<1>5. c.seen = "bad" => n + 1 \in Con!Run(t)
  <2>1. \A k \in n + 1..n + 1 : k = n + 1
    BY <1>0
  <2> QED
    BY <1>0, <1>1, <2>1
<1>6. ASSUME c.seen = "bad", NEW j \in 1..n
      PROVE  j \in Con!Run(t) <=> j \in Con!Run(seq) /\ c.at - seq[n].at <= MaxGap
  <2>1. \A k \in j..n : k \in 1..n /\ (k > j => k - 1 \in 1..n)
    BY <1>0
  <2>2. \A k \in j..n : Good(t, j, k) <=> Good(seq, j, k)
    BY <1>0, <2>1
  <2>3. Good(t, j, n + 1) <=> c.at - seq[n].at <= MaxGap
    <3>1. n + 1 > j /\ (n + 1) - 1 = n /\ n \in 1..n
      BY <1>0
    <3> QED
      BY <1>0, <1>6, <3>1
  <2>4. \A k \in j..n + 1 : k \in j..n \/ k = n + 1
    BY <1>0
  <2>5. \A k \in j..n : k \in j..n + 1
    BY <1>0
  <2>6. j \in 1..n + 1 /\ n + 1 \in j..n + 1
    BY <1>0
  <2> HIDE DEF Good
  <2> QED
    BY <1>1, <1>2, <2>2, <2>3, <2>4, <2>5, <2>6
<1> QED
  BY <1>0, <1>1, <1>4, <1>5, <1>6

\* The row keeps up with the checks.
LEMMA SinceStep ==
  ASSUME Numbers, ConInv, ~condition.active, NEW seen \in Con!Seen, NEW now \in Con!Time, NEW t,
         t = Append(checks, [at |-> now, seen |-> seen])
  PROVE  /\ KnownSince(t, Con!Since(seen, now)) /\ Len(t) \in Nat /\ Con!Run(t) \subseteq 1..Len(t)
         /\ t[Len(t)] = [at |-> now, seen |-> seen]
         /\ seen = "bad" <=> Con!Run(t) # {}
         /\ seen = "bad" => Con!Since(seen, now) \in Int /\ Con!Since(seen, now) \in Con!Time
         /\ seen # "bad" => Con!Since(seen, now) = none
<1> DEFINE c == [at |-> now, seen |-> seen]
           n == Len(checks)
<1>0. c \in CheckRow /\ checks \in Seq(CheckRow) /\ n \in Nat
      /\ c.seen = seen /\ c.at = now
  BY ConTypes DEF CheckRow
<1>1. n \in Nat /\ Len(t) = n + 1 /\ t[n + 1] = c /\ \A j \in 1..n : t[j] = checks[j]
  BY <1>0, AppendProperties
<1>2. /\ seen # "bad" => Con!Run(t) = {}
      /\ seen = "bad" => n + 1 \in Con!Run(t)
      /\ seen = "bad" => \A j \in 1..n :
           j \in Con!Run(t) <=> j \in Con!Run(checks) /\ now - checks[n].at <= MaxGap
      /\ Con!Run(t) \subseteq 1..n + 1
  <2>0. t = Append(checks, c)
    OBVIOUS
  <2> HIDE DEF c
  <2>1. c.seen # "bad" => Con!Run(t) = {}
    BY <1>0, <2>0, RunGrows
  <2>2. c.seen = "bad" => Len(checks) + 1 \in Con!Run(t)
    BY <1>0, <2>0, RunGrows
  <2>3. c.seen = "bad" => \A j \in 1..Len(checks) :
           j \in Con!Run(t) <=> j \in Con!Run(checks) /\ c.at - checks[Len(checks)].at <= MaxGap
    BY <1>0, <2>0, RunGrows
  <2>4. Con!Run(t) \subseteq 1..n + 1
    BY <1>0, <2>0, RunGrows
  <2> QED
    BY <1>0, <2>1, <2>2, <2>3, <2>4
<1>3. /\ KnownSince(checks, condition.since)
      /\ condition.lastCheck = IF checks = <<>> THEN none ELSE checks[n].at
      /\ checks = <<>> <=> n = 0
      /\ Con!Run(checks) \subseteq 1..n
      /\ \A j \in 1..n : checks[j].at \in Con!Time
      /\ none \notin Con!Time /\ Con!Time \subseteq Int
  BY <1>1, ConTypes, EmptySeq DEF ConInv, BadSince, Remembered, Con!Run, CheckRow
<1>4. /\ Len(t) \in Nat /\ Con!Run(t) \subseteq 1..Len(t) /\ t[Len(t)] = c
      /\ seen = "bad" <=> Con!Run(t) # {}
      /\ seen # "bad" => Con!Since(seen, now) = none
  BY <1>1, <1>2 DEF Con!Since
<1>5. seen # "bad" => KnownSince(t, Con!Since(seen, now))
  BY <1>4 DEF KnownSince
<1>6. ASSUME seen = "bad"
      PROVE  KnownSince(t, Con!Since(seen, now)) /\ Con!Since(seen, now) \in Con!Time
  <2> DEFINE gap == n # 0 /\ ~(now - checks[n].at <= MaxGap)
  <2>1. CASE Con!Run(checks) = {} \/ gap
    <3>1. Con!Run(t) = {n + 1}
      <4>1. \A j \in 1..n : j \notin Con!Run(t)
        BY <1>2, <1>3, <1>6, <2>1
      <4>2. \A j \in 1..n + 1 : j \in 1..n \/ j = n + 1
        BY <1>1
      <4> QED
        BY <1>2, <1>6, <4>1, <4>2
    <3>2. Con!Since(seen, now) = now
      <4>1. CASE Con!Run(checks) = {}
        BY <1>3, <1>6, <4>1 DEF KnownSince, Con!Since
      <4>2. CASE gap
        <5>1. n \in 1..n /\ condition.lastCheck = checks[n].at /\ checks[n].at \in Con!Time
          BY <1>1, <1>3, <4>2
        <5>2. now - checks[n].at > MaxGap
          <6>1. now \in Int /\ checks[n].at \in Int /\ MaxGap \in Int
            BY <1>3, <5>1 DEF Numbers
          <6> QED
            BY <4>2, <6>1
        <5> QED
          BY <1>3, <1>6, <5>1, <5>2 DEF Con!Since
      <4> QED
        BY <2>1, <4>1, <4>2
    <3>3. \A k \in Con!Run(t) : n + 1 <= k
      BY <1>1, <3>1
    <3>4. KnownSince(t, now)
      BY <1>1, <3>1, <3>3 DEF KnownSince
    <3> QED
      BY <3>2, <3>4
  <2>2. CASE Con!Run(checks) # {} /\ ~gap
    <3>1. PICK j \in Con!Run(checks) : /\ \A k \in Con!Run(checks) : j <= k
                                   /\ condition.since = checks[j].at
      BY <1>3, <2>2 DEF KnownSince
    <3>2. j \in 1..n /\ n # 0 /\ n \in 1..n /\ now - checks[n].at <= MaxGap
      BY <1>1, <1>3, <2>2, <3>1
    <3>3. Con!Since(seen, now) = condition.since
      <4>1. condition.lastCheck = checks[n].at /\ checks[n].at \in Int
        BY <1>3, <3>2
      <4>2. condition.since # none
        BY <1>3, <3>1, <3>2
      <4> QED
        BY <1>3, <1>6, <3>2, <4>1, <4>2 DEF Con!Since, Numbers
    <3>4. j \in Con!Run(t) /\ t[j].at = condition.since
      BY <1>1, <1>2, <1>6, <3>1, <3>2
    <3>5. \A k \in Con!Run(t) : j <= k
      BY <1>1, <1>2, <1>6, <3>1, <3>2
    <3>6. condition.since \in Con!Time
      BY <1>3, <3>1, <3>2
    <3>7. KnownSince(t, condition.since)
      BY <3>4, <3>5 DEF KnownSince
    <3> QED
      BY <3>3, <3>6, <3>7
  <2> QED
    BY <2>1, <2>2
<1> QED
  BY <1>3, <1>4, <1>5, <1>6

\* What the row remembers is enough to decide whether an alert is due.
LEMMA RaisesWhenDue ==
  ASSUME Numbers, ConInv, ~condition.active, NEW seen \in Con!Seen, NEW now \in Con!Time
  PROVE  Con!Raises(seen, now) <=> Con!Due(Append(checks, [at |-> now, seen |-> seen]), events)
<1> DEFINE t == Append(checks, [at |-> now, seen |-> seen])
           first == CHOOSE j \in Con!Run(t) : \A k \in Con!Run(t) : j <= k
<1>1. /\ KnownSince(t, Con!Since(seen, now)) /\ Len(t) \in Nat /\ Con!Run(t) \subseteq 1..Len(t)
      /\ t[Len(t)] = [at |-> now, seen |-> seen]
      /\ seen = "bad" <=> Con!Run(t) # {}
      /\ seen = "bad" => Con!Since(seen, now) \in Int
  BY SinceStep
<1>2. Con!Due(t, events) <=>
        /\ Con!Run(t) # {}
        /\ now - t[first].at >= rules.duration
        /\ \A i \in DOMAIN events : events[i].kind = "problem" =>
             now - events[i].key >= rules.suppression
  <2>1. t[Len(t)].at = now
    BY <1>1
  <2> HIDE DEF t
  <2> QED
    BY <2>1 DEF Con!Due, Con!Last
<1>3. Con!Run(t) # {} => t[first].at = Con!Since(seen, now)
  <2> SUFFICES ASSUME Con!Run(t) # {} PROVE t[first].at = Con!Since(seen, now)
    OBVIOUS
  <2> HIDE DEF t
  <2>1. PICK j \in Con!Run(t) : (\A k \in Con!Run(t) : j <= k) /\ Con!Since(seen, now) = t[j].at
    BY <1>1 DEF KnownSince
  <2>2. first \in Con!Run(t) /\ \A k \in Con!Run(t) : first <= k
    BY <2>1
  <2> HIDE DEF first
  <2>3. first <= j /\ j <= first /\ first \in Int /\ j \in Int
    BY <1>1, <2>1, <2>2
  <2>4. first = j
    BY <2>3
  <2> QED
    BY <2>1, <2>4
<1>4. (\A i \in DOMAIN events : events[i].kind = "problem" =>
          now - events[i].key >= rules.suppression)
      <=> (condition.lastAlert # none => now - condition.lastAlert >= rules.suppression)
  <2>1. /\ Con!Time \subseteq Int /\ rules.suppression \in Nat
        /\ \A i \in DOMAIN events : events[i].key \in Int
    BY ConTypes
  <2>2. /\ events = <<>> => condition.lastAlert = none
        /\ events # <<>> => /\ condition.lastAlert \in Con!Time /\ condition.lastAlert # none
                            /\ \E j \in DOMAIN events :
                                 /\ events[j].kind = "problem"
                                 /\ events[j].key = condition.lastAlert
        /\ \A i \in DOMAIN events : events[i].kind = "problem" =>
             events[i].key <= condition.lastAlert
    BY LastAlert
  <2>3. events = <<>> => DOMAIN events = {}
    OBVIOUS
  <2> QED
    BY <2>1, <2>2, <2>3
<1> HIDE DEF t, first
<1>5. Con!Raises(seen, now) <=>
        /\ seen = "bad" /\ now - Con!Since(seen, now) >= rules.duration
        /\ condition.lastAlert # none => now - condition.lastAlert >= rules.suppression
  BY DEF Con!Raises
<1>6. Con!Raises(seen, now) <=> Con!Due(t, events)
  BY <1>1, <1>2, <1>3, <1>4, <1>5
<1> QED
  BY <1>6 DEF t

-----------------------------------------------------------------------------
LEMMA ConInit ==
  ASSUME Numbers, Con!Init
  PROVE  ConInv
<1>1. /\ clock = 1 /\ began = [w \in Worker |-> none] /\ condition = Con!emptyCondition
      /\ rules \in [duration : Durations, suppression : Suppressions]
      /\ checks = <<>> /\ events = <<>>
  BY DEF Con!Init
<1>2. 1 \in Con!Time
  BY DEF Numbers, Con!Time
<1>3. DOMAIN <<>> = {} /\ Len(<<>>) = 0
  OBVIOUS
<1>4. Con!TypeOK
  BY <1>1, <1>2 DEF Con!TypeOK, Con!emptyCondition
<1>5. Con!Run(<<>>) = {}
  BY <1>3 DEF Con!Run
<1>6. BadSince /\ Remembered
  BY <1>1, <1>5 DEF BadSince, KnownSince, Remembered, Con!emptyCondition
<1>7. Con!EventsTellTheCondition
  BY <1>1, <1>3 DEF Con!EventsTellTheCondition, Con!Alerted, Con!emptyCondition
<1> QED
  BY <1>1, <1>3, <1>4, <1>6, <1>7 DEF ConInv, OwnTimes, KeysPassed, Ascending

LEMMA BeginKeeps ==
  ASSUME Numbers, ConInv, NEW w \in Worker, Con!Begin(w)
  PROVE  ConInv'
<1>1. /\ began' = [began EXCEPT ![w] = clock] /\ clock' = clock + 1 /\ clock <= MaxTime
      /\ condition' = condition /\ rules' = rules /\ checks' = checks
      /\ events' = events
  BY DEF Con!Begin
<1>2. /\ began \in [Worker -> Con!Time \cup {none}] /\ clock \in Con!Time /\ clock \in Int
      /\ none \notin Int /\ Con!Time \subseteq Int
      /\ \A i \in DOMAIN events : events[i].key < clock /\ events[i].key \in Int
      /\ \A v \in Worker : began[v] # none => began[v] < clock
  BY ConTypes DEF ConInv, Con!TypeOK, KeysPassed, OwnTimes, Numbers
<1>3. clock' \in Con!Time
  BY <1>1, <1>2 DEF Con!Time, Numbers
<1>4. /\ began' \in [Worker -> Con!Time \cup {none}] /\ began'[w] = clock
      /\ \A v \in Worker \ {w} : began'[v] = began[v]
  BY <1>1, <1>2
<1>5. \A v \in Worker : began'[v] # none => began'[v] \in Int
  BY <1>2, <1>4
<1>6. Con!TypeOK'
  BY <1>1, <1>3, <1>4 DEF ConInv, Con!TypeOK
<1>7. OwnTimes'
  <2> SUFFICES ASSUME NEW u \in Worker, began'[u] # none
               PROVE  /\ began'[u] < clock'
                      /\ \A v \in Worker : began'[v] = began'[u] => v = u
                      /\ \A i \in DOMAIN events : events[i].key # began'[u]
    BY <1>1 DEF OwnTimes
  <2>1. CASE u = w
    BY <1>1, <1>2, <1>4, <2>1
  <2>2. CASE u # w
    <3>1. began'[u] = began[u] /\ began[u] < clock /\ began[u] \in Int
      BY <1>2, <1>4, <1>5, <2>2
    <3>2. /\ \A v \in Worker : began[v] = began[u] => v = u
          /\ \A i \in DOMAIN events : events[i].key # began[u]
      BY <3>1 DEF ConInv, OwnTimes
    <3>3. \A v \in Worker : began'[v] = began'[u] => v = u
      BY <1>2, <1>4, <3>1, <3>2
    <3> QED
      BY <1>1, <1>2, <3>1, <3>2, <3>3
  <2> QED
    BY <2>1, <2>2
<1>8. KeysPassed'
  BY <1>1, <1>2 DEF KeysPassed
<1> QED
  BY <1>1, <1>6, <1>7, <1>8
     DEF ConInv, Ascending, Remembered, BadSince, Con!EventsTellTheCondition, Con!Alerted

\* Nothing that the invariant relates changes.
LEMMA RestKeeps ==
  ASSUME Numbers, ConInv,
         \/ Con!Pass
         \/ \E w \in Worker : Con!Fail(w)
         \/ \E s \in [duration : Durations, suppression : Suppressions] : Con!SaveSettings(s)
         \/ Con!SwitchMode
         \/ UNCHANGED Con!vars
  PROVE  ConInv'
<1>1. /\ clock \in Con!Time /\ clock \in Int /\ none \notin Int
      /\ began \in [Worker -> Con!Time \cup {none}]
      /\ rules \in [duration : Durations, suppression : Suppressions]
      /\ \A i \in DOMAIN events : events[i].key \in Int
      /\ \A w \in Worker : began[w] # none => began[w] \in Int
  BY ConTypes DEF ConInv, Con!TypeOK, Numbers
<1>2. /\ clock' \in Con!Time /\ clock' \in Int /\ clock <= clock'
      /\ rules' \in [duration : Durations, suppression : Suppressions]
      /\ began' \in [Worker -> Con!Time \cup {none}]
      /\ \A w \in Worker : began'[w] # none => began'[w] = began[w]
  <2>1. CASE Con!Pass
    BY <1>1, <2>1 DEF Con!Pass, Con!Time, Numbers
  <2>2. CASE \E w \in Worker : Con!Fail(w)
    BY <1>1, <2>2 DEF Con!Fail
  <2>3. CASE \E s \in [duration : Durations, suppression : Suppressions] : Con!SaveSettings(s)
    BY <1>1, <2>3 DEF Con!SaveSettings
  <2>4. CASE Con!SwitchMode \/ UNCHANGED Con!vars
    BY <1>1, <2>4 DEF Con!SwitchMode, Con!vars
  <2> QED
    BY <2>1, <2>2, <2>3, <2>4
<1>3. CASE condition' = condition /\ checks' = checks /\ events' = events
  <2>1. Con!TypeOK'
    BY <1>2, <1>3 DEF ConInv, Con!TypeOK
  <2>2. OwnTimes'
    <3> SUFFICES ASSUME NEW u \in Worker, began'[u] # none
                 PROVE  /\ began'[u] < clock'
                        /\ \A v \in Worker : began'[v] = began'[u] => v = u
                        /\ \A i \in DOMAIN events : events[i].key # began'[u]
      BY <1>3 DEF OwnTimes
    <3>1. began'[u] = began[u] /\ began[u] # none
      BY <1>2
    <3>2. /\ began[u] < clock /\ began[u] \in Int
          /\ \A v \in Worker : began[v] = began[u] => v = u
          /\ \A i \in DOMAIN events : events[i].key # began[u]
      BY <1>1, <3>1 DEF ConInv, OwnTimes
    <3>3. \A v \in Worker : began'[v] = began'[u] => v = u
      BY <1>2, <3>1, <3>2
    <3> QED
      BY <1>1, <1>2, <3>1, <3>2, <3>3
  <2>3. KeysPassed'
    BY <1>1, <1>2, <1>3 DEF ConInv, KeysPassed
  <2> QED
    BY <1>3, <2>1, <2>2, <2>3
       DEF ConInv, Ascending, Remembered, BadSince, Con!EventsTellTheCondition, Con!Alerted
<1>4. CASE condition' = Con!emptyCondition /\ checks' = <<>> /\ events' = <<>>
  <2>1. DOMAIN <<>> = {} /\ Len(<<>>) = 0
    OBVIOUS
  <2>2. Con!TypeOK'
    BY <1>2, <1>4 DEF Con!TypeOK, Con!emptyCondition
  <2>3. OwnTimes'
    <3> SUFFICES ASSUME NEW u \in Worker, began'[u] # none
                 PROVE  /\ began'[u] < clock'
                        /\ \A v \in Worker : began'[v] = began'[u] => v = u
      BY <1>4, <2>1 DEF OwnTimes
    <3>1. began'[u] = began[u] /\ began[u] # none
      BY <1>2
    <3>2. /\ began[u] < clock /\ began[u] \in Int
          /\ \A v \in Worker : began[v] = began[u] => v = u
      BY <1>1, <3>1 DEF ConInv, OwnTimes
    <3>3. \A v \in Worker : began'[v] = began'[u] => v = u
      BY <1>2, <3>1, <3>2
    <3> QED
      BY <1>1, <1>2, <3>1, <3>2, <3>3
  <2>4. Con!Run(<<>>)' = {}
    BY <2>1 DEF Con!Run
  <2>5. BadSince' /\ Remembered'
    BY <1>4, <2>4 DEF BadSince, KnownSince, Remembered, Con!emptyCondition
  <2>6. Con!EventsTellTheCondition'
    BY <1>4, <2>1 DEF Con!EventsTellTheCondition, Con!Alerted, Con!emptyCondition
  <2> QED
    BY <1>4, <2>1, <2>2, <2>3, <2>5, <2>6 DEF ConInv, KeysPassed, Ascending
<1> QED
  BY <1>3, <1>4 DEF Con!Pass, Con!Fail, Con!SaveSettings, Con!SwitchMode, Con!vars

\* What a check adds to the events: an alert, the end of one, or nothing.
LEMMA CheckEvents ==
  ASSUME Numbers, ConInv, NEW w \in Worker, NEW seen \in Con!Seen, Con!Check(w, seen),
         NEW now, now = began[w]
  PROVE  LET problem  == [kind |-> "problem", key |-> now, check |-> Len(checks) + 1]
             recovery == [kind |-> "recovery", key |-> condition.lastAlert,
                          check |-> Len(checks) + 1]
         IN \/ Con!Raises(seen, now) /\ ~condition.active /\ events' = Append(events, problem)
            \/ /\ ~Con!Raises(seen, now) /\ seen = "good" /\ condition.active
               /\ events' = Append(events, recovery)
            \/ ~Con!Raises(seen, now) /\ ~(seen = "good" /\ condition.active) /\ events' = events
<1> DEFINE n == Len(events)
<1>1. /\ now # none
      /\ events' = IF Con!Raises(seen, now) THEN Con!Recorded("problem", now)
                   ELSE IF seen = "good" /\ condition.active
                        THEN Con!Recorded("recovery", condition.lastAlert) ELSE events
  BY DEF Con!Check
<1>2. Con!Raises(seen, now) => ~condition.active
  BY DEF Con!Raises
<1>3. \A i \in DOMAIN events : events[i].key # now
  BY <1>1 DEF ConInv, OwnTimes
<1>4. condition.active =>
        ~\E i \in DOMAIN events : events[i].kind = "recovery"
                                  /\ events[i].key = condition.lastAlert
  <2> SUFFICES ASSUME condition.active, NEW i \in DOMAIN events,
                      events[i].kind = "recovery", events[i].key = condition.lastAlert
               PROVE  FALSE
    OBVIOUS
  <2>1. /\ n \in Nat /\ DOMAIN events = 1..n
        /\ \A j \in 1..n : events[j].key \in Int
    BY ConTypes
  <2>2. Con!Alerted(events) /\ events # <<>>
    BY DEF ConInv, Con!EventsTellTheCondition, Con!Alerted
  <2>3. condition.lastAlert = events[n].key /\ n \in 1..n /\ n % 2 = 1
    BY <2>1, <2>2, LastAlert
  <2>4. /\ \A j \in 1..n : IF j % 2 = 1 THEN events[j].kind = "problem"
                           ELSE events[j].kind = "recovery"
                                /\ events[j].key = events[j - 1].key
    BY <2>1 DEF ConInv, Con!EventsTellTheCondition
  <2>5. i % 2 # 1 /\ i # 1 /\ i \in 1..n
    BY <2>1, <2>4
  <2>6. i - 1 \in 1..n /\ (i - 1) % 2 = 1
    <3>1. i - 1 \in Nat /\ (i - 1) + 1 = i /\ i - 1 \in 1..n
      BY <2>1, <2>5
    <3> QED
      BY <2>5, <3>1, Parity
  <2>7. /\ events[i - 1].kind = "problem" /\ events[n].kind = "problem"
        /\ events[i].key = events[i - 1].key /\ i - 1 < n
    BY <2>1, <2>3, <2>4, <2>5, <2>6
  <2>8. events[i - 1].key < events[n].key
    BY <2>1, <2>3, <2>6, <2>7 DEF ConInv, Ascending
  <2> QED
    BY <2>1, <2>3, <2>6, <2>7, <2>8
<1> QED
  BY <1>1, <1>2, <1>3, <1>4 DEF Con!Recorded

LEMMA CheckKeeps ==
  ASSUME Numbers, ConInv, NEW w \in Worker, NEW seen \in Con!Seen, Con!Check(w, seen)
  PROVE  ConInv'
<1> PICK now \in Con!Time : now = began[w]
  BY DEF Con!Check, ConInv, Con!TypeOK
<1> DEFINE n == Len(events)
           c == [at |-> now, seen |-> seen]
           problem  == [kind |-> "problem", key |-> now, check |-> Len(checks) + 1]
           recovery == [kind |-> "recovery", key |-> condition.lastAlert,
                        check |-> Len(checks) + 1]
<1>1. /\ condition' = Con!Stepped(seen, now) /\ checks' = Append(checks, c)
      /\ began' = [began EXCEPT ![w] = none]
      /\ clock' = clock /\ rules' = rules
  BY DEF Con!Check
<1>2. /\ n \in Nat /\ DOMAIN events = 1..n /\ events \in Seq(EventRow)
      /\ \A i \in 1..n : events[i] \in EventRow /\ events[i].key \in Int
      /\ checks \in Seq(CheckRow) /\ Len(checks) \in Nat
      /\ Con!Time \subseteq Int /\ none \notin Con!Time
      /\ rules.suppression \in Nat
  BY ConTypes
<1>3. /\ events = <<>> => condition.lastAlert = none
      /\ events # <<>> => /\ n \in 1..n
                          /\ condition.lastAlert = events[n].key
                          /\ condition.lastAlert \in Con!Time /\ condition.lastAlert # none
      /\ Con!Alerted(events) <=> n % 2 = 1
      /\ \A i \in 1..n : events[i].kind = "problem" => events[i].key <= condition.lastAlert
      /\ condition.active <=> Con!Alerted(events)
      /\ condition.active => events # <<>>
  BY <1>2, LastAlert DEF ConInv, Con!EventsTellTheCondition, Con!Alerted
<1>4. c \in CheckRow /\ problem \in EventRow
  BY <1>2 DEF CheckRow, EventRow
<1>5. condition.active => recovery \in EventRow
  BY <1>2, <1>3 DEF EventRow
<1>6. \/ /\ Con!Raises(seen, now) /\ ~condition.active /\ events' = Append(events, problem)
      \/ /\ ~Con!Raises(seen, now) /\ seen = "good" /\ condition.active
         /\ events' = Append(events, recovery)
      \/ ~Con!Raises(seen, now) /\ ~(seen = "good" /\ condition.active) /\ events' = events
  BY CheckEvents
<1>7. /\ began' \in [Worker -> Con!Time \cup {none}] /\ began'[w] = none
      /\ \A v \in Worker \ {w} : began'[v] = began[v]
      /\ now < clock /\ \A v \in Worker \ {w} : began[v] # now
      /\ \A i \in 1..n : events[i].key # now
  BY <1>1, <1>2 DEF ConInv, Con!TypeOK, OwnTimes
<1>8. /\ condition'.active = Con!Active(seen, now) /\ condition'.since = Con!Since(seen, now)
      /\ condition'.lastAlert = (IF Con!Raises(seen, now) THEN now ELSE condition.lastAlert)
      /\ condition'.lastCheck = now
      /\ DOMAIN condition' = {"since", "active", "lastAlert", "lastCheck"}
      /\ condition' \in [since : {Con!Since(seen, now)}, active : {Con!Active(seen, now)},
                         lastAlert : {condition.lastAlert, now}, lastCheck : {now}]
  BY <1>1 DEF Con!Stepped
<1> HIDE DEF c
<1>9. /\ checks' \in Seq(CheckRow) /\ checks' # <<>> /\ checks'[Len(checks')] = c
      /\ c.at = now
  <2>1. Len(checks') = Len(checks) + 1 /\ checks'[Len(checks) + 1] = c
        /\ checks' \in Seq(CheckRow)
    BY <1>1, <1>2, <1>4, AppendProperties
  <2>2. checks' # <<>>
    BY <1>2, <2>1, EmptySeq
  <2> QED
    BY <2>1, <2>2 DEF c
\* The events.
<1>10. \/ events' = events /\ events' \in Seq(EventRow)
       \/ \E e \in {problem, recovery} :
            /\ events' \in Seq(EventRow) /\ DOMAIN events' = 1..n + 1 /\ Len(events') = n + 1
            /\ \A i \in 1..n : events'[i] = events[i]
            /\ events'[n + 1] = e /\ e \in EventRow /\ events' # <<>>
            /\ e = problem => Con!Raises(seen, now) /\ ~condition.active
            /\ e = recovery => /\ ~Con!Raises(seen, now) /\ seen = "good" /\ condition.active
  <2>1. ASSUME NEW e \in EventRow
        PROVE  LET t == Append(events, e)
               IN /\ t \in Seq(EventRow) /\ DOMAIN t = 1..n + 1 /\ Len(t) = n + 1
                  /\ \A i \in 1..n : t[i] = events[i]
                  /\ t[n + 1] = e /\ t # <<>>
    BY <1>2, AppendProperties
  <2>2. problem # recovery
    OBVIOUS
  <2> HIDE DEF problem, recovery
  <2>3. CASE Con!Raises(seen, now) /\ ~condition.active /\ events' = Append(events, problem)
    BY <1>4, <2>1, <2>2, <2>3
  <2>4. CASE /\ ~Con!Raises(seen, now) /\ seen = "good" /\ condition.active
             /\ events' = Append(events, recovery)
    BY <1>5, <2>1, <2>2, <2>4
  <2>5. CASE events' = events
    BY <1>2, <2>5
  <2> QED
    BY <1>6, <2>3, <2>4, <2>5
<1>11. condition'.active <=>
         \/ Con!Raises(seen, now)
         \/ condition.active /\ seen # "good"
  BY <1>8 DEF Con!Active, Con!Raises, Con!Seen
<1>12. Con!TypeOK'
  <2>1. Con!Since(seen, now) \in Con!Time \cup {none}
    BY DEF Con!Since, ConInv, Con!TypeOK
  <2>2. Con!Active(seen, now) \in BOOLEAN
    BY DEF Con!Active, Con!Raises, ConInv, Con!TypeOK
  <2>3. condition.lastAlert \in Con!Time \cup {none}
    BY DEF ConInv, Con!TypeOK
  <2>4. condition' \in [since : Con!Time \cup {none}, active : BOOLEAN,
                        lastAlert : Con!Time \cup {none}, lastCheck : Con!Time \cup {none}]
    BY <1>8, <2>1, <2>2, <2>3
  <2>5. condition'.active => condition'.lastAlert # none
    BY <1>2, <1>3, <1>8, <1>11
  <2>6. events' \in Seq(EventRow)
    BY <1>10
  <2> QED
    BY <1>1, <1>7, <1>9, <2>4, <2>5, <2>6 DEF ConInv, Con!TypeOK, EventRow, CheckRow
<1>13. \A i \in DOMAIN events' : \/ i \in 1..n /\ events'[i] = events[i]
                                 \/ /\ i = n + 1 /\ events'[i] \in {problem, recovery}
                                    /\ events'[i] = recovery => condition.active
  <2> HIDE DEF problem, recovery
  <2> QED
    BY <1>2, <1>10
<1>14. \A i \in DOMAIN events' : events'[i].key < clock'
  <2> SUFFICES ASSUME NEW i \in DOMAIN events'
               PROVE  events'[i].key < clock
    BY <1>1
  <2>1. CASE i \in 1..n /\ events'[i] = events[i]
    BY <1>2, <2>1 DEF ConInv, KeysPassed
  <2>2. CASE events'[i] = problem
    BY <1>7, <2>2
  <2>3. CASE events'[i] = recovery /\ condition.active
    <3>1. condition.lastAlert < clock
      BY <1>2, <1>3, <2>3 DEF ConInv, KeysPassed
    <3> QED
      BY <2>3, <3>1
  <2> QED
    BY <1>13, <2>1, <2>2, <2>3
<1>15. OwnTimes'
  <2> SUFFICES ASSUME NEW u \in Worker, began'[u] # none
               PROVE  /\ began'[u] < clock'
                      /\ \A v \in Worker : began'[v] = began'[u] => v = u
                      /\ \A i \in DOMAIN events' : events'[i].key # began'[u]
    BY DEF OwnTimes
  <2>1. u # w /\ began'[u] = began[u] /\ began[u] # none
    BY <1>7
  <2>2. /\ began[u] < clock
        /\ \A v \in Worker : began[v] = began[u] => v = u
        /\ \A i \in 1..n : events[i].key # began[u]
    BY <1>2, <2>1 DEF ConInv, OwnTimes
  <2>3. \A v \in Worker : began'[v] = began'[u] => v = u
    BY <1>7, <2>1, <2>2
  <2>4. ASSUME NEW i \in DOMAIN events' PROVE events'[i].key # began[u]
    <3>1. CASE i \in 1..n /\ events'[i] = events[i]
      BY <2>2, <3>1
    <3>2. CASE events'[i] = problem
      BY <1>7, <2>1, <3>2
    <3>3. CASE events'[i] = recovery /\ condition.active
      BY <1>3, <2>2, <3>3
    <3> QED
      BY <1>13, <3>1, <3>2, <3>3
  <2> QED
    BY <1>1, <2>1, <2>2, <2>3, <2>4
<1>16. Remembered'
  <2>1. condition'.lastCheck = IF checks' = <<>> THEN none ELSE checks'[Len(checks')].at
    BY <1>8, <1>9
  <2>2. condition'.lastAlert = IF events' = <<>> THEN none ELSE events'[Len(events')].key
    <3>1. CASE events' = events /\ ~Con!Raises(seen, now)
      BY <1>8, <3>1 DEF ConInv, Remembered
    <3>2. CASE events' = Append(events, problem) /\ Con!Raises(seen, now)
      <4>1. events' # <<>> /\ events'[Len(events')] = problem
        BY <1>2, <1>4, <3>2, AppendProperties
      <4> QED
        BY <1>8, <3>2, <4>1
    <3>3. CASE events' = Append(events, recovery) /\ ~Con!Raises(seen, now) /\ condition.active
      <4>1. events' # <<>> /\ events'[Len(events')] = recovery
        BY <1>2, <1>5, <3>3, AppendProperties
      <4> QED
        BY <1>8, <3>3, <4>1
    <3> QED
      BY <1>6, <3>1, <3>2, <3>3
  <2> QED
    BY <2>1, <2>2 DEF Remembered
<1>17. BadSince'
  <2> SUFFICES ASSUME ~condition'.active
               PROVE  KnownSince(checks', Con!Since(seen, now))
    BY <1>8 DEF BadSince, KnownSince, Con!Run
  <2>1. CASE ~condition.active
    BY <1>1, <2>1, SinceStep DEF c
  <2>2. CASE condition.active
    <3>1. seen = "good" /\ seen # "bad"
      BY <1>11, <2>2
    <3>2. Con!Run(checks') = {}
      BY <1>1, <1>2, <1>4, <3>1, RunGrows DEF c
    <3> QED
      BY <3>1, <3>2 DEF KnownSince, Con!Since
  <2> QED
    BY <2>1, <2>2
<1>18. Ascending'
  <2> SUFFICES ASSUME NEW i \in DOMAIN events', NEW j \in DOMAIN events', i < j,
                      events'[i].kind = "problem", events'[j].kind = "problem"
               PROVE  events'[i].key < events'[j].key
    BY DEF Ascending
  <2>1. CASE j \in 1..n
    <3>1. i \in 1..n /\ events'[i] = events[i] /\ events'[j] = events[j]
      BY <1>2, <1>13, <2>1
    <3> QED
      BY <1>2, <2>1, <3>1 DEF ConInv, Ascending
  <2>2. CASE j = n + 1 /\ events'[j] = problem
    <3>1. i \in 1..n /\ events'[i] = events[i]
      BY <1>2, <1>13, <2>2
    <3>2. Con!Raises(seen, now)
      BY <1>2, <1>10, <2>2
    <3>3. events # <<>>
      BY <1>2, <3>1, EmptySeq
    <3>4. /\ condition.lastAlert # none /\ condition.lastAlert \in Int
          /\ now - condition.lastAlert >= rules.suppression
      BY <1>2, <1>3, <3>2, <3>3 DEF Con!Raises
    <3>5. events[i].key <= condition.lastAlert /\ events[i].key \in Int
          /\ events[i].key # now /\ now \in Int
      BY <1>2, <1>3, <1>7, <3>1
    <3>6. events[i].key < now
      BY <1>2, <3>4, <3>5
    <3> QED
      BY <2>2, <3>1, <3>6
  <2> QED
    BY <1>2, <1>13, <2>1, <2>2
<1>19. Con!EventsTellTheCondition'
  <2>1. condition'.active <=> Con!Alerted(events')
    <3>1. CASE events' = events
      BY <1>3, <1>6, <1>10, <1>11, <3>1
    <3>2. CASE events' = Append(events, problem) /\ Con!Raises(seen, now)
      <4>1. events' # <<>> /\ events'[Len(events')] = problem
        BY <1>2, <1>4, <3>2, AppendProperties
      <4> QED
        BY <1>11, <3>2, <4>1 DEF Con!Alerted, Con!Last
    <3>3. CASE /\ events' = Append(events, recovery) /\ ~Con!Raises(seen, now)
               /\ condition.active /\ seen = "good"
      <4>1. events' # <<>> /\ events'[Len(events')] = recovery
        BY <1>2, <1>5, <3>3, AppendProperties
      <4> QED
        BY <1>11, <3>3, <4>1 DEF Con!Alerted, Con!Last
    <3> QED
      BY <1>6, <3>1, <3>2, <3>3
  <2>2. ASSUME NEW i \in DOMAIN events'
        PROVE  IF i % 2 = 1 THEN events'[i].kind = "problem"
               ELSE events'[i].kind = "recovery" /\ events'[i].key = events'[i - 1].key
    <3>1. CASE i \in 1..n /\ events'[i] = events[i]
      <4>1. i % 2 # 1 => i - 1 \in 1..n
        <5>1. i = 1 => i % 2 = 1
          OBVIOUS
        <5> QED
          BY <1>2, <3>1, <5>1
      <4>2. i % 2 # 1 => i - 1 \in DOMAIN events' /\ events'[i - 1] = events[i - 1]
        BY <1>2, <1>10, <4>1
      <4> QED
        BY <1>2, <3>1, <4>2 DEF ConInv, Con!EventsTellTheCondition
    <3>2. CASE i = n + 1 /\ events'[i] = problem
      <4>1. ~condition.active
        BY <1>2, <1>10, <3>2
      <4>2. i % 2 = 1
        BY <1>2, <1>3, <3>2, <4>1, Parity
      <4> QED
        BY <3>2, <4>2
    <3>3. CASE i = n + 1 /\ events'[i] = recovery /\ condition.active
      <4>1. i % 2 # 1 /\ n \in 1..n /\ i - 1 = n
        BY <1>2, <1>3, <3>3, Parity
      <4>2. events'[n] = events[n] /\ condition.lastAlert = events[n].key
        BY <1>2, <1>3, <1>10, <3>3, <4>1
      <4> QED
        BY <3>3, <4>1, <4>2
    <3> QED
      BY <1>13, <3>1, <3>2, <3>3
  <2> QED
    BY <2>1, <2>2 DEF Con!EventsTellTheCondition
<1> QED
  BY <1>12, <1>14, <1>15, <1>16, <1>17, <1>18, <1>19 DEF ConInv, KeysPassed

LEMMA ConStep ==
  ASSUME Numbers
  PROVE  ConInv /\ [Con!Next]_Con!vars => ConInv'
<1> SUFFICES ASSUME ConInv, [Con!Next]_Con!vars PROVE ConInv'
  OBVIOUS
<1>1. ASSUME NEW w \in Worker, Con!Begin(w) PROVE ConInv'
  BY <1>1, BeginKeeps
<1>2. ASSUME NEW w \in Worker, NEW seen \in Con!Seen, Con!Check(w, seen) PROVE ConInv'
  BY <1>2, CheckKeeps
<1> QED
  BY <1>1, <1>2, RestKeeps DEF Con!Next

THEOREM ConInvariant ==
  ASSUME Numbers
  PROVE  Con!Spec => []ConInv
<1>1. Con!Init => ConInv
  BY ConInit
<1>2. ConInv /\ [Con!Next]_Con!vars => ConInv'
  BY ConStep
<1> QED
  BY <1>1, <1>2, PTL DEF Con!Spec

\* Times, settings and events keep their types; a condition that is reported has an alert.
THEOREM ConditionsTypeOK ==
  ASSUME Numbers
  PROVE  Con!Spec => []Con!TypeOK
<1>1. ConInv => Con!TypeOK
  BY DEF ConInv
<1> QED
  BY <1>1, ConInvariant, PTL

\* Alerts and recoveries alternate, and the row agrees with the last event: none is
\* lost to a key that was used before (notifications.ts, refreshEvents, recordEvent).
THEOREM EventsAlwaysTell ==
  ASSUME Numbers
  PROVE  Con!Spec => []Con!EventsTellTheCondition
<1>1. ConInv => Con!EventsTellTheCondition
  BY DEF ConInv
<1> QED
  BY <1>1, ConInvariant, PTL

\* An operator is alerted when the settings ask for it and only then
\* (notification-policy.ts, stepCondition), whatever the order of the checks.
THEOREM AlertsAlwaysWhenDue ==
  ASSUME Numbers
  PROVE  Con!Spec => Con!AlertsWhenDue
<1> DEFINE A == Len(checks') > Len(checks) =>
                  (~Con!Alerted(events) /\ Con!Alerted(events')
                     <=> ~Con!Alerted(events) /\ Con!Due(checks', events))
<1>1. ASSUME ConInv, Con!Next PROVE A
  <2>1. ASSUME NEW w \in Worker, NEW seen \in Con!Seen, Con!Check(w, seen), ~Con!Alerted(events)
        PROVE  Con!Alerted(events') <=> Con!Due(checks', events)
    <3> PICK now \in Con!Time : now = began[w]
      BY <1>1, <2>1 DEF Con!Check, ConInv, Con!TypeOK
    <3>1. ~condition.active
      BY <1>1, <2>1 DEF ConInv, Con!EventsTellTheCondition
    <3>2. checks' = Append(checks, [at |-> now, seen |-> seen])
      BY <2>1 DEF Con!Check
    <3>3. Con!Raises(seen, now) <=> Con!Due(checks', events)
      BY <1>1, <3>1, <3>2, RaisesWhenDue
    <3>4. \/ /\ Con!Raises(seen, now)
             /\ events' = Append(events, [kind |-> "problem", key |-> now,
                                          check |-> Len(checks) + 1])
          \/ ~Con!Raises(seen, now) /\ events' = events
      BY <1>1, <2>1, <3>1, CheckEvents
    <3>5. Con!Alerted(events') <=> Con!Raises(seen, now)
      <4>1. CASE events' = events /\ ~Con!Raises(seen, now)
        BY <2>1, <4>1
      <4>2. CASE /\ Con!Raises(seen, now)
                 /\ events' = Append(events, [kind |-> "problem", key |-> now,
                                              check |-> Len(checks) + 1])
        <5> DEFINE e == [kind |-> "problem", key |-> now, check |-> Len(checks) + 1]
        <5>1. e \in EventRow /\ events \in Seq(EventRow) /\ Len(events) \in Nat
              /\ e.kind = "problem"
          BY <1>1, ConTypes DEF EventRow
        <5>2. events' = Append(events, e)
          BY <4>2
        <5> HIDE DEF e
        <5>3. events' # <<>> /\ events'[Len(events')] = e
          BY <5>1, <5>2, AppendProperties
        <5> QED
          BY <4>2, <5>1, <5>3 DEF Con!Alerted, Con!Last
      <4> QED
        BY <3>4, <4>1, <4>2
    <3> QED
      BY <3>3, <3>5
  <2>2. CASE \E w \in Worker, seen \in Con!Seen : Con!Check(w, seen)
    BY <2>1, <2>2
  <2>3. CASE checks' = checks
    BY <1>1, <2>3, ConTypes
  <2>4. CASE Con!SwitchMode
    <3>1. checks' = <<>> /\ Len(<<>>) = 0 /\ Len(checks) \in Nat
      BY <1>1, <2>4, ConTypes DEF Con!SwitchMode
    <3> QED
      BY <3>1
  <2> QED
    BY <1>1, <2>2, <2>3, <2>4 DEF Con!Next, Con!Begin, Con!Pass, Con!Fail, Con!SaveSettings
<1>2. ConInv /\ [Con!Next]_Con!vars => [A]_Con!vars
  BY <1>1
<1> QED
  BY <1>2, ConInvariant, PTL DEF Con!Spec, Con!AlertsWhenDue
=============================================================================
