--------------------------- MODULE SimulatorProofs ---------------------------
(***************************************************************************)
(* The simulator's window, for any number of commands and of faults: once  *)
(* the newest command is confirmed, none moves the window.  The reason is  *)
(* an order.  The ids of the commands that may still move the window (the  *)
(* line: the one the executor works on, its queue, what was polled and not *)
(* yet drained) increase, and what is reported came out of the front of    *)
(* the line.  So a report of the newest command has an empty line behind   *)
(* it, and the server, for which only the newest waits, gives no other.    *)
(*                                                                         *)
(* The second part is of the model service (Jobs!): its training and       *)
(* rollback, whose files are safe because of the lock.                     *)
(***************************************************************************)
EXTENDS SimulatorCommands, WellFoundedInduction, SequenceTheorems, FiniteSetTheorems, TLAPS

\* What the sequences hold, as in TypeOK.
Report == [ids : Seq(Issued), open : BOOLEAN, last : BOOLEAN, old : BOOLEAN]
Event == [kind : {"received", "accepted"}, id : Issued]
Acceptance == [kind : {"accepted"}, id : Issued]
State == [queued : Seq(Issued), seen : SUBSET Issued, done : SUBSET Issued,
          again : Seq(Issued)]

\* The line of commands that may still move the window: one in work, those in the queue
\* and those polled, on their way through _events.
Arrived(n) == {events[i].id : i \in {j \in 1..n : events[j].kind = "received"}}
Coming == Arrived(Len(events))
Line == ({active} \ {0}) \cup Range(queued) \cup Coming

Sorted(q) == \A i, j \in 1..Len(q) : i < j => q[i] < q[j]
Told(q) == UNION {Ids(q[i]) : i \in 1..Len(q)}
Apart(q) == \A i, j \in 1..Len(q) : i # j => Ids(q[i]) \cap Ids(q[j]) = {}

InLine ==
  /\ Sorted(queued)
  /\ active # 0 => \A c \in Range(queued) \cup Coming : active < c
  /\ \A c \in Range(queued), d \in Coming : c < d
  /\ \A i, j \in 1..Len(events) :
       i < j /\ events[i].kind = "received" /\ events[j].kind = "received"
       => events[i].id < events[j].id

\* What is reported and what is done is older than what is in line, and the network
\* thread knows all of it, so it polls nothing a second time.
ReportsFirst == \A c \in Told(acks \o inbox), d \in Line : c < d
DoneFirst == \A d \in done, c \in Line : d <= c
AllKnown == Line \cup Told(acks \o inbox) \subseteq known

\* At the server only the newest waits, and when it is confirmed nobody is in line.
NewestWaits == \A c \in Issued : status[c] = "pending" => c = Len(status)
Settled == status # <<>> /\ status[Len(status)] = "applied" => Line = {}

\* The inductive invariant.
IInv ==
  /\ InLine /\ again = <<>> /\ Apart(acks \o inbox) /\ ReportsFirst /\ DoneFirst
  /\ AllKnown /\ NewestWaits /\ Settled

-----------------------------------------------------------------------------
\* Induction, said of a set of numbers.
LEMMA AllNumbers ==
  ASSUME NEW T \in SUBSET Nat, 0 \in T, \A n \in T : n + 1 \in T
  PROVE  T = Nat
<1> DEFINE U == Nat \ T
<1>1. ASSUME U # {} PROVE FALSE
  <2>1. PICK x \in U : \A y \in U : ~(<<y, x>> \in OpToRel(<, Nat))
    BY <1>1, NatLessThanWellFounded, WFMin
  <2>2. \A y \in U : ~(y < x)
    BY <2>1 DEF OpToRel
  <2>3. x # 0 /\ x \in Nat /\ x - 1 \in Nat
    OBVIOUS
  <2>4. x - 1 \in T
    BY <2>2, <2>3
  <2> QED
    BY <2>3, <2>4
<1> QED
  BY <1>1

\* What holds at the start and is kept by each step holds at the end.
LEMMA UpTo ==
  ASSUME NEW n \in Nat, NEW T \in SUBSET (0..n), 0 \in T,
         \A i \in 1..n : i - 1 \in T => i \in T
  PROVE  n \in T
<1> DEFINE U == {k \in Nat : k <= n => k \in T}
<1>1. 0 \in U /\ \A k \in U : k + 1 \in U
  OBVIOUS
<1>2. U = Nat
  <2> HIDE DEF U
  <2>1. U \in SUBSET Nat
    BY DEF U
  <2> QED
    BY <1>1, <2>1, AllNumbers
<1> QED
  BY <1>2

-----------------------------------------------------------------------------
\* What TypeOK says of the sequences and of the line.
LEMMA Types ==
  ASSUME TypeOK
  PROVE  /\ Len(status) \in Nat /\ Issued = 1..Len(status)
         /\ Issued \subseteq Nat /\ 0 \notin Issued
         /\ events \in Seq(Event) /\ inbox \in Seq(Report) /\ acks \in Seq(Report)
         /\ acks \o inbox \in Seq(Report)
         /\ Line \subseteq Issued /\ Told(acks \o inbox) \subseteq Issued
<1>1. /\ Len(status) \in Nat /\ Issued = 1..Len(status)
      /\ Issued \subseteq Nat /\ 0 \notin Issued
      /\ events \in Seq(Event) /\ inbox \in Seq(Report) /\ acks \in Seq(Report)
  BY DEF TypeOK, Issued, Event, Report
<1>2. acks \o inbox \in Seq(Report)
  BY <1>1
<1>3. Coming \subseteq Issued
  <2>1. \A e \in Event : e.id \in Issued
    BY DEF Event
  <2>2. \A i \in 1..Len(events) : events[i] \in Event
    BY <1>1
  <2> QED
    BY <2>1, <2>2 DEF Coming, Arrived
<1>4. Range(queued) \subseteq Issued /\ active \in Issued \cup {0}
  BY DEF TypeOK, Range
<1>5. Told(acks \o inbox) \subseteq Issued
  <2>1. \A r \in Report : Ids(r) \subseteq Issued
    BY DEF Ids, Range, Report
  <2> QED
    BY <1>2, <2>1 DEF Told
<1> QED
  BY <1>1, <1>2, <1>3, <1>4, <1>5 DEF Line

\* All confirmations are taken: their commands are known.
LEMMA AllTaken ==
  ASSUME TypeOK, AllKnown, Take
  PROVE  acks' = acks \o inbox
<1> DEFINE n == Len(inbox)
           kept == CHOOSE h : h = [i \in 0..n |->
                     IF i = 0 THEN acks
                     ELSE IF Ids(inbox[i]) \subseteq known THEN Append(h[i - 1], inbox[i])
                     ELSE h[i - 1]]
           g == [i \in 0..n |-> acks \o SubSeq(inbox, 1, i)]
           T == {i \in 0..n : kept[i] = g[i]}
<1>1. acks' = kept[n]
  BY DEF Take
<1>2. n \in Nat /\ inbox \in Seq(Report) /\ acks \in Seq(Report)
  BY Types
<1>3. \A i \in 1..n : Ids(inbox[i]) \subseteq known
  <2> TAKE i \in 1..n
  <2>1. (acks \o inbox)[Len(acks) + i] = inbox[i] /\ Len(acks) + i \in 1..Len(acks \o inbox)
    BY <1>2
  <2> QED
    BY <2>1 DEF AllKnown, Told
<1>4. g[0] = acks
  BY <1>2
<1>5. ASSUME NEW i \in 1..n PROVE g[i] = Append(g[i - 1], inbox[i])
  <2>1. i \in 0..n /\ i - 1 \in 0..n /\ inbox[i] \in Report
    BY <1>2
  <2>2. /\ SubSeq(inbox, 1, i - 1) \in Seq(Report)
        /\ SubSeq(inbox, 1, i) = Append(SubSeq(inbox, 1, i - 1), inbox[i])
    BY <1>2
  <2>3. \A s \in Seq(Report), r \in Report : acks \o Append(s, r) = Append(acks \o s, r)
    BY <1>2
  <2> QED
    BY <2>1, <2>2, <2>3
<1>6. g = [i \in 0..n |->
             IF i = 0 THEN acks
             ELSE IF Ids(inbox[i]) \subseteq known THEN Append(g[i - 1], inbox[i])
             ELSE g[i - 1]]
  <2> HIDE DEF n
  <2>1. g = [i \in 0..n |-> g[i]]
    OBVIOUS
  <2> HIDE DEF g
  <2>2. ASSUME NEW i \in 0..n
        PROVE  g[i] = IF i = 0 THEN acks
                      ELSE IF Ids(inbox[i]) \subseteq known THEN Append(g[i - 1], inbox[i])
                      ELSE g[i - 1]
    <3>1. CASE i = 0
      BY <1>4, <3>1
    <3>2. CASE i # 0
      <4>1. i \in 1..n
        BY <1>2, <3>2
      <4> QED
        BY <1>3, <1>5, <3>2, <4>1
    <3> QED
      BY <3>1, <3>2
  <2> QED
    BY <2>1, <2>2
<1>7. kept = [i \in 0..n |->
                IF i = 0 THEN acks
                ELSE IF Ids(inbox[i]) \subseteq known THEN Append(kept[i - 1], inbox[i])
                ELSE kept[i - 1]]
  BY <1>6, Zenon
<1> HIDE DEF kept, g
<1>8. 0 \in T /\ \A i \in 1..n : i - 1 \in T => i \in T
  <2> HIDE DEF n
  <2>1. 0 \in 0..n /\ \A i \in 1..n : i \in 0..n /\ i - 1 \in 0..n /\ i # 0
    BY <1>2
  <2>2. kept[0] = acks
    BY <1>7, <2>1
  <2>3. \A i \in 1..n : kept[i] = Append(kept[i - 1], inbox[i])
    BY <1>3, <1>7, <2>1
  <2> QED
    BY <1>4, <1>5, <2>1, <2>2, <2>3
<1>9. n \in T
  <2> HIDE DEF T, n
  <2>1. T \in SUBSET (0..n)
    BY DEF T
  <2> QED
    BY <1>2, <1>8, <2>1, UpTo
<1>10. g[n] = acks \o inbox
  BY <1>2 DEF g
<1> QED
  BY <1>1, <1>9, <1>10

-----------------------------------------------------------------------------
\* What one event does to the executor, and what it has come to after i of them.
Heard(ex, e) == IF e.kind = "received" THEN Enqueued(ex, e.id) ELSE Accepted(ex, e.id)
After(i, ex) ==
  /\ ex \in State /\ Sorted(ex.queued)
  /\ Range(ex.queued) \subseteq Range(queued) \cup Arrived(i)
  /\ Range(ex.again) \subseteq done \cap Arrived(i)
  /\ Range(ex.again) \cap Range(ex.queued) = {}
  /\ ex.done \subseteq done

\* A command put at the end of a queue.
LEMMA AppendRange ==
  ASSUME NEW S, NEW q \in Seq(S), NEW c \in S
  PROVE  Append(q, c) \in Seq(S) /\ Range(Append(q, c)) = Range(q) \cup {c}
<1>1. Append(q, c) \in Seq(S) /\ Len(Append(q, c)) = Len(q) + 1 /\ Len(q) \in Nat
  OBVIOUS
<1>2. \A i \in 1..(Len(q) + 1) : Append(q, c)[i] = IF i = Len(q) + 1 THEN c ELSE q[i]
  OBVIOUS
<1>3. Range(Append(q, c)) = {Append(q, c)[i] : i \in 1..(Len(q) + 1)}
  BY <1>1 DEF Range
<1>4. Range(q) = {q[i] : i \in 1..Len(q)}
  BY DEF Range
<1>5. /\ Len(q) + 1 \in 1..(Len(q) + 1)
      /\ \A i \in 1..Len(q) : i \in 1..(Len(q) + 1) /\ i # Len(q) + 1
  BY <1>1
<1>6. ASSUME NEW i \in 1..(Len(q) + 1), i # Len(q) + 1 PROVE i \in 1..Len(q)
  BY <1>1, <1>6
<1> QED
  BY <1>1, <1>2, <1>3, <1>4, <1>5, <1>6

\* A queue stays sorted when the newest comes last.
LEMMA AppendSorted ==
  ASSUME NEW S \in SUBSET Nat, NEW q \in Seq(S), NEW c \in S, Sorted(q),
         \A d \in Range(q) : d < c
  PROVE  Sorted(Append(q, c))
<1>1. \A i \in 1..Len(q) : q[i] < c
  BY DEF Range
<1> QED
  BY <1>1 DEF Sorted

\* A polled command is newer than the queue and than what came before it.
LEMMA HeardKeeps ==
  ASSUME TypeOK, InLine, NEW i \in 1..Len(events), NEW ex, After(i - 1, ex)
  PROVE  After(i, Heard(ex, events[i]))
<1> DEFINE e == events[i]
           c == e.id
<1>1. e \in Event /\ c \in Issued /\ Issued \subseteq Nat /\ Len(events) \in Nat
  <2>1. e \in Event /\ Issued \subseteq Nat /\ Len(events) \in Nat
    BY Types
  <2> HIDE DEF e
  <2> QED
    BY <2>1 DEF Event
<1> HIDE DEF c
<1>2. Arrived(i - 1) \subseteq Arrived(i)
  BY <1>1 DEF Arrived
<1>3. /\ ex \in State
      /\ ex.queued \in Seq(Issued) /\ ex.again \in Seq(Issued)
      /\ ex.seen \in SUBSET Issued /\ ex.done \in SUBSET Issued
  BY DEF After, State
<1>4. CASE e.kind # "received"
  <2>1. Heard(ex, e) = [ex EXCEPT !.seen = @ \ {c}, !.done = @ \ {c}]
    BY <1>4 DEF Heard, Accepted, c
  <2>2. /\ Heard(ex, e) \in State /\ Heard(ex, e).queued = ex.queued
        /\ Heard(ex, e).again = ex.again /\ Heard(ex, e).done \subseteq ex.done
    BY <1>3, <2>1 DEF State
  <2> QED
    BY <1>2, <2>2 DEF After
<1>5. CASE e.kind = "received"
  <2>1. c \in Arrived(i) /\ c \in Coming
    BY <1>1, <1>5 DEF Arrived, Coming, c
  <2>2. \A d \in Arrived(i - 1) : d < c
    <3> TAKE d \in Arrived(i - 1)
    <3>1. PICK j \in 1..(i - 1) : events[j].kind = "received" /\ d = events[j].id
      BY DEF Arrived
    <3>2. j \in 1..Len(events) /\ j < i
      BY <1>1
    <3> QED
      BY <1>5, <3>1, <3>2 DEF InLine, c
  <2>3. \A d \in Range(queued) : d < c
    BY <2>1 DEF InLine
  <2>4. \A d \in Range(ex.queued) \cup Range(ex.again) : d < c
    BY <2>2, <2>3 DEF After
  <2>5. Heard(ex, e) = Enqueued(ex, c)
    BY <1>5 DEF Heard, c
  <2>6. CASE Enqueued(ex, c) = ex
    BY <1>2, <2>5, <2>6 DEF After
  <2>7. CASE Enqueued(ex, c) = [ex EXCEPT !.seen = @ \cup {c}, !.queued = Append(@, c)]
    <3> DEFINE f == Enqueued(ex, c)
               q == Append(ex.queued, c)
    <3>1. q \in Seq(Issued) /\ Range(q) = Range(ex.queued) \cup {c}
      BY <1>1, <1>3, AppendRange
    <3>2. Sorted(q)
      BY <1>1, <1>3, <2>4, AppendSorted DEF After
    <3>3. f.queued = q /\ f.again = ex.again /\ f.done = ex.done /\ f \in State
      <4>1. f = [ex EXCEPT !.seen = @ \cup {c}, !.queued = q]
        BY <2>7
      <4> HIDE DEF f, q
      <4>2. ex.seen \cup {c} \in SUBSET Issued
        BY <1>1, <1>3
      <4> QED
        BY <1>3, <3>1, <4>1, <4>2 DEF State
    <3>4. c \notin Range(ex.again)
      <4>1. c \in Nat /\ ~(c < c)
        BY <1>1
      <4> QED
        BY <2>4, <4>1
    <3> HIDE DEF f, q
    <3>5. Range(f.again) \cap Range(f.queued) = {}
      BY <3>1, <3>3, <3>4 DEF After
    <3>6. Range(f.queued) \subseteq Range(queued) \cup Arrived(i)
      BY <1>2, <2>1, <3>1, <3>3 DEF After
    <3>7. After(i, f)
      BY <1>2, <3>2, <3>3, <3>5, <3>6 DEF After
    <3> QED
      BY <2>5, <3>7 DEF f
  <2>8. CASE c \in ex.done /\ Enqueued(ex, c) = [ex EXCEPT !.again = Append(@, c)]
    <3> DEFINE f == Enqueued(ex, c)
               q == Append(ex.again, c)
    <3>1. q \in Seq(Issued) /\ Range(q) = Range(ex.again) \cup {c}
      BY <1>1, <1>3, AppendRange
    <3>2. f.queued = ex.queued /\ f.again = q /\ f.done = ex.done /\ f \in State
      BY <1>1, <1>3, <2>8, <3>1 DEF State
    <3>3. c \notin Range(ex.queued) /\ c \in done
      <4>1. c \in Nat /\ ~(c < c)
        BY <1>1
      <4> QED
        BY <2>4, <2>8, <4>1 DEF After
    <3> HIDE DEF f, q
    <3>4. Range(f.again) \cap Range(f.queued) = {}
      BY <3>1, <3>2, <3>3 DEF After
    <3>5. Range(f.again) \subseteq done \cap Arrived(i)
      BY <1>2, <2>1, <3>1, <3>2, <3>3 DEF After
    <3>6. After(i, f)
      BY <1>2, <3>2, <3>4, <3>5 DEF After
    <3> QED
      BY <2>5, <3>6 DEF f
  <2> QED
    BY <2>6, <2>7, <2>8 DEF Enqueued
<1> QED
  BY <1>4, <1>5

\* The executor's members keep their types.
LEMMA HeardType ==
  ASSUME TypeOK, NEW i \in 1..Len(events), NEW ex \in State
  PROVE  Heard(ex, events[i]) \in State
<1> DEFINE c == events[i].id
<1>1. c \in Issued
  <2>1. events[i] \in Event
    BY Types
  <2> QED
    BY <2>1 DEF Event
<1> HIDE DEF c
<1>2. /\ [ex EXCEPT !.seen = @ \cup {c}, !.queued = Append(@, c)] \in State
      /\ [ex EXCEPT !.again = Append(@, c)] \in State
      /\ [ex EXCEPT !.seen = @ \ {c}, !.done = @ \ {c}] \in State
  <2>1. ex.queued \in Seq(Issued) /\ ex.again \in Seq(Issued)
    BY DEF State
  <2>2. Append(ex.queued, c) \in Seq(Issued) /\ Append(ex.again, c) \in Seq(Issued)
    BY <1>1, <2>1
  <2> QED
    BY <1>1, <2>2 DEF State
<1>3. Enqueued(ex, c) \in State /\ Accepted(ex, c) \in State
  BY <1>2 DEF Enqueued, Accepted
<1> QED
  BY <1>3 DEF Heard, c

\* The states that the executor comes through, one for each event.
LEMMA AllHeard ==
  ASSUME TypeOK, NEW x \in State
  PROVE  \E g \in [0..Len(events) -> State] :
           g[0] = x /\ \A i \in 1..Len(events) : g[i] = Heard(g[i - 1], events[i])
<1> DEFINE n == Len(events)
           Reached(k) == \E g \in [0..k -> State] :
                           g[0] = x /\ \A i \in 1..k : g[i] = Heard(g[i - 1], events[i])
           T == {k \in Nat : k <= n => Reached(k)}
<1>1. n \in Nat
  BY Types
<1> HIDE DEF n
<1>2. 0 \in T
  <2> DEFINE g == [i \in 0..0 |-> x]
  <2>1. g \in [0..0 -> State] /\ g[0] = x /\ \A i \in 1..0 : g[i] = Heard(g[i - 1], events[i])
    OBVIOUS
  <2>2. Reached(0)
    BY <2>1
  <2> QED
    BY <2>2
<1>3. ASSUME NEW k \in T PROVE k + 1 \in T
  <2> SUFFICES ASSUME k + 1 <= n PROVE Reached(k + 1)
    OBVIOUS
  <2>1. PICK g \in [0..k -> State] :
          g[0] = x /\ \A i \in 1..k : g[i] = Heard(g[i - 1], events[i])
    BY <1>1
  <2> DEFINE h == [i \in 0..(k + 1) |-> IF i <= k THEN g[i] ELSE Heard(g[k], events[k + 1])]
  <2>2. h \in [0..(k + 1) -> State]
    <3>1. g[k] \in State /\ Heard(g[k], events[k + 1]) \in State
      <4>1. g[k] \in State /\ k + 1 \in 1..n
        BY <1>1, <2>1
      <4> QED
        BY <4>1, HeardType DEF n
    <3> QED
      BY <2>1, <3>1
  <2>3. h[0] = x
    BY <2>1
  <2>4. ASSUME NEW i \in 1..(k + 1) PROVE h[i] = Heard(h[i - 1], events[i])
    <3>1. CASE i <= k
      BY <2>1, <3>1
    <3>2. CASE i = k + 1
      BY <2>1, <3>2
    <3> QED
      BY <3>1, <3>2
  <2> QED
    BY <2>2, <2>3, <2>4
<1>4. T = Nat
  <2> HIDE DEF T
  <2>1. T \in SUBSET Nat
    BY DEF T
  <2> QED
    BY <1>2, <1>3, <2>1, AllNumbers
<1>5. Reached(n)
  BY <1>1, <1>4
<1> QED
  BY <1>5 DEF n

\* What a tick finds when it has heard every event.
LEMMA DrainedIs ==
  ASSUME TypeOK, InLine, again = <<>>
  PROVE  After(Len(events), Drained)
<1> DEFINE n == Len(events)
           x == [queued |-> queued, seen |-> seen, done |-> done, again |-> again]
           after == CHOOSE h : h = [i \in 0..n |->
             IF i = 0 THEN x
             ELSE IF events[i].kind = "received" THEN Enqueued(h[i - 1], events[i].id)
             ELSE Accepted(h[i - 1], events[i].id)]
           T == {i \in 0..n : After(i, after[i])}
<1>1. Drained = after[n]
  BY DEF Drained
<1>2. n \in Nat
  BY Types
<1>3. x \in State
  BY DEF TypeOK, State
<1>4. PICK g \in [0..n -> State] :
        g[0] = x /\ \A i \in 1..n : g[i] = Heard(g[i - 1], events[i])
  <2> HIDE DEF x, after, T
  <2> QED
    BY <1>3, AllHeard
<1>5. g = [i \in 0..n |->
             IF i = 0 THEN x
             ELSE IF events[i].kind = "received" THEN Enqueued(g[i - 1], events[i].id)
             ELSE Accepted(g[i - 1], events[i].id)]
  <2> HIDE DEF n, x
  <2>1. g = [i \in 0..n |-> g[i]]
    OBVIOUS
  <2>2. ASSUME NEW i \in 0..n
        PROVE  g[i] = IF i = 0 THEN x
             ELSE IF events[i].kind = "received" THEN Enqueued(g[i - 1], events[i].id)
             ELSE Accepted(g[i - 1], events[i].id)
    <3>1. CASE i = 0
      BY <1>4, <3>1
    <3>2. CASE i # 0
      <4>1. i \in 1..n
        BY <1>2, <3>2
      <4> QED
        BY <1>4, <3>2, <4>1 DEF Heard
    <3> QED
      BY <3>1, <3>2
  <2> QED
    BY <2>1, <2>2
<1>6. after = [i \in 0..n |->
             IF i = 0 THEN x
             ELSE IF events[i].kind = "received" THEN Enqueued(after[i - 1], events[i].id)
             ELSE Accepted(after[i - 1], events[i].id)]
  BY <1>5, Zenon
<1> HIDE DEF after
<1>7. 0 \in 0..n /\ \A i \in 1..n : i \in 0..n /\ i - 1 \in 0..n /\ i # 0
  BY <1>2
<1>8. after[0] = x
  BY <1>6, <1>7
<1>9. \A i \in 1..n : after[i] = Heard(after[i - 1], events[i])
  BY <1>6, <1>7 DEF Heard
<1>10. After(0, x)
  <2>1. Range(queued) \subseteq Range(queued) \cup Arrived(0) /\ Range(again) = {}
    BY DEF Range
  <2> QED
    BY <1>3, <2>1 DEF After, InLine
<1>11. \A i \in 1..n : i - 1 \in T => i \in T
  BY <1>7, <1>9, HeardKeeps
<1>12. n \in T
  <2> HIDE DEF T, n
  <2>1. T \in SUBSET (0..n) /\ 0 \in T
    BY <1>7, <1>8, <1>10 DEF T
  <2> QED
    BY <1>2, <1>11, <2>1, UpTo
<1> QED
  BY <1>1, <1>12

-----------------------------------------------------------------------------
\* A confirmation changes nothing but commands of the report that still wait.
LEMMA ConfirmedIs ==
  ASSUME TypeOK, NEW r
  PROVE  /\ Confirmed(r) \in Seq({"pending", "applied", "expired", "cancelled"})
         /\ Len(Confirmed(r)) = Len(status)
         /\ \A c \in Issued : \/ Confirmed(r)[c] = status[c]
                             \/ /\ status[c] = "pending" /\ Confirmed(r)[c] = "applied"
                                /\ c \in Ids(r)
<1>1. status \in Seq({"pending", "applied", "expired", "cancelled"})
  BY DEF TypeOK
<1>2. \A c \in Issued : status[c] \in {"pending", "applied", "expired", "cancelled"}
  BY <1>1 DEF Issued
<1>3. Issued = 1..Len(status) /\ Len(status) \in Nat
  BY Types
<1> DEFINE P(c) == ~r.old /\ c \in Ids(r) /\ status[c] = "pending" /\ want[c] = r.open
<1>4. Confirmed(r) = [c \in Issued |-> IF P(c) THEN "applied" ELSE status[c]]
  BY DEF Confirmed
<1>5. \A c \in Issued : P(c) => c \in Ids(r) /\ status[c] = "pending"
  OBVIOUS
<1> HIDE DEF P
<1> QED
  BY <1>2, <1>3, <1>4, <1>5

\* What a first report says is said by no other.
LEMMA TailTold ==
  ASSUME TypeOK, NEW q \in Seq(Report), q # <<>>
  PROVE  /\ Tail(q) \in Seq(Report) /\ Head(q) \in Report
         /\ Told(q) = Ids(Head(q)) \cup Told(Tail(q))
         /\ Apart(q) => Apart(Tail(q)) /\ Ids(Head(q)) \cap Told(Tail(q)) = {}
<1>1. /\ Len(q) \in Nat /\ Len(q) >= 1 /\ Tail(q) \in Seq(Report) /\ Head(q) = q[1]
      /\ Len(Tail(q)) = Len(q) - 1 /\ \A i \in 1..(Len(q) - 1) : Tail(q)[i] = q[i + 1]
  OBVIOUS
<1>2. Head(q) \in Report
  BY <1>1
<1>3. Told(q) = Ids(Head(q)) \cup Told(Tail(q))
  <2>1. ASSUME NEW c \in Told(q) PROVE c \in Ids(Head(q)) \cup Told(Tail(q))
    <3>1. PICK i \in 1..Len(q) : c \in Ids(q[i])
      BY DEF Told
    <3>2. CASE i = 1
      BY <1>1, <3>1, <3>2
    <3>3. CASE i # 1
      <4>1. i - 1 \in 1..Len(Tail(q)) /\ Tail(q)[i - 1] = q[i]
        BY <1>1, <3>3
      <4> QED
        BY <3>1, <4>1 DEF Told
    <3> QED
      BY <3>2, <3>3
  <2>2. Ids(Head(q)) \subseteq Told(q)
    BY <1>1 DEF Told
  <2>3. ASSUME NEW c \in Told(Tail(q)) PROVE c \in Told(q)
    <3>1. PICK i \in 1..Len(Tail(q)) : c \in Ids(Tail(q)[i])
      BY DEF Told
    <3>2. i + 1 \in 1..Len(q) /\ Tail(q)[i] = q[i + 1]
      BY <1>1
    <3> QED
      BY <3>1, <3>2 DEF Told
  <2> QED
    BY <2>1, <2>2, <2>3
<1>4. ASSUME Apart(q) PROVE Apart(Tail(q)) /\ Ids(Head(q)) \cap Told(Tail(q)) = {}
  <2>1. ASSUME NEW i \in 1..Len(Tail(q)), NEW j \in 1..Len(Tail(q)), i # j
        PROVE  Ids(Tail(q)[i]) \cap Ids(Tail(q)[j]) = {}
    <3>1. /\ i + 1 \in 1..Len(q) /\ Tail(q)[i] = q[i + 1]
          /\ j + 1 \in 1..Len(q) /\ Tail(q)[j] = q[j + 1] /\ i + 1 # j + 1
      BY <1>1, <2>1
    <3> QED
      BY <1>4, <3>1 DEF Apart
  <2>2. ASSUME NEW i \in 1..Len(Tail(q)) PROVE Ids(Head(q)) \cap Ids(Tail(q)[i]) = {}
    <3>1. i + 1 \in 1..Len(q) /\ Tail(q)[i] = q[i + 1] /\ i + 1 # 1 /\ 1 \in 1..Len(q)
      BY <1>1
    <3> QED
      BY <1>1, <1>4, <3>1 DEF Apart
  <2>3. Apart(Tail(q))
    BY <2>1 DEF Apart
  <2>4. Ids(Head(q)) \cap Told(Tail(q)) = {}
    BY <2>2 DEF Told
  <2> QED
    BY <2>3, <2>4
<1> QED
  BY <1>1, <1>2, <1>3, <1>4

\* The first confirmation leaves.
LEMMA FirstLeaves ==
  ASSUME TypeOK, acks # <<>>
  PROVE  /\ Tail(acks) \o inbox = Tail(acks \o inbox) /\ Head(acks) = Head(acks \o inbox)
         /\ acks \o inbox # <<>> /\ acks \o inbox \in Seq(Report)
         /\ acks \in Seq(Report) /\ inbox \in Seq(Report)
         /\ Head(acks) \in Report /\ Tail(acks) \in Seq(Report)
<1>1. acks \in Seq(Report) /\ inbox \in Seq(Report)
  BY Types
<1>2. Tail(acks) \o inbox = Tail(acks \o inbox)
  <2>1. Len(Tail(acks) \o inbox) = Len(Tail(acks \o inbox))
    BY <1>1
  <2>2. \A i \in 1..Len(Tail(acks) \o inbox) :
          (Tail(acks) \o inbox)[i] = Tail(acks \o inbox)[i]
    BY <1>1
  <2>3. Tail(acks) \o inbox \in Seq(Report) /\ Tail(acks \o inbox) \in Seq(Report)
    BY <1>1
  <2> QED
    BY <2>1, <2>2, <2>3
<1> QED
  BY <1>1, <1>2

\* Answers of the server, to the first report of those that wait or to none.
LEMMA AnswerKeeps ==
  ASSUME TypeOK, NewestWaits, Settled, ReportsFirst, acks # <<>>,
         status' \in {status, Confirmed(Head(acks))}, Line' = Line
  PROVE  /\ status' \in Seq({"pending", "applied", "expired", "cancelled"})
         /\ Len(status') = Len(status) /\ Issued' = Issued
         /\ NewestWaits' /\ Settled'
<1>1. /\ status' \in Seq({"pending", "applied", "expired", "cancelled"})
      /\ Len(status') = Len(status)
      /\ \A c \in Issued : \/ status'[c] = status[c]
                          \/ /\ status[c] = "pending" /\ status'[c] = "applied"
                             /\ c \in Ids(Head(acks))
  <2>1. CASE status' = status
    BY <2>1 DEF TypeOK
  <2>2. CASE status' = Confirmed(Head(acks))
    BY <2>2, ConfirmedIs
  <2> QED
    BY <2>1, <2>2
<1>2. /\ Issued' = Issued /\ Issued = 1..Len(status) /\ Len(status) \in Nat
      /\ Line \subseteq Issued
  BY <1>1, Types DEF Issued
<1>3. NewestWaits'
  BY <1>1, <1>2 DEF NewestWaits
<1>4. Settled'
  <2> SUFFICES ASSUME status' # <<>>, status'[Len(status)] = "applied" PROVE Line = {}
    BY <1>1 DEF Settled
  <2>1. Len(status) \in Issued
    BY <1>1, <1>2
  <2>2. CASE status[Len(status)] = "applied"
    BY <1>2, <2>1, <2>2 DEF Settled
  <2>3. CASE Len(status) \in Ids(Head(acks))
    <3>1. Len(status) \in Told(acks \o inbox)
      <4>1. Told(acks \o inbox) = Ids(Head(acks \o inbox)) \cup Told(Tail(acks \o inbox))
        BY FirstLeaves, TailTold
      <4> QED
        BY <2>3, <4>1, FirstLeaves
    <3>2. \A d \in Line : Len(status) < d /\ d \in 1..Len(status)
      BY <1>2, <3>1 DEF ReportsFirst
    <3> QED
      BY <1>2, <3>2
  <2> QED
    BY <1>1, <2>1, <2>2, <2>3
<1> QED
  BY <1>1, <1>2, <1>3, <1>4

\* Nothing of what the executor and the two queues hold changes.
LEMMA LineStays ==
  ASSUME TypeOK, UNCHANGED <<queued, active, events>>
  PROVE  Line' = Line /\ (InLine => InLine') /\ Coming' = Coming
<1>1. Coming' = Coming
  BY DEF Coming, Arrived
<1>2. Line' = Line
  BY <1>1 DEF Line
<1>3. InLine => InLine'
  BY <1>1 DEF InLine, Sorted
<1> QED
  BY <1>1, <1>2, <1>3

\* Nothing of what is reported and known changes.
LEMMA ReportsStay ==
  ASSUME TypeOK, IInv, UNCHANGED <<inbox, acks, known, done, again>>, Line' = Line
  PROVE  ReportsFirst' /\ Apart(acks \o inbox)' /\ DoneFirst' /\ AllKnown' /\ again' = <<>>
<1>1. Told(acks \o inbox)' = Told(acks \o inbox) /\ Apart(acks \o inbox)'
  BY DEF IInv
<1> QED
  BY <1>1 DEF IInv, ReportsFirst, DoneFirst, AllKnown

\* Events that are no commands change nothing in the line.
LEMMA LineHears ==
  ASSUME TypeOK, InLine, NEW e \in Seq(Acceptance),
         events' = events \o e, UNCHANGED <<queued, active>>
  PROVE  Line' = Line /\ InLine' /\ events' \in Seq(Event)
<1>1. events \in Seq(Event) /\ e \in Seq(Event)
  <2>1. events \in Seq(Event)
    BY Types
  <2>2. Acceptance \subseteq Event
    BY DEF Acceptance, Event
  <2> QED
    BY <2>1, <2>2
<1>2. \A i \in 1..Len(e) : e[i].kind = "accepted"
  <2>1. \A f \in Acceptance : f.kind = "accepted"
    BY DEF Acceptance
  <2> QED
    BY <2>1
<1>3. /\ events' \in Seq(Event) /\ Len(events') = Len(events) + Len(e)
      /\ Len(events) \in Nat /\ Len(e) \in Nat
  BY <1>1
<1>4. ASSUME NEW i \in 1..Len(events'), events'[i].kind = "received"
      PROVE  i \in 1..Len(events) /\ events'[i] = events[i]
  <2>1. CASE i <= Len(events)
    BY <1>1, <1>3, <2>1
  <2>2. CASE i > Len(events)
    <3>1. i - Len(events) \in 1..Len(e) /\ events'[i] = e[i - Len(events)]
      BY <1>1, <1>3, <2>2
    <3>2. e[i - Len(events)].kind = "accepted"
      BY <1>2, <3>1
    <3> QED
      BY <1>4, <3>1, <3>2
  <2> QED
    BY <1>3, <2>1, <2>2
<1>5. \A i \in 1..Len(events) : i \in 1..Len(events') /\ events'[i] = events[i]
  BY <1>1, <1>3
<1>6. Coming' = Coming
  <2>1. Coming' =
          {events'[i].id : i \in {j \in 1..Len(events') : events'[j].kind = "received"}}
    BY DEF Coming, Arrived
  <2>2. Coming = {events[i].id : i \in {j \in 1..Len(events) : events[j].kind = "received"}}
    BY DEF Coming, Arrived
  <2>3. {j \in 1..Len(events') : events'[j].kind = "received"}
          = {j \in 1..Len(events) : events[j].kind = "received"}
    BY <1>4, <1>5
  <2> QED
    BY <1>5, <2>1, <2>2, <2>3
<1>7. Line' = Line
  BY <1>6 DEF Line
<1>8. ASSUME NEW i \in 1..Len(events'), NEW j \in 1..Len(events'), i < j,
             events'[i].kind = "received", events'[j].kind = "received"
      PROVE  events'[i].id < events'[j].id
  BY <1>4, <1>8 DEF InLine
<1>9. Sorted(queued)'
  BY DEF InLine, Sorted
<1> QED
  BY <1>3, <1>6, <1>7, <1>8, <1>9 DEF InLine

-----------------------------------------------------------------------------
(* The server and the network thread *)

\* More commands make more sequences.
LEMMA SeqGrows ==
  ASSUME NEW S, NEW T, S \subseteq T
  PROVE  Seq(S) \subseteq Seq(T)
OBVIOUS

\* The server replaces the one that waits (control-service.ts).
LEMMA IssueKeeps ==
  ASSUME TypeOK, IInv, NEW open \in BOOLEAN, Issue(open)
  PROVE  TypeOK' /\ IInv'
<1> DEFINE ends == [c \in Issued |-> IF status[c] = "pending" THEN "cancelled" ELSE status[c]]
           Status == {"pending", "applied", "expired", "cancelled"}
<1>1. /\ status' = Append(ends, "pending") /\ want' = Append(want, open)
      /\ UNCHANGED <<expired, known, events, inbox, acks, queued, active, seen, done,
                     again, position, target, faults>>
  BY DEF Issue, network, executor, device
<1>2. Issued = 1..Len(status) /\ Len(status) \in Nat
  BY Types
<1>3. ends \in Seq(Status) /\ Len(ends) = Len(status)
  BY <1>2 DEF TypeOK
<1> HIDE DEF ends
<1>4. /\ status' \in Seq(Status) /\ Len(status') = Len(status) + 1
      /\ status'[Len(status) + 1] = "pending"
      /\ \A c \in 1..Len(status) : status'[c] = ends[c]
  BY <1>1, <1>2, <1>3
<1>5. Issued' = 1..(Len(status) + 1) /\ Issued \subseteq Issued'
  BY <1>2, <1>4 DEF Issued
<1>6. TypeOK'
  <2>1. want' \in Seq(BOOLEAN) /\ Len(want') = Len(status')
    BY <1>1, <1>4 DEF TypeOK
  <2>2. /\ Seq(Issued) \subseteq Seq(Issued') /\ Seq(Event) \subseteq Seq(Event')
        /\ Seq(Report) \subseteq Seq(Report')
    <3>1. Seq(Issued) \subseteq Seq(Issued')
      BY <1>5, SeqGrows
    <3>2. Event \subseteq Event' /\ Report \subseteq Report'
      BY <1>5, <3>1 DEF Event, Report
    <3> QED
      BY <3>1, <3>2, SeqGrows
  <2>3. events' \in Seq(Event)' /\ inbox' \in Seq(Report)' /\ acks' \in Seq(Report)'
    BY <1>1, <2>2, Types
  <2>4. queued' \in Seq(Issued)' /\ again' \in Seq(Issued)'
    BY <1>1, <2>2 DEF TypeOK
  <2>5. /\ expired' \subseteq Issued' /\ known' \subseteq Issued'
        /\ active' \in Issued' \cup {0}
        /\ seen' \subseteq Issued' /\ done' \subseteq Issued'
        /\ position' \in 0..2 /\ target' \in 0..2 /\ faults' \in Nat
    BY <1>1, <1>5 DEF TypeOK
  <2> QED
    BY <1>4, <2>1, <2>3, <2>4, <2>5 DEF TypeOK, Event, Report
<1>7. Line' = Line /\ InLine'
  BY <1>1, LineStays DEF IInv
<1>8. NewestWaits'
  <2>1. \A c \in Issued : ends[c] # "pending"
    BY DEF ends
  <2> QED
    BY <1>2, <1>4, <1>5, <2>1 DEF NewestWaits
<1>9. Settled'
  BY <1>4 DEF Settled
<1>10. ReportsFirst' /\ Apart(acks \o inbox)' /\ DoneFirst' /\ AllKnown' /\ again' = <<>>
  BY <1>1, <1>7, ReportsStay
<1> QED
  BY <1>6, <1>7, <1>8, <1>9, <1>10 DEF IInv

\* A command that expires no longer waits.
LEMMA ExpireKeeps ==
  ASSUME TypeOK, IInv, NEW c \in Issued, Expire(c)
  PROVE  TypeOK' /\ IInv'
<1> DEFINE Status == {"pending", "applied", "expired", "cancelled"}
<1>1. /\ status' = [status EXCEPT ![c] = IF @ = "pending" THEN "expired" ELSE @]
      /\ expired' = expired \cup {c}
      /\ UNCHANGED <<want, known, events, inbox, acks, queued, active, seen, done,
                     again, position, target, faults>>
  BY DEF Expire, network, executor, device
<1>2. Issued = 1..Len(status) /\ Len(status) \in Nat /\ status \in Seq(Status)
  BY Types DEF TypeOK
<1>3. /\ status' \in Seq(Status) /\ Len(status') = Len(status)
      /\ \A d \in Issued : status'[d] = status[d] \/ status'[d] = "expired"
  BY <1>1, <1>2
<1>4. Issued' = Issued
  BY <1>3 DEF Issued
<1>5. TypeOK'
  BY <1>1, <1>3, <1>4 DEF TypeOK
<1>6. Line' = Line /\ InLine'
  BY <1>1, LineStays DEF IInv
<1>7. NewestWaits'
  BY <1>3, <1>4 DEF IInv, NewestWaits
<1>8. Settled'
  <2>1. status' # <<>> => status # <<>> /\ Len(status) \in Issued
    BY <1>2, <1>3
  <2> QED
    BY <1>3, <1>6, <2>1 DEF IInv, Settled
<1>9. ReportsFirst' /\ Apart(acks \o inbox)' /\ DoneFirst' /\ AllKnown' /\ again' = <<>>
  BY <1>1, <1>6, ReportsStay
<1> QED
  BY <1>5, <1>6, <1>7, <1>8, <1>9 DEF IInv

\* _take_acknowledgements (networking/workers.py) moves reports, and drops none.
LEMMA TakeKeeps ==
  ASSUME TypeOK, IInv, Take
  PROVE  TypeOK' /\ IInv'
<1>1. /\ acks' = acks \o inbox /\ inbox' = <<>>
      /\ UNCHANGED <<status, want, expired, known, events, queued, active, seen, done, again,
                     position, target, faults>>
  BY AllTaken DEF IInv, Take, server, executor, device
<1>2. Issued' = Issued /\ acks \o inbox \in Seq(Report) /\ inbox' \in Seq(Report)
  BY <1>1, Types DEF Issued
<1>3. (acks \o inbox)' = acks \o inbox
  BY <1>1, <1>2
<1>4. TypeOK'
  BY <1>1, <1>2 DEF TypeOK, Report
<1>5. Line' = Line /\ InLine'
  BY <1>1, LineStays DEF IInv
<1>6. NewestWaits' /\ Settled'
  BY <1>1, <1>2, <1>5 DEF IInv, NewestWaits, Settled
<1>7. Told(acks \o inbox)' = Told(acks \o inbox)
  BY <1>3 DEF Told
<1>8. Apart(acks \o inbox)'
  BY <1>3 DEF IInv, Apart
<1>9. ReportsFirst' /\ DoneFirst' /\ AllKnown' /\ again' = <<>>
  BY <1>1, <1>5, <1>7 DEF IInv, ReportsFirst, DoneFirst, AllKnown
<1> QED
  BY <1>4, <1>5, <1>6, <1>8, <1>9 DEF IInv

\* The first report leaves, answered or refused.
LEMMA AckGone ==
  ASSUME TypeOK, IInv, acks # <<>>, acks' = Tail(acks), known' = known \ Ids(Head(acks)),
         status' \in {status, Confirmed(Head(acks))}, Line' = Line, InLine',
         events' \in Seq(Event), faults' \in Nat,
         UNCHANGED <<want, expired, inbox, queued, active, seen, done, again,
                     position, target>>
  PROVE  TypeOK' /\ IInv'
<1> DEFINE q == acks \o inbox
<1>1. /\ status' \in Seq({"pending", "applied", "expired", "cancelled"})
      /\ Len(status') = Len(status) /\ Issued' = Issued /\ NewestWaits' /\ Settled'
  BY AnswerKeeps DEF IInv
<1>2. /\ (acks \o inbox)' = Tail(q) /\ Ids(Head(acks)) = Ids(Head(q))
      /\ q # <<>> /\ q \in Seq(Report) /\ Tail(acks) \in Seq(Report)
  BY FirstLeaves
<1>3. /\ Told(q) = Ids(Head(q)) \cup Told(Tail(q)) /\ Apart(Tail(q))
      /\ Ids(Head(q)) \cap Told(Tail(q)) = {}
  BY <1>2, TailTold DEF IInv
<1> HIDE DEF q
<1>4. TypeOK'
  BY <1>1, <1>2 DEF TypeOK, Report, Event
<1>5. Told(acks \o inbox)' = Told(Tail(q)) /\ Apart(acks \o inbox)'
  BY <1>2, <1>3
<1>6. ReportsFirst' /\ DoneFirst' /\ again' = <<>>
  BY <1>3, <1>5 DEF IInv, ReportsFirst, DoneFirst, q
<1>7. AllKnown'
  <2>1. \A c \in Line : c \notin Ids(Head(q))
    <3>1. \A c \in Line : c \in Nat /\ ~(c < c)
      BY Types
    <3> QED
      BY <1>3, <3>1 DEF IInv, ReportsFirst, q
  <2>2. Line \cup Told(q) \subseteq known
    BY DEF IInv, AllKnown, q
  <2>3. Line \cup Told(Tail(q)) \subseteq known'
    BY <1>2, <1>3, <2>1, <2>2
  <2> QED
    BY <1>5, <2>3 DEF AllKnown
<1> QED
  BY <1>1, <1>4, <1>5, <1>6, <1>7 DEF IInv

\* An accepted report leaves, and its commands are heard of as accepted.
LEMMA SendAckKeeps ==
  ASSUME TypeOK, IInv, SendAck
  PROVE  TypeOK' /\ IInv'
<1> DEFINE ids == Head(acks).ids
           e == [i \in DOMAIN ids |-> [kind |-> "accepted", id |-> ids[i]]]
<1>1. /\ acks # <<>> /\ acks' = Tail(acks) /\ known' = known \ Ids(Head(acks))
      /\ status' = Confirmed(Head(acks)) /\ events' = events \o e
      /\ UNCHANGED <<want, expired, inbox, queued, active, seen, done, again,
                     position, target, faults>>
  BY DEF SendAck, executor, device
<1>2. ids \in Seq(Issued)
  <2>1. \A r \in Report : r.ids \in Seq(Issued)
    BY DEF Report
  <2> QED
    BY <1>1, <2>1, FirstLeaves
<1>3. e \in Seq(Acceptance)
  <2> HIDE DEF ids
  <2>1. \A c \in Issued : [kind |-> "accepted", id |-> c] \in Acceptance
    BY DEF Acceptance
  <2>2. /\ Len(ids) \in Nat /\ DOMAIN ids = 1..Len(ids)
        /\ \A i \in 1..Len(ids) : ids[i] \in Issued
    BY <1>2
  <2> QED
    BY <2>1, <2>2
<1> HIDE DEF e, ids
<1>4. Line' = Line /\ InLine' /\ events' \in Seq(Event) /\ faults' \in Nat
  BY <1>1, <1>3, LineHears DEF IInv, TypeOK
<1> QED
  BY <1>1, <1>4, AckGone

\* A refused report leaves; the newest may be polled again when its line is empty.
LEMMA AckRefusedKeeps ==
  ASSUME TypeOK, IInv, AckRefused
  PROVE  TypeOK' /\ IInv'
<1>1. /\ acks # <<>> /\ acks' = Tail(acks) /\ known' = known \ Ids(Head(acks))
      /\ status' \in {status, Confirmed(Head(acks))} /\ events' = events
      /\ faults' = faults + 1
      /\ UNCHANGED <<want, expired, inbox, queued, active, seen, done, again,
                     position, target>>
  BY DEF AckRefused, executor, device
<1>2. Line' = Line /\ InLine' /\ events' \in Seq(Event) /\ faults' \in Nat
  BY <1>1, LineStays, Types DEF IInv, TypeOK
<1> QED
  BY <1>1, <1>2, AckGone

\* A report whose answer is lost stays.
LEMMA AnswerLostKeeps ==
  ASSUME TypeOK, IInv, AnswerLost
  PROVE  TypeOK' /\ IInv'
<1>1. /\ acks # <<>> /\ status' = Confirmed(Head(acks))
      /\ UNCHANGED <<want, expired, known, events, inbox, acks, queued, active, seen, done,
                     again, position, target, faults>>
  BY DEF AnswerLost, network, executor, device
<1>2. Line' = Line /\ InLine'
  BY <1>1, LineStays DEF IInv
<1>3. /\ status' \in Seq({"pending", "applied", "expired", "cancelled"})
      /\ Len(status') = Len(status) /\ Issued' = Issued /\ NewestWaits' /\ Settled'
  BY <1>1, <1>2, AnswerKeeps DEF IInv
<1>4. TypeOK'
  BY <1>1, <1>3 DEF TypeOK
<1>5. ReportsFirst' /\ Apart(acks \o inbox)' /\ DoneFirst' /\ AllKnown' /\ again' = <<>>
  BY <1>1, <1>2, ReportsStay
<1> QED
  BY <1>2, <1>3, <1>4, <1>5 DEF IInv

\* A set of one, as a sequence.
LEMMA SetToSeqOne ==
  ASSUME NEW e
  PROVE  SetToSeq({e}) = <<e>>
<1> DEFINE f == SetToSeq({e})
           g == [i \in 1..1 |-> e]
<1>1. Cardinality({e}) = 1
  BY FS_Singleton
<1>2. f = CHOOSE h \in [1..1 -> {e}] : IsInjective(h)
  BY <1>1 DEF SetToSeq
<1>3. g \in [1..1 -> {e}] /\ IsInjective(g)
  BY DEF IsInjective
<1>4. f \in [1..1 -> {e}]
  <2> HIDE DEF f, g
  <2> QED
    BY <1>2, <1>3
<1>5. f = g
  <2> HIDE DEF f
  <2> QED
    BY <1>4
<1>6. g = <<e>>
  OBVIOUS
<1> QED
  BY <1>5, <1>6

\* Only the newest is polled, and it joins the end of the line.
LEMMA PollKeeps ==
  ASSUME TypeOK, IInv, Poll
  PROVE  TypeOK' /\ IInv'
<1> DEFINE n == Len(status)
           e == [kind |-> "received", id |-> n]
           new == {c \in Issued \ known : status[c] = "pending"}
<1>1. Issued = 1..n /\ n \in Nat
  BY Types
<1>2. new = {n} /\ n \in Issued /\ n \notin known /\ status[n] = "pending"
  <2>1. new # {}
    BY DEF Poll
  <2>2. \A c \in new : c = n
    BY DEF IInv, NewestWaits
  <2> QED
    BY <2>1, <2>2
<1>3. /\ known' = known \cup {n} /\ events' = events \o <<e>>
      /\ UNCHANGED <<status, want, expired, inbox, acks, queued, active, seen, done, again,
                     position, target, faults>>
  <2>1. {[kind |-> "received", id |-> c] : c \in new} = {e}
    BY <1>2
  <2>2. /\ known' = known \cup new
        /\ events' = events \o SetToSeq({[kind |-> "received", id |-> c] : c \in new})
    BY DEF Poll
  <2> HIDE DEF new, e
  <2>3. known' = known \cup {n} /\ events' = events \o <<e>>
    BY <1>2, <2>1, <2>2, SetToSeqOne
  <2> QED
    BY <2>3 DEF Poll, server, executor, device
<1>4. Issued' = Issued
  BY <1>3 DEF Issued
<1>5. e \in Event /\ e.kind = "received" /\ e.id = n
  BY <1>2 DEF Event
<1> HIDE DEF e, new
<1>6. /\ events \in Seq(Event) /\ events' \in Seq(Event) /\ Len(events') = Len(events) + 1
      /\ Len(events) \in Nat /\ events'[Len(events) + 1] = e
      /\ \A i \in 1..Len(events) : events'[i] = events[i]
  <2>1. events \in Seq(Event)
    BY Types
  <2> QED
    BY <1>3, <1>5, <2>1
<1>7. TypeOK'
  <2>1. known' \subseteq Issued
    BY <1>2, <1>3 DEF TypeOK
  <2>2. \A q : q \in Seq([kind : {"received", "accepted"}, id : Issued])' <=> q \in Seq(Event)
    BY <1>4 DEF Event
  <2> QED
    BY <1>3, <1>4, <1>6, <2>1, <2>2 DEF TypeOK
<1>8. Coming' = Coming \cup {n}
  <2>1. Coming' =
          {events'[i].id : i \in {j \in 1..Len(events') : events'[j].kind = "received"}}
    BY DEF Coming, Arrived
  <2>2. Coming = {events[i].id : i \in {j \in 1..Len(events) : events[j].kind = "received"}}
    BY DEF Coming, Arrived
  <2>3. {j \in 1..Len(events') : events'[j].kind = "received"}
          = {j \in 1..Len(events) : events[j].kind = "received"} \cup {Len(events) + 1}
    <3>1. 1..Len(events') = (1..Len(events)) \cup {Len(events) + 1}
      BY <1>6
    <3> QED
      BY <1>5, <1>6, <3>1
  <2> QED
    BY <1>5, <1>6, <2>1, <2>2, <2>3
<1>9. Line' = Line \cup {n}
  BY <1>3, <1>8 DEF Line
<1>10. Line \cup Told(acks \o inbox) \subseteq 1..n /\ n \notin Line \cup Told(acks \o inbox)
  BY <1>1, <1>2, Types DEF IInv, AllKnown
<1>11. \A c \in Line \cup Told(acks \o inbox) : c < n
  BY <1>1, <1>10
<1>12. /\ Coming \subseteq Line /\ Range(queued) \subseteq Line
       /\ (active # 0 => active \in Line)
  BY DEF Line
<1>13. InLine'
  <2>1. Sorted(queued)'
    BY <1>3 DEF IInv, InLine, Sorted
  <2>2. active # 0 => \A c \in Range(queued) \cup Coming \cup {n} : active < c
    BY <1>11, <1>12 DEF IInv, InLine
  <2>3. \A c \in Range(queued), d \in Coming \cup {n} : c < d
    BY <1>11, <1>12 DEF IInv, InLine
  <2>4. ASSUME NEW i \in 1..Len(events'), NEW j \in 1..Len(events'), i < j,
               events'[i].kind = "received", events'[j].kind = "received"
        PROVE  events'[i].id < events'[j].id
    <3>1. i \in 1..Len(events)
      BY <1>6, <2>4
    <3>2. CASE j \in 1..Len(events)
      BY <1>6, <2>4, <3>1, <3>2 DEF IInv, InLine
    <3>3. CASE j = Len(events) + 1
      <4>1. events'[i].id \in Coming
        BY <1>6, <2>4, <3>1 DEF Coming, Arrived
      <4> QED
        BY <1>5, <1>6, <1>11, <1>12, <3>3, <4>1
    <3> QED
      BY <1>6, <3>2, <3>3
  <2> QED
    BY <1>3, <1>8, <2>1, <2>2, <2>3, <2>4 DEF InLine
<1>14. (acks \o inbox)' = acks \o inbox
  BY <1>3
<1>15. Told(acks \o inbox)' = Told(acks \o inbox) /\ Apart(acks \o inbox)'
  BY <1>14 DEF IInv
<1>16. ReportsFirst'
  BY <1>9, <1>11, <1>15 DEF IInv, ReportsFirst
<1>17. DoneFirst'
  <2>1. \A d \in done : d \in 1..n
    BY <1>1 DEF TypeOK
  <2>2. \A d \in done : d <= n
    BY <1>1, <2>1
  <2> QED
    BY <1>3, <1>9, <2>2 DEF IInv, DoneFirst
<1>18. AllKnown'
  BY <1>3, <1>9, <1>15 DEF IInv, AllKnown
<1>19. NewestWaits' /\ Settled' /\ again' = <<>>
  BY <1>2, <1>3, <1>4 DEF IInv, NewestWaits, Settled
<1> QED
  BY <1>7, <1>13, <1>15, <1>16, <1>17, <1>18, <1>19 DEF IInv

\* Reports become old, not other.
LEMMA HeartbeatKeeps ==
  ASSUME TypeOK, IInv, Heartbeat
  PROVE  TypeOK' /\ IInv'
<1>1. /\ inbox' = [i \in DOMAIN inbox |-> [inbox[i] EXCEPT !.old = @ \/ ~inbox[i].last]]
      /\ acks = <<>>
      /\ UNCHANGED <<status, want, expired, known, events, acks, queued, active, seen, done,
                     again, position, target, faults>>
  BY DEF Heartbeat, server, network, executor, device
<1>2. inbox \in Seq(Report) /\ Issued' = Issued
  BY <1>1, Types DEF Issued
<1>3. /\ inbox' \in Seq(Report) /\ Len(inbox') = Len(inbox)
      /\ \A i \in 1..Len(inbox) : Ids(inbox'[i]) = Ids(inbox[i])
  <2>1. \A r \in Report : /\ [r EXCEPT !.old = @ \/ ~r.last] \in Report
                          /\ [r EXCEPT !.old = @ \/ ~r.last].ids = r.ids
    BY DEF Report
  <2>2. /\ DOMAIN inbox = 1..Len(inbox) /\ Len(inbox) \in Nat
        /\ \A i \in 1..Len(inbox) : inbox[i] \in Report
    BY <1>2
  <2>3. \A i \in 1..Len(inbox) : inbox'[i] \in Report /\ inbox'[i].ids = inbox[i].ids
    BY <1>1, <2>1, <2>2
  <2> QED
    BY <1>1, <2>2, <2>3 DEF Ids
<1>4. TypeOK'
  BY <1>1, <1>2, <1>3 DEF TypeOK, Report
<1>5. Line' = Line /\ InLine'
  BY <1>1, LineStays DEF IInv
<1>6. acks \o inbox = inbox /\ (acks \o inbox)' = inbox'
  BY <1>1, <1>2, <1>3
<1>7. Told(inbox') = Told(inbox) /\ (Apart(inbox) => Apart(inbox'))
  BY <1>3 DEF Told, Apart
<1>8. Told(acks \o inbox)' = Told(acks \o inbox) /\ Apart(acks \o inbox)'
  BY <1>6, <1>7 DEF IInv
<1>9. ReportsFirst' /\ DoneFirst' /\ AllKnown' /\ again' = <<>>
  BY <1>1, <1>5, <1>8 DEF IInv, ReportsFirst, DoneFirst, AllKnown
<1>10. NewestWaits' /\ Settled'
  BY <1>1, <1>2, <1>5 DEF IInv, NewestWaits, Settled
<1> QED
  BY <1>4, <1>5, <1>8, <1>9, <1>10 DEF IInv

\* What telemetry makes old stays what it is.
LEMMA StaleIs ==
  ASSUME NEW reports \in Seq(Report)
  PROVE  /\ Stale(reports) \in Seq(Report) /\ Len(Stale(reports)) = Len(reports)
         /\ \A i \in 1..Len(reports) : Ids(Stale(reports)[i]) = Ids(reports[i])
<1>1. \A r \in Report : /\ [r EXCEPT !.old = TRUE] \in Report
                        /\ [r EXCEPT !.old = TRUE].ids = r.ids
  BY DEF Report
<1>2. /\ DOMAIN reports = 1..Len(reports) /\ Len(reports) \in Nat
      /\ \A i \in 1..Len(reports) : reports[i] \in Report
  OBVIOUS
<1>3. /\ DOMAIN Stale(reports) = 1..Len(reports)
      /\ \A i \in 1..Len(reports) :
           Stale(reports)[i] \in Report /\ Stale(reports)[i].ids = reports[i].ids
  BY <1>1, <1>2 DEF Stale
<1> HIDE DEF Stale
<1>4. Stale(reports) \in Seq(Report) /\ Len(Stale(reports)) = Len(reports)
  <2>1. Stale(reports) = [i \in 1..Len(reports) |-> Stale(reports)[i]]
    BY <1>3 DEF Stale
  <2> QED
    BY <1>2, <1>3, <2>1
<1> QED
  BY <1>3, <1>4 DEF Ids

\* Reports become old, not other.
LEMMA TelemetryKeeps ==
  ASSUME TypeOK, IInv, Telemetry
  PROVE  TypeOK' /\ IInv'
<1>1. /\ acks' = Stale(acks) /\ inbox' = Stale(inbox)
      /\ UNCHANGED <<status, want, expired, known, events, queued, active, seen, done,
                     again, position, target, faults>>
  BY DEF Telemetry, server, executor, device
<1>2. inbox \in Seq(Report) /\ acks \in Seq(Report) /\ Issued' = Issued
  BY <1>1, Types DEF Issued
<1>3. /\ inbox' \in Seq(Report) /\ acks' \in Seq(Report)
      /\ Len(acks') = Len(acks) /\ Len(inbox') = Len(inbox)
      /\ \A i \in 1..Len(acks) : Ids(acks'[i]) = Ids(acks[i])
      /\ \A i \in 1..Len(inbox) : Ids(inbox'[i]) = Ids(inbox[i])
  BY <1>1, <1>2, StaleIs
<1>4. TypeOK'
  BY <1>1, <1>2, <1>3 DEF TypeOK, Report
<1>5. Line' = Line /\ InLine'
  BY <1>1, LineStays DEF IInv
<1> DEFINE q == acks \o inbox
           p == acks' \o inbox'
<1>6. /\ p \in Seq(Report) /\ q \in Seq(Report) /\ Len(p) = Len(q) /\ Len(q) \in Nat
      /\ \A i \in 1..Len(q) : Ids(p[i]) = Ids(q[i])
  <2>1. Len(acks) \in Nat /\ Len(inbox) \in Nat /\ Len(q) = Len(acks) + Len(inbox)
    BY <1>2
  <2>3. Len(p) = Len(acks') + Len(inbox')
    BY <1>3
  <2>4. Len(p) = Len(q)
    BY <1>3, <2>1, <2>3
  <2>2. ASSUME NEW i \in 1..Len(q) PROVE Ids(p[i]) = Ids(q[i])
    <3>1. CASE i \in 1..Len(acks)
      <4>1. q[i] = acks[i] /\ p[i] = acks'[i]
        BY <1>2, <1>3, <3>1
      <4> QED
        BY <1>3, <3>1, <4>1
    <3>2. CASE i \notin 1..Len(acks)
      <4>1. /\ i - Len(acks) \in 1..Len(inbox)
            /\ q[i] = inbox[i - Len(acks)] /\ p[i] = inbox'[i - Len(acks)]
        BY <1>2, <1>3, <2>1, <3>2
      <4> QED
        BY <1>3, <4>1
    <3> QED
      BY <3>1, <3>2
  <2> QED
    BY <1>2, <1>3, <2>1, <2>2, <2>4
<1> HIDE DEF p, q
<1>7. Told(p) = Told(q) /\ (Apart(q) => Apart(p))
  BY <1>6 DEF Told, Apart
<1>8. Told(acks \o inbox)' = Told(acks \o inbox) /\ Apart(acks \o inbox)'
  BY <1>7 DEF IInv, p, q
<1>9. ReportsFirst' /\ DoneFirst' /\ AllKnown' /\ again' = <<>>
  BY <1>1, <1>5, <1>8 DEF IInv, ReportsFirst, DoneFirst, AllKnown
<1>10. NewestWaits' /\ Settled'
  BY <1>1, <1>2, <1>5 DEF IInv, NewestWaits, Settled
<1> QED
  BY <1>4, <1>5, <1>8, <1>9, <1>10 DEF IInv

\* An order of the simulator's panel concerns no command.
LEMMA OrderKeeps ==
  ASSUME TypeOK, IInv, NEW open \in BOOLEAN, Order(open)
  PROVE  TypeOK' /\ IInv'
<1>1. /\ target' = Limit(open) /\ faults' = faults + 1
      /\ UNCHANGED <<status, want, expired, known, events, inbox, acks, queued, active, seen,
                     done, again, position>>
  BY DEF Order, server, network, executor
<1>2. Issued' = Issued
  BY <1>1 DEF Issued
<1>3. TypeOK'
  BY <1>1, <1>2 DEF TypeOK, Limit
<1>4. Line' = Line /\ InLine'
  BY <1>1, LineStays DEF IInv
<1>5. NewestWaits' /\ Settled'
  BY <1>1, <1>2, <1>4 DEF IInv, NewestWaits, Settled
<1> QED
  BY <1>1, <1>3, <1>4, <1>5, ReportsStay DEF IInv

-----------------------------------------------------------------------------
(* The simulation thread *)

\* Reports that name the same commands tell the same.
LEMMA SameTold ==
  ASSUME NEW p, NEW q, Len(p) = Len(q), \A i \in 1..Len(q) : Ids(p[i]) = Ids(q[i])
  PROVE  Told(p) = Told(q) /\ (Apart(q) => Apart(p))
BY DEF Told, Apart

\* One more report, of other commands.
LEMMA AppendTold ==
  ASSUME NEW S, NEW q \in Seq(S), NEW r \in S
  PROVE  /\ Told(Append(q, r)) = Told(q) \cup Ids(r)
         /\ Apart(q) /\ Ids(r) \cap Told(q) = {} => Apart(Append(q, r))
<1> DEFINE n == Len(q)
           p == Append(q, r)
<1>1. n \in Nat /\ Len(p) = n + 1 /\ p[n + 1] = r /\ \A i \in 1..n : p[i] = q[i]
  OBVIOUS
<1> HIDE DEF p, n
<1>2. 1..Len(p) = (1..n) \cup {n + 1} /\ n + 1 \notin 1..n
  BY <1>1
<1>3. Told(p) = Told(q) \cup Ids(r)
  BY <1>1, <1>2 DEF Told, n
<1>4. ASSUME Apart(q), Ids(r) \cap Told(q) = {} PROVE Apart(p)
  <2>1. \A i \in 1..n : Ids(q[i]) \subseteq Told(q)
    BY DEF Told, n
  <2>2. \A i, j \in 1..n : i # j => Ids(q[i]) \cap Ids(q[j]) = {}
    BY <1>4 DEF Apart, n
  <2>3. ASSUME NEW i \in 1..Len(p), NEW j \in 1..Len(p), i # j
        PROVE  Ids(p[i]) \cap Ids(p[j]) = {}
    <3>1. CASE i \in 1..n /\ j \in 1..n
      BY <1>1, <2>2, <2>3, <3>1
    <3>2. CASE i = n + 1 /\ j \in 1..n
      BY <1>1, <1>4, <2>1, <3>2
    <3>3. CASE i \in 1..n /\ j = n + 1
      BY <1>1, <1>4, <2>1, <3>3
    <3> QED
      BY <1>2, <2>3, <3>1, <3>2, <3>3
  <2> QED
    BY <2>3 DEF Apart
<1> QED
  BY <1>3, <1>4 DEF p

\* The first of a sorted sequence comes before the rest.
LEMMA SortedHead ==
  ASSUME NEW S \in SUBSET Nat, NEW q \in Seq(S), Sorted(q), q # <<>>
  PROVE  /\ Head(q) \in Range(q) /\ Tail(q) \in Seq(S) /\ Sorted(Tail(q))
         /\ Range(Tail(q)) \subseteq Range(q) /\ \A d \in Range(Tail(q)) : Head(q) < d
<1>1. /\ Len(q) \in Nat /\ Len(q) >= 1 /\ Tail(q) \in Seq(S) /\ Head(q) = q[1]
      /\ Len(Tail(q)) = Len(q) - 1 /\ \A i \in 1..(Len(q) - 1) : Tail(q)[i] = q[i + 1]
  OBVIOUS
<1>2. DOMAIN q = 1..Len(q) /\ DOMAIN Tail(q) = 1..(Len(q) - 1)
  BY <1>1
<1>3. Head(q) \in Range(q)
  BY <1>1, <1>2 DEF Range
<1>4. \A i \in 1..(Len(q) - 1) : i + 1 \in 1..Len(q) /\ 1 \in 1..Len(q) /\ 1 < i + 1
  BY <1>1
<1>5. Sorted(Tail(q))
  <2> SUFFICES ASSUME NEW i \in 1..(Len(q) - 1), NEW j \in 1..(Len(q) - 1), i < j
               PROVE  Tail(q)[i] < Tail(q)[j]
    BY <1>1 DEF Sorted
  <2>1. i + 1 < j + 1
    OBVIOUS
  <2> QED
    BY <1>1, <1>4, <2>1 DEF Sorted
<1>6. \A i \in 1..(Len(q) - 1) : Tail(q)[i] \in Range(q) /\ Head(q) < Tail(q)[i]
  BY <1>1, <1>2, <1>4 DEF Sorted, Range
<1>7. \A d \in Range(Tail(q)) : \E i \in 1..(Len(q) - 1) : d = Tail(q)[i]
  BY <1>2 DEF Range
<1> QED
  BY <1>1, <1>3, <1>5, <1>6, <1>7

\* The command that a tick works on is the first of the line, and what is reported once
\* more is none of those that stay.
LEMMA ChosenIs ==
  ASSUME TypeOK, IInv, NEW rest,
         rest = IF active = 0 /\ Chosen(Drained) # 0 THEN Tail(Drained.queued)
                ELSE Drained.queued
  PROVE  /\ Drained \in State /\ Drained.done \subseteq done
         /\ Chosen(Drained) \in Line \cup {0}
         /\ rest \in Seq(Issued) /\ Sorted(rest) /\ Range(rest) \subseteq Line
         /\ Chosen(Drained) # 0 => \A d \in Range(rest) : Chosen(Drained) < d
         /\ Range(Drained.again) \subseteq done \cap Line
         /\ Range(Drained.again) \cap ({Chosen(Drained)} \cup Range(rest)) = {}
<1> DEFINE ex == Drained
           c == Chosen(ex)
<1>1. /\ ex \in State /\ Sorted(ex.queued)
      /\ Range(ex.queued) \subseteq Range(queued) \cup Coming
      /\ Range(ex.again) \subseteq done \cap Coming
      /\ Range(ex.again) \cap Range(ex.queued) = {}
      /\ ex.done \subseteq done
  BY DrainedIs DEF IInv, After, Coming
<1>2. c = IF active # 0 THEN active ELSE IF ex.queued # <<>> THEN Head(ex.queued) ELSE 0
  BY DEF Chosen
<1>3. rest = IF active = 0 /\ c # 0 THEN Tail(ex.queued) ELSE ex.queued
  OBVIOUS
<1> HIDE DEF c, ex
<1>4. /\ ex.queued \in Seq(Issued) /\ Issued \subseteq Nat
      /\ 0 \notin Issued /\ Line \subseteq Issued
  BY <1>1, Types DEF State
<1>5. Coming \subseteq Line /\ Range(queued) \subseteq Line /\ (active # 0 => active \in Line)
  BY DEF Line
<1>6. CASE active # 0
  <2>1. c = active /\ rest = ex.queued
    BY <1>2, <1>3, <1>6
  <2>2. \A d \in Range(queued) \cup Coming : active < d
    BY <1>6 DEF IInv, InLine
  <2>3. Range(ex.again) = {}
    <3> SUFFICES ASSUME NEW x \in Range(ex.again) PROVE FALSE
      OBVIOUS
    <3>1. x <= active
      BY <1>1, <1>5, <1>6 DEF IInv, DoneFirst
    <3>2. active < x
      BY <1>1, <2>2
    <3>3. x \in Nat /\ active \in Nat
      BY <1>1, <1>4, <1>5, <1>6
    <3> QED
      BY <3>1, <3>2, <3>3
  <2> QED
    BY <1>1, <1>4, <1>5, <1>6, <2>1, <2>2, <2>3 DEF c, ex
<1>7. CASE active = 0 /\ ex.queued # <<>>
  <2>1. /\ Head(ex.queued) \in Range(ex.queued) /\ Tail(ex.queued) \in Seq(Issued)
        /\ Sorted(Tail(ex.queued)) /\ Range(Tail(ex.queued)) \subseteq Range(ex.queued)
        /\ \A d \in Range(Tail(ex.queued)) : Head(ex.queued) < d
    BY <1>1, <1>4, <1>7, SortedHead
  <2>2. Head(ex.queued) \in Line
    BY <1>1, <1>5, <2>1
  <2>3. c = Head(ex.queued) /\ c # 0 /\ rest = Tail(ex.queued)
    BY <1>2, <1>3, <1>4, <1>7, <2>2
  <2> QED
    BY <1>1, <1>4, <1>5, <2>1, <2>2, <2>3 DEF c, ex
<1>8. CASE active = 0 /\ ex.queued = <<>>
  <2>1. c = 0 /\ rest = ex.queued /\ Range(ex.queued) = {}
    BY <1>2, <1>3, <1>8 DEF Range
  <2>2. 0 \notin Range(ex.again)
    BY <1>1, <1>4, <1>5
  <2> QED
    BY <1>1, <1>4, <1>5, <2>1, <2>2 DEF c, ex
<1> QED
  BY <1>6, <1>7, <1>8

\* A tick takes from the front of the line what it works on, and reports it.
LEMMA TickKeeps ==
  ASSUME TypeOK, IInv, NEW moves \in BOOLEAN, Tick(moves)
  PROVE  TypeOK' /\ IInv'
<1> DEFINE ex    == Drained
           c     == Chosen(ex)
           stale == c \in expired
           pos   == IF ~moves \/ position = target THEN position
                    ELSE IF position < target THEN position + 1 ELSE position - 1
           ends  == c # 0 /\ ~stale /\ pos = Limit(want[c])
           made  == ex.again \o (IF ends THEN <<c>> ELSE <<>>)
           heard == [i \in DOMAIN inbox |-> [inbox[i] EXCEPT !.last = FALSE]]
           r     == [ids |-> made, open |-> pos > 0, last |-> TRUE, old |-> FALSE]
<1>1. /\ position' = pos
      /\ target' = IF c = 0 THEN target
                   ELSE IF stale THEN IF active # 0 THEN pos ELSE target
                   ELSE Limit(want[c])
      /\ queued' = IF active = 0 /\ c # 0 THEN Tail(ex.queued) ELSE ex.queued
      /\ active' = IF stale \/ ends THEN 0 ELSE c
      /\ seen' = ex.seen
      /\ done' = IF ends THEN ex.done \cup {c} ELSE ex.done
      /\ again' = <<>> /\ events' = <<>>
      /\ inbox' = heard \o (IF made = <<>> THEN <<>> ELSE <<r>>)
      /\ UNCHANGED <<status, want, expired, known, acks, faults>>
  BY DEF Tick, server, network
<1>2. /\ ex \in State /\ ex.done \subseteq done
      /\ c \in Line \cup {0}
      /\ queued' \in Seq(Issued) /\ Sorted(queued') /\ Range(queued') \subseteq Line
      /\ c # 0 => \A d \in Range(queued') : c < d
      /\ Range(ex.again) \subseteq done \cap Line
      /\ Range(ex.again) \cap ({c} \cup Range(queued')) = {}
  BY <1>1, ChosenIs
<1>3. /\ Issued' = Issued /\ Issued \subseteq Nat /\ 0 \notin Issued /\ Line \subseteq Issued
      /\ inbox \in Seq(Report) /\ acks \in Seq(Report)
  BY <1>1, Types DEF Issued
<1>4. pos \in 0..2
  BY DEF TypeOK
<1>5. made \in Seq(Issued) /\ Range(made) = Range(ex.again) \cup (IF ends THEN {c} ELSE {})
  <2>1. ex.again \in Seq(Issued)
    BY <1>2 DEF State
  <2>2. CASE ends
    <3>1. c \in Issued
      BY <1>2, <1>3, <2>2
    <3>2. made = Append(ex.again, c)
      <4> HIDE DEF c, ex
      <4> QED
        BY <2>1, <2>2, <3>1
    <3> HIDE DEF made, c, ex
    <3> QED
      BY <2>1, <2>2, <3>1, <3>2, AppendRange
  <2>3. CASE ~ends
    <3>1. made = ex.again
      <4>1. made = ex.again \o <<>>
        BY <2>3
      <4> HIDE DEF ex, made
      <4> QED
        BY <2>1, <4>1
    <3> HIDE DEF made
    <3> QED
      BY <2>1, <2>3, <3>1
  <2> QED
    BY <2>2, <2>3
<1>6. r \in Report /\ Ids(r) = Range(made)
  <2> HIDE DEF made, pos
  <2> QED
    BY <1>4, <1>5 DEF Report, Ids
<1>7. /\ heard \in Seq(Report) /\ Len(heard) = Len(inbox)
      /\ \A i \in 1..Len(inbox) : Ids(heard[i]) = Ids(inbox[i])
  <2>1. \A s \in Report :
          [s EXCEPT !.last = FALSE] \in Report /\ [s EXCEPT !.last = FALSE].ids = s.ids
    BY DEF Report
  <2>2. /\ DOMAIN inbox = 1..Len(inbox) /\ Len(inbox) \in Nat
        /\ \A i \in 1..Len(inbox) : inbox[i] \in Report
    BY <1>3
  <2>3. \A i \in 1..Len(inbox) : heard[i] \in Report /\ heard[i].ids = inbox[i].ids
    BY <2>1, <2>2
  <2> QED
    BY <2>2, <2>3 DEF Ids
<1> HIDE DEF heard, r
<1>8. inbox' \in Seq(Report)
  <2> HIDE DEF made
  <2> QED
    BY <1>1, <1>6, <1>7
<1>9. TypeOK'
  <2>1. active' \in Issued \cup {0} /\ seen' \subseteq Issued /\ done' \subseteq Issued
    <3>1. ex.seen \subseteq Issued /\ ex.done \subseteq Issued
      BY <1>2 DEF State
    <3>2. c \in Issued \cup {0} /\ (ends => c \in Issued)
      BY <1>2, <1>3
    <3> HIDE DEF c, ex
    <3> QED
      BY <1>1, <3>1, <3>2
  <2>2. target' \in 0..2
    <3> HIDE DEF c, pos
    <3> QED
      BY <1>1, <1>4 DEF TypeOK, Limit
  <2>3. position' \in 0..2
    BY <1>1, <1>4
  <2>4. /\ events' \in Seq([kind : {"received", "accepted"}, id : Issued])
        /\ again' \in Seq(Issued)
    BY <1>1
  <2> HIDE DEF ex, c, made, pos
  <2> QED
    BY <1>1, <1>2, <1>3, <1>8, <2>1, <2>2, <2>3, <2>4 DEF TypeOK, Report
<1>10. Coming' = {}
  BY <1>1 DEF Coming, Arrived
<1>11. /\ Line' = ({active'} \ {0}) \cup Range(queued')
       /\ active' \in {0, c} /\ (ends => active' = 0)
  BY <1>1, <1>10 DEF Line
<1> HIDE DEF ex, c, pos, made
<1>12. Line' \subseteq Line
  BY <1>2, <1>11
<1>13. \A x \in Range(made), d \in Line' : x < d
  <2> TAKE x \in Range(made), d \in Line'
  <2>1. CASE x \in Range(ex.again)
    <3>1. x <= d
      BY <1>2, <1>12, <2>1 DEF IInv, DoneFirst
    <3>2. x # d /\ x \in Nat /\ d \in Nat
      BY <1>2, <1>3, <1>11, <1>12, <2>1
    <3> QED
      BY <3>1, <3>2
  <2>2. CASE ends /\ x = c
    <3>1. d \in Range(queued') /\ c # 0
      BY <1>11, <2>2
    <3> QED
      BY <1>2, <2>2, <3>1
  <2> QED
    BY <1>5, <2>1, <2>2
<1>14. Range(made) \subseteq Line
  BY <1>2, <1>5
<1>15. InLine'
  <2>1. active' # 0 => \A d \in Range(queued') : active' < d
    BY <1>2, <1>11
  <2> QED
    BY <1>1, <1>2, <1>10, <2>1 DEF InLine
<1>16. /\ Told(acks \o inbox)' =
            Told(acks \o inbox) \cup (IF made = <<>> THEN {} ELSE Range(made))
       /\ Apart(acks \o inbox)'
  <2> DEFINE p == acks \o heard
  <2>1. /\ Len(p) = Len(acks \o inbox) /\ p \in Seq(Report)
        /\ \A i \in 1..Len(acks \o inbox) : Ids(p[i]) = Ids((acks \o inbox)[i])
    <3>1. /\ p \in Seq(Report) /\ Len(p) = Len(acks) + Len(inbox)
          /\ acks \o inbox \in Seq(Report)
          /\ Len(acks \o inbox) = Len(acks) + Len(inbox)
          /\ Len(acks) \in Nat /\ Len(inbox) \in Nat
      BY <1>3, <1>7
    <3>2. ASSUME NEW i \in 1..(Len(acks) + Len(inbox))
          PROVE  Ids(p[i]) = Ids((acks \o inbox)[i])
      <4>1. CASE i <= Len(acks)
        <5>1. p[i] = acks[i] /\ (acks \o inbox)[i] = acks[i]
          BY <1>3, <1>7, <3>1, <4>1
        <5> QED
          BY <5>1
      <4>2. CASE i > Len(acks)
        <5>1. /\ p[i] = heard[i - Len(acks)] /\ (acks \o inbox)[i] = inbox[i - Len(acks)]
              /\ i - Len(acks) \in 1..Len(inbox)
          BY <1>3, <1>7, <3>1, <4>2
        <5> QED
          BY <1>7, <5>1
      <4> QED
        BY <3>1, <4>1, <4>2
    <3> QED
      BY <3>1, <3>2
  <2>2. Told(p) = Told(acks \o inbox) /\ Apart(p)
    BY <2>1, SameTold DEF IInv
  <2>3. CASE made = <<>>
    <3>1. (acks \o inbox)' = p
      BY <1>1, <1>3, <1>7, <2>3
    <3> QED
      BY <2>2, <2>3, <3>1
  <2>4. CASE made # <<>>
    <3>1. (acks \o inbox)' = Append(p, r)
      <4>1. inbox' = heard \o <<r>>
        BY <1>1, <2>4
      <4>2. acks \o (heard \o <<r>>) = Append(acks \o heard, r)
        BY <1>3, <1>6, <1>7
      <4> QED
        BY <1>1, <4>1, <4>2
    <3>2. Ids(r) \cap Told(p) = {}
      <4>1. \A x \in Told(acks \o inbox), d \in Line : x < d /\ d \in Nat
        BY <1>3 DEF IInv, ReportsFirst
      <4>2. \A d \in Line : ~(d < d)
        BY <1>3
      <4> QED
        BY <1>6, <1>14, <2>2, <4>1, <4>2
    <3> HIDE DEF p
    <3> QED
      BY <1>6, <2>1, <2>2, <2>4, <3>1, <3>2, AppendTold
  <2> QED
    BY <2>3, <2>4
<1>17. ReportsFirst'
  <2>1. \A x \in Told(acks \o inbox), d \in Line' : x < d
    BY <1>12 DEF IInv, ReportsFirst
  <2> QED
    BY <1>13, <1>16, <2>1 DEF ReportsFirst
<1>18. DoneFirst'
  <2> SUFFICES ASSUME NEW d \in done', NEW x \in Line' PROVE d <= x
    BY DEF DoneFirst
  <2>1. CASE d \in done
    BY <1>12, <2>1 DEF IInv, DoneFirst
  <2>2. CASE d \notin done
    <3>1. ends /\ d = c
      BY <1>1, <1>2, <2>2
    <3>2. d \in Range(made)
      BY <1>5, <3>1
    <3>3. d < x /\ d \in Nat /\ x \in Nat
      BY <1>3, <1>12, <1>13, <1>14, <3>2
    <3> QED
      BY <3>3
  <2> QED
    BY <2>1, <2>2
<1>19. AllKnown'
  BY <1>1, <1>12, <1>14, <1>16 DEF IInv, AllKnown
<1>20. NewestWaits' /\ Settled' /\ again' = <<>>
  BY <1>1, <1>3, <1>12 DEF IInv, NewestWaits, Settled
<1> QED
  BY <1>9, <1>15, <1>16, <1>17, <1>18, <1>19, <1>20 DEF IInv

-----------------------------------------------------------------------------
\* Nothing is issued and nothing in line.
LEMMA Starts == Init => TypeOK /\ IInv
<1> SUFFICES ASSUME Init PROVE TypeOK /\ IInv
  OBVIOUS
<1>1. TypeOK
  BY DEF Init, TypeOK, Issued
<1>2. /\ acks \o inbox = <<>> /\ events = <<>> /\ queued = <<>> /\ active = 0 /\ status = <<>>
      /\ again = <<>> /\ done = {}
  BY DEF Init
<1>3. Coming = {} /\ Range(queued) = {} /\ Line = {} /\ Told(acks \o inbox) = {}
  BY <1>2 DEF Coming, Arrived, Line, Range, Told
<1>4. Issued = {}
  BY <1>2 DEF Issued
<1> QED
  BY <1>1, <1>2, <1>3, <1>4
  DEF IInv, InLine, Sorted, Apart, ReportsFirst, DoneFirst, AllKnown, NewestWaits, Settled

\* Every step keeps the invariant.
LEMMA StepKeeps == TypeOK /\ IInv /\ [Next]_vars => TypeOK' /\ IInv'
<1> SUFFICES ASSUME TypeOK, IInv, [Next]_vars PROVE TypeOK' /\ IInv'
  OBVIOUS
<1>1. CASE Next
  BY <1>1, IssueKeeps, OrderKeeps, ExpireKeeps, TakeKeeps, SendAckKeeps, AnswerLostKeeps,
     AckRefusedKeeps, PollKeeps, HeartbeatKeeps, TelemetryKeeps,
     TickKeeps DEF Next
<1>2. CASE UNCHANGED vars
  <2>1. UNCHANGED <<status, want, expired, known, events, inbox, acks, queued, active, seen,
                    done, again, position, target, faults>>
    BY <1>2 DEF vars, server, network, executor, device
  <2>2. Issued' = Issued
    BY <2>1 DEF Issued
  <2>3. TypeOK'
    BY <2>1, <2>2 DEF TypeOK
  <2>4. Line' = Line /\ InLine'
    BY <2>1, LineStays DEF IInv
  <2>5. NewestWaits' /\ Settled'
    BY <2>1, <2>2, <2>4 DEF IInv, NewestWaits, Settled
  <2> QED
    BY <2>1, <2>3, <2>4, <2>5, ReportsStay DEF IInv
<1> QED
  BY <1>1, <1>2

\* The invariant holds of every behaviour.
LEMMA Always == Spec => [](TypeOK /\ IInv)
BY Starts, StepKeeps, PTL DEF Spec

\* Every member of the network thread and of the executor keeps its type, and the window
\* stays between closed and open (devices/command_executor.py).
THEOREM SimulatorTypeOK == Spec => []TypeOK
BY Always, PTL

\* Once the newest command is confirmed, no command moves the window, although reports are
\* refused, lost, overtaken or repeated: the executor does not bring back what the server
\* has replaced (networking/workers.py, devices/command_executor.py).
THEOREM NewestAlwaysStands == Spec => NewestStands
<1> DEFINE Stands == status # <<>> /\ Last(status) = "applied" /\ faults' = faults
                       => target' = target
<1>1. TypeOK /\ IInv /\ [Next]_vars => [Stands]_vars
  <2> SUFFICES ASSUME TypeOK, IInv, Next, status # <<>>, Last(status) = "applied",
                      faults' = faults
               PROVE  target' = target
    OBVIOUS
  <2>1. Line = {}
    BY DEF IInv, Settled, Last
  <2>2. CASE \E open \in BOOLEAN : Order(open)
    <3>1. faults' = faults + 1 /\ faults \in Nat
      BY <2>2 DEF Order, TypeOK
    <3> QED
      BY <3>1
  <2>3. CASE \E moves \in BOOLEAN : Tick(moves)
    <3>1. Chosen(Drained) = 0
      BY <2>1, ChosenIs
    <3> QED
      BY <2>3, <3>1 DEF Tick
  <2> QED
    BY <2>2, <2>3 DEF Next, Issue, Expire, Take, SendAck, AnswerLost, AckRefused, Poll,
                      Heartbeat, Telemetry, device, executor
<1> QED
  BY <1>1, Always, PTL DEF Spec, NewestStands

-----------------------------------------------------------------------------
(* The model service: for any number of threads, tasks, rollbacks, failing *)
(* file operations and dying processes, a model that leaves use is the one *)
(* kept for a rollback; and a prediction is not older than its question.   *)
(* The first rests on the lock: what a thread saw of the two files is      *)
(* still so at its next step, as no other thread is between two steps.     *)

CONSTANTS Service, Cli, Reader, MaxJobs, MaxRollbacks, MaxFailures, nobody
VARIABLES inUse, previous, record, lease, ready, work, cache, reader, submitted, rollbacks,
          failures

Jobs == INSTANCE ModelJobs WITH MaxFaults <- MaxFailures, active <- inUse,
                                faults <- failures

Work == [at : {"idle", "opening", "made"} \cup Jobs!Training \cup Jobs!Restoring,
         job : Nat, copy : Nat]

Shape ==
  /\ inUse \in [model : Nat, stamp : Nat]
  /\ previous \in Nat /\ submitted \in Nat
  /\ work \in [Jobs!Thread -> Work]

Holding(p) == work[p].at \in {"opening"} \cup Jobs!Training \cup Jobs!Restoring

Locked == \A p \in Jobs!Thread : Holding(p) => lease = p

\* What a thread knows of the two files at each of its steps.
Knows(p) ==
  /\ work[p].at \in Jobs!Training => work[p].job # 0
  /\ work[p].at = "kept" /\ inUse.model # 0 => previous = inUse.model
  /\ work[p].at = "checked" => previous # 0
  /\ work[p].at = "staged" => work[p].job # 0 /\ work[p].copy = inUse.model
  /\ work[p].at = "swapped" => work[p].job # 0 /\ previous = inUse.model

LInv == Shape /\ Locked /\ \A p \in Jobs!Thread : Knows(p)

USE DEF Jobs!Training, Jobs!Restoring

-----------------------------------------------------------------------------
LEMMA IdleType ==
  /\ Jobs!Idle \in Work /\ Jobs!Idle.at = "idle"
BY DEF Jobs!Idle, Work

LEMMA InitLInv == Jobs!Init => LInv
<1> SUFFICES ASSUME Jobs!Init PROVE LInv
  OBVIOUS
<1>1. \A p \in Jobs!Thread : work[p] = Jobs!Idle
  BY DEF Jobs!Init
<1>2. Shape
  BY IdleType DEF Jobs!Init, Shape
<1>3. Locked /\ \A p \in Jobs!Thread : Knows(p)
  BY <1>1, IdleType DEF Locked, Holding, Knows
<1> QED
  BY <1>2, <1>3 DEF LInv

\* What a thread does while it holds the lock, or while nobody does, or without
\* touching the two files, leaves the others' knowledge true.
LEMMA OthersKnow ==
  ASSUME nobody \notin Jobs!Thread, LInv, Shape', NEW p \in Jobs!Thread,
         \A q \in Jobs!Thread : q # p => work'[q] = work[q],
         lease = p \/ lease = nobody \/ UNCHANGED <<inUse, previous, lease>>,
         Holding(p)' => lease' = p,
         Knows(p)'
  PROVE  LInv'
<1>1. CASE lease = p \/ lease = nobody
  <2>1. \A q \in Jobs!Thread : q # p => ~Holding(q)
    BY <1>1 DEF LInv, Locked
  <2>2. \A q \in Jobs!Thread : q # p => ~Holding(q)'
    BY <2>1 DEF Holding
  <2>3. \A q \in Jobs!Thread : ~Holding(q)' => Knows(q)'
    BY DEF Holding, Knows
  <2> QED
    BY <2>2, <2>3 DEF LInv, Locked
<1>2. CASE UNCHANGED <<inUse, previous, lease>>
  <2>1. \A q \in Jobs!Thread : q # p => Knows(q)' /\ (Holding(q)' => lease' = q)
    BY <1>2 DEF LInv, Locked, Holding, Knows
  <2> QED
    BY <2>1 DEF LInv, Locked
<1> QED
  BY <1>1, <1>2

\* Going to a step changes nothing else.
LEMMA GoesWork ==
  ASSUME Shape, NEW p \in Jobs!Thread, NEW step \in Jobs!Training \cup Jobs!Restoring,
         Jobs!Goes(p, step)
  PROVE  /\ work' = [work EXCEPT ![p] = [at |-> step, job |-> work[p].job,
                                         copy |-> work[p].copy]]
         /\ [at |-> step, job |-> work[p].job, copy |-> work[p].copy] \in Work
<1> DEFINE new == [at |-> step, job |-> work[p].job, copy |-> work[p].copy]
<1>1. work[p] \in Work
  BY DEF Shape
<1>2. step \in {"idle", "opening", "made"} \cup Jobs!Training \cup Jobs!Restoring
  OBVIOUS
<1>3. new \in Work
  BY <1>1, <1>2 DEF Work
<1>4. [work[p] EXCEPT !.at = step] = new
  BY <1>1 DEF Work
<1>5. work' = [work EXCEPT ![p] = new]
  BY <1>4 DEF Jobs!Goes
<1> QED
  BY <1>3, <1>5

\* A thread becomes idle and lets the lock go.
LEMMA EndsLInv ==
  ASSUME nobody \notin Jobs!Thread, LInv, NEW p \in Jobs!Thread, Holding(p), Jobs!Ends(p),
         inUse' \in [model : Nat, stamp : Nat], UNCHANGED <<previous, submitted>>
  PROVE  LInv'
<1>1. /\ work' = [work EXCEPT ![p] = Jobs!Idle] /\ Shape /\ lease = p
  BY DEF Jobs!Ends, LInv, Locked
<1>2. /\ work'[p] = Jobs!Idle
      /\ \A q \in Jobs!Thread : q # p => work'[q] = work[q]
      /\ Shape'
  BY <1>1, IdleType DEF Shape
<1>3. ~Holding(p)' /\ Knows(p)'
  BY <1>2, IdleType DEF Holding, Knows
<1> QED
  BY <1>1, <1>2, <1>3, OthersKnow

\* A thread that holds the lock goes to its next step.
LEMMA GoesLInv ==
  ASSUME nobody \notin Jobs!Thread, LInv, NEW p \in Jobs!Thread, Holding(p),
         NEW new \in Work, work' = [work EXCEPT ![p] = new],
         UNCHANGED <<lease, submitted>>,
         inUse' \in [model : Nat, stamp : Nat], previous' \in Nat,
         work'[p] = new => Knows(p)'
  PROVE  LInv'
<1>1. Shape /\ lease = p
  BY DEF LInv, Locked
<1>2. /\ work'[p] = new
      /\ \A q \in Jobs!Thread : q # p => work'[q] = work[q]
      /\ Shape'
  BY <1>1 DEF Shape
<1> QED
  BY <1>1, <1>2, OthersKnow

LEMMA StepLInv ==
  ASSUME nobody \notin Jobs!Thread, LInv, NEW p \in Jobs!Thread, Holding(p),
         NEW step \in Jobs!Training \cup Jobs!Restoring, Jobs!Goes(p, step),
         UNCHANGED <<lease, submitted>>,
         inUse' \in [model : Nat, stamp : Nat], previous' \in Nat,
         (/\ work'[p].at = step /\ work'[p].job = work[p].job
          /\ work'[p].copy = work[p].copy) => Knows(p)'
  PROVE  LInv'
<1> DEFINE new == [at |-> step, job |-> work[p].job, copy |-> work[p].copy]
<1>1. new \in Work /\ work' = [work EXCEPT ![p] = new]
  BY GoesWork DEF LInv
<1>2. work'[p] = new => Knows(p)'
  OBVIOUS
<1> HIDE DEF new
<1> QED
  BY <1>1, <1>2, GoesLInv

-----------------------------------------------------------------------------
LEMMA ConstructLInv ==
  ASSUME nobody \notin Jobs!Thread, LInv, NEW p \in Jobs!Thread, Jobs!Construct(p)
  PROVE  LInv'
<1>1. /\ Shape /\ work[p].at = "idle" /\ UNCHANGED Jobs!files /\ UNCHANGED submitted
      /\ \/ lease = nobody /\ lease' = p /\ Jobs!Goes(p, "opening")
         \/ UNCHANGED lease /\ Jobs!Built(p)
  BY DEF Jobs!Construct, LInv, Jobs!Free, Jobs!counters
<1>2. /\ work' \in [Jobs!Thread -> Work]
      /\ \A q \in Jobs!Thread : q # p => work'[q] = work[q]
      /\ work'[p].at \in {"opening", "made", "idle"}
      /\ work'[p].at = "opening" => lease' = p
  <2>1. CASE Jobs!Goes(p, "opening") /\ lease' = p
    BY <1>1, <2>1 DEF Shape, Jobs!Goes, Work
  <2>2. CASE Jobs!Built(p)
    <3> DEFINE at == IF p \in Cli THEN "made" ELSE "idle"
    <3>1. work' = [work EXCEPT ![p].at = at] /\ at \in {"made", "idle"}
      BY <2>2 DEF Jobs!Built
    <3> QED
      BY <1>1, <3>1 DEF Shape, Work
  <2> QED
    BY <1>1, <2>1, <2>2
<1>3. Shape' /\ Knows(p)' /\ (Holding(p)' => lease' = p)
  BY <1>1, <1>2 DEF Shape, Knows, Holding, Jobs!files
<1> QED
  BY <1>1, <1>2, <1>3, OthersKnow DEF Jobs!files

LEMMA RecoverLInv ==
  ASSUME nobody \notin Jobs!Thread, LInv, NEW p \in Jobs!Thread, Jobs!Recover(p)
  PROVE  LInv'
<1> DEFINE at == IF p \in Cli THEN "made" ELSE "idle"
<1>1. /\ Shape /\ work[p].at = "opening" /\ UNCHANGED Jobs!files /\ UNCHANGED submitted
      /\ work' = [work EXCEPT ![p].at = at] /\ at \in {"made", "idle"}
  BY DEF Jobs!Recover, Jobs!Built, LInv, Jobs!counters
<1>2. lease = p
  BY <1>1 DEF LInv, Locked, Holding
<1> HIDE DEF at
<1>3. /\ work' \in [Jobs!Thread -> Work]
      /\ \A q \in Jobs!Thread : q # p => work'[q] = work[q]
      /\ work'[p].at \in {"made", "idle"}
  BY <1>1 DEF Shape, Work
<1>4. Shape' /\ Knows(p)' /\ ~Holding(p)'
  BY <1>1, <1>3 DEF Shape, Knows, Holding, Jobs!files
<1> QED
  BY <1>2, <1>3, <1>4, OthersKnow

LEMMA SubmitLInv ==
  ASSUME nobody \notin Jobs!Thread, LInv, NEW p \in Jobs!Thread, Jobs!Submit(p)
  PROVE  LInv'
<1> DEFINE new == [at |-> "queued", job |-> submitted', copy |-> 0]
<1>1. /\ Shape /\ submitted' = submitted + 1 /\ lease = nobody /\ lease' = p
      /\ work' = [work EXCEPT ![p] = new] /\ UNCHANGED Jobs!files
  BY DEF Jobs!Submit, LInv, Jobs!Free
<1>2. submitted' \in Nat /\ submitted' # 0 /\ new \in Work
  BY <1>1 DEF Shape, Work
<1>3. /\ work'[p] = new
      /\ \A q \in Jobs!Thread : q # p => work'[q] = work[q]
      /\ Shape'
  BY <1>1, <1>2 DEF Shape, Jobs!files
<1>4. Knows(p)'
  BY <1>2, <1>3 DEF Knows
<1> QED
  BY <1>1, <1>3, <1>4, OthersKnow

LEMMA RefusedLInv ==
  ASSUME nobody \notin Jobs!Thread, LInv, NEW p \in Jobs!Thread, Jobs!Refused(p)
  PROVE  LInv'
<1>1. /\ Shape /\ work' = [work EXCEPT ![p] = Jobs!Idle]
      /\ UNCHANGED <<Jobs!files, lease, submitted>>
  BY DEF Jobs!Refused, LInv, Jobs!counters
<1>2. /\ work'[p] = Jobs!Idle
      /\ \A q \in Jobs!Thread : q # p => work'[q] = work[q]
      /\ Shape'
  BY <1>1, IdleType DEF Shape, Jobs!files
<1>3. ~Holding(p)' /\ Knows(p)'
  BY <1>2, IdleType DEF Holding, Knows
<1> QED
  BY <1>1, <1>2, <1>3, OthersKnow DEF Jobs!files

LEMMA TrainingLInv ==
  ASSUME nobody \notin Jobs!Thread, LInv, NEW p \in Jobs!Thread,
         Jobs!Run(p) \/ Jobs!Tested(p) \/ Jobs!Keep(p) \/ Jobs!Activate(p)
  PROVE  LInv'
<1>1. Shape /\ work[p] \in Work /\ UNCHANGED <<lease, submitted>>
  BY DEF LInv, Shape, Jobs!Run, Jobs!Tested, Jobs!Keep, Jobs!Activate, Jobs!counters
<1>2. Holding(p) /\ work[p].job # 0
  BY DEF LInv, Knows, Jobs!Run, Jobs!Tested, Jobs!Keep, Jobs!Activate, Holding
<1>3. CASE Jobs!Run(p) \/ Jobs!Tested(p)
  <2>1. PICK step \in {"running", "tested"} : Jobs!Goes(p, step)
    BY <1>3 DEF Jobs!Run, Jobs!Tested
  <2>2. UNCHANGED Jobs!files
    BY <1>3 DEF Jobs!Run, Jobs!Tested
  <2> QED
    BY <1>1, <1>2, <2>1, <2>2, StepLInv DEF Knows, Shape, Jobs!files
<1>4. CASE Jobs!Keep(p)
  <2>1. /\ previous' = IF inUse.model # 0 THEN inUse.model ELSE previous
        /\ Jobs!Goes(p, "kept") /\ UNCHANGED inUse
    BY <1>4 DEF Jobs!Keep
  <2>2. previous' \in Nat /\ (inUse.model # 0 => previous' = inUse.model)
    BY <1>1, <2>1 DEF Shape
  <2> QED
    BY <1>1, <1>2, <2>1, <2>2, StepLInv DEF Knows, Shape
<1>5. CASE Jobs!Activate(p)
  <2>1. /\ inUse' = [model |-> work[p].job, stamp |-> inUse.stamp + 1]
        /\ Jobs!Goes(p, "replaced") /\ UNCHANGED previous
    BY <1>5 DEF Jobs!Activate
  <2>2. inUse' \in [model : Nat, stamp : Nat]
    BY <1>1, <2>1 DEF Shape, Work
  <2> QED
    BY <1>1, <1>2, <2>1, <2>2, StepLInv DEF Knows, Shape
<1> QED
  BY <1>3, <1>4, <1>5

LEMMA RollbackLInv ==
  ASSUME nobody \notin Jobs!Thread, LInv, NEW p \in Jobs!Thread, Jobs!Rollback(p)
  PROVE  LInv'
<1>1. /\ Shape /\ lease = nobody /\ previous # 0 /\ lease' = p /\ Jobs!Goes(p, "checked")
      /\ UNCHANGED <<Jobs!files, submitted>>
  BY DEF Jobs!Rollback, LInv, Jobs!Free
<1>2. /\ work'[p].at = "checked"
      /\ \A q \in Jobs!Thread : q # p => work'[q] = work[q]
      /\ Shape'
  BY <1>1 DEF Shape, Jobs!Goes, Work, Jobs!files
<1>3. Knows(p)'
  BY <1>1, <1>2 DEF Knows, Jobs!files
<1> QED
  BY <1>1, <1>2, <1>3, OthersKnow

LEMMA SwappingLInv ==
  ASSUME nobody \notin Jobs!Thread, LInv, NEW p \in Jobs!Thread,
         Jobs!Stage(p) \/ Jobs!SwapPrevious(p)
  PROVE  LInv'
<1>1. Shape /\ work[p] \in Work /\ UNCHANGED <<lease, submitted>> /\ Holding(p)
      /\ UNCHANGED inUse
  BY DEF LInv, Shape, Jobs!Stage, Jobs!SwapPrevious, Jobs!counters, Holding, Jobs!files
<1>2. CASE Jobs!Stage(p)
  <2> DEFINE new == [at |-> "staged", job |-> previous, copy |-> inUse.model]
  <2>1. /\ work' = [work EXCEPT ![p] = new] /\ UNCHANGED previous
        /\ previous # 0 /\ new \in Work
    BY <1>1, <1>2 DEF Jobs!Stage, LInv, Knows, Jobs!files, Shape, Work
  <2> QED
    BY <1>1, <2>1, GoesLInv DEF Knows, Shape
<1>3. CASE Jobs!SwapPrevious(p)
  <2>1. Jobs!Goes(p, "swapped") /\ previous' = work[p].copy /\ work[p].at = "staged"
    BY <1>3 DEF Jobs!SwapPrevious
  <2>2. work[p].job # 0 /\ work[p].copy = inUse.model
    BY <2>1 DEF LInv, Knows
  <2>3. previous' \in Nat
    BY <1>1, <2>1 DEF Work
  <2> QED
    BY <1>1, <2>1, <2>2, <2>3, StepLInv DEF Knows, Shape
<1> QED
  BY <1>2, <1>3

LEMMA EndingLInv ==
  ASSUME nobody \notin Jobs!Thread, LInv, NEW p \in Jobs!Thread,
         Jobs!Succeed(p) \/ Jobs!TrainingFails(p) \/ Jobs!SwapActive(p) \/ Jobs!RollbackFails(p)
  PROVE  LInv'
<1>1. /\ Shape /\ work[p] \in Work /\ Holding(p) /\ Jobs!Ends(p)
      /\ UNCHANGED <<previous, submitted>>
  BY DEF LInv, Shape, Jobs!Succeed, Jobs!TrainingFails, Jobs!SwapActive, Jobs!RollbackFails,
       Holding, Jobs!files, Jobs!counters
<1>2. inUse' \in [model : Nat, stamp : Nat]
  BY <1>1 DEF Shape, Work, Jobs!Succeed, Jobs!TrainingFails, Jobs!SwapActive,
       Jobs!RollbackFails, Jobs!files
<1> QED
  BY <1>1, <1>2, EndsLInv

LEMMA DieLInv ==
  ASSUME nobody \notin Jobs!Thread, LInv, NEW gone, Jobs!Die(gone)
  PROVE  LInv'
<1>1. /\ Shape
      /\ work' = [p \in Jobs!Thread |-> IF p \in gone THEN Jobs!Idle ELSE work[p]]
      /\ lease' = IF lease \in gone THEN nobody ELSE lease
      /\ UNCHANGED <<inUse, previous, submitted>>
  BY DEF Jobs!Die, LInv, Jobs!files, Jobs!counters
<1>2. Shape'
  BY <1>1, IdleType DEF Shape
<1>3. \A p \in Jobs!Thread : Holding(p)' => /\ p \notin gone /\ work'[p] = work[p]
                                       /\ lease = p /\ lease' = lease
  BY <1>1, IdleType DEF LInv, Locked, Holding
<1>4. \A p \in Jobs!Thread : Knows(p)'
  BY <1>1, <1>3 DEF LInv, Knows, Holding
<1> QED
  BY <1>2, <1>3, <1>4 DEF LInv, Locked

LEMMA NextLInv ==
  ASSUME nobody \notin Jobs!Thread, LInv, [Jobs!Next]_Jobs!vars
  PROVE  LInv'
<1>1. ASSUME NEW p \in Jobs!Thread,
             \/ Jobs!Construct(p) \/ Jobs!Recover(p)
             \/ Jobs!Submit(p) \/ Jobs!Refused(p) \/ Jobs!Run(p) \/ Jobs!Tested(p) \/ Jobs!Keep(p)
             \/ Jobs!Activate(p) \/ Jobs!Succeed(p) \/ Jobs!TrainingFails(p)
             \/ Jobs!Rollback(p) \/ Jobs!Stage(p) \/ Jobs!SwapPrevious(p) \/ Jobs!SwapActive(p)
             \/ Jobs!RollbackFails(p)
      PROVE  LInv'
  BY <1>1, ConstructLInv, RecoverLInv, SubmitLInv, RefusedLInv, TrainingLInv, RollbackLInv,
     SwappingLInv, EndingLInv
<1>2. ASSUME NEW r \in Reader, Jobs!Ask(r) \/ Jobs!Predict(r) PROVE LInv'
  <2>1. UNCHANGED <<inUse, previous, lease, work, submitted>>
    BY <1>2 DEF Jobs!Ask, Jobs!Predict, Jobs!files, Jobs!counters
  <2> QED
    BY <2>1 DEF LInv, Shape, Locked, Holding, Knows
<1>3. CASE Jobs!ServiceDies
  BY <1>3, DieLInv DEF Jobs!ServiceDies
<1>4. ASSUME NEW p \in Cli, Jobs!CliDies(p) PROVE LInv'
  BY <1>4, DieLInv DEF Jobs!CliDies
<1>5. CASE UNCHANGED Jobs!vars
  BY <1>5 DEF Jobs!vars, LInv, Shape, Locked, Holding, Knows
<1> QED
  BY <1>1, <1>2, <1>3, <1>4, <1>5 DEF Jobs!Next

\* For any number of threads, tasks, rollbacks, failures and deaths of a process:
\* the model that leaves use is the one a rollback brings back (ml-service/jobs.py,
\* _train and rollback, under the lock on training.lock).
THEOREM ReplacedModelIsKept ==
  ASSUME nobody \notin Jobs!Thread
  PROVE  Jobs!Spec => Jobs!LastModelIsKept
<1>1. LInv /\ [Jobs!Next]_Jobs!vars => LInv'
  BY NextLInv
<1>2. LInv /\ [Jobs!Next]_Jobs!vars =>
        [inUse' # inUse => /\ inUse'.model # 0
                           /\ inUse.model # 0 => previous = inUse.model]_Jobs!vars
  <2> SUFFICES ASSUME LInv, [Jobs!Next]_Jobs!vars, inUse' # inUse
      PROVE /\ inUse'.model # 0
            /\ inUse.model # 0 => previous = inUse.model
    OBVIOUS
  <2>1. PICK p \in Jobs!Thread : Jobs!Activate(p) \/ Jobs!SwapActive(p)
    BY DEF Jobs!Next, Jobs!vars, Jobs!files, Jobs!Construct, Jobs!Recover, Jobs!Submit,
         Jobs!Refused, Jobs!Run, Jobs!Tested, Jobs!Keep, Jobs!Succeed, Jobs!TrainingFails,
         Jobs!Rollback, Jobs!Stage, Jobs!SwapPrevious, Jobs!RollbackFails, Jobs!Ask,
         Jobs!Predict, Jobs!ServiceDies, Jobs!CliDies, Jobs!Die
  <2>2. Knows(p)
    BY DEF LInv
  <2> QED
    BY <2>1, <2>2 DEF Knows, Jobs!Activate, Jobs!SwapActive
<1>3. Jobs!Spec =>
        [][inUse' # inUse => /\ inUse'.model # 0
                             /\ inUse.model # 0 => previous = inUse.model]_Jobs!vars
  BY InitLInv, <1>1, <1>2, PTL DEF Jobs!Spec
<1> QED
  BY <1>3 DEF Jobs!LastModelIsKept

-----------------------------------------------------------------------------
(* The predictor's cache *)

RShape ==
  /\ inUse.stamp \in Nat
  /\ cache \in [seen : Nat, of : Nat]
  /\ reader \in [Reader -> [asked : BOOLEAN, seen : Nat, of : Nat]]

\* A time of modification seen is not later than the file's; a model loaded is
\* at least as new as the time noted with it.
RInv ==
  /\ RShape
  /\ cache.of >= cache.seen
  /\ \A r \in Reader : reader[r].asked => reader[r].seen <= inUse.stamp
  /\ Jobs!FreshAnswers

LEMMA ReplacedRInv ==
  ASSUME RInv, UNCHANGED Jobs!predictor, inUse'.stamp \in {inUse.stamp, inUse.stamp + 1}
  PROVE  RInv'
<1>1. /\ inUse'.stamp \in Nat /\ inUse.stamp <= inUse'.stamp
      /\ cache' = cache /\ reader' = reader
  BY DEF RInv, RShape, Jobs!predictor
<1>2. RShape'
  BY <1>1 DEF RInv, RShape
<1>3. \A r \in Reader : reader[r].seen \in Nat
  BY DEF RInv, RShape
<1>4. \A r \in Reader : reader'[r].asked => reader'[r].seen <= inUse'.stamp
  BY <1>1, <1>3 DEF RInv, RShape
<1> QED
  BY <1>1, <1>2, <1>4 DEF RInv, Jobs!FreshAnswers

LEMMA AskRInv ==
  ASSUME RInv, NEW r \in Reader, Jobs!Ask(r)
  PROVE  RInv'
<1> DEFINE new == [asked |-> TRUE, seen |-> inUse.stamp, of |-> 0]
<1>1. reader' = [reader EXCEPT ![r] = new] /\ UNCHANGED <<inUse, cache>>
  BY DEF Jobs!Ask, Jobs!files
<1>2. reader'[r] = new /\ \A q \in Reader : q # r => reader'[q] = reader[q]
  BY <1>1 DEF RInv, RShape
<1>3. RShape'
  BY <1>1 DEF RInv, RShape
<1> QED
  BY <1>1, <1>2, <1>3 DEF RInv, RShape, Jobs!FreshAnswers

LEMMA PredictRInv ==
  ASSUME RInv, NEW r \in Reader, Jobs!Predict(r)
  PROVE  RInv'
<1>1. /\ RShape /\ reader[r].seen \in Nat /\ reader[r].seen <= inUse.stamp
      /\ UNCHANGED inUse
      /\ cache' = IF Jobs!Stale(reader[r].seen)
                  THEN [seen |-> reader[r].seen, of |-> inUse.stamp] ELSE cache
      /\ reader' = [reader EXCEPT ![r].asked = FALSE, ![r].of = cache'.of]
  BY DEF RInv, RShape, Jobs!Predict, Jobs!files
<1>2. cache' \in [seen : Nat, of : Nat] /\ cache'.of >= cache'.seen
      /\ cache'.of >= reader[r].seen
  BY <1>1 DEF RInv, RShape, Jobs!Stale
<1>3. /\ reader'[r] = [asked |-> FALSE, seen |-> reader[r].seen, of |-> cache'.of]
      /\ \A q \in Reader : q # r => reader'[q] = reader[q]
      /\ reader' \in [Reader -> [asked : BOOLEAN, seen : Nat, of : Nat]]
  BY <1>1, <1>2 DEF RShape
<1> QED
  BY <1>1, <1>2, <1>3 DEF RInv, RShape, Jobs!FreshAnswers

\* For any number of threads and replacements: a prediction is made from a model
\* that was in use when it was asked for or later (ml-service/predict.py:24-41,
\* where the time of modification is read before the lock is taken).
THEOREM AnswersAreFresh == Jobs!Spec => []Jobs!FreshAnswers
<1>1. Jobs!Init => RInv
  <2> SUFFICES ASSUME Jobs!Init PROVE RInv
    OBVIOUS
  <2>1. /\ inUse.stamp = 0 /\ cache = [seen |-> 0, of |-> 0]
        /\ reader = [r \in Reader |-> [asked |-> FALSE, seen |-> 0, of |-> 0]]
    BY DEF Jobs!Init, Jobs!NoCache, Jobs!NotAsked
  <2> QED
    BY <2>1 DEF RInv, RShape, Jobs!FreshAnswers
<1>2. RInv /\ [Jobs!Next]_Jobs!vars => RInv'
  <2> SUFFICES ASSUME RInv, [Jobs!Next]_Jobs!vars PROVE RInv'
    OBVIOUS
  <2>1. CASE UNCHANGED <<inUse, Jobs!predictor>>
    BY <2>1, ReplacedRInv
  <2>2. ASSUME NEW p \in Jobs!Thread, Jobs!Activate(p) \/ Jobs!SwapActive(p) PROVE RInv'
    BY <2>2, ReplacedRInv DEF Jobs!Activate, Jobs!SwapActive
  <2>3. ASSUME NEW r \in Reader, Jobs!Ask(r) \/ Jobs!Predict(r) PROVE RInv'
    BY <2>3, AskRInv, PredictRInv
  <2>4. CASE Jobs!ServiceDies
    <3>1. /\ UNCHANGED inUse /\ cache' = [seen |-> 0, of |-> 0]
          /\ reader' = [r \in Reader |-> [asked |-> FALSE, seen |-> 0, of |-> 0]]
      BY <2>4 DEF Jobs!ServiceDies, Jobs!Die, Jobs!files, Jobs!NoCache, Jobs!NotAsked
    <3> QED
      BY <3>1 DEF RInv, RShape, Jobs!FreshAnswers
  <2>5. \/ UNCHANGED <<inUse, Jobs!predictor>> \/ Jobs!ServiceDies
        \/ \E p \in Jobs!Thread : Jobs!Activate(p) \/ Jobs!SwapActive(p)
        \/ \E r \in Reader : Jobs!Ask(r) \/ Jobs!Predict(r)
    BY DEF Jobs!Next, Jobs!vars, Jobs!files, Jobs!predictor, Jobs!Construct, Jobs!Recover,
         Jobs!Submit, Jobs!Refused, Jobs!Run, Jobs!Tested, Jobs!Keep, Jobs!Succeed,
         Jobs!TrainingFails, Jobs!Rollback, Jobs!Stage, Jobs!SwapPrevious,
         Jobs!RollbackFails, Jobs!CliDies, Jobs!Die
  <2> QED
    BY <2>1, <2>2, <2>3, <2>4, <2>5
<1>3. RInv => Jobs!FreshAnswers
  BY DEF RInv
<1> QED
  BY <1>1, <1>2, <1>3, PTL DEF Jobs!Spec

-----------------------------------------------------------------------------
\* The types of the service's state, which are more than Shape says: the number of a
\* task and the time of a file stay within the bounds.
Replacing == {"queued", "running", "tested", "kept"} \cup Jobs!Restoring
Places == {"idle", "opening", "made"} \cup Jobs!Training \cup Jobs!Restoring
Loaded == [seen : Jobs!Stamp, of : Jobs!Stamp]
Answer == [asked : BOOLEAN, seen : Jobs!Stamp, of : Jobs!Stamp]
Task == [at : Places, job : Jobs!Model, copy : Jobs!Model]

USE DEF Replacing, Places, Loaded, Answer

JobsBounds == MaxJobs \in Nat /\ MaxRollbacks \in Nat /\ MaxFailures \in Nat

\* A replacement is one of a task or of a rollback, and each makes one at most: those
\* under way have theirs before them.
Budget ==
  /\ inUse.stamp <= submitted + rollbacks
  /\ \A p \in Jobs!Thread :
       work[p].at \in Replacing => inUse.stamp < submitted + rollbacks

\* A thread's next step, and what it does instead.
LEMMA WorkMoves ==
  ASSUME Jobs!TypeOK, NEW p \in Jobs!Thread, NEW step \in Places,
         work' = [work EXCEPT ![p].at = step]
  PROVE  /\ work' \in [Jobs!Thread -> Task]
         /\ work'[p].at = step /\ \A q \in Jobs!Thread : q # p => work'[q] = work[q]
<1>1. work \in [Jobs!Thread -> Task]
  BY DEF Jobs!TypeOK, Task
<1>2. [work[p] EXCEPT !.at = step] \in Task /\ [work[p] EXCEPT !.at = step].at = step
  BY <1>1 DEF Task
<1> QED
  BY <1>1, <1>2

LEMMA WorkSet ==
  ASSUME Jobs!TypeOK, NEW p \in Jobs!Thread, NEW new \in Task,
         work' = [work EXCEPT ![p] = new]
  PROVE  /\ work' \in [Jobs!Thread -> Task]
         /\ work'[p] = new /\ \A q \in Jobs!Thread : q # p => work'[q] = work[q]
BY DEF Jobs!TypeOK, Task

LEMMA IdleJob == JobsBounds => Jobs!Idle \in Task /\ Jobs!Idle.at = "idle"
BY DEF JobsBounds, Jobs!Idle, Task, Jobs!Model

\* What a step that replaces nothing does to the rest.
Aside ==
  /\ lease' \in Jobs!Thread \cup {nobody} /\ ready' \in BOOLEAN
  /\ failures' \in 0..MaxFailures
  /\ record' \in [job : Jobs!Model,
                  status : Jobs!Unfinished \cup {"none", "succeeded", "failed"}]
  /\ previous' \in Jobs!Model /\ UNCHANGED <<inUse, cache, reader>>
  /\ submitted' \in Jobs!Model /\ rollbacks' \in 0..MaxRollbacks
  /\ submitted <= submitted' /\ rollbacks <= rollbacks'

\* A step of a thread that replaces nothing.
LEMMA ThreadKeeps ==
  ASSUME JobsBounds, Jobs!TypeOK, Budget, NEW p \in Jobs!Thread,
         work' \in [Jobs!Thread -> Task], \A q \in Jobs!Thread : q # p => work'[q] = work[q],
         Aside,
         \/ work'[p].at \in {"idle", "opening", "made", "replaced"}
         \/ submitted + rollbacks < submitted' + rollbacks'
         \/ work[p].at \in Replacing
  PROVE  Jobs!TypeOK' /\ Budget'
<1>1. Jobs!TypeOK'
  BY DEF Jobs!TypeOK, Task, Aside
<1>2. /\ inUse.stamp \in Nat /\ submitted \in Nat /\ submitted' \in Nat
      /\ rollbacks \in Nat /\ rollbacks' \in Nat /\ inUse' = inUse
  BY DEF Jobs!TypeOK, JobsBounds, Jobs!Model, Jobs!Stamp, Aside
<1> DEFINE stamp == inUse.stamp
           spent == submitted + rollbacks
           Ready(q) == work[q].at \in Replacing
<1>3. stamp \in Nat /\ spent \in Nat /\ spent' \in Nat /\ spent <= spent' /\ stamp' = stamp
  <2>1. submitted <= submitted' /\ rollbacks <= rollbacks'
    BY DEF Aside
  <2> QED
    BY <1>2, <2>1
<1>4. stamp <= spent /\ \A q \in Jobs!Thread : Ready(q) => stamp < spent
  BY DEF Budget
<1>5. \A q \in Jobs!Thread : q # p => (Ready(q)' <=> Ready(q))
  OBVIOUS
<1>6. Ready(p)' => spent < spent' \/ Ready(p)
  OBVIOUS
<1>7. stamp' <= spent' /\ \A q \in Jobs!Thread : Ready(q)' => stamp' < spent'
  <2> HIDE DEF stamp, spent, Ready
  <2> QED
    BY <1>3, <1>4, <1>5, <1>6
<1>8. Budget'
  BY <1>7 DEF Budget
<1> QED
  BY <1>1, <1>8

\* A replacement.
LEMMA SwapKeeps ==
  ASSUME JobsBounds, nobody \notin Jobs!Thread, LInv, Jobs!TypeOK, Budget,
         NEW p \in Jobs!Thread,
         work[p].at \in {"kept", "swapped"}, work' \in [Jobs!Thread -> Task],
         \A q \in Jobs!Thread : q # p => work'[q] = work[q],
         work'[p].at \in {"replaced", "idle"}, lease' \in Jobs!Thread \cup {nobody},
         inUse' = [model |-> work[p].job, stamp |-> inUse.stamp + 1],
         UNCHANGED <<previous, record, ready, Jobs!predictor, Jobs!counters, failures>>
  PROVE  Jobs!TypeOK' /\ Budget'
<1>1. /\ inUse.stamp \in Nat /\ submitted \in 0..MaxJobs /\ rollbacks \in 0..MaxRollbacks
      /\ inUse.stamp < submitted + rollbacks /\ work[p].job \in Jobs!Model
  BY DEF Jobs!TypeOK, JobsBounds, Jobs!Model, Jobs!Stamp, Budget
<1>2. inUse'.stamp = inUse.stamp + 1 /\ inUse' \in [model : Jobs!Model, stamp : Jobs!Stamp]
  BY <1>1 DEF JobsBounds, Jobs!Stamp
<1>3. Jobs!TypeOK'
  BY <1>2 DEF Jobs!TypeOK, Jobs!predictor, Jobs!counters, Task
<1>4. \A q \in Jobs!Thread : q # p => ~Holding(q)
  BY DEF LInv, Locked, Holding
<1>5. Budget'
  BY <1>1, <1>2, <1>4 DEF Budget, Jobs!counters, Holding
<1> QED
  BY <1>3, <1>5

\* Every step keeps the types and the budget of replacements.
LEMMA NextJobsType ==
  ASSUME JobsBounds, nobody \notin Jobs!Thread, LInv, Jobs!TypeOK, Budget,
         [Jobs!Next]_Jobs!vars
  PROVE  Jobs!TypeOK' /\ Budget'
<1>1. ASSUME NEW p \in Jobs!Thread, Jobs!Construct(p) PROVE Jobs!TypeOK' /\ Budget'
  <2>1. work' \in [Jobs!Thread -> Task] /\ work'[p].at \in {"idle", "opening", "made"}
        /\ \A q \in Jobs!Thread : q # p => work'[q] = work[q]
    BY <1>1, WorkMoves DEF Jobs!Construct, Jobs!Goes, Jobs!Built
  <2>2. ready' \in BOOLEAN
    BY <1>1 DEF Jobs!Construct, Jobs!Built, Jobs!TypeOK
  <2>3. Aside
    BY <1>1, <2>2 DEF Jobs!Construct, Jobs!Built, Jobs!Free, Jobs!files, Jobs!counters,
         Jobs!predictor, Jobs!TypeOK, Aside, JobsBounds, Jobs!Unfinished, Jobs!Model
  <2> QED
    BY <1>1, <2>1, <2>3, ThreadKeeps DEF Jobs!Construct, Jobs!Built
<1>2. ASSUME NEW p \in Jobs!Thread, Jobs!Recover(p) PROVE Jobs!TypeOK' /\ Budget'
  <2>1. work' \in [Jobs!Thread -> Task] /\ work'[p].at \in {"idle", "opening", "made"}
        /\ \A q \in Jobs!Thread : q # p => work'[q] = work[q]
    BY <1>2, WorkMoves DEF Jobs!Recover, Jobs!Built
  <2>2. ready' \in BOOLEAN
    BY <1>2 DEF Jobs!Recover, Jobs!Built, Jobs!TypeOK
  <2>3. Aside
    BY <1>2, <2>2 DEF Jobs!Recover, Jobs!Built, Jobs!Saved, Jobs!files, Jobs!counters,
         Jobs!predictor, Jobs!TypeOK, Aside, JobsBounds, Jobs!Unfinished, Jobs!Model
  <2> QED
    BY <1>2, <2>1, <2>3, ThreadKeeps DEF Jobs!Recover, Jobs!Built
<1>3. ASSUME NEW p \in Jobs!Thread, Jobs!Submit(p) PROVE Jobs!TypeOK' /\ Budget'
  <2>1. submitted \in 0..MaxJobs /\ submitted' = submitted + 1 /\ submitted' \in Jobs!Model
        /\ rollbacks \in 0..MaxRollbacks
    BY <1>3 DEF Jobs!Submit, Jobs!TypeOK, Jobs!Model, JobsBounds
  <2>2. [at |-> "queued", job |-> submitted', copy |-> 0] \in Task
    BY <2>1 DEF Task, Jobs!Model, JobsBounds
  <2>3. work' \in [Jobs!Thread -> Task] /\ \A q \in Jobs!Thread : q # p => work'[q] = work[q]
    BY <1>3, <2>2, WorkSet DEF Jobs!Submit
  <2>4. Aside
    BY <1>3, <2>1, <2>3 DEF Jobs!Submit, Jobs!Saved, Jobs!files, Jobs!predictor,
         Jobs!TypeOK, JobsBounds, Jobs!Unfinished, Aside, Jobs!Model
  <2> QED
    BY <1>3, <2>1, <2>3, <2>4, ThreadKeeps DEF Jobs!Submit
<1>4. ASSUME NEW p \in Jobs!Thread, Jobs!Refused(p) PROVE Jobs!TypeOK' /\ Budget'
  <2>1. work' \in [Jobs!Thread -> Task] /\ work'[p].at = "idle"
        /\ \A q \in Jobs!Thread : q # p => work'[q] = work[q]
    BY <1>4, IdleJob, WorkSet DEF Jobs!Refused
  <2>2. Aside
    BY <1>4, <2>1 DEF Jobs!Refused, Jobs!files, Jobs!counters, Jobs!predictor,
         Jobs!TypeOK, Aside, JobsBounds, Jobs!Unfinished, Jobs!Model
  <2> QED
    BY <1>4, <2>1, <2>2, ThreadKeeps DEF Jobs!Refused
<1>5. ASSUME NEW p \in Jobs!Thread, Jobs!Run(p) \/ Jobs!Tested(p)
      PROVE  Jobs!TypeOK' /\ Budget'
  <2>1. work' \in [Jobs!Thread -> Task] /\ \A q \in Jobs!Thread : q # p => work'[q] = work[q]
    BY <1>5, WorkMoves DEF Jobs!Run, Jobs!Tested, Jobs!Goes
  <2>2. Aside
    BY <1>5, <2>1 DEF Jobs!Run, Jobs!Tested, Jobs!Saved, Jobs!files, Jobs!counters,
         Jobs!predictor, Jobs!TypeOK, Jobs!Unfinished, Task, Aside, JobsBounds, Jobs!Model
  <2> QED
    BY <1>5, <2>1, <2>2, ThreadKeeps DEF Jobs!Run, Jobs!Tested
<1>6. ASSUME NEW p \in Jobs!Thread, Jobs!Keep(p) PROVE Jobs!TypeOK' /\ Budget'
  <2>1. work' \in [Jobs!Thread -> Task] /\ \A q \in Jobs!Thread : q # p => work'[q] = work[q]
    BY <1>6, WorkMoves DEF Jobs!Keep, Jobs!Goes
  <2>2. Aside
    BY <1>6, <2>1 DEF Jobs!Keep, Jobs!counters, Jobs!predictor, Jobs!TypeOK, Aside,
         JobsBounds, Jobs!Unfinished, Jobs!Model
  <2> QED
    BY <1>6, <2>1, <2>2, ThreadKeeps DEF Jobs!Keep
<1>7. ASSUME NEW p \in Jobs!Thread, Jobs!Activate(p) PROVE Jobs!TypeOK' /\ Budget'
  <2>1. work' \in [Jobs!Thread -> Task] /\ work'[p].at = "replaced"
        /\ \A q \in Jobs!Thread : q # p => work'[q] = work[q]
    BY <1>7, WorkMoves DEF Jobs!Activate, Jobs!Goes
  <2> QED
    BY <1>7, <2>1, SwapKeeps DEF Jobs!Activate, Jobs!TypeOK
<1>8. ASSUME NEW p \in Jobs!Thread, Jobs!SwapActive(p) PROVE Jobs!TypeOK' /\ Budget'
  <2>1. work' \in [Jobs!Thread -> Task] /\ work'[p].at = "idle"
        /\ \A q \in Jobs!Thread : q # p => work'[q] = work[q]
    BY <1>8, IdleJob, WorkSet DEF Jobs!SwapActive, Jobs!Ends
  <2> QED
    BY <1>8, <2>1, SwapKeeps DEF Jobs!SwapActive, Jobs!Ends
<1>9. ASSUME NEW p \in Jobs!Thread,
             Jobs!Succeed(p) \/ Jobs!TrainingFails(p) \/ Jobs!RollbackFails(p)
      PROVE  Jobs!TypeOK' /\ Budget'
  <2>1. work' \in [Jobs!Thread -> Task] /\ work'[p].at = "idle"
        /\ \A q \in Jobs!Thread : q # p => work'[q] = work[q]
    BY <1>9, IdleJob, WorkSet DEF Jobs!Succeed, Jobs!TrainingFails, Jobs!RollbackFails,
         Jobs!Ends
  <2>2. work[p].job \in Jobs!Model
    BY DEF Jobs!TypeOK
  <2>3. failures' \in 0..MaxFailures
    BY <1>9 DEF Jobs!TypeOK, JobsBounds, Jobs!Succeed, Jobs!TrainingFails,
         Jobs!RollbackFails, Jobs!Fault
  <2>4. Aside
    BY <1>9, <2>1, <2>2, <2>3 DEF Jobs!Succeed, Jobs!TrainingFails, Jobs!RollbackFails,
         Jobs!Ends, Jobs!Saved, Jobs!files, Jobs!counters, Jobs!predictor, Jobs!TypeOK,
         Aside, JobsBounds, Jobs!Unfinished, Jobs!Model
  <2> QED
    BY <1>9, <2>1, <2>2, <2>3, <2>4, ThreadKeeps DEF Jobs!Succeed, Jobs!TrainingFails,
         Jobs!RollbackFails, Jobs!Ends
<1>10. ASSUME NEW p \in Jobs!Thread, Jobs!Rollback(p) PROVE Jobs!TypeOK' /\ Budget'
  <2>1. work' \in [Jobs!Thread -> Task] /\ \A q \in Jobs!Thread : q # p => work'[q] = work[q]
    BY <1>10, WorkMoves DEF Jobs!Rollback, Jobs!Goes
  <2>2. rollbacks' \in 0..MaxRollbacks /\ rollbacks' = rollbacks + 1 /\ rollbacks \in Nat
        /\ submitted \in Nat
    BY <1>10 DEF Jobs!TypeOK, JobsBounds, Jobs!Rollback, Jobs!Model
  <2>3. Aside
    BY <1>10, <2>1, <2>2 DEF Jobs!Rollback, Jobs!files, Jobs!predictor, Jobs!TypeOK,
         Aside, JobsBounds, Jobs!Unfinished, Jobs!Model
  <2> QED
    BY <1>10, <2>1, <2>2, <2>3, ThreadKeeps DEF Jobs!Rollback
<1>11. ASSUME NEW p \in Jobs!Thread, Jobs!Stage(p) \/ Jobs!SwapPrevious(p)
       PROVE  Jobs!TypeOK' /\ Budget'
  <2>1. CASE Jobs!Stage(p)
    <3>1. [at |-> "staged", job |-> previous, copy |-> inUse.model] \in Task
      BY DEF Task, Jobs!TypeOK
    <3>2. work' \in [Jobs!Thread -> Task]
          /\ \A q \in Jobs!Thread : q # p => work'[q] = work[q]
      BY <2>1, <3>1, WorkSet DEF Jobs!Stage
    <3>3. Aside
      BY <2>1, <3>2 DEF Jobs!Stage, Jobs!files, Jobs!counters, Jobs!predictor,
           Jobs!TypeOK, Aside, JobsBounds, Jobs!Unfinished, Jobs!Model
    <3> QED
      BY <2>1, <3>2, <3>3, ThreadKeeps DEF Jobs!Stage
  <2>2. CASE Jobs!SwapPrevious(p)
    <3>1. work' \in [Jobs!Thread -> Task]
          /\ \A q \in Jobs!Thread : q # p => work'[q] = work[q]
      BY <2>2, WorkMoves DEF Jobs!SwapPrevious, Jobs!Goes
    <3>2. Aside
      BY <2>2, <3>1 DEF Jobs!SwapPrevious, Jobs!counters, Jobs!predictor, Jobs!TypeOK,
           Aside, JobsBounds, Jobs!Unfinished, Jobs!Model
    <3> QED
      BY <2>2, <3>1, <3>2, ThreadKeeps DEF Jobs!SwapPrevious
  <2> QED
    BY <1>11, <2>1, <2>2
<1>12. ASSUME NEW r \in Reader, Jobs!Ask(r) \/ Jobs!Predict(r) PROVE Jobs!TypeOK' /\ Budget'
  <2>1. Budget'
    BY <1>12 DEF Jobs!Ask, Jobs!Predict, Jobs!files, Jobs!counters, Budget
  <2>2. 0 \in Jobs!Stamp /\ inUse.stamp \in Jobs!Stamp
    BY DEF JobsBounds, Jobs!Stamp, Jobs!TypeOK
  <2>3. CASE Jobs!Ask(r)
    <3>1. [asked |-> TRUE, seen |-> inUse.stamp, of |-> 0] \in Answer
      BY <2>2
    <3>2. reader' \in [Reader -> Answer]
      BY <2>3, <3>1 DEF Jobs!Ask, Jobs!TypeOK
    <3> QED
      BY <2>1, <2>3, <3>2 DEF Jobs!Ask, Jobs!files, Jobs!counters, Jobs!TypeOK
  <2>4. CASE Jobs!Predict(r)
    <3>1. reader[r] \in Answer
      BY DEF Jobs!TypeOK
    <3>2. cache' \in Loaded
      BY <2>2, <2>4, <3>1 DEF Jobs!Predict, Jobs!TypeOK
    <3>3. [[reader[r] EXCEPT !.asked = FALSE] EXCEPT !.of = cache'.of] \in Answer
      BY <3>1, <3>2
    <3>4. reader' \in [Reader -> Answer]
      BY <2>4, <3>1, <3>2, <3>3 DEF Jobs!Predict, Jobs!TypeOK
    <3> QED
      BY <2>1, <2>4, <3>2, <3>4 DEF Jobs!Predict, Jobs!files, Jobs!counters, Jobs!TypeOK
  <2> QED
    BY <1>12, <2>3, <2>4
<1>13. ASSUME NEW gone \in SUBSET Jobs!Thread, Jobs!Die(gone), ready' \in BOOLEAN,
             \/ Jobs!predictor' = Jobs!predictor
             \/ (cache' = Jobs!NoCache /\ reader' = [r \in Reader |-> Jobs!NotAsked])
      PROVE  Jobs!TypeOK' /\ Budget'
  <2>1. work' \in [Jobs!Thread -> Task]
        /\ \A p \in Jobs!Thread : work'[p] = work[p] \/ work'[p].at = "idle"
    BY <1>13, IdleJob DEF Jobs!Die, Jobs!TypeOK, Task
  <2>2. cache' \in Loaded /\ reader' \in [Reader -> Answer]
    <3>1. 0 \in Jobs!Stamp
      BY DEF JobsBounds, Jobs!Stamp
    <3>2. Jobs!NoCache \in Loaded
          /\ Jobs!NotAsked \in Answer
      BY <3>1 DEF Jobs!NoCache, Jobs!NotAsked
    <3>3. CASE Jobs!predictor' = Jobs!predictor
      BY <3>3 DEF Jobs!predictor, Jobs!TypeOK
    <3>4. CASE cache' = Jobs!NoCache /\ reader' = [r \in Reader |-> Jobs!NotAsked]
      BY <3>2, <3>4
    <3> QED
      BY <1>13, <3>3, <3>4
  <2>3. failures' \in 0..MaxFailures
    BY <1>13 DEF Jobs!TypeOK, JobsBounds, Jobs!Die, Jobs!Fault
  <2>4. Jobs!TypeOK'
    BY <1>13, <2>1, <2>2, <2>3 DEF Jobs!Die, Jobs!files, Jobs!counters, Jobs!TypeOK, Task
  <2>5. Budget'
    BY <1>13, <2>1 DEF Jobs!Die, Jobs!files, Jobs!counters, Budget
  <2> QED
    BY <2>4, <2>5
<1>14. CASE Jobs!ServiceDies
  <2>1. Jobs!Die(Service) /\ Service \in SUBSET Jobs!Thread /\ ready' \in BOOLEAN
        /\ cache' = Jobs!NoCache /\ reader' = [r \in Reader |-> Jobs!NotAsked]
    BY <1>14 DEF Jobs!ServiceDies, Jobs!Thread
  <2> QED
    BY <1>13, <2>1
<1>15. ASSUME NEW p \in Cli, Jobs!CliDies(p) PROVE Jobs!TypeOK' /\ Budget'
  <2>1. Jobs!Die({p}) /\ {p} \in SUBSET Jobs!Thread /\ ready' \in BOOLEAN
        /\ Jobs!predictor' = Jobs!predictor
    BY <1>15 DEF Jobs!CliDies, Jobs!Thread, Jobs!TypeOK
  <2> QED
    BY <1>13, <2>1
<1>16. CASE UNCHANGED Jobs!vars
  BY <1>16 DEF Jobs!vars, Jobs!TypeOK, Budget
<1> QED
  BY <1>1, <1>2, <1>3, <1>4, <1>5, <1>6, <1>7, <1>8, <1>9, <1>10, <1>11, <1>12, <1>14,
     <1>15, <1>16 DEF Jobs!Next

\* For any number of threads, tasks, rollbacks and failures: no step of a training or of
\* a rollback, whichever fails, leaves the types (ml-service/jobs.py, predict.py).  The
\* lock is used for the time of the active file: of the threads that hold a training or
\* a rollback not yet replaced there is one.
THEOREM JobsTypeOK ==
  ASSUME JobsBounds, nobody \notin Jobs!Thread
  PROVE  Jobs!Spec => []Jobs!TypeOK
<1>1. Jobs!Init => Jobs!TypeOK /\ Budget
  <2> SUFFICES ASSUME Jobs!Init PROVE Jobs!TypeOK /\ Budget
    OBVIOUS
  <2>1. 0 \in Jobs!Model /\ 0 \in Jobs!Stamp /\ 0 \in 0..MaxRollbacks /\ 0 \in 0..MaxFailures
    BY DEF JobsBounds, Jobs!Model, Jobs!Stamp
  <2>2. work \in [Jobs!Thread -> Task] /\ \A p \in Jobs!Thread : work[p].at = "idle"
    BY IdleJob DEF Jobs!Init
  <2>3. Jobs!TypeOK
    BY <2>1, <2>2 DEF Jobs!Init, Jobs!TypeOK, Task, Jobs!NoCache, Jobs!NotAsked,
         Jobs!Unfinished
  <2>4. Budget
    BY <2>2 DEF Jobs!Init, Budget
  <2> QED
    BY <2>3, <2>4
<1>2. LInv /\ Jobs!TypeOK /\ Budget /\ [Jobs!Next]_Jobs!vars => Jobs!TypeOK' /\ Budget'
  BY NextJobsType
<1>3. LInv /\ [Jobs!Next]_Jobs!vars => LInv'
  BY NextLInv
<1> QED
  BY <1>1, <1>2, <1>3, InitLInv, PTL DEF Jobs!Spec
=============================================================================
