----------------------- MODULE FirmwareControllerProofs -----------------------
(***************************************************************************)
(* Theorems about the controller, for any fans, readings, feedback,        *)
(* requests and policies, any lengths of its timers, its ring and its      *)
(* queue, and any number of commands.                                      *)
(*                                                                         *)
(* The operations of Controller are functions from one controller to the   *)
(* next.  Each has a lemma that says what it leaves alone and which of the *)
(* predicates below it keeps; a cycle of the control task is then a chain  *)
(* of those lemmas.                                                        *)
(***************************************************************************)
EXTENDS FirmwareController, FiniteSetTheorems, SequenceTheorems, TLAPS

USE FirmwareControllerAssumption

Ctl(c) ==
  /\ c \in Controller /\ Len(c.completed) <= RingSize
  /\ \A t \in Targets : c.active[t] # None => c.active[t].target = t

-----------------------------------------------------------------------------
(* The history                                                             *)

Ages == [Ids -> 0..RingSize]

LEMMA FiniteIds ==
  ASSUME NEW E \in SUBSET Ids
  PROVE  IsFiniteSet(E) /\ Cardinality(E) \in Nat /\ (E # {} => Cardinality(E) >= 1)
<1>1. IsFiniteSet(Ids)
  BY FS_Interval DEF Ids, FirmwareControllerAssumption
<1>2. IsFiniteSet(E)
  BY <1>1, FS_Subset
<1>3. Cardinality(E) \in Nat /\ (Cardinality(E) = 0 <=> E = {})
  BY <1>2, FS_CardinalityType, FS_EmptySet
<1> QED
  BY <1>2, <1>3

LEMMA CountedType ==
  ASSUME NEW s \in Ages, NEW E \in SUBSET Ids
  PROVE  Counted(s, E) \in Ages
<1>1. Cardinality(E) \in Nat /\ (E # {} => Cardinality(E) >= 1)
  BY FiniteIds
<1>2. ASSUME NEW i \in Ids
      PROVE  (LET n == IF i \in E THEN Cardinality(E) - 1 ELSE s[i] + Cardinality(E)
              IN IF n < RingSize THEN n ELSE RingSize) \in 0..RingSize
  <2>1. s[i] \in 0..RingSize /\ RingSize \in Nat
    BY FirmwareControllerAssumption DEF Ages
  <2>2. i \in E => Cardinality(E) >= 1
    BY <1>1
  <2> QED
    BY <1>1, <2>1, <2>2
<1> QED
  BY <1>1, <1>2 DEF Counted, Ages

LEMMA EndedType ==
  ASSUME NEW c, NEW d, Ctl(c)
  PROVE  Ended(c, d) \subseteq Ids
<1> SUFFICES ASSUME NEW t \in Live(c)
             PROVE  c.active[t].id \in Ids
  BY DEF Ended
<1>1. c.active[t] \in Command
  BY DEF Ctl, Controller, Live
<1> QED
  BY <1>1 DEF Command

LEMMA NothingCounted ==
  ASSUME NEW s \in Ages
  PROVE  Counted(s, {}) = s
<1>1. Cardinality({}) = 0
  BY FS_EmptySet
<1>2. \A i \in Ids : s[i] \in 0..RingSize /\ RingSize \in Nat
  BY FirmwareControllerAssumption DEF Ages
<1>3. \A i \in Ids : Counted(s, {})[i] = s[i]
  BY <1>1, <1>2 DEF Counted
<1> QED
  BY <1>3, CountedType DEF Ages

-----------------------------------------------------------------------------
(* Sequences                                                               *)

LEMMA SetToSeqType ==
  ASSUME NEW S, IsFiniteSet(S)
  PROVE  /\ Len(SetToSeq(S)) = Cardinality(S)
         /\ \A T : S \subseteq T => SetToSeq(S) \in Seq(T)
<1>1. Cardinality(S) \in Nat /\ ExistsBijection(1..Cardinality(S), S)
  BY FS_CardinalityType
<1>2. PICK g \in Bijection(1..Cardinality(S), S) : TRUE
  BY <1>1 DEF ExistsBijection
<1>3. g \in [1..Cardinality(S) -> S] /\ IsInjective(g)
  BY <1>2 DEF Bijection, Injection
<1>4. SetToSeq(S) \in [1..Cardinality(S) -> S]
  BY <1>3 DEF SetToSeq
<1> QED
  BY <1>1, <1>4

LEMMA RememberType ==
  ASSUME NEW ring \in Seq(Ids), Len(ring) <= RingSize, NEW S \in SUBSET Ids
  PROVE  /\ Remember(ring, S) \in Seq(Ids)
         /\ Len(Remember(ring, S)) <= RingSize
<1> DEFINE all == ring \o SetToSeq(S)
<1>1. IsFiniteSet(S)
  <2>1. IsFiniteSet(Ids)
    BY FS_Interval DEF Ids, FirmwareControllerAssumption
  <2> QED
    BY <2>1, FS_Subset
<1>2. SetToSeq(S) \in Seq(Ids)
  BY <1>1, SetToSeqType
<1>3. all \in Seq(Ids) /\ Len(all) \in Nat
  BY <1>2, ConcatProperties, LenProperties
<1> HIDE DEF all
<1>4. Remember(ring, S) = IF Len(all) <= RingSize THEN all
                          ELSE SubSeq(all, Len(all) - RingSize + 1, Len(all))
  BY DEF Remember, all
<1>5. RingSize \in Nat \ {0}
  BY DEF FirmwareControllerAssumption
<1>6. CASE Len(all) <= RingSize
  BY <1>3, <1>4, <1>6
<1>7. CASE ~(Len(all) <= RingSize)
  <2> DEFINE m == Len(all) - RingSize + 1
             n == Len(all)
  <2>1. m \in Int /\ n \in Int /\ m <= n /\ n - m + 1 = RingSize /\ m >= 1
    BY <1>3, <1>5, <1>7
  <2>2. \A i \in m..n : all[i] \in Ids
    BY <1>3, <2>1, ElementOfSeq
  <2> HIDE DEF m, n
  <2>3. SubSeq(all, m, n) \in Seq(Ids) /\ Len(SubSeq(all, m, n)) = RingSize
    BY <2>1, <2>2, SubSeqProperties
  <2> QED
    BY <1>4, <1>5, <1>7, <2>3 DEF m, n
<1> QED
  BY <1>6, <1>7

-----------------------------------------------------------------------------
(* What the operations compute, field by field                             *)

LEMMA ConstantTypes ==
  /\ Window \in Targets /\ Window \notin Fans /\ Fans \subseteq Targets
  /\ \A t \in Targets : t # Window => t \in Fans
  /\ Settle \in Nat /\ Limit \in Nat /\ Minimum \in Nat /\ Settle > 0
  /\ 0 \in 0..Limit /\ 0 \in 0..Minimum
  /\ \A a \in 0..Limit : a \in 0..Minimum
BY DEF FirmwareControllerAssumption, Targets

LEMMA CommandType ==
  /\ None.id = 0
  /\ \A cmd \in Command : /\ cmd # None /\ cmd.id \in Ids /\ cmd.id # 0
                          /\ cmd.target \in Targets
                          /\ cmd.desired \in BOOLEAN /\ cmd.manual \in BOOLEAN
BY DEF Command, None, Ids, FirmwareControllerAssumption

LEMMA StopFields ==
  ASSUME NEW c, Ctl(c), NEW T
  PROVE  LET d == Stop(c, T)
         IN /\ Ctl(d)
            /\ \A f \in Fans : d.fan[f] = (c.fan[f] /\ f \notin T)
            /\ d.open = (c.open /\ Window \notin T)
            /\ d.close = (c.close /\ Window \notin T)
            /\ d.active = c.active /\ d.age = c.age /\ d.moving = c.moving
            /\ d.moveAge = c.moveAge /\ d.windowFault = c.windowFault
            /\ d.fanFault = c.fanFault /\ d.safeWindow = c.safeWindow
            /\ d.safeFans = c.safeFans
<1> DEFINE fan == [f \in Fans |-> c.fan[f] /\ f \notin T]
           open == c.open /\ Window \notin T
           close == c.close /\ Window \notin T
           d == [c EXCEPT !.fan = fan, !.open = open, !.close = close]
<1>1. Stop(c, T) = d
  BY DEF Stop
<1>2. fan \in [Fans -> BOOLEAN] /\ open \in BOOLEAN /\ close \in BOOLEAN
  OBVIOUS
<1> HIDE DEF fan, open, close
<1>3. d \in Controller
  BY <1>2 DEF Ctl, Controller
<1>4. /\ d.fan = fan /\ d.open = open /\ d.close = close
      /\ d.active = c.active /\ d.age = c.age /\ d.moving = c.moving
      /\ d.moveAge = c.moveAge /\ d.windowFault = c.windowFault
      /\ d.fanFault = c.fanFault /\ d.safeWindow = c.safeWindow
      /\ d.safeFans = c.safeFans /\ d.completed = c.completed
  BY DEF Ctl, Controller
<1> HIDE DEF d
<1>5. Ctl(d)
  BY <1>3, <1>4 DEF Ctl
<1>6. \A f \in Fans : fan[f] = (c.fan[f] /\ f \notin T)
  BY DEF fan
<1> QED
  BY <1>1, <1>4, <1>5, <1>6 DEF open, close

LEMMA FinishFields ==
  ASSUME NEW c, Ctl(c), NEW T, NEW outcome \in Outcome
  PROVE  LET d == Finish(c, T, outcome)
         IN /\ Ctl(d)
            /\ \A t \in Targets : /\ d.active[t] = IF t \in T THEN None ELSE c.active[t]
                                 /\ d.age[t] = IF t \in T /\ t = Window THEN 0 ELSE c.age[t]
            /\ d.fan = c.fan /\ d.open = c.open /\ d.close = c.close
            /\ d.moving = c.moving /\ d.moveAge = c.moveAge
            /\ d.windowFault = c.windowFault /\ d.fanFault = c.fanFault
            /\ d.safeWindow = c.safeWindow /\ d.safeFans = c.safeFans
            /\ d.override = c.override
<1> DEFINE L == T \cap Live(c)
           result == [t \in Targets |-> IF t \in L
                                        THEN [id |-> c.active[t].id, outcome |-> outcome]
                                        ELSE c.result[t]]
           S == {c.active[t].id : t \in L}
           completed == Remember(c.completed, S)
           active == [t \in Targets |-> IF t \in T THEN None ELSE c.active[t]]
           age == [t \in Targets |-> IF t \in T \cap {Window} THEN 0 ELSE c.age[t]]
           d == [c EXCEPT !.result = result, !.completed = completed, !.active = active,
                          !.age = age]
<1>1. Finish(c, T, outcome) = d
  BY DEF Finish
<1>2. \A t \in L : t \in Targets /\ c.active[t] \in Command /\ c.active[t].id \in Ids
  BY CommandType DEF Ctl, Controller, Live
<1>3. result \in [Targets -> [id: Ids \cup {0}, outcome: Outcome]]
  BY <1>2 DEF Ctl, Controller
<1>4. completed \in Seq(Ids) /\ Len(completed) <= RingSize
  <2>1. S \subseteq Ids /\ c.completed \in Seq(Ids) /\ Len(c.completed) <= RingSize
    BY <1>2 DEF Ctl, Controller
  <2> HIDE DEF S
  <2> QED
    BY <2>1, RememberType
<1>5. active \in [Targets -> Command \cup {None}] /\ age \in [Targets -> 0..Minimum]
  BY ConstantTypes DEF Ctl, Controller
<1>6. \A t \in Targets : /\ active[t] = IF t \in T THEN None ELSE c.active[t]
                        /\ age[t] = IF t \in T /\ t = Window THEN 0 ELSE c.age[t]
  OBVIOUS
<1> HIDE DEF L, S, result, completed, active, age
<1>7. d \in Controller
  BY <1>3, <1>4, <1>5 DEF Ctl, Controller
<1>8. /\ d.active = active /\ d.age = age /\ d.completed = completed
      /\ d.fan = c.fan /\ d.open = c.open /\ d.close = c.close
      /\ d.moving = c.moving /\ d.moveAge = c.moveAge
      /\ d.windowFault = c.windowFault /\ d.fanFault = c.fanFault
      /\ d.safeWindow = c.safeWindow /\ d.safeFans = c.safeFans
      /\ d.override = c.override
  BY DEF Ctl, Controller
<1> HIDE DEF d
<1>9. Ctl(d)
  BY <1>4, <1>6, <1>7, <1>8 DEF Ctl
<1> QED
  BY <1>1, <1>6, <1>8, <1>9

-----------------------------------------------------------------------------
(* The predicates that the operations keep                                 *)

Commanded(c, want) == c.active[Window] # None /\ c.active[Window].desired = want

\* Whoever drives the motor has asked for it; nothing runs against a fault.
Sound(c) ==
  /\ c.open  => Commanded(c, TRUE) \/ c.moving = "open"
  /\ c.close => Commanded(c, FALSE) \/ c.moving = "close"
  /\ c.windowFault => ~c.open /\ ~c.close /\ c.active[Window] = None
  /\ c.active[Window] # None => c.moving = "none"
  /\ \A f \in Fans : c.fan[f] => ~c.fanFault[f]

\* What is going on, and what is about to begin, the air allows.
Allowed(c) ==
  /\ Commanded(c, TRUE) \/ c.moving = "open" => c.safeWindow
  /\ \A f \in Fans : c.fan[f] => c.safeFans

\* The motor does not open, nor close, and will not in the rest of this cycle.
NotOpening(c) ==
  ~c.open /\ c.moving # "open" /\ (Commanded(c, TRUE) => c.age[Window] < Settle)
NotClosing(c) ==
  ~c.close /\ c.moving # "close" /\ (Commanded(c, FALSE) => c.age[Window] < Settle)

Calm(c, d) == (NotOpening(c) => NotOpening(d)) /\ (NotClosing(c) => NotClosing(d))

LEMMA StopKeeps ==
  ASSUME NEW c, Ctl(c), NEW T
  PROVE  LET d == Stop(c, T)
         IN /\ Ctl(d) /\ Calm(c, d)
            /\ Sound(c) => Sound(d)
            /\ Allowed(c) => Allowed(d)
            /\ Window \in T => ~d.open /\ ~d.close
<1> DEFINE d == Stop(c, T)
<1>1. /\ Ctl(d)
      /\ \A f \in Fans : d.fan[f] = (c.fan[f] /\ f \notin T)
      /\ d.open = (c.open /\ Window \notin T)
      /\ d.close = (c.close /\ Window \notin T)
      /\ d.active = c.active /\ d.age = c.age /\ d.moving = c.moving
      /\ d.windowFault = c.windowFault
      /\ d.fanFault = c.fanFault /\ d.safeWindow = c.safeWindow
      /\ d.safeFans = c.safeFans
  BY StopFields
<1> HIDE DEF d
<1>2. Calm(c, d)
  BY <1>1 DEF Calm, NotOpening, NotClosing, Commanded
<1>3. Sound(c) => Sound(d)
  BY <1>1 DEF Sound, Commanded
<1>4. Allowed(c) => Allowed(d)
  BY <1>1 DEF Allowed, Commanded
<1> QED
  BY <1>1, <1>2, <1>3, <1>4 DEF d

\* A command may end when its motor rests.
LEMMA FinishKeeps ==
  ASSUME NEW c, Ctl(c), NEW T, NEW outcome \in Outcome
  PROVE  LET d == Finish(c, T, outcome)
         IN /\ Ctl(d) /\ Calm(c, d)
            /\ Sound(c) /\ (Window \in T => ~c.open /\ ~c.close) => Sound(d)
            /\ Allowed(c) => Allowed(d)
<1> DEFINE d == Finish(c, T, outcome)
<1>1. /\ Ctl(d)
      /\ d.active[Window] = IF Window \in T THEN None ELSE c.active[Window]
      /\ d.age[Window] = IF Window \in T THEN 0 ELSE c.age[Window]
      /\ d.fan = c.fan /\ d.open = c.open /\ d.close = c.close
      /\ d.moving = c.moving
      /\ d.windowFault = c.windowFault /\ d.fanFault = c.fanFault
      /\ d.safeWindow = c.safeWindow /\ d.safeFans = c.safeFans
  BY FinishFields, ConstantTypes
<1> HIDE DEF d
<1>2. Calm(c, d)
  BY <1>1 DEF Calm, NotOpening, NotClosing, Commanded
<1>3. Sound(c) /\ (Window \in T => ~c.open /\ ~c.close) => Sound(d)
  BY <1>1 DEF Sound, Commanded
<1>4. Allowed(c) => Allowed(d)
  BY <1>1 DEF Allowed, Commanded
<1> QED
  BY <1>1, <1>2, <1>3, <1>4 DEF d

\* The usual end of commands: their outputs stop with them.
LEMMA EndKeeps ==
  ASSUME NEW c, Ctl(c), NEW S, NEW T, NEW outcome \in Outcome,
         Window \in T => Window \in S
  PROVE  LET d == Finish(Stop(c, S), T, outcome)
         IN /\ Ctl(d) /\ Calm(c, d)
            /\ Sound(c) => Sound(d)
            /\ Allowed(c) => Allowed(d)
            /\ d.windowFault = c.windowFault /\ d.fanFault = c.fanFault
            /\ d.safeWindow = c.safeWindow /\ d.safeFans = c.safeFans
            /\ d.moving = c.moving /\ d.moveAge = c.moveAge
            /\ \A t \in Targets : d.active[t] = IF t \in T THEN None ELSE c.active[t]
            /\ \A f \in Fans : d.fan[f] = (c.fan[f] /\ f \notin S)
            /\ d.open = (c.open /\ Window \notin S)
            /\ d.close = (c.close /\ Window \notin S)
<1> DEFINE e == Stop(c, S)
           d == Finish(e, T, outcome)
<1>1. /\ Ctl(e) /\ Calm(c, e)
      /\ Sound(c) => Sound(e)
      /\ Allowed(c) => Allowed(e)
      /\ Window \in S => ~e.open /\ ~e.close
  BY StopKeeps
<1>2. /\ \A f \in Fans : e.fan[f] = (c.fan[f] /\ f \notin S)
      /\ e.open = (c.open /\ Window \notin S)
      /\ e.close = (c.close /\ Window \notin S)
      /\ e.active = c.active /\ e.age = c.age /\ e.moving = c.moving
      /\ e.moveAge = c.moveAge /\ e.windowFault = c.windowFault
      /\ e.fanFault = c.fanFault /\ e.safeWindow = c.safeWindow
      /\ e.safeFans = c.safeFans
  BY StopFields
<1> HIDE DEF e
<1>3. /\ Ctl(d) /\ Calm(e, d)
      /\ Sound(e) /\ (Window \in T => ~e.open /\ ~e.close) => Sound(d)
      /\ Allowed(e) => Allowed(d)
  BY <1>1, FinishKeeps
<1>4. /\ \A t \in Targets : d.active[t] = IF t \in T THEN None ELSE e.active[t]
      /\ d.fan = e.fan /\ d.open = e.open /\ d.close = e.close
      /\ d.moving = e.moving /\ d.moveAge = e.moveAge
      /\ d.windowFault = e.windowFault /\ d.fanFault = e.fanFault
      /\ d.safeWindow = e.safeWindow /\ d.safeFans = e.safeFans
  BY <1>1, FinishFields
<1>5. Calm(c, d)
  BY <1>1, <1>3 DEF Calm
<1>6. (Sound(c) => Sound(d)) /\ (Allowed(c) => Allowed(d))
  BY <1>1, <1>3
<1> HIDE DEF d
<1> QED
  BY <1>2, <1>3, <1>4, <1>5, <1>6 DEF d, e

-----------------------------------------------------------------------------
(* A cycle of the control task                                             *)

Keeps(c, d) ==
  /\ Ctl(d) /\ Calm(c, d)
  /\ Sound(c) => Sound(d)
  /\ Allowed(c) => Allowed(d)

\* Its faults and its judgement of the air are as before.
SameView(c, d) ==
  /\ d.windowFault = c.windowFault /\ d.fanFault = c.fanFault
  /\ d.safeWindow = c.safeWindow /\ d.safeFans = c.safeFans

LEMMA KeepsTwice ==
  ASSUME NEW c, NEW d, NEW e, Keeps(c, d), Keeps(d, e)
  PROVE  Keeps(c, e)
BY DEF Keeps, Calm

LEMMA KeepsItself ==
  ASSUME NEW c, Ctl(c)
  PROVE  Keeps(c, c)
BY DEF Keeps, Calm

LEMMA JudgedKeeps ==
  ASSUME NEW c, Ctl(c), NEW air \in Air
  PROVE  LET d == Judged(c, air)
         IN Ctl(d) /\ Calm(c, d) /\ (Sound(c) => Sound(d))
<1> DEFINE polluted == IF air.known
                       THEN air.pm = "high" \/ (c.polluted /\ air.pm = "between")
                       ELSE c.polluted
           cold == IF air.known
                   THEN air.temp = "cold" \/ (c.cold /\ air.temp = "cool")
                   ELSE c.cold
           safeFans == (commissioned /\ air.known /\ ~cold) /\ (~polluted \/ c.policy.filtered)
           window == (commissioned /\ air.known /\ ~cold) /\ ~polluted
           d == [c EXCEPT !.polluted = polluted, !.cold = cold,
                          !.safeWindow = window, !.safeFans = safeFans]
<1>1. Judged(c, air) = d
  BY DEF Judged
<1>2. /\ polluted \in BOOLEAN /\ cold \in BOOLEAN
      /\ window \in BOOLEAN /\ safeFans \in BOOLEAN
  <2>1. c.polluted \in BOOLEAN /\ c.cold \in BOOLEAN
    BY DEF Ctl, Controller
  <2> QED
    BY <2>1
<1> HIDE DEF polluted, cold, window, safeFans
<1>3. d \in Controller
  BY <1>2 DEF Ctl, Controller
<1>4. /\ d.active = c.active /\ d.age = c.age /\ d.completed = c.completed
      /\ d.fan = c.fan /\ d.open = c.open /\ d.close = c.close
      /\ d.moving = c.moving /\ d.windowFault = c.windowFault /\ d.fanFault = c.fanFault
  BY DEF Ctl, Controller
<1> HIDE DEF d
<1>5. Ctl(d)
  BY <1>3, <1>4 DEF Ctl
<1>6. Calm(c, d) /\ (Sound(c) => Sound(d))
  BY <1>4 DEF Calm, NotOpening, NotClosing, Sound, Commanded
<1> QED
  BY <1>1, <1>5, <1>6

\* What the air does not allow ends.
LEMMA SecuredKeeps ==
  ASSUME NEW c, Ctl(c)
  PROVE  LET d == Secured(c)
         IN Ctl(d) /\ Calm(c, d) /\ (Sound(c) => Sound(d) /\ Allowed(d))
<1> DEFINE U == {t \in Live(c) : c.active[t].desired /\ ~Safe(c, t)}
           V == U \cap {Window}
           d == Finish(Stop(c, V), U, "failed")
           s == Stop(d, Fans)
           e == IF d.safeFans THEN d
                ELSE [s EXCEPT !.automatic = [f \in Fans |-> FALSE]]
           w == Stop(e, {Window})
           g == [w EXCEPT !.moving = "none", !.moveAge = 0]
           r == IF ~e.safeWindow /\ (e.open \/ e.moving = "open") THEN g ELSE e
<1>1. Secured(c) = r
  BY DEF Secured
<1>2. Window \in U <=> Commanded(c, TRUE) /\ ~c.safeWindow
  BY ConstantTypes, CommandType DEF Live, Safe, Commanded, Ctl, Controller
<1>3. /\ Ctl(d) /\ Calm(c, d) /\ (Sound(c) => Sound(d))
      /\ d.safeWindow = c.safeWindow /\ d.moving = c.moving
      /\ d.active[Window] = IF Window \in U THEN None ELSE c.active[Window]
  <2>1. "failed" \in Outcome /\ (Window \in U => Window \in V)
    BY DEF Outcome
  <2> HIDE DEF U, V
  <2>2. /\ Ctl(d) /\ Calm(c, d) /\ (Sound(c) => Sound(d))
        /\ d.safeWindow = c.safeWindow /\ d.moving = c.moving
    BY <2>1, EndKeeps
  <2>3. \A t \in Targets : d.active[t] = IF t \in U THEN None ELSE c.active[t]
    BY <2>1, EndKeeps
  <2> HIDE DEF d
  <2> QED
    BY <2>2, <2>3, ConstantTypes
<1> HIDE DEF d
<1>4. Commanded(d, TRUE) => d.safeWindow
  BY <1>2, <1>3 DEF Commanded
<1>5. /\ Ctl(s) /\ Calm(d, s) /\ (Sound(d) => Sound(s))
      /\ \A f \in Fans : s.fan[f] = (d.fan[f] /\ f \notin Fans)
      /\ s.active = d.active /\ s.moving = d.moving /\ s.safeWindow = d.safeWindow
  BY <1>3, StopKeeps, StopFields
<1> HIDE DEF s
<1>6. /\ Ctl(e) /\ Calm(c, e) /\ (Sound(c) => Sound(e))
      /\ Commanded(e, TRUE) => e.safeWindow
      /\ \A f \in Fans : e.fan[f] => e.safeFans
  <2>1. CASE d.safeFans
    BY <1>3, <1>4, <2>1
  <2>2. CASE ~d.safeFans
    <3> DEFINE x == [s EXCEPT !.automatic = [f \in Fans |-> FALSE]]
    <3>1. x \in Controller
      BY <1>5 DEF Ctl, Controller
    <3>2. /\ x.active = s.active /\ x.age = s.age /\ x.completed = s.completed
          /\ x.fan = s.fan /\ x.open = s.open /\ x.close = s.close
          /\ x.moving = s.moving /\ x.windowFault = s.windowFault
          /\ x.fanFault = s.fanFault /\ x.safeWindow = s.safeWindow
      BY <1>5 DEF Ctl, Controller
    <3> HIDE DEF x
    <3>3. Ctl(x)
      BY <1>5, <3>1, <3>2 DEF Ctl
    <3>4. Calm(s, x) /\ (Sound(s) => Sound(x))
      BY <3>2 DEF Calm, NotOpening, NotClosing, Sound, Commanded
    <3>5. (Commanded(x, TRUE) => x.safeWindow) /\ \A f \in Fans : ~x.fan[f]
      BY <1>4, <1>5, <3>2 DEF Commanded
    <3>6. Calm(c, x) /\ (Sound(c) => Sound(x))
      BY <1>3, <1>5, <3>4 DEF Calm
    <3> QED
      BY <2>2, <3>3, <3>5, <3>6 DEF x
  <2> QED
    BY <2>1, <2>2
<1> HIDE DEF e
<1>7. /\ Ctl(w) /\ Calm(e, w) /\ (Sound(e) => Sound(w)) /\ ~w.open /\ ~w.close
      /\ \A f \in Fans : w.fan[f] = (e.fan[f] /\ f \notin {Window})
      /\ w.active = e.active /\ w.safeFans = e.safeFans /\ w.safeWindow = e.safeWindow
  BY <1>6, StopKeeps, StopFields
<1> HIDE DEF w
<1>8. /\ Ctl(g) /\ g.active = w.active /\ g.age = w.age
      /\ g.fan = w.fan /\ g.open = w.open /\ g.close = w.close
      /\ g.moving = "none" /\ g.windowFault = w.windowFault
      /\ g.fanFault = w.fanFault /\ g.safeWindow = w.safeWindow /\ g.safeFans = w.safeFans
  BY <1>7, ConstantTypes DEF Ctl, Controller
<1> HIDE DEF g
<1>9. Calm(e, g) /\ (Sound(e) => Sound(g)) /\ Allowed(g)
  <2>1. Calm(w, g) /\ (Sound(w) => Sound(g))
    BY <1>7, <1>8 DEF Calm, NotOpening, NotClosing, Sound, Commanded
  <2>2. Calm(e, g) /\ (Sound(e) => Sound(g))
    BY <1>7, <2>1 DEF Calm
  <2>3. Allowed(g)
    BY <1>6, <1>7, <1>8 DEF Allowed, Commanded
  <2> QED
    BY <2>2, <2>3
<1>10. CASE ~e.safeWindow /\ (e.open \/ e.moving = "open")
  BY <1>1, <1>6, <1>8, <1>9, <1>10 DEF Calm
<1>11. CASE ~(~e.safeWindow /\ (e.open \/ e.moving = "open"))
  <2>1. Allowed(e)
    BY <1>6, <1>11 DEF Allowed
  <2> QED
    BY <1>1, <1>6, <1>11, <2>1
<1> QED
  BY <1>10, <1>11

LEMMA SafetyKeeps ==
  ASSUME NEW c, Ctl(c), NEW air \in Air
  PROVE  LET d == Safety(c, air)
         IN Ctl(d) /\ Calm(c, d) /\ (Sound(c) => Sound(d) /\ Allowed(d))
<1> DEFINE j == Judged(c, air)
<1>1. Ctl(j) /\ Calm(c, j) /\ (Sound(c) => Sound(j))
  BY JudgedKeeps
<1> HIDE DEF j
<1>2. Ctl(Secured(j)) /\ Calm(j, Secured(j))
      /\ (Sound(j) => Sound(Secured(j)) /\ Allowed(Secured(j)))
  BY <1>1, SecuredKeeps
<1>3. Safety(c, air) = Secured(j)
  BY DEF Safety, j
<1> QED
  BY <1>1, <1>2, <1>3 DEF Calm

-----------------------------------------------------------------------------
(* tick                                                                    *)

LEMMA FeedbackType ==
  ASSUME NEW f \in Feedback
  PROVE  f.open \in BOOLEAN /\ f.close \in BOOLEAN
BY DEF FirmwareControllerAssumption

LEMMA SeenKeeps ==
  ASSUME NEW c, Ctl(c), NEW f \in Feedback
  PROVE  Keeps(c, Seen(c, f))
<1> DEFINE limits == [open |-> f.open, close |-> f.close]
           aired == c.aired /\ f.open /\ c.limits.open
           d == [c EXCEPT !.limits = limits, !.aired = aired]
           x == [d EXCEPT !.windowFault = TRUE]
           y == Finish(Stop(x, {Window}), {Window}, "failed")
<1>1. Seen(c, f) = IF f.open /\ f.close THEN y ELSE d
  BY DEF Seen
<1>2. limits \in [open: BOOLEAN, close: BOOLEAN] /\ aired \in BOOLEAN
  BY FeedbackType DEF Ctl, Controller
<1> HIDE DEF limits, aired
<1>3. d \in Controller
  BY <1>2 DEF Ctl, Controller
<1>4. /\ d.active = c.active /\ d.age = c.age /\ d.completed = c.completed
      /\ d.fan = c.fan /\ d.open = c.open /\ d.close = c.close /\ d.moving = c.moving
      /\ SameView(c, d)
  BY DEF Ctl, Controller, SameView
<1> HIDE DEF d
<1>5. Ctl(d)
  BY <1>3, <1>4 DEF Ctl
<1>6. Keeps(c, d)
  BY <1>4, <1>5 DEF Keeps, Calm, NotOpening, NotClosing, Sound, Allowed, Commanded, SameView
<1>7. /\ x \in Controller
      /\ x.active = d.active /\ x.age = d.age /\ x.completed = d.completed
      /\ x.fan = d.fan /\ x.open = d.open /\ x.close = d.close /\ x.moving = d.moving
      /\ x.fanFault = d.fanFault /\ x.safeWindow = d.safeWindow /\ x.safeFans = d.safeFans
  BY <1>5 DEF Ctl, Controller
<1> HIDE DEF x
<1>8. Ctl(x) /\ Calm(d, x) /\ (Allowed(d) => Allowed(x))
  BY <1>5, <1>7 DEF Ctl, Calm, NotOpening, NotClosing, Allowed, Commanded
<1>9. /\ Ctl(y) /\ Calm(x, y) /\ (Allowed(x) => Allowed(y))
      /\ y.fanFault = x.fanFault /\ y.moving = x.moving
      /\ y.active[Window] = None /\ ~y.open /\ ~y.close
      /\ \A g \in Fans : y.fan[g] => x.fan[g]
  <2> DEFINE W == {Window}
             z == Finish(Stop(x, W), W, "failed")
  <2>1. Window \in W /\ "failed" \in Outcome
    BY DEF Outcome
  <2>2. z = y
    OBVIOUS
  <2> HIDE DEF W, y
  <2>3. /\ Ctl(z) /\ Calm(x, z) /\ (Allowed(x) => Allowed(z))
        /\ z.fanFault = x.fanFault /\ z.moving = x.moving
        /\ \A t \in Targets : z.active[t] = IF t \in W THEN None ELSE x.active[t]
        /\ \A g \in Fans : z.fan[g] = (x.fan[g] /\ g \notin W)
        /\ z.open = (x.open /\ Window \notin W)
        /\ z.close = (x.close /\ Window \notin W)
    BY <1>8, <2>1, EndKeeps
  <2> HIDE DEF z
  <2> QED
    BY <2>1, <2>2, <2>3, ConstantTypes
<1> HIDE DEF y
<1>10. Sound(d) => Sound(y)
  BY <1>7, <1>9 DEF Sound, Commanded
<1>11. Keeps(d, y)
  BY <1>8, <1>9, <1>10 DEF Keeps, Calm
<1> QED
  BY <1>1, <1>6, <1>11, KeepsTwice

LEMMA LapsedKeeps ==
  ASSUME NEW c, Ctl(c), NEW late
  PROVE  Keeps(c, Lapsed(c, late))
<1> DEFINE T == late \cap Live(c)
<1>1. Lapsed(c, late) = Finish(Stop(c, T), T, "failed") /\ "failed" \in Outcome
  BY DEF Lapsed, Outcome
<1> HIDE DEF T
<1> QED
  BY <1>1, EndKeeps DEF Keeps

LEMMA AchievedKeeps ==
  ASSUME NEW c, Ctl(c), NEW f \in Feedback
  PROVE  Keeps(c, Achieved(c, f))
<1> DEFINE T == {t \in Live(c) : Reached(c, t, f)}
           S == T \cap {Window}
<1>1. /\ Achieved(c, f) = Finish(Stop(c, S), T, "applied") /\ "applied" \in Outcome
      /\ Window \in T => Window \in S
  BY DEF Achieved, Outcome
<1> HIDE DEF S, T
<1> QED
  BY <1>1, EndKeeps DEF Keeps

LEMMA FailedKeeps ==
  ASSUME NEW c, Ctl(c)
  PROVE  Keeps(c, Failed(c))
<1> DEFINE T == {t \in Live(c) : c.age[t] >= Limit}
           windowFault == c.windowFault \/ Window \in T
           fanFault == [g \in Fans |-> c.fanFault[g] \/ g \in T]
           x == [c EXCEPT !.windowFault = windowFault, !.fanFault = fanFault]
           y == Finish(Stop(x, T), T, "failed")
<1>1. Failed(c) = y
  BY DEF Failed
<1>2. windowFault \in BOOLEAN /\ fanFault \in [Fans -> BOOLEAN]
  OBVIOUS
<1>3. /\ windowFault => c.windowFault \/ Window \in T
      /\ \A g \in Fans : fanFault[g] => c.fanFault[g] \/ g \in T
  OBVIOUS
<1> HIDE DEF T, windowFault, fanFault
<1>4. /\ x \in Controller
      /\ x.active = c.active /\ x.age = c.age /\ x.completed = c.completed
      /\ x.fan = c.fan /\ x.open = c.open /\ x.close = c.close /\ x.moving = c.moving
      /\ x.safeWindow = c.safeWindow /\ x.safeFans = c.safeFans
      /\ x.windowFault = windowFault /\ x.fanFault = fanFault
  BY <1>2 DEF Ctl, Controller
<1> HIDE DEF x
<1>5. Ctl(x) /\ Calm(c, x) /\ (Allowed(c) => Allowed(x))
  BY <1>4 DEF Ctl, Calm, NotOpening, NotClosing, Allowed, Commanded
<1>6. "failed" \in Outcome
  BY DEF Outcome
<1>7. /\ Ctl(y) /\ Calm(x, y) /\ (Allowed(x) => Allowed(y))
      /\ y.windowFault = x.windowFault /\ y.fanFault = x.fanFault /\ y.moving = x.moving
      /\ \A t \in Targets : y.active[t] = IF t \in T THEN None ELSE x.active[t]
      /\ \A g \in Fans : y.fan[g] = (x.fan[g] /\ g \notin T)
      /\ y.open = (x.open /\ Window \notin T)
      /\ y.close = (x.close /\ Window \notin T)
  BY <1>5, <1>6, EndKeeps
<1> HIDE DEF y
<1>8. y.active[Window] = IF Window \in T THEN None ELSE c.active[Window]
  BY <1>4, <1>7, ConstantTypes
<1>9. Sound(c) => Sound(y)
  BY <1>3, <1>4, <1>7, <1>8 DEF Sound, Commanded
<1> QED
  BY <1>1, <1>5, <1>7, <1>9 DEF Keeps, Calm

LEMMA DrivenKeeps ==
  ASSUME NEW c, Ctl(c)
  PROVE  Keeps(c, Driven(c))
<1>1. CASE Window \in Live(c) /\ c.age[Window] >= Settle
  <2> DEFINE open == c.active[Window].desired
             close == ~c.active[Window].desired
             d == [c EXCEPT !.open = open, !.close = close]
  <2>1. Driven(c) = d
    BY <1>1 DEF Driven
  <2>2. /\ c.active[Window] # None /\ c.active[Window].desired \in BOOLEAN
        /\ open \in BOOLEAN /\ close \in BOOLEAN
        /\ c.age[Window] \in Nat
    BY <1>1, CommandType, ConstantTypes DEF Live, Ctl, Controller
  <2>3. (open = TRUE <=> Commanded(c, TRUE)) /\ (close = TRUE <=> Commanded(c, FALSE))
    BY <2>2 DEF Commanded
  <2> HIDE DEF open, close
  <2>4. /\ d \in Controller
        /\ d.open = open /\ d.close = close
        /\ d.active = c.active /\ d.age = c.age /\ d.completed = c.completed
        /\ d.fan = c.fan /\ d.moving = c.moving /\ SameView(c, d)
    BY <2>2 DEF Ctl, Controller, SameView
  <2> HIDE DEF d
  <2>5. Ctl(d)
    BY <2>4 DEF Ctl
  <2>6. Calm(c, d)
    BY <1>1, <2>2, <2>3, <2>4, ConstantTypes DEF Calm, NotOpening, NotClosing, Commanded
  <2>7. Sound(c) => Sound(d)
    BY <2>2, <2>3, <2>4 DEF Sound, Commanded, SameView
  <2>8. Allowed(c) => Allowed(d)
    BY <2>4 DEF Allowed, Commanded, SameView
  <2> QED
    BY <2>1, <2>5, <2>6, <2>7, <2>8 DEF Keeps
<1>2. CASE ~(Window \in Live(c) /\ c.age[Window] >= Settle)
  BY <1>2, KeepsItself DEF Driven
<1> QED
  BY <1>1, <1>2

LEMMA WatchedKeeps ==
  ASSUME NEW c, Ctl(c), NEW f \in Feedback
  PROVE  Keeps(c, Watched(c, f))
<1> DEFINE lost == {x \in Fans : c.fan[x] /\ x \notin f.turning /\ c.age[x] >= Limit}
           fanFault == [g \in Fans |-> c.fanFault[g] \/ g \in lost]
           x == [c EXCEPT !.fanFault = fanFault]
           y == Stop(x, lost)
<1>1. Watched(c, f) = y
  BY DEF Watched
<1>2. /\ fanFault \in [Fans -> BOOLEAN]
      /\ \A g \in Fans : fanFault[g] => c.fanFault[g] \/ g \in lost
      /\ Window \notin lost
  BY ConstantTypes
<1> HIDE DEF lost, fanFault
<1>3. /\ x \in Controller
      /\ x.active = c.active /\ x.age = c.age /\ x.completed = c.completed
      /\ x.fan = c.fan /\ x.open = c.open /\ x.close = c.close /\ x.moving = c.moving
      /\ x.safeWindow = c.safeWindow /\ x.safeFans = c.safeFans
      /\ x.windowFault = c.windowFault /\ x.fanFault = fanFault
  BY <1>2 DEF Ctl, Controller
<1> HIDE DEF x
<1>4. Ctl(x) /\ Calm(c, x) /\ (Allowed(c) => Allowed(x))
  BY <1>3 DEF Ctl, Calm, NotOpening, NotClosing, Allowed, Commanded
<1>5. Ctl(y) /\ Calm(x, y) /\ (Allowed(x) => Allowed(y))
  BY <1>4, StopKeeps
<1>6. /\ \A g \in Fans : y.fan[g] = (x.fan[g] /\ g \notin lost)
      /\ y.open = (x.open /\ Window \notin lost)
      /\ y.close = (x.close /\ Window \notin lost)
      /\ y.active = x.active /\ y.moving = x.moving /\ y.windowFault = x.windowFault
      /\ y.fanFault = x.fanFault
  BY <1>4, StopFields
<1> HIDE DEF y
<1>7. Sound(c) => Sound(y)
  BY <1>2, <1>3, <1>6 DEF Sound, Commanded
<1> QED
  BY <1>1, <1>4, <1>5, <1>7 DEF Keeps, Calm

\* The window stops and the automation's movement is over.
LEMMA RestKeeps ==
  ASSUME NEW c, Ctl(c), c.moving # "none", NEW d,
         d \in Controller,
         LET e == Stop(c, {Window})
         IN /\ d.active = e.active /\ d.age = e.age /\ d.completed = e.completed
            /\ d.fan = e.fan /\ d.open = e.open /\ d.close = e.close
            /\ d.fanFault = e.fanFault /\ d.safeWindow = e.safeWindow
            /\ d.safeFans = e.safeFans,
         d.moving = "none"
  PROVE  Keeps(c, d)
<1> DEFINE W == {Window}
           e == Stop(c, W)
<1>1. /\ d.active = e.active /\ d.age = e.age /\ d.completed = e.completed
      /\ d.fan = e.fan /\ d.open = e.open /\ d.close = e.close
      /\ d.fanFault = e.fanFault /\ d.safeWindow = e.safeWindow
      /\ d.safeFans = e.safeFans
  OBVIOUS
<1>2. Window \in W /\ \A g \in Fans : g \notin W
  BY ConstantTypes
<1> HIDE DEF W
<1>3. Ctl(e) /\ Calm(c, e) /\ (Allowed(c) => Allowed(e)) /\ ~e.open /\ ~e.close
  BY <1>2, StopKeeps
<1>4. /\ \A g \in Fans : e.fan[g] = (c.fan[g] /\ g \notin W)
      /\ e.active = c.active /\ e.fanFault = c.fanFault
  BY StopFields
<1> HIDE DEF e
<1>5. Ctl(d) /\ Calm(e, d) /\ (Allowed(e) => Allowed(d))
  BY <1>1, <1>3 DEF Ctl, Calm, NotOpening, NotClosing, Allowed, Commanded
<1>6. Sound(c) => Sound(d)
  BY <1>1, <1>3, <1>4 DEF Sound, Commanded
<1> QED
  BY <1>3, <1>5, <1>6 DEF Keeps, Calm

LEMMA MovedKeeps ==
  ASSUME NEW c, Ctl(c), NEW f \in Feedback
  PROVE  Keeps(c, Moved(c, f))
<1> DEFINE ends == c.windowFault \/ (IF c.moving = "open" THEN f.open ELSE f.close)
           s == Stop(c, {Window})
<1>1. Ctl(s)
  BY StopFields
<1>2. c.moveAge \in 0..Limit /\ Limit \in Nat /\ Settle \in Nat
  BY ConstantTypes DEF Ctl, Controller
<1>3. CASE c.moving = "none"
  BY <1>3, KeepsItself DEF Moved
<1>4. CASE c.moving # "none" /\ ends
  <2> DEFINE aired == s.aired /\ ~f.open
             d == [s EXCEPT !.moving = "none", !.moveAge = 0, !.aired = aired]
  <2>1. Moved(c, f) = d
    BY <1>4 DEF Moved
  <2>2. aired \in BOOLEAN
    OBVIOUS
  <2> HIDE DEF aired, s
  <2>3. /\ d \in Controller /\ d.moving = "none"
        /\ d.active = s.active /\ d.age = s.age /\ d.completed = s.completed
        /\ d.fan = s.fan /\ d.open = s.open /\ d.close = s.close
        /\ d.fanFault = s.fanFault /\ d.safeWindow = s.safeWindow
        /\ d.safeFans = s.safeFans
    BY <1>1, <2>2, ConstantTypes DEF Ctl, Controller
  <2> HIDE DEF d
  <2> QED
    BY <1>4, <2>1, <2>3, RestKeeps DEF s
<1>5. CASE c.moving # "none" /\ ~ends
  <2>1. CASE c.moveAge < Settle
    <3>1. Moved(c, f) = c
      BY <1>2, <1>5, <2>1 DEF Moved
    <3> QED
      BY <3>1, KeepsItself
  <2>2. CASE c.moveAge \in Settle..(Limit - 1)
    <3> DEFINE open == c.moving = "open"
               close == c.moving = "close"
               d == [c EXCEPT !.open = open, !.close = close]
    <3>1. Moved(c, f) = d
      BY <1>2, <1>5, <2>2 DEF Moved
    <3>2. /\ open \in BOOLEAN /\ close \in BOOLEAN /\ ~c.windowFault
          /\ (open = TRUE <=> c.moving = "open") /\ (close = TRUE <=> c.moving = "close")
      BY <1>5
    <3> HIDE DEF open, close
    <3>3. /\ d \in Controller
          /\ d.open = open /\ d.close = close
          /\ d.active = c.active /\ d.age = c.age /\ d.completed = c.completed
          /\ d.fan = c.fan /\ d.moving = c.moving /\ SameView(c, d)
      BY <3>2 DEF Ctl, Controller, SameView
    <3> HIDE DEF d
    <3>4. Ctl(d) /\ Calm(c, d)
      BY <3>2, <3>3 DEF Ctl, Calm, NotOpening, NotClosing, Commanded
    <3>5. (Sound(c) => Sound(d)) /\ (Allowed(c) => Allowed(d))
      BY <3>2, <3>3 DEF Sound, Allowed, Commanded, SameView
    <3> QED
      BY <3>1, <3>4, <3>5 DEF Keeps
  <2>3. CASE c.moveAge >= Limit
    <3> DEFINE d == [s EXCEPT !.moving = "none", !.moveAge = 0, !.windowFault = TRUE]
    <3>1. Moved(c, f) = d
      BY <1>2, <1>5, <2>1, <2>3, ConstantTypes, FirmwareControllerAssumption DEF Moved
    <3> HIDE DEF s
    <3>2. /\ d \in Controller /\ d.moving = "none"
          /\ d.active = s.active /\ d.age = s.age /\ d.completed = s.completed
          /\ d.fan = s.fan /\ d.open = s.open /\ d.close = s.close
          /\ d.fanFault = s.fanFault /\ d.safeWindow = s.safeWindow
          /\ d.safeFans = s.safeFans
      BY <1>1, ConstantTypes DEF Ctl, Controller
    <3> HIDE DEF d
    <3> QED
      BY <1>5, <3>1, <3>2, RestKeeps DEF s
  <2> QED
    BY <1>2, <2>1, <2>2, <2>3
<1> QED
  BY <1>3, <1>4, <1>5

LEMMA TickedKeeps ==
  ASSUME NEW c, Ctl(c), NEW f \in Feedback, NEW late
  PROVE  Keeps(c, Ticked(c, f, late))
<1> DEFINE c1 == Seen(c, f)
           c2 == Lapsed(c1, late)
           c3 == Achieved(c2, f)
           c4 == Failed(c3)
           c5 == Driven(c4)
           c6 == Watched(c5, f)
           c7 == Moved(c6, f)
<1>1. Ticked(c, f, late) = c7
  BY DEF Ticked
<1>2. Keeps(c, c1) /\ Ctl(c1)
  BY SeenKeeps DEF Keeps
<1> HIDE DEF c1
<1>3. Keeps(c1, c2) /\ Ctl(c2)
  BY <1>2, LapsedKeeps DEF Keeps
<1> HIDE DEF c2
<1>4. Keeps(c2, c3) /\ Ctl(c3)
  BY <1>3, AchievedKeeps DEF Keeps
<1> HIDE DEF c3
<1>5. Keeps(c3, c4) /\ Ctl(c4)
  BY <1>4, FailedKeeps DEF Keeps
<1> HIDE DEF c4
<1>6. Keeps(c4, c5) /\ Ctl(c5)
  BY <1>5, DrivenKeeps DEF Keeps
<1> HIDE DEF c5
<1>7. Keeps(c5, c6) /\ Ctl(c6)
  BY <1>6, WatchedKeeps DEF Keeps
<1> HIDE DEF c6
<1>8. Keeps(c6, c7)
  BY <1>7, MovedKeeps
<1> HIDE DEF c7
<1> QED
  BY <1>1, <1>2, <1>3, <1>4, <1>5, <1>6, <1>7, <1>8 DEF Keeps, Calm

-----------------------------------------------------------------------------
(* autonomous                                                              *)

\* Between two cycles the outputs only stop, and nothing is judged anew.
Quiet(c, d) ==
  /\ d.safeFans = c.safeFans /\ d.safeWindow = c.safeWindow /\ d.fanFault = c.fanFault
  /\ d.open => c.open
  /\ d.close => c.close
  /\ d.moving \in {c.moving, "none"}

LEMMA PassiveKeeps ==
  ASSUME NEW c, Ctl(c)
  PROVE  LET d == Passive(c)
         IN Keeps(c, d) /\ Quiet(c, d) /\ d.active = c.active /\ d.age = c.age
<1> DEFINE T == {f \in Fans : c.automatic[f]} \cup (IF c.moving # "none" THEN {Window} ELSE {})
           s == Stop(c, T)
           d == [s EXCEPT !.automatic = [f \in Fans |-> FALSE], !.moving = "none", !.moveAge = 0]
<1>1. Passive(c) = d
  BY DEF Passive
<1>2. c.moving # "none" => Window \in T
  OBVIOUS
<1> HIDE DEF T
<1>3. Ctl(s) /\ Calm(c, s) /\ (Sound(c) => Sound(s)) /\ (Allowed(c) => Allowed(s))
      /\ (Window \in T => ~s.open /\ ~s.close)
  BY StopKeeps
<1>4. /\ s.open = (c.open /\ Window \notin T)
      /\ s.close = (c.close /\ Window \notin T)
      /\ s.active = c.active /\ s.age = c.age /\ s.moving = c.moving
      /\ s.fanFault = c.fanFault /\ s.safeWindow = c.safeWindow /\ s.safeFans = c.safeFans
  BY StopFields
<1> HIDE DEF s
<1>5. /\ d \in Controller /\ d.moving = "none"
      /\ d.active = s.active /\ d.age = s.age /\ d.completed = s.completed
      /\ d.fan = s.fan /\ d.open = s.open /\ d.close = s.close /\ SameView(s, d)
  BY <1>3, ConstantTypes DEF Ctl, Controller, SameView
<1> HIDE DEF d
<1>6. Ctl(d) /\ Calm(s, d) /\ (Allowed(s) => Allowed(d))
  BY <1>3, <1>5 DEF Ctl, Calm, NotOpening, NotClosing, Allowed, Commanded, SameView
<1>7. Sound(s) => Sound(d)
  BY <1>2, <1>3, <1>4, <1>5 DEF Sound, Commanded, SameView
<1>8. Keeps(c, d)
  BY <1>3, <1>6, <1>7 DEF Keeps, Calm
<1>9. Quiet(c, d)
  BY <1>4, <1>5 DEF Quiet, SameView
<1> QED
  BY <1>1, <1>4, <1>5, <1>8, <1>9

LEMMA VentilatedByKeeps ==
  ASSUME NEW c, Ctl(c), NEW air
  PROVE  LET d == VentilatedBy(c, air)
         IN /\ Ctl(d) /\ Calm(c, d)
            /\ Sound(c) /\ Allowed(c) => Sound(d) /\ Allowed(d)
            /\ d.active = c.active
<1>1. CASE c.safeFans /\ air.co2 = "high"
  <2> DEFINE on == {f \in Fans : ~c.fanFault[f] /\ ~c.fan[f]}
             automatic == [f \in Fans |-> TRUE]
             age == [t \in Targets |-> IF t \in on THEN 0 ELSE c.age[t]]
             fan == [f \in Fans |-> c.fan[f] \/ f \in on]
             d == [c EXCEPT !.automatic = automatic, !.age = age, !.fan = fan]
  <2>1. VentilatedBy(c, air) = d
    BY <1>1 DEF VentilatedBy
  <2>2. /\ automatic \in [Fans -> BOOLEAN] /\ fan \in [Fans -> BOOLEAN]
        /\ age \in [Targets -> 0..Minimum] /\ age[Window] = c.age[Window]
        /\ \A f \in Fans : fan[f] => c.fan[f] \/ ~c.fanFault[f]
    BY ConstantTypes DEF Ctl, Controller
  <2> HIDE DEF automatic, age, fan
  <2>3. /\ d \in Controller
        /\ d.active = c.active /\ d.completed = c.completed /\ d.age = age
        /\ d.fan = fan /\ d.open = c.open /\ d.close = c.close /\ d.moving = c.moving
        /\ SameView(c, d)
    BY <2>2 DEF Ctl, Controller, SameView
  <2> HIDE DEF d
  <2>4. Ctl(d) /\ Calm(c, d)
    BY <2>2, <2>3 DEF Ctl, Calm, NotOpening, NotClosing, Commanded
  <2>5. (Sound(c) => Sound(d)) /\ (Allowed(c) => Allowed(d))
    BY <1>1, <2>2, <2>3 DEF Sound, Allowed, Commanded, SameView
  <2> QED
    BY <2>1, <2>3, <2>4, <2>5
<1>2. CASE ~(c.safeFans /\ air.co2 = "high") /\ air.co2 = "low"
  <2> DEFINE off == {f \in Fans : c.age[f] >= Minimum}
             s == Stop(c, off)
             automatic == [f \in Fans |-> s.automatic[f] /\ f \notin off]
             d == [s EXCEPT !.automatic = automatic]
  <2>1. VentilatedBy(c, air) = d
    BY <1>2 DEF VentilatedBy
  <2>2. automatic \in [Fans -> BOOLEAN]
    OBVIOUS
  <2> HIDE DEF off, automatic
  <2>3. Ctl(s) /\ Calm(c, s) /\ (Sound(c) => Sound(s)) /\ (Allowed(c) => Allowed(s))
        /\ s.active = c.active
    BY StopKeeps, StopFields
  <2> HIDE DEF s
  <2>4. /\ d \in Controller
        /\ d.active = s.active /\ d.completed = s.completed /\ d.age = s.age
        /\ d.fan = s.fan /\ d.open = s.open /\ d.close = s.close /\ d.moving = s.moving
        /\ SameView(s, d)
    BY <2>2, <2>3 DEF Ctl, Controller, SameView
  <2> HIDE DEF d
  <2>5. Ctl(d) /\ Calm(s, d)
    BY <2>3, <2>4 DEF Ctl, Calm, NotOpening, NotClosing, Commanded
  <2>6. (Sound(s) => Sound(d)) /\ (Allowed(s) => Allowed(d))
    BY <2>4 DEF Sound, Allowed, Commanded, SameView
  <2> QED
    BY <2>1, <2>3, <2>4, <2>5, <2>6 DEF Calm
<1>3. CASE ~(c.safeFans /\ air.co2 = "high") /\ air.co2 # "low"
  <2>1. VentilatedBy(c, air) = c
    BY <1>3 DEF VentilatedBy
  <2> QED
    BY <2>1, KeepsItself DEF Keeps
<1> QED
  BY <1>1, <1>2, <1>3

\* The automation begins to move only a window that rests, and opens it only in
\* air that allows it.
LEMMA StartedKeeps ==
  ASSUME NEW c, Ctl(c), NEW air, c.active[Window] = None
  PROVE  LET d == Started(c, air)
         IN /\ Ctl(d)
            /\ Sound(c) /\ Allowed(c) => Sound(d) /\ Allowed(d)
            /\ d.open => c.open
            /\ d.close => c.close
<1> DEFINE open == c.safeWindow /\ air.co2 = "high"
           s == Stop(c, {Window})
           way == IF open THEN "open" ELSE "close"
           d == [s EXCEPT !.moving = way, !.moveAge = 0]
<1>1. CASE Started(c, air) = c
  BY <1>1
<1>2. CASE Started(c, air) # c
  <2>1. Started(c, air) = d /\ ~c.windowFault
    BY <1>2 DEF Started
  <2>2. way \in {"none", "open", "close"} /\ (way = "open" => c.safeWindow)
    OBVIOUS
  <2> HIDE DEF way
  <2> DEFINE W == {Window}
             z == Stop(c, W)
  <2>3. z = s /\ Window \in W
    OBVIOUS
  <2> HIDE DEF W, s
  <2>4. Ctl(z) /\ (Sound(c) => Sound(z)) /\ (Allowed(c) => Allowed(z)) /\ ~z.open /\ ~z.close
    BY <2>3, StopKeeps
  <2>5. z.active = c.active /\ z.windowFault = c.windowFault /\ z.safeWindow = c.safeWindow
    BY StopFields
  <2> HIDE DEF z
  <2>6. /\ d \in Controller /\ d.moving = way
        /\ d.active = z.active /\ d.completed = z.completed
        /\ d.fan = z.fan /\ d.open = z.open /\ d.close = z.close
        /\ SameView(z, d)
    BY <2>2, <2>3, <2>4, ConstantTypes DEF Ctl, Controller, SameView
  <2> HIDE DEF d
  <2>7. Ctl(d)
    BY <2>4, <2>6 DEF Ctl
  <2>8. (Sound(z) => Sound(d)) /\ (Allowed(z) => Allowed(d))
    BY <2>1, <2>2, <2>4, <2>5, <2>6 DEF Sound, Allowed, Commanded, SameView
  <2> QED
    BY <2>1, <2>4, <2>6, <2>7, <2>8
<1> QED
  BY <1>1, <1>2

LEMMA AutonomousKeeps ==
  ASSUME NEW c, Ctl(c), NEW air \in Air
  PROVE  LET d == Autonomous(c, air)
         IN /\ Ctl(d)
            /\ Sound(c) => Sound(d) /\ Allowed(d)
            /\ NotOpening(c) => ~d.open
            /\ NotClosing(c) => ~d.close
<1> DEFINE d == Safety(c, air)
           p == Passive(d)
           v == VentilatedBy(d, air)
           g == Started(v, air)
<1>1. Autonomous(c, air) = IF ~commissioned \/ ~d.policy.enabled THEN p
                           ELSE IF d.override \/ Live(d) # {} THEN d ELSE g
  BY DEF Autonomous
<1>2. Ctl(d) /\ Calm(c, d) /\ (Sound(c) => Sound(d) /\ Allowed(d))
  BY SafetyKeeps
<1> HIDE DEF d
<1>3. CASE Autonomous(c, air) = d
  BY <1>2, <1>3 DEF Calm, NotOpening, NotClosing
<1>4. CASE Autonomous(c, air) = p
  <2>1. Keeps(d, p)
    BY <1>2, PassiveKeeps
  <2> HIDE DEF p
  <2> QED
    BY <1>2, <1>4, <2>1 DEF Keeps, Calm, NotOpening, NotClosing
<1>5. CASE Autonomous(c, air) = g /\ Live(d) = {}
  <2>1. d.active[Window] = None
    BY <1>5, ConstantTypes DEF Live
  <2>2. /\ Ctl(v) /\ Calm(d, v) /\ (Sound(d) /\ Allowed(d) => Sound(v) /\ Allowed(v))
        /\ v.active = d.active
    BY <1>2, VentilatedByKeeps
  <2> HIDE DEF v
  <2>3. /\ Ctl(g) /\ (Sound(v) /\ Allowed(v) => Sound(g) /\ Allowed(g))
        /\ (g.open => v.open) /\ (g.close => v.close)
    BY <2>1, <2>2, StartedKeeps
  <2> HIDE DEF g
  <2> QED
    BY <1>2, <1>5, <2>2, <2>3 DEF Calm, NotOpening, NotClosing
<1> QED
  BY <1>1, <1>3, <1>4, <1>5
-----------------------------------------------------------------------------
(* Between the cycles                                                      *)

\* What a command changes: its own window, which then has yet to settle, or nothing
\* of the window.
Renewed(c, d) ==
  \/ d.active[Window] = c.active[Window] /\ d.age[Window] = c.age[Window]
  \/ d.age[Window] = 0

LEMMA TakeKeeps ==
  ASSUME NEW c, Ctl(c), NEW cmd \in Command, ~Faulty(c, cmd)
  PROVE  LET d == Take(c, cmd)
         IN Ctl(d) /\ (Sound(c) => Sound(d)) /\ Quiet(c, d) /\ Renewed(c, d)
<1> DEFINE t == cmd.target
           e == Finish(c, {t}, "failed")
<1>1. t \in Targets /\ cmd # None /\ cmd.id \in Ids /\ cmd.desired \in BOOLEAN
      /\ cmd.manual \in BOOLEAN
  BY CommandType
<1>2. /\ Ctl(e)
      /\ \A x \in Targets : /\ e.active[x] = IF x = t THEN None ELSE c.active[x]
                            /\ e.age[x] = IF x = t /\ x = Window THEN 0 ELSE c.age[x]
      /\ e.fan = c.fan /\ e.open = c.open /\ e.close = c.close /\ e.moving = c.moving
      /\ e.windowFault = c.windowFault /\ e.fanFault = c.fanFault
      /\ e.safeWindow = c.safeWindow /\ e.safeFans = c.safeFans
  <2> DEFINE T == {t}
  <2>1. \A x \in Targets : x \in T <=> x = t
    OBVIOUS
  <2>2. "failed" \in Outcome
    BY DEF Outcome
  <2> HIDE DEF T
  <2> DEFINE z == Finish(c, T, "failed")
  <2>3. /\ Ctl(z)
        /\ \A x \in Targets : /\ z.active[x] = IF x \in T THEN None ELSE c.active[x]
                             /\ z.age[x] = IF x \in T /\ x = Window THEN 0 ELSE c.age[x]
        /\ z.fan = c.fan /\ z.open = c.open /\ z.close = c.close /\ z.moving = c.moving
        /\ z.windowFault = c.windowFault /\ z.fanFault = c.fanFault
        /\ z.safeWindow = c.safeWindow /\ z.safeFans = c.safeFans
    BY <2>2, FinishFields
  <2>4. z = e
    BY DEF T
  <2> HIDE DEF z, e, t
  <2> QED
    BY <2>1, <2>3, <2>4
<1> DEFINE active == [e.active EXCEPT ![t] = cmd]
           age == [e.age EXCEPT ![t] = 0]
           override == e.override \/ cmd.manual
           moving == IF t = Window THEN "none" ELSE e.moving
           moveAge == IF t = Window THEN 0 ELSE e.moveAge
           automatic == [f \in Fans |-> IF f = t THEN ~cmd.manual /\ cmd.desired
                                        ELSE e.automatic[f]]
           result == [e.result EXCEPT ![t] = [id |-> cmd.id, outcome |-> "accepted"]]
           fan == [f \in Fans |-> IF f = t THEN cmd.desired ELSE e.fan[f]]
           open == e.open /\ t # Window
           close == e.close /\ t # Window
           d == [e EXCEPT !.active = active, !.age = age, !.override = override,
                          !.moving = moving, !.moveAge = moveAge, !.automatic = automatic,
                          !.result = result, !.fan = fan, !.open = open, !.close = close]
<1> HIDE DEF e
<1>3. Take(c, cmd) = d
  BY DEF Take, e
<1>4. /\ active \in [Targets -> Command \cup {None}] /\ age \in [Targets -> 0..Minimum]
      /\ override \in BOOLEAN /\ moving \in {"none", "open", "close"}
      /\ moveAge \in 0..Limit /\ automatic \in [Fans -> BOOLEAN]
      /\ result \in [Targets -> [id: Ids \cup {0}, outcome: Outcome]]
      /\ fan \in [Fans -> BOOLEAN] /\ open \in BOOLEAN /\ close \in BOOLEAN
  BY <1>1, <1>2, ConstantTypes DEF Ctl, Controller, Outcome
<1>5. /\ \A x \in Targets : active[x] = IF x = t THEN cmd ELSE c.active[x]
      /\ age[Window] = IF t = Window THEN 0 ELSE c.age[Window]
      /\ \A f \in Fans : fan[f] = IF f = t THEN cmd.desired ELSE c.fan[f]
      /\ (open = TRUE <=> c.open /\ t # Window) /\ (close = TRUE <=> c.close /\ t # Window)
      /\ moving = IF t = Window THEN "none" ELSE c.moving
  BY <1>1, <1>2, ConstantTypes DEF Ctl, Controller
<1> HIDE DEF active, age, override, moving, moveAge, automatic, result, fan, open, close, t
<1>6. /\ d \in Controller
      /\ d.active = active /\ d.age = age /\ d.moving = moving /\ d.fan = fan
      /\ d.open = open /\ d.close = close /\ d.completed = e.completed
      /\ d.windowFault = c.windowFault /\ d.fanFault = c.fanFault
      /\ d.safeWindow = c.safeWindow /\ d.safeFans = c.safeFans
  <2>1. e \in Controller
    BY <1>2 DEF Ctl
  <2> DEFINE x == [e EXCEPT !.active = active, !.age = age, !.override = override,
                            !.moving = moving, !.moveAge = moveAge]
             y == [x EXCEPT !.automatic = automatic, !.result = result, !.fan = fan,
                            !.open = open, !.close = close]
  <2>2. d = y
    OBVIOUS
  <2>3. x \in Controller
    BY <1>4, <2>1 DEF Controller
  <2> HIDE DEF x
  <2>4. y \in Controller
    BY <1>4, <2>3 DEF Controller
  <2> HIDE DEF y
  <2>5. d \in Controller
    BY <2>2, <2>4
  <2>6. /\ d.active = active /\ d.age = age /\ d.moving = moving /\ d.fan = fan
        /\ d.open = open /\ d.close = close /\ d.completed = e.completed /\ SameView(e, d)
    BY <2>1 DEF Controller, SameView
  <2> HIDE DEF d
  <2> QED
    BY <1>2, <2>5, <2>6 DEF SameView
<1> HIDE DEF d
<1>7. Ctl(d)
  BY <1>2, <1>5, <1>6 DEF Ctl, t
<1>8. /\ t = Window => ~c.windowFault
      /\ t # Window /\ cmd.desired => ~c.fanFault[t]
  BY DEF Faulty, t
<1>9. Sound(c) => Sound(d)
  BY <1>1, <1>5, <1>6, <1>8, ConstantTypes DEF Sound, Commanded
<1>10. Quiet(c, d) /\ Renewed(c, d)
  BY <1>5, <1>6, ConstantTypes DEF Quiet, Renewed
<1> QED
  BY <1>3, <1>7, <1>9, <1>10

LEMMA RejectKeeps ==
  ASSUME NEW c, Ctl(c), NEW cmd \in Command
  PROVE  LET d == Reject(c, cmd, "failed")
         IN Ctl(d) /\ (Sound(c) => Sound(d)) /\ Quiet(c, d) /\ Renewed(c, d)
<1> DEFINE result == [c.result EXCEPT ![cmd.target] = [id |-> cmd.id, outcome |-> "failed"]]
           completed == Remember(c.completed, {cmd.id})
           d == [c EXCEPT !.result = result, !.completed = completed]
<1>1. Reject(c, cmd, "failed") = d
  BY DEF Reject
<1>2. result \in [Targets -> [id: Ids \cup {0}, outcome: Outcome]]
  BY CommandType DEF Ctl, Controller, Outcome
<1>3. completed \in Seq(Ids) /\ Len(completed) <= RingSize
  <2> DEFINE S == {cmd.id}
  <2>1. S \subseteq Ids /\ c.completed \in Seq(Ids) /\ Len(c.completed) <= RingSize
    BY CommandType DEF Ctl, Controller
  <2> HIDE DEF S
  <2> QED
    BY <2>1, RememberType DEF S
<1> HIDE DEF result, completed
<1>4. /\ d \in Controller /\ d.completed = completed
      /\ d.active = c.active /\ d.age = c.age /\ d.moving = c.moving /\ d.fan = c.fan
      /\ d.open = c.open /\ d.close = c.close /\ SameView(c, d)
  BY <1>2, <1>3 DEF Ctl, Controller, SameView
<1> HIDE DEF d
<1> QED
  BY <1>1, <1>3, <1>4 DEF Ctl, Sound, Commanded, Quiet, Renewed, SameView

LEMMA AcceptKeeps ==
  ASSUME NEW c, Ctl(c), NEW cmd \in Command, NEW late
  PROVE  LET d == Accept(c, cmd, late)
         IN Ctl(d) /\ (Sound(c) => Sound(d)) /\ Quiet(c, d) /\ Renewed(c, d)
<1>1. CASE Known(c, cmd.id)
  BY <1>1 DEF Accept, Quiet, Renewed
<1>2. CASE ~Known(c, cmd.id) /\ (~commissioned \/ late \/ Faulty(c, cmd))
  <2>1. Accept(c, cmd, late) = Reject(c, cmd, "failed")
    BY <1>2 DEF Accept
  <2> QED
    BY <2>1, RejectKeeps
<1>3. CASE ~Known(c, cmd.id) /\ ~(~commissioned \/ late \/ Faulty(c, cmd))
  <2>1. Accept(c, cmd, late) = Take(c, cmd) /\ ~Faulty(c, cmd)
    BY <1>3 DEF Accept
  <2> QED
    BY <2>1, TakeKeeps
<1> QED
  BY <1>1, <1>2, <1>3

\* A command that is no longer listed ends; no other begins.
Fewer(c, d) ==
  d.active[Window] \in {c.active[Window], None}

LEMMA ReconciledKeeps ==
  ASSUME NEW c, Ctl(c), NEW ids
  PROVE  LET d == Reconciled(c, ids)
         IN Ctl(d) /\ (Sound(c) => Sound(d)) /\ Quiet(c, d) /\ Fewer(c, d)
<1> DEFINE gone == {t \in Live(c) : c.active[t].id \notin ids}
           d == Finish(Stop(c, gone), gone, "failed")
<1>1. Reconciled(c, ids) = d
  BY DEF Reconciled
<1>2. "failed" \in Outcome
  BY DEF Outcome
<1> HIDE DEF gone
<1>3. /\ Keeps(c, d)
      /\ d.fanFault = c.fanFault /\ d.safeWindow = c.safeWindow /\ d.safeFans = c.safeFans
      /\ d.moving = c.moving
      /\ \A t \in Targets : d.active[t] = IF t \in gone THEN None ELSE c.active[t]
      /\ d.open = (c.open /\ Window \notin gone)
      /\ d.close = (c.close /\ Window \notin gone)
  BY <1>2, EndKeeps DEF Keeps
<1> HIDE DEF d
<1> QED
  BY <1>1, <1>3, ConstantTypes DEF Keeps, Quiet, Fewer

LEMMA ConfiguredKeeps ==
  ASSUME NEW c, Ctl(c), NEW policy \in Policies
  PROVE  LET d == Configured(c, policy)
         IN Ctl(d) /\ (Sound(c) => Sound(d)) /\ Quiet(c, d) /\ Fewer(c, d)
<1> DEFINE e == [c EXCEPT !.policy = policy]
<1>1. Configured(c, policy) \in {e, Passive(e)}
  BY DEF Configured
<1>2. policy \in Policy
  BY DEF FirmwareControllerAssumption
<1>3. /\ e \in Controller /\ e.completed = c.completed
      /\ e.active = c.active /\ e.age = c.age /\ e.moving = c.moving /\ e.fan = c.fan
      /\ e.open = c.open /\ e.close = c.close /\ SameView(c, e)
  BY <1>2 DEF Ctl, Controller, SameView
<1> HIDE DEF e
<1>4. Ctl(e) /\ (Sound(c) => Sound(e)) /\ Quiet(c, e) /\ Fewer(c, e)
  BY <1>3 DEF Ctl, Sound, Commanded, Quiet, Fewer, SameView
<1> DEFINE p == Passive(e)
<1>5. Keeps(e, p) /\ Quiet(e, p) /\ p.active = e.active
  BY <1>4, PassiveKeeps
<1> HIDE DEF p
<1>6. Ctl(p) /\ (Sound(c) => Sound(p)) /\ Quiet(c, p) /\ Fewer(c, p)
  BY <1>3, <1>4, <1>5 DEF Keeps, Quiet, Fewer, SameView
<1> QED
  BY <1>1, <1>4, <1>6 DEF p

LEMMA AtBootType ==
  ASSUME NEW policy \in Policy
  PROVE  LET d == AtBoot(policy)
         IN Ctl(d) /\ Sound(d) /\ ~d.open /\ d.policy = policy
<1> DEFINE off == [f \in Fans |-> FALSE]
           active == [t \in Targets |-> None]
           age == [t \in Targets |-> 0]
           result == [t \in Targets |-> [id |-> 0, outcome |-> "none"]]
           empty == <<>>
           limits == [open |-> FALSE, close |-> FALSE]
           d == [fan |-> off, open |-> FALSE, close |-> FALSE,
                 windowFault |-> FALSE, fanFault |-> off, limits |-> limits,
                 active |-> active, age |-> age, result |-> result,
                 completed |-> empty, override |-> FALSE, policy |-> policy,
                 polluted |-> FALSE, cold |-> FALSE, safeWindow |-> FALSE,
                 safeFans |-> FALSE, automatic |-> off,
                 moving |-> "none", moveAge |-> 0, aired |-> FALSE]
<1>1. AtBoot(policy) = d
  BY DEF AtBoot
<1>2. /\ off \in [Fans -> BOOLEAN] /\ active \in [Targets -> Command \cup {None}]
      /\ age \in [Targets -> 0..Minimum]
      /\ result \in [Targets -> [id: Ids \cup {0}, outcome: Outcome]]
      /\ empty \in Seq(Ids) /\ Len(empty) = 0 /\ limits \in [open: BOOLEAN, close: BOOLEAN]
      /\ \A f \in Fans : ~off[f]
      /\ \A t \in Targets : active[t] = None
  BY ConstantTypes, EmptySeq DEF Outcome
<1> HIDE DEF off, active, age, result, empty, limits
<1>3. d \in Controller
  BY <1>2, ConstantTypes DEF Controller
<1>4. 0 <= RingSize
  BY DEF FirmwareControllerAssumption
<1>5. /\ d.completed = empty /\ d.active = active /\ d.fan = off /\ ~d.open /\ ~d.close
      /\ ~d.windowFault /\ d.policy = policy
  OBVIOUS
<1> HIDE DEF d
<1> QED
  BY <1>1, <1>2, <1>3, <1>4, <1>5, ConstantTypes DEF Ctl, Sound, Commanded
-----------------------------------------------------------------------------
(* The invariant                                                           *)

\* Whichever way the motor was written last, nothing will write the other way in
\* the next cycle: only a command that has not settled may want to.
Paused ==
  /\ ~(pins.open /\ pins.close)
  /\ pins.open  => /\ ~ctl.close /\ ctl.moving # "close"
                   /\ Commanded(ctl, FALSE) => busy /\ ctl.age[Window] = 0
  /\ pins.close => /\ ~ctl.open /\ ctl.moving # "open"
                   /\ Commanded(ctl, TRUE) => busy /\ ctl.age[Window] = 0

IInv ==
  /\ TypeOK /\ IsFiniteSet(listed)
  /\ Sound(ctl)
  /\ ctl.open => ctl.safeWindow
  /\ FansAreLicensed
  /\ Paused

LEMMA OneWay ==
  ASSUME NEW c, Sound(c)
  PROVE  /\ c.open  => ~c.close /\ c.moving # "close" /\ ~Commanded(c, FALSE)
         /\ c.close => ~c.open /\ c.moving # "open" /\ ~Commanded(c, TRUE)
BY DEF Sound, Commanded

LEMMA Licensed == IInv => MotionIsLicensed
<1> SUFFICES ASSUME IInv PROVE MotionIsLicensed
  OBVIOUS
<1>1. Sound(ctl) /\ (ctl.open => ctl.safeWindow)
  BY DEF IInv
<1> QED
  BY <1>1, OneWay DEF MotionIsLicensed, Sound, Commanded

\* The window's commands and pins while the outputs only stop.
LEMMA QuietStep ==
  ASSUME IInv, Ctl(ctl'), Sound(ctl'), Quiet(ctl, ctl'),
         UNCHANGED <<commissioned, pins>>,
         \/ busy' /\ Renewed(ctl, ctl')
         \/ ~busy /\ Fewer(ctl, ctl')
  PROVE  (ctl'.open => ctl'.safeWindow) /\ FansAreLicensed' /\ Paused'
<1>1. (ctl.open => ctl.safeWindow) /\ FansAreLicensed /\ Paused
  BY DEF IInv
<1>2. FansAreLicensed'
  BY <1>1 DEF FansAreLicensed, Quiet
<1>3. Paused'
  <2>1. pins' = pins
    OBVIOUS
  <2>2. CASE busy' /\ ctl'.age[Window] = 0
    BY <1>1, <2>1, <2>2 DEF Paused, Quiet, Commanded
  <2>3. CASE busy' /\ ctl'.active[Window] = ctl.active[Window]
                   /\ ctl'.age[Window] = ctl.age[Window]
    BY <1>1, <2>1, <2>3 DEF Paused, Quiet, Commanded
  <2>4. CASE ~busy /\ Fewer(ctl, ctl')
    BY <1>1, <2>1, <2>4 DEF Paused, Quiet, Commanded, Fewer
  <2> QED
    BY <2>2, <2>3, <2>4 DEF Renewed
<1> QED
  BY <1>1, <1>2, <1>3 DEF Quiet

LEMMA CtlType == TypeOK => Ctl(ctl)
BY DEF TypeOK, Ctl

LEMMA ReceiveKeeps ==
  ASSUME IInv, NEW late, Receive(late)
  PROVE  IInv'
<1> DEFINE cmd == Head(queue)
<1>1. TypeOK /\ Ctl(ctl) /\ Sound(ctl)
  BY CtlType DEF IInv
<1>2. cmd \in Command /\ queue' \in Seq(Command) /\ Len(queue') <= QueueSize
  <2>1. queue \in Seq(Command) /\ queue # <<>> /\ queue' = Tail(queue)
        /\ Len(queue) <= QueueSize /\ QueueSize \in Nat
    BY <1>1 DEF TypeOK, Receive, FirmwareControllerAssumption
  <2> QED
    BY <2>1, HeadTailProperties
<1> HIDE DEF cmd
<1> DEFINE d == Accept(ctl, cmd, late)
<1>3. Ctl(d) /\ (Sound(ctl) => Sound(d)) /\ Quiet(ctl, d) /\ Renewed(ctl, d)
  BY <1>1, <1>2, AcceptKeeps
<1>4. ctl' = d /\ busy' = TRUE
      /\ UNCHANGED <<commissioned, pins, listed, polled, lastId>>
  BY DEF Receive, cmd
<1>7. since' \in Ages
  <2> DEFINE lost == IF ~Known(ctl, cmd.id) /\ ctl'.active[cmd.target] # cmd
                     THEN {cmd.id} ELSE {}
  <2>1. since' = Counted(since, Ended(ctl, ctl') \cup lost)
    BY DEF Receive, cmd
  <2>2. lost \subseteq Ids /\ since \in Ages
    BY <1>1, <1>2, CommandType DEF TypeOK, Ages
  <2>3. Ended(ctl, ctl') \cup lost \in SUBSET Ids
    BY <1>1, <2>2, EndedType
  <2> QED
    BY <2>1, <2>2, <2>3, CountedType
<1> HIDE DEF d
<1>5. (ctl'.open => ctl'.safeWindow) /\ FansAreLicensed' /\ Paused'
  BY <1>1, <1>3, <1>4, QuietStep
<1>6. TypeOK'
  BY <1>1, <1>2, <1>3, <1>4, <1>7 DEF TypeOK, Ctl, Ages
<1> QED
  BY <1>1, <1>3, <1>4, <1>5, <1>6 DEF IInv

LEMMA CycleKeeps ==
  ASSUME IInv, NEW air \in Air, NEW f \in Feedback, NEW late, NEW offline \in BOOLEAN,
         Cycle(air, f, late, offline)
  PROVE  /\ IInv'
         /\ pins.open => ~pins'.close
         /\ pins.close => ~pins'.open
<1> DEFINE s == Safety(ctl, air)
           c == Ticked(s, f, late)
           a == Autonomous(c, air)
<1>1. TypeOK /\ Ctl(ctl) /\ Sound(ctl) /\ Paused
  BY CtlType DEF IInv
<1>2. Ctl(s) /\ Calm(ctl, s) /\ (Sound(ctl) => Sound(s) /\ Allowed(s))
  BY <1>1, SafetyKeeps
<1>3. ctl' = (IF offline THEN a ELSE c) /\ pins' = Written(ctl') /\ busy' = FALSE
      /\ UNCHANGED <<commissioned, queue, listed, polled, lastId>>
  BY DEF Cycle
<1> HIDE DEF s
<1>4. Keeps(s, c)
  BY <1>2, TickedKeeps
<1> HIDE DEF c
<1>5. /\ Ctl(a)
      /\ Sound(c) => Sound(a) /\ Allowed(a)
      /\ NotOpening(c) => ~a.open
      /\ NotClosing(c) => ~a.close
  BY <1>4, AutonomousKeeps DEF Keeps
<1> HIDE DEF a
<1>6. Ctl(ctl') /\ Sound(ctl') /\ Allowed(ctl')
  BY <1>1, <1>2, <1>3, <1>4, <1>5 DEF Keeps
<1>7. (NotOpening(ctl) => ~ctl'.open) /\ (NotClosing(ctl) => ~ctl'.close)
  BY <1>2, <1>3, <1>4, <1>5 DEF Keeps, Calm, NotOpening, NotClosing
<1>8. /\ pins' \in [fan: [Fans -> BOOLEAN], open: BOOLEAN, close: BOOLEAN]
      /\ pins'.open => ctl'.open
      /\ pins'.close => ctl'.close
      /\ \A g \in Fans : pins'.fan[g] => commissioned /\ ctl'.fan[g]
  BY <1>1, <1>3 DEF Written, TypeOK
<1>13. since' \in Ages
  BY <1>1, CountedType, EndedType DEF Cycle, TypeOK, Ages
<1>9. TypeOK'
  BY <1>1, <1>3, <1>6, <1>8, <1>13 DEF TypeOK, Ctl, Ages
<1>10. (ctl'.open => ctl'.safeWindow) /\ FansAreLicensed'
  BY <1>3, <1>6, <1>8 DEF Sound, Allowed, FansAreLicensed
<1>11. Paused'
  BY <1>6, <1>8, OneWay DEF Paused
<1>12. (pins.open => NotClosing(ctl)) /\ (pins.close => NotOpening(ctl))
  BY <1>1, ConstantTypes DEF Paused, NotOpening, NotClosing
<1> QED
  BY <1>1, <1>3, <1>6, <1>7, <1>8, <1>9, <1>10, <1>11, <1>12 DEF IInv

LEMMA PassKeeps ==
  ASSUME IInv, (\E t \in Targets : PassFor(t)) \/ PassForMovement \/ PassForPolicy
  PROVE  IInv'
<1>1. TypeOK /\ Ctl(ctl) /\ Sound(ctl) /\ ctl \in Controller
  BY CtlType DEF IInv, TypeOK
<1>2. ~busy /\ UNCHANGED <<commissioned, pins, busy, queue, listed, polled, lastId, since>>
  BY DEF PassFor, PassForMovement, PassForPolicy
<1>3. /\ ctl' \in Controller /\ ctl'.completed = ctl.completed
      /\ ctl'.active = ctl.active /\ ctl'.moving = ctl.moving /\ ctl'.fan = ctl.fan
      /\ ctl'.open = ctl.open /\ ctl'.close = ctl.close /\ SameView(ctl, ctl')
  <2>1. CASE \E t \in Targets : PassFor(t)
    <3>1. PICK t \in Targets : PassFor(t)
      BY <2>1
    <3> DEFINE age == [ctl.age EXCEPT ![t] = @ + 1]
    <3>2. ctl' = [ctl EXCEPT !.age = age]
      BY <3>1 DEF PassFor
    <3>3. ctl.age[t] \in 0..Minimum /\ ctl.age[t] < Minimum
      <4>1. ctl.age[t] \in 0..Minimum
        BY <1>1 DEF Controller
      <4>2. ctl.age[t] < Limit \/ ctl.age[t] < Minimum
        BY <3>1 DEF PassFor
      <4>3. Limit \in Nat /\ Minimum \in Nat /\ Limit <= Minimum
        BY FirmwareControllerAssumption
      <4> QED
        BY <4>1, <4>2, <4>3
    <3>4. age \in [Targets -> 0..Minimum]
      <4>1. ctl.age[t] + 1 \in 0..Minimum
        BY <3>3, ConstantTypes
      <4>2. ctl.age \in [Targets -> 0..Minimum]
        BY <1>1 DEF Controller
      <4> QED
        BY <4>1, <4>2
    <3> HIDE DEF age
    <3> QED
      BY <1>1, <3>2, <3>4 DEF Controller, SameView
  <2>2. CASE PassForMovement
    <3> DEFINE age == ctl.moveAge + 1
    <3>1. ctl' = [ctl EXCEPT !.moveAge = age]
      BY <2>2 DEF PassForMovement
    <3>2. age \in 0..Limit
      BY <1>1, <2>2, ConstantTypes DEF Controller, PassForMovement
    <3> HIDE DEF age
    <3> QED
      BY <1>1, <3>1, <3>2 DEF Controller, SameView
  <2>3. CASE PassForPolicy
    <3>1. \/ ctl' = [ctl EXCEPT !.override = FALSE]
          \/ ctl' = [ctl EXCEPT !.aired = TRUE]
      BY <2>3 DEF PassForPolicy
    <3>2. CASE ctl' = [ctl EXCEPT !.override = FALSE]
      BY <1>1, <3>2 DEF Controller, SameView
    <3>3. CASE ctl' = [ctl EXCEPT !.aired = TRUE]
      BY <1>1, <3>3 DEF Controller, SameView
    <3> QED
      BY <3>1, <3>2, <3>3
  <2> QED
    BY <2>1, <2>2, <2>3
<1>4. Ctl(ctl') /\ Sound(ctl') /\ Quiet(ctl, ctl') /\ Fewer(ctl, ctl')
  BY <1>1, <1>3 DEF Ctl, Sound, Commanded, Quiet, Fewer, SameView
<1>5. (ctl'.open => ctl'.safeWindow) /\ FansAreLicensed' /\ Paused'
  BY <1>2, <1>4, QuietStep
<1>6. TypeOK'
  BY <1>1, <1>2, <1>4 DEF TypeOK, Ctl
<1> QED
  BY <1>2, <1>4, <1>5, <1>6 DEF IInv
\* What the server lists and what fits into the queue are commands of its own.
LEMMA PollKeeps ==
  ASSUME IInv, NEW answer \in Answers, Poll(answer)
  PROVE  IInv'
<1> DEFINE new == SetToSeq(answer.new)
           cmd(i) == [id |-> lastId + i, target |-> new[i].target,
                      desired |-> new[i].desired, manual |-> new[i].manual]
           fresh == {cmd(i) : i \in DOMAIN new}
           all == queue \o SetToSeq(listed')
           n == IF Len(all) < QueueSize THEN Len(all) ELSE QueueSize
<1>1. TypeOK /\ IsFiniteSet(listed)
  BY DEF IInv
<1>2. /\ answer.kept \subseteq listed /\ answer.new \subseteq Requests
      /\ lastId + Cardinality(answer.new) <= MaxCommands
  BY DEF Answers
<1>3. /\ listed' = answer.kept \cup fresh /\ lastId' = lastId + Len(new)
      /\ queue' = SubSeq(all, 1, n) /\ polled' = TRUE
      /\ UNCHANGED <<commissioned, ctl, pins, busy, since>>
  BY DEF Poll
<1>4. /\ new \in Seq(Requests) /\ Len(new) = Cardinality(answer.new)
      /\ Len(new) \in Nat /\ DOMAIN new = 1..Len(new)
      /\ \A i \in 1..Len(new) : new[i] \in Requests
  <2>1. IsFiniteSet(answer.new)
    BY <1>2, FS_Subset, FirmwareControllerAssumption
  <2> QED
    BY <1>2, <2>1, SetToSeqType, LenProperties, ElementOfSeq
<1>5. lastId \in Nat /\ lastId + Len(new) \in Ids \cup {0}
      /\ \A i \in 1..Len(new) : lastId + i \in Ids
  <2>1. lastId \in Ids \cup {0} /\ MaxCommands \in Nat
    BY <1>1, FirmwareControllerAssumption DEF TypeOK
  <2> HIDE DEF new
  <2> QED
    BY <1>2, <1>4, <2>1 DEF Ids
<1>6. fresh \subseteq Command
  <2> SUFFICES ASSUME NEW i \in 1..Len(new)
               PROVE  cmd(i) \in Command
    BY <1>4
  <2>1. new[i] \in [target: Targets, desired: BOOLEAN, manual: BOOLEAN]
    BY <1>4, FirmwareControllerAssumption
  <2>2. lastId + i \in Ids
    BY <1>5
  <2> HIDE DEF new
  <2> QED
    BY <2>1, <2>2 DEF Command
<1>7. IsFiniteSet(fresh)
  <2> DEFINE g == [i \in 1..Len(new) |-> cmd(i)]
  <2>1. fresh = {g[i] : i \in 1..Len(new)}
    BY <1>4
  <2>2. IsFiniteSet(1..Len(new))
    BY <1>4, FS_Interval
  <2>3. \A x \in fresh : \E i \in 1..Len(new) : g[i] = x
    BY <2>1
  <2>4. g \in Surjection(1..Len(new), fresh)
    BY <2>1, <2>3 DEF Surjection
  <2> HIDE DEF g, fresh
  <2> QED
    BY <2>2, <2>4, FS_Surjection
<1> HIDE DEF new, fresh
<1>8. listed' \subseteq Command /\ IsFiniteSet(listed')
  <2>1. IsFiniteSet(answer.kept)
    BY <1>1, <1>2, FS_Subset
  <2> QED
    BY <1>1, <1>2, <1>3, <1>6, <1>7, <2>1, FS_Union DEF TypeOK
<1>9. queue' \in Seq(Command) /\ Len(queue') <= QueueSize
  <2>1. SetToSeq(listed') \in Seq(Command)
    BY <1>8, SetToSeqType
  <2>2. all \in Seq(Command) /\ Len(all) \in Nat
    BY <1>1, <2>1, ConcatProperties, LenProperties DEF TypeOK
  <2> HIDE DEF all
  <2>3. n \in Nat /\ n <= Len(all) /\ n <= QueueSize
    BY <2>2, FirmwareControllerAssumption
  <2> HIDE DEF n
  <2>4. \A i \in 1..n : all[i] \in Command
    BY <2>2, <2>3, ElementOfSeq
  <2>5. SubSeq(all, 1, n) \in Seq(Command)
        /\ Len(SubSeq(all, 1, n)) = IF 1 <= n THEN n - 1 + 1 ELSE 0
    BY <2>3, <2>4, SubSeqProperties
  <2>6. 0 <= QueueSize
    BY FirmwareControllerAssumption
  <2> QED
    BY <1>3, <2>3, <2>5, <2>6
<1>10. TypeOK'
  BY <1>1, <1>3, <1>5, <1>8, <1>9 DEF TypeOK
<1> QED
  BY <1>3, <1>8, <1>10 DEF IInv, FansAreLicensed, Paused

LEMMA ReconcileKeeps ==
  ASSUME IInv, Reconcile
  PROVE  IInv'
<1> DEFINE ids == {c.id : c \in listed}
           d == Reconciled(ctl, ids)
<1>1. TypeOK /\ Ctl(ctl) /\ Sound(ctl)
  BY CtlType DEF IInv
<1>2. Ctl(d) /\ (Sound(ctl) => Sound(d)) /\ Quiet(ctl, d) /\ Fewer(ctl, d)
  BY <1>1, ReconciledKeeps
<1>3. ~busy /\ ctl' = d /\ polled' = FALSE
      /\ UNCHANGED <<commissioned, pins, busy, queue, listed, lastId>>
  BY DEF Reconcile
<1>6. since' \in Ages
  BY <1>1, CountedType, EndedType DEF Reconcile, TypeOK, Ages
<1> HIDE DEF ids, d
<1>4. (ctl'.open => ctl'.safeWindow) /\ FansAreLicensed' /\ Paused'
  BY <1>1, <1>2, <1>3, QuietStep
<1>5. TypeOK'
  BY <1>1, <1>2, <1>3, <1>6 DEF TypeOK, Ctl, Ages
<1> QED
  BY <1>1, <1>2, <1>3, <1>4, <1>5 DEF IInv

LEMMA SyncPolicyKeeps ==
  ASSUME IInv, NEW policy \in Policies, SyncPolicy(policy)
  PROVE  IInv'
<1> DEFINE d == Configured(ctl, policy)
<1>1. TypeOK /\ Ctl(ctl) /\ Sound(ctl)
  BY CtlType DEF IInv
<1>2. Ctl(d) /\ (Sound(ctl) => Sound(d)) /\ Quiet(ctl, d) /\ Fewer(ctl, d)
  BY <1>1, ConfiguredKeeps
<1>3. ~busy /\ ctl' = d
      /\ UNCHANGED <<commissioned, pins, busy, queue, listed, polled, lastId, since>>
  BY DEF SyncPolicy
<1> HIDE DEF d
<1>4. (ctl'.open => ctl'.safeWindow) /\ FansAreLicensed' /\ Paused'
  BY <1>1, <1>2, <1>3, QuietStep
<1>5. TypeOK'
  BY <1>1, <1>2, <1>3 DEF TypeOK, Ctl
<1> QED
  BY <1>1, <1>2, <1>3, <1>4, <1>5 DEF IInv

\* Outputs that are off, and a controller as it is constructed.
LEMMA Fresh ==
  ASSUME NEW policy \in Policy
  PROVE  /\ Ctl(AtBoot(policy)) /\ Sound(AtBoot(policy)) /\ ~AtBoot(policy).open
         /\ Off \in [fan: [Fans -> BOOLEAN], open: BOOLEAN, close: BOOLEAN]
         /\ ~Off.open /\ ~Off.close /\ \A f \in Fans : ~Off.fan[f]
BY AtBootType DEF Off

LEMMA RebootKeeps ==
  ASSUME IInv, Reboot
  PROVE  IInv'
<1> DEFINE d == AtBoot(ctl.policy)
<1>1. TypeOK /\ IsFiniteSet(listed) /\ ctl.policy \in Policy
  BY DEF IInv, TypeOK, Controller
<1>2. Ctl(d) /\ Sound(d) /\ ~d.open
  BY <1>1, Fresh
<1>3. /\ Off \in [fan: [Fans -> BOOLEAN], open: BOOLEAN, close: BOOLEAN]
      /\ ~Off.open /\ ~Off.close /\ \A f \in Fans : ~Off.fan[f]
  BY <1>1, Fresh
<1>4. ctl' = d /\ pins' = Off /\ busy' = FALSE /\ queue' = <<>> /\ polled' = FALSE
      /\ UNCHANGED <<commissioned, listed, lastId>>
  BY DEF Reboot
<1>7. since' \in Ages
  BY FirmwareControllerAssumption DEF Reboot, NoneEnded, Ages
<1>5. <<>> \in Seq(Command) /\ Len(<<>>) <= QueueSize
  BY EmptySeq, FirmwareControllerAssumption
<1> HIDE DEF d
<1>6. TypeOK'
  BY <1>1, <1>2, <1>3, <1>4, <1>5, <1>7 DEF TypeOK, Ctl, Ages
<1> QED
  BY <1>1, <1>2, <1>3, <1>4, <1>6 DEF IInv, FansAreLicensed, Paused

LEMMA InitEstablishes == Init => IInv
<1> SUFFICES ASSUME Init PROVE IInv
  OBVIOUS
<1> DEFINE d == AtBoot(Default)
<1>1. Default \in Policy
  BY DEF Default, Policy
<1>2. Ctl(d) /\ Sound(d) /\ ~d.open
  BY <1>1, Fresh
<1>3. /\ Off \in [fan: [Fans -> BOOLEAN], open: BOOLEAN, close: BOOLEAN]
      /\ ~Off.open /\ ~Off.close /\ \A f \in Fans : ~Off.fan[f]
  BY <1>1, Fresh
<1>4. /\ commissioned \in BOOLEAN /\ ctl = d /\ pins = Off /\ busy = FALSE /\ queue = <<>>
      /\ listed = {} /\ polled = FALSE /\ lastId = 0
  BY DEF Init
<1>7. since \in Ages
  BY FirmwareControllerAssumption DEF Init, NoneEnded, Ages
<1>5. <<>> \in Seq(Command) /\ Len(<<>>) <= QueueSize /\ IsFiniteSet({})
  BY EmptySeq, FS_EmptySet, FirmwareControllerAssumption
<1> HIDE DEF d
<1>6. TypeOK
  BY <1>2, <1>3, <1>4, <1>5, <1>7 DEF TypeOK, Ctl, Ages
<1> QED
  BY <1>2, <1>3, <1>4, <1>5, <1>6 DEF IInv, FansAreLicensed, Paused

LEMMA PinsOneWay ==
  IInv => (pins.open => ~pins.close) /\ (pins.close => ~pins.open)
BY DEF IInv, Paused

\* One step: the invariant is kept, and no step turns the motor around.
LEMMA StepKeeps ==
  ASSUME IInv, [Next]_vars
  PROVE  /\ IInv'
         /\ pins.open => ~pins'.close
         /\ pins.close => ~pins'.open
<1>1. Sound(ctl) /\ TypeOK
  BY DEF IInv
<1>2. CASE \E late \in BOOLEAN : Receive(late)
  <2>1. PICK late \in BOOLEAN : Receive(late)
    BY <1>2
  <2> QED
    BY <2>1, ReceiveKeeps, PinsOneWay DEF Receive
<1>3. CASE \E air \in Air, f \in Feedback, late \in SUBSET Live(ctl), offline \in BOOLEAN :
             Cycle(air, f, late, offline)
  BY <1>3, CycleKeeps
<1>4. CASE (\E t \in Targets : PassFor(t)) \/ PassForMovement \/ PassForPolicy
  <2>1. UNCHANGED pins
    BY <1>4 DEF PassFor, PassForMovement, PassForPolicy
  <2> QED
    BY <1>4, <2>1, PassKeeps, PinsOneWay
<1>5. CASE \E answer \in Answers : Poll(answer)
  <2>1. PICK answer \in Answers : Poll(answer)
    BY <1>5
  <2> QED
    BY <2>1, PollKeeps, PinsOneWay DEF Poll
<1>6. CASE Reconcile
  BY <1>6, ReconcileKeeps, PinsOneWay DEF Reconcile
<1>7. CASE \E policy \in Policies : SyncPolicy(policy)
  <2>1. PICK policy \in Policies : SyncPolicy(policy)
    BY <1>7
  <2> QED
    BY <2>1, SyncPolicyKeeps, PinsOneWay DEF SyncPolicy
<1>8. CASE Reboot
  BY <1>8, RebootKeeps DEF Reboot, Off
<1>9. CASE UNCHANGED vars
  <2>1. IInv'
    BY <1>9 DEF IInv, vars, TypeOK, FansAreLicensed, Paused
  <2> QED
    BY <1>9, <2>1, PinsOneWay DEF vars
<1> QED
  BY <1>2, <1>3, <1>4, <1>5, <1>6, <1>7, <1>8, <1>9 DEF Next
-----------------------------------------------------------------------------
(* The theorems                                                            *)

LEMMA Invariant == Spec => []IInv
<1>1. IInv /\ [Next]_vars => IInv'
  BY StepKeeps
<1> QED
  BY <1>1, InitEstablishes, PTL DEF Spec

\* The ring never holds more ids than it has places, the queue never more commands
\* than fit, every timer stays within what it is compared with, and a target's
\* command is one for that target.
THEOREM ControllerTypeOK == Spec => []TypeOK
<1>1. IInv => TypeOK
  BY DEF IInv
<1> QED
  BY <1>1, Invariant, PTL

\* Controller drives the motor one way at most, for a command that waits or a
\* movement of its own, never against a fault, and opens the window only in air its
\* last judgement allows: after any sequence of commands, policies, losses of power
\* and cycles, with any feedback.
THEOREM MotionAlwaysLicensed == Spec => []MotionIsLicensed
BY Invariant, Licensed, PTL

\* write_outputs switches a fan on only when the air of that cycle allows it and the
\* fan has no fault, and nothing that happens before the next write withdraws that.
THEOREM FansAlwaysLicensed == Spec => []FansAreLicensed
<1>1. IInv => FansAreLicensed
  BY DEF IInv
<1> QED
  BY <1>1, Invariant, PTL

\* Two writes in a row never drive the motor in opposite directions, whatever
\* commands came between them: a new command has to settle first.
THEOREM ReversalAlwaysPauses == Spec => ReversalPauses
<1>1. IInv /\ [Next]_vars =>
        [~(pins.open /\ pins'.close) /\ ~(pins.close /\ pins'.open)]_vars
  BY StepKeeps
<1> QED
  BY <1>1, Invariant, PTL DEF Spec, ReversalPauses

-----------------------------------------------------------------------------
(* What the operations remember, and what they start                       *)

\* Nobody is asked for more than before: commands and movements end, fans stop.
Milder(c, d) ==
  /\ d.override = c.override
  /\ d.moving \in {c.moving, "none"}
  /\ \A t \in Targets : d.active[t] \in {c.active[t], None}
  /\ \A f \in Fans : d.fan[f] => c.fan[f]

\* The last n + 1 places of the ring hold the id.
InRing(ring, i, n) == \E j \in 0..n : j < Len(ring) /\ ring[Len(ring) - j] = i

\* A command is worked for by one target at most, and only if it has not ended or was
\* forgotten; and one that ended is not further back in the ring than as many as have
\* ended since.
Recorded(c, s) ==
  /\ \A t, u \in Live(c) : c.active[u].id = c.active[t].id => u = t
  /\ \A t \in Live(c) : s[c.active[t].id] = RingSize
  /\ \A i \in Ids : s[i] < RingSize => InRing(c.completed, i, s[i])

\* A new result is that of a command that ends.
Reported(c, d) ==
  \A t \in Targets : d.result[t] = c.result[t] \/ d.result[t].id \in Ended(c, d)

Gentle(c, d) ==
  /\ Milder(c, d) /\ Reported(c, d)
  /\ \A s \in Ages : Recorded(c, s) => Recorded(d, Counted(s, Ended(c, d)))

\* Counting in two turns makes no command older than counting once.
LEMMA CountedTwice ==
  ASSUME NEW s \in Ages, NEW E \in SUBSET Ids, NEW F \in SUBSET Ids, E \cap F = {}
  PROVE  \A i \in Ids : Counted(Counted(s, E), F)[i] <= Counted(s, E \cup F)[i]
<1> SUFFICES ASSUME NEW i \in Ids
             PROVE  Counted(Counted(s, E), F)[i] <= Counted(s, E \cup F)[i]
  OBVIOUS
<1> DEFINE m == Cardinality(E)
           n == Cardinality(F)
           k == Cardinality(E \cup F)
           one == Counted(s, E)
<1>1. one \in Ages /\ E \cup F \in SUBSET Ids
  BY CountedType
<1>2. m \in Nat /\ n \in Nat /\ k = m + n /\ (E # {} => m >= 1) /\ (F # {} => n >= 1)
  <2>1. IsFiniteSet(E) /\ IsFiniteSet(F) /\ m \in Nat /\ n \in Nat
        /\ (E # {} => m >= 1) /\ (F # {} => n >= 1)
    BY FiniteIds
  <2>2. k = m + n - Cardinality(E \cap F)
    BY <2>1, FS_Union
  <2>3. Cardinality(E \cap F) = 0
    BY FS_EmptySet
  <2> HIDE DEF m, n, k
  <2> QED
    BY <2>1, <2>2, <2>3
<1>3. one[i] = LET x == IF i \in E THEN m - 1 ELSE s[i] + m
               IN IF x < RingSize THEN x ELSE RingSize
  BY DEF Counted
<1>4. Counted(one, F)[i] = LET x == IF i \in F THEN n - 1 ELSE one[i] + n
                           IN IF x < RingSize THEN x ELSE RingSize
  BY DEF Counted
<1>5. Counted(s, E \cup F)[i] = LET x == IF i \in E \cup F THEN k - 1 ELSE s[i] + k
                                IN IF x < RingSize THEN x ELSE RingSize
  BY DEF Counted
<1>6. s[i] \in 0..RingSize /\ one[i] \in 0..RingSize /\ RingSize \in Nat
  BY <1>1, FirmwareControllerAssumption DEF Ages
<1> HIDE DEF m, n, k, one
<1> DEFINE two == Counted(one, F)[i]
           both == Counted(s, E \cup F)[i]
<1> HIDE DEF two, both
<1>7. ASSUME i \in F PROVE two <= both
  <2>1. two = (IF n - 1 < RingSize THEN n - 1 ELSE RingSize) /\ n >= 1
    BY <1>2, <1>4, <1>7 DEF two
  <2>2. both = IF m + n - 1 < RingSize THEN m + n - 1 ELSE RingSize
    BY <1>2, <1>5, <1>7 DEF both
  <2> QED
    BY <1>2, <1>6, <2>1, <2>2
<1>8. ASSUME i \in E PROVE two <= both
  <2>1. one[i] = (IF m - 1 < RingSize THEN m - 1 ELSE RingSize) /\ m >= 1 /\ i \notin F
    BY <1>2, <1>3, <1>8
  <2>2. two = IF one[i] + n < RingSize THEN one[i] + n ELSE RingSize
    BY <1>4, <2>1 DEF two
  <2>3. both = IF m + n - 1 < RingSize THEN m + n - 1 ELSE RingSize
    BY <1>2, <1>5, <1>8 DEF both
  <2> QED
    BY <1>2, <1>6, <2>1, <2>2, <2>3
<1>9. ASSUME i \notin E, i \notin F PROVE two <= both
  <2>1. one[i] = IF s[i] + m < RingSize THEN s[i] + m ELSE RingSize
    BY <1>3, <1>9
  <2>2. two = IF one[i] + n < RingSize THEN one[i] + n ELSE RingSize
    BY <1>4, <1>9 DEF two
  <2>3. both = IF s[i] + (m + n) < RingSize THEN s[i] + (m + n) ELSE RingSize
    BY <1>2, <1>5, <1>9 DEF both
  <2> QED
    BY <1>2, <1>6, <2>1, <2>2, <2>3
<1> QED
  BY <1>7, <1>8, <1>9 DEF one, two, both

LEMMA RecordedOlder ==
  ASSUME NEW c, Ctl(c), NEW s \in Ages, NEW z \in Ages, Recorded(c, s),
         \A i \in Ids : s[i] <= z[i]
  PROVE  Recorded(c, z)
<1>1. \A i \in Ids : s[i] \in 0..RingSize /\ z[i] \in 0..RingSize /\ RingSize \in Nat
  BY FirmwareControllerAssumption DEF Ages
<1>2. ASSUME NEW t \in Live(c) PROVE z[c.active[t].id] = RingSize
  <2>1. c.active[t].id \in Ids
    BY CommandType DEF Ctl, Controller, Live
  <2>2. s[c.active[t].id] = RingSize
    BY DEF Recorded
  <2> QED
    BY <1>1, <2>1, <2>2
<1>3. ASSUME NEW i \in Ids, z[i] < RingSize PROVE InRing(c.completed, i, z[i])
  <2>1. s[i] < RingSize
    BY <1>1, <1>3
  <2>2. PICK j \in 0..s[i] : j < Len(c.completed) /\ c.completed[Len(c.completed) - j] = i
    BY <2>1 DEF Recorded, InRing
  <2>3. j \in 0..z[i]
    BY <1>1
  <2> QED
    BY <2>2, <2>3 DEF InRing
<1> QED
  BY <1>2, <1>3 DEF Recorded

LEMMA EndedTwice ==
  ASSUME NEW c, NEW d, NEW e,
         \A t \in Targets : d.active[t] \in {c.active[t], None},
         \A t \in Targets : e.active[t] \in {d.active[t], None}
  PROVE  /\ Ended(c, e) = Ended(c, d) \cup Ended(d, e)
         /\ \A s : Recorded(c, s) => Ended(c, d) \cap Ended(d, e) = {}
<1>1. \A t \in Live(d) : t \in Live(c) /\ d.active[t] = c.active[t] /\ t \in Targets
  BY DEF Live
<1>2. \A t \in Live(c) : /\ t \in Targets
                         /\ d.active[t] # c.active[t] <=> t \notin Live(d)
                         /\ e.active[t] # c.active[t] <=> t \notin Live(e)
  BY DEF Live
<1>3. \A t \in Live(e) : t \in Live(d) /\ e.active[t] = d.active[t]
  BY DEF Live
<1>4. Ended(c, d) = {c.active[t].id : t \in Live(c) \ Live(d)}
  BY <1>2 DEF Ended
<1>5. Ended(d, e) = {c.active[t].id : t \in Live(d) \ Live(e)}
  BY <1>1, <1>3 DEF Ended, Live
<1>6. Ended(c, e) = {c.active[t].id : t \in Live(c) \ Live(e)}
  BY <1>2 DEF Ended
<1>7. Ended(c, e) = Ended(c, d) \cup Ended(d, e)
  BY <1>1, <1>3, <1>4, <1>5, <1>6
<1>8. ASSUME NEW s, Recorded(c, s), NEW i \in Ended(c, d) \cap Ended(d, e)
      PROVE  FALSE
  <2>1. PICK t \in Live(c) \ Live(d) : i = c.active[t].id
    BY <1>4, <1>8
  <2>2. PICK u \in Live(d) \ Live(e) : i = c.active[u].id
    BY <1>5, <1>8
  <2>3. u = t
    BY <1>1, <1>8, <2>1, <2>2 DEF Recorded
  <2> QED
    BY <2>1, <2>2, <2>3
<1> QED
  BY <1>7, <1>8

\* Two operations in turn are one that counts what either ended.
LEMMA RecordsTwice ==
  ASSUME NEW c, Ctl(c), NEW d, Ctl(d), NEW e, Ctl(e),
         \A t \in Targets : d.active[t] \in {c.active[t], None},
         \A t \in Targets : e.active[t] \in {d.active[t], None},
         Reported(c, d), Reported(d, e),
         \A s \in Ages : Recorded(c, s) => Recorded(d, Counted(s, Ended(c, d))),
         \A s \in Ages : Recorded(d, s) => Recorded(e, Counted(s, Ended(d, e)))
  PROVE  /\ Reported(c, e)
         /\ \A s \in Ages : Recorded(c, s) => Recorded(e, Counted(s, Ended(c, e)))
<1> DEFINE E == Ended(c, d)
           F == Ended(d, e)
<1>1. Ended(c, e) = E \cup F /\ \A s : Recorded(c, s) => E \cap F = {}
  BY EndedTwice
<1>2. E \in SUBSET Ids /\ F \in SUBSET Ids /\ E \cup F \in SUBSET Ids
  BY EndedType
<1>3. Reported(c, e)
  BY <1>1 DEF Reported
<1> HIDE DEF E, F
<1>4. ASSUME NEW s \in Ages, Recorded(c, s)
      PROVE  Recorded(e, Counted(s, E \cup F))
  <2> DEFINE x == Counted(s, E)
             y == Counted(x, F)
             z == Counted(s, E \cup F)
  <2>1. x \in Ages /\ z \in Ages
    BY <1>2, CountedType
  <2>2. \A i \in Ids : y[i] <= z[i]
    BY <1>1, <1>2, <1>4, CountedTwice
  <2>3. Recorded(d, x)
    BY <1>4 DEF E
  <2> HIDE DEF x, z
  <2>4. y \in Ages
    BY <1>2, <2>1, CountedType
  <2>5. Recorded(e, y)
    BY <2>1, <2>3 DEF F
  <2> HIDE DEF y
  <2>6. Recorded(e, z)
    BY <2>1, <2>2, <2>4, <2>5, RecordedOlder
  <2> QED
    BY <2>6 DEF z
<1> QED
  BY <1>1, <1>3, <1>4

LEMMA GentleTwice ==
  ASSUME NEW c, Ctl(c), NEW d, Ctl(d), NEW e, Ctl(e), Gentle(c, d), Gentle(d, e)
  PROVE  Gentle(c, e)
<1>1. Milder(c, e)
  BY DEF Gentle, Milder
<1>2. /\ \A t \in Targets : d.active[t] \in {c.active[t], None}
      /\ \A t \in Targets : e.active[t] \in {d.active[t], None}
  BY DEF Gentle, Milder
<1>3. /\ Reported(c, e)
      /\ \A s \in Ages : Recorded(c, s) => Recorded(e, Counted(s, Ended(c, e)))
  BY <1>2, RecordsTwice DEF Gentle
<1> QED
  BY <1>1, <1>3 DEF Gentle

\* Nothing ends between two controllers with the same commands.
LEMMA RecordsSame ==
  ASSUME NEW c, NEW d,
         d.active = c.active /\ d.result = c.result /\ d.completed = c.completed
  PROVE  /\ Ended(c, d) = {} /\ Reported(c, d)
         /\ \A s \in Ages : Counted(s, Ended(c, d)) = s
         /\ \A s : Recorded(c, s) => Recorded(d, s)
<1>1. Live(d) = Live(c)
  BY DEF Live
<1>2. Ended(c, d) = {}
  BY DEF Ended
<1>3. \A s \in Ages : Counted(s, Ended(c, d)) = s
  BY <1>2, NothingCounted
<1> QED
  BY <1>1, <1>2, <1>3 DEF Recorded, Reported

\* An operation that ends and takes no command.
Edited(c, d) ==
  /\ d.active = c.active /\ d.result = c.result /\ d.completed = c.completed
  /\ d.override = c.override /\ d.moving \in {c.moving, "none"}
  /\ \A f \in Fans : d.fan[f] => c.fan[f]

LEMMA GentleEdit ==
  ASSUME NEW c, NEW d, Edited(c, d)
  PROVE  Gentle(c, d)
<1>1. /\ Reported(c, d)
      /\ \A s \in Ages : Counted(s, Ended(c, d)) = s /\ (Recorded(c, s) => Recorded(d, s))
  BY RecordsSame DEF Edited
<1> QED
  BY <1>1 DEF Gentle, Milder, Edited

LEMMA StopGentle ==
  ASSUME NEW c, Ctl(c), NEW T
  PROVE  Ctl(Stop(c, T)) /\ Gentle(c, Stop(c, T))
<1> DEFINE fan == [f \in Fans |-> c.fan[f] /\ f \notin T]
           open == c.open /\ Window \notin T
           close == c.close /\ Window \notin T
           d == [c EXCEPT !.fan = fan, !.open = open, !.close = close]
<1>1. Stop(c, T) = d
  BY DEF Stop
<1>2. \A f \in Fans : fan[f] => c.fan[f]
  OBVIOUS
<1> HIDE DEF fan, open, close
<1>3. d.active = c.active /\ d.result = c.result /\ d.completed = c.completed
      /\ d.override = c.override /\ d.moving = c.moving /\ d.fan = fan
  BY DEF Ctl, Controller
<1> HIDE DEF d
<1>4. Gentle(c, d)
  BY <1>2, <1>3, GentleEdit DEF Edited
<1> QED
  BY <1>1, <1>4, StopFields

\* What is remembered moves back in the ring by as many places as are added.
LEMMA RememberKeeps ==
  ASSUME NEW ring \in Seq(Ids), NEW S \in SUBSET Ids
  PROVE  LET new == Remember(ring, S)
             n == Cardinality(S)
         IN /\ \A i \in S : n - 1 < RingSize => InRing(new, i, n - 1)
            /\ \A i \in Ids, m \in Nat :
                  m + n < RingSize /\ InRing(ring, i, m) => InRing(new, i, m + n)
<1> DEFINE more == SetToSeq(S)
           all == ring \o more
           new == Remember(ring, S)
           n == Cardinality(S)
<1>1. IsFiniteSet(S) /\ n \in Nat /\ RingSize \in Nat \ {0}
  BY FiniteIds, FirmwareControllerAssumption
<1>2. /\ ring \in Seq(Ids) /\ Len(ring) \in Nat
      /\ more \in Seq(Ids) /\ Len(more) = n
      /\ \A i \in S : \E j \in 1..n : more[j] = i
  <2>1. PICK g \in Bijection(1..n, S) : TRUE
    BY <1>1, FS_CardinalityType DEF ExistsBijection
  <2>2. g \in [1..n -> S] /\ (\A i \in S : \E j \in 1..n : g[j] = i) /\ IsInjective(g)
    BY <2>1 DEF Bijection, Injection, Surjection
  <2>3. more \in [1..n -> S] /\ IsInjective(more)
    BY <2>2 DEF SetToSeq
  <2> HIDE DEF more
  <2>4. more \in Injection(1..n, S)
    BY <2>3 DEF Injection
  <2>8. n \in Nat
    BY <1>1
  <2>9. IsFiniteSet(1..n) /\ Cardinality(1..n) = n
    <3> HIDE DEF n
    <3> QED
      BY <2>8, FS_Interval
  <2>5. more \in Surjection(1..n, S)
    BY <1>1, <2>4, <2>9, FS_Injection
  <2>6. \A i \in S : \E j \in 1..n : more[j] = i
    BY <2>5 DEF Surjection
  <2>7. more \in Seq(Ids) /\ Len(more) = n
    BY <1>1, SetToSeqType DEF more
  <2> QED
    BY <2>6, <2>7, LenProperties
<1> HIDE DEF more
<1>3. /\ all \in Seq(Ids) /\ Len(all) = Len(ring) + n /\ Len(all) \in Nat
      /\ \A j \in 1..Len(all) : all[j] = IF j <= Len(ring) THEN ring[j] ELSE more[j - Len(ring)]
  <2>1. all \in Seq(Ids) /\ Len(all) = Len(ring) + Len(more)
        /\ \A j \in 1..Len(ring) + Len(more) :
              all[j] = IF j <= Len(ring) THEN ring[j] ELSE more[j - Len(ring)]
    BY <1>2, ConcatProperties
  <2> QED
    BY <1>1, <1>2, <2>1
<1>4. new = IF Len(all) <= RingSize THEN all
            ELSE SubSeq(all, Len(all) - RingSize + 1, Len(all))
  BY DEF Remember, more
<1> HIDE DEF all, new
<1>5. ASSUME NEW j \in Nat, j < Len(all), j < RingSize
      PROVE  j < Len(new) /\ new[Len(new) - j] = all[Len(all) - j]
  <2>1. CASE Len(all) <= RingSize
    BY <1>4, <1>5, <2>1
  <2>2. CASE ~(Len(all) <= RingSize)
    <3> DEFINE a == Len(all) - RingSize + 1
               b == Len(all)
    <3>0. Len(all) \in Nat /\ RingSize \in Nat \ {0}
      BY <1>1, <1>3
    <3>1. a \in Int /\ b \in Int /\ a <= b /\ b - a + 1 = RingSize /\ a >= 1
      BY <2>2, <3>0
    <3>2. \A x \in a..b : all[x] \in Ids
      BY <1>3, <3>1, ElementOfSeq
    <3>3. new = SubSeq(all, a, b)
      BY <1>4, <2>2
    <3>4. RingSize - j = b - j - a + 1
      BY <1>1, <1>3
    <3> HIDE DEF a, b
    <3>5. /\ SubSeq(all, a, b) \in Seq(Ids) /\ Len(SubSeq(all, a, b)) = RingSize
          /\ \A x \in 1..(b - a + 1) : SubSeq(all, a, b)[x] = all[a + x - 1]
      BY <3>1, <3>2, SubSeqProperties
    <3>6. RingSize - j \in 1..(b - a + 1) /\ a + (RingSize - j) - 1 = b - j
      BY <1>1, <1>5, <3>1
    <3> QED
      BY <1>5, <3>3, <3>5, <3>6 DEF b
  <2> QED
    BY <2>1, <2>2
<1>6. ASSUME NEW i \in S, n - 1 < RingSize
      PROVE  InRing(new, i, n - 1)
  <2>1. PICK j \in 1..n : more[j] = i
    BY <1>2
  <2>2. n - j \in 0..(n - 1) /\ n - j \in Nat /\ n - j < Len(all) /\ n - j < RingSize
    BY <1>1, <1>2, <1>3, <1>6
  <2>3. Len(all) - (n - j) = Len(ring) + j
    BY <1>1, <1>2, <1>3
  <2>4. all[Len(ring) + j] = i
    BY <1>1, <1>2, <1>3, <2>1
  <2> QED
    BY <1>5, <2>2, <2>3, <2>4 DEF InRing
<1>7. ASSUME NEW i \in Ids, NEW m \in Nat, m + n < RingSize, InRing(ring, i, m)
      PROVE  InRing(new, i, m + n)
  <2>1. PICK j \in 0..m : j < Len(ring) /\ ring[Len(ring) - j] = i
    BY <1>7 DEF InRing
  <2>2. j + n \in 0..(m + n) /\ j + n \in Nat /\ j + n < Len(all) /\ j + n < RingSize
    BY <1>1, <1>2, <1>3, <1>7, <2>1
  <2>3. Len(all) - (j + n) = Len(ring) - j /\ Len(ring) - j \in 1..Len(all)
        /\ Len(ring) - j <= Len(ring)
    BY <1>1, <1>2, <1>3, <2>1
  <2>4. all[Len(ring) - j] = i
    BY <1>3, <2>1, <2>3
  <2> QED
    BY <1>5, <2>2, <2>3, <2>4 DEF InRing
<1> QED
  BY <1>6, <1>7 DEF new

\* The ring keeps up with the count.
LEMMA RingCounted ==
  ASSUME NEW ring \in Seq(Ids), NEW S \in SUBSET Ids, NEW s \in Ages,
         \A i \in Ids : s[i] < RingSize => InRing(ring, i, s[i])
  PROVE  \A i \in Ids : Counted(s, S)[i] < RingSize =>
                         InRing(Remember(ring, S), i, Counted(s, S)[i])
<1> SUFFICES ASSUME NEW i \in Ids, Counted(s, S)[i] < RingSize
             PROVE  InRing(Remember(ring, S), i, Counted(s, S)[i])
  OBVIOUS
<1> DEFINE n == Cardinality(S)
           new == Remember(ring, S)
<1>1. n \in Nat /\ RingSize \in Nat /\ s[i] \in 0..RingSize
  BY FiniteIds, FirmwareControllerAssumption DEF Ages
<1>2. Counted(s, S)[i] = LET x == IF i \in S THEN n - 1 ELSE s[i] + n
                         IN IF x < RingSize THEN x ELSE RingSize
  BY DEF Counted
<1>3. /\ \A k \in S : n - 1 < RingSize => InRing(new, k, n - 1)
      /\ \A k \in Ids, m \in Nat :
            m + n < RingSize /\ InRing(ring, k, m) => InRing(new, k, m + n)
  BY RememberKeeps
<1> HIDE DEF n, new
<1>4. CASE i \in S
  <2>1. Counted(s, S)[i] = n - 1 /\ n - 1 < RingSize
    BY <1>1, <1>2, <1>4
  <2> QED
    BY <1>3, <1>4, <2>1 DEF new
<1>5. CASE i \notin S
  <2>1. Counted(s, S)[i] = s[i] + n /\ s[i] + n < RingSize
    BY <1>1, <1>2, <1>5
  <2>2. s[i] \in Nat /\ s[i] < RingSize
    BY <1>1, <2>1
  <2> QED
    BY <1>3, <2>1, <2>2 DEF new
<1> QED
  BY <1>4, <1>5

\* A command that had not ended, or was forgotten, and does not end stays so.
LEMMA StaysOut ==
  ASSUME NEW s \in Ages, NEW S \in SUBSET Ids, NEW i \in Ids, i \notin S, s[i] = RingSize
  PROVE  Counted(s, S)[i] = RingSize
<1> DEFINE n == Cardinality(S)
<1>1. n \in Nat /\ RingSize \in Nat
  BY FiniteIds, FirmwareControllerAssumption
<1>2. Counted(s, S)[i] = LET x == IF i \in S THEN n - 1 ELSE s[i] + n
                         IN IF x < RingSize THEN x ELSE RingSize
  BY DEF Counted
<1> QED
  BY <1>1, <1>2

\* finish: the commands of T are known by the ring instead.
LEMMA FinishGentle ==
  ASSUME NEW c, Ctl(c), NEW T, NEW outcome \in Outcome
  PROVE  Ctl(Finish(c, T, outcome)) /\ Gentle(c, Finish(c, T, outcome))
<1> DEFINE L == T \cap Live(c)
           result == [t \in Targets |-> IF t \in L
                                        THEN [id |-> c.active[t].id, outcome |-> outcome]
                                        ELSE c.result[t]]
           S == {c.active[t].id : t \in L}
           completed == Remember(c.completed, S)
           active == [t \in Targets |-> IF t \in T THEN None ELSE c.active[t]]
           age == [t \in Targets |-> IF t \in T \cap {Window} THEN 0 ELSE c.age[t]]
           d == [c EXCEPT !.result = result, !.completed = completed, !.active = active,
                          !.age = age]
<1>1. Finish(c, T, outcome) = d
  BY DEF Finish
<1> DEFINE z == Finish(c, T, outcome)
<1>10. Ctl(z)
  BY FinishFields
<1> HIDE DEF z
<1>2. \A t \in L : t \in Targets /\ t \in Live(c) /\ c.active[t].id \in Ids
  BY CommandType DEF Ctl, Controller, Live
<1>3. /\ \A t \in Targets : active[t] = IF t \in T THEN None ELSE c.active[t]
      /\ \A t \in Targets : result[t] = IF t \in L
                                        THEN [id |-> c.active[t].id, outcome |-> outcome]
                                        ELSE c.result[t]
  OBVIOUS
<1>4. S \in SUBSET Ids /\ \A x \in S : \E t \in L : x = c.active[t].id
  BY <1>2
<1>5. \A t \in L : c.active[t].id \in S
  OBVIOUS
<1>11. S = {c.active[t].id : t \in {u \in Live(c) : u \in T}}
  OBVIOUS
<1> HIDE DEF result, completed, active, age, S
<1>6. /\ d.result = result /\ d.completed = completed /\ d.active = active
      /\ d.override = c.override /\ d.moving = c.moving /\ d.fan = c.fan
  BY DEF Ctl, Controller
<1> HIDE DEF d
<1>7. Milder(c, d)
  BY <1>3, <1>6 DEF Milder
<1>8. \A t \in Live(d) : t \in Live(c) /\ t \notin T /\ d.active[t] = c.active[t]
  BY <1>3, <1>6 DEF Live
<1>12. Ended(c, d) = S
  <2>1. \A u \in Live(c) : u \in Targets /\ c.active[u] # None
    BY DEF Live
  <2>2. \A u \in Live(c) : d.active[u] # c.active[u] <=> u \in T
    BY <1>3, <1>6, <2>1
  <2>3. {u \in Live(c) : d.active[u] # c.active[u]} = {u \in Live(c) : u \in T}
    BY <2>2
  <2> QED
    BY <1>11, <2>3 DEF Ended
<1>13. Reported(c, d)
  <2> SUFFICES ASSUME NEW t \in Targets
               PROVE  d.result[t] = c.result[t] \/ d.result[t].id \in S
    BY <1>12 DEF Reported
  <2>1. CASE t \in L
    <3>1. d.result[t] = [id |-> c.active[t].id, outcome |-> outcome]
      BY <1>3, <1>6, <2>1
    <3>2. d.result[t].id = c.active[t].id
      BY <3>1
    <3> QED
      BY <1>5, <2>1, <3>2
  <2>2. CASE t \notin L
    BY <1>3, <1>6, <2>2
  <2> QED
    BY <2>1, <2>2
<1>9. ASSUME NEW s \in Ages, Recorded(c, s)
      PROVE  Recorded(d, Counted(s, S))
  <2>1. c.completed \in Seq(Ids)
    BY DEF Ctl, Controller
  <2>2. \A i \in Ids : Counted(s, S)[i] < RingSize => InRing(completed, i, Counted(s, S)[i])
    BY <1>4, <1>9, <2>1, RingCounted DEF Recorded, completed
  <2>3. ASSUME NEW t \in Live(d)
        PROVE  /\ Counted(s, S)[d.active[t].id] = RingSize
               /\ \A u \in Live(d) : d.active[u].id = d.active[t].id => u = t
    <3>1. t \in Live(c) /\ t \notin T /\ d.active[t] = c.active[t]
      BY <1>8, <2>3
    <3>2. c.active[t].id \in Ids
      BY <3>1, CommandType DEF Ctl, Controller, Live
    <3>3. c.active[t].id \notin S
      <4> SUFFICES ASSUME c.active[t].id \in S PROVE FALSE
        OBVIOUS
      <4>1. PICK u \in L : c.active[u].id = c.active[t].id
        BY <1>4
      <4>2. u = t
        BY <1>2, <1>9, <3>1, <4>1 DEF Recorded
      <4> QED
        BY <3>1, <4>2
    <3>4. s[c.active[t].id] = RingSize
      BY <1>9, <3>1 DEF Recorded
    <3>5. Counted(s, S)[c.active[t].id] = RingSize
      BY <1>4, <3>2, <3>3, <3>4, StaysOut
    <3>6. \A u \in Live(d) : d.active[u].id = d.active[t].id => u = t
      BY <1>8, <1>9, <3>1 DEF Recorded
    <3> QED
      BY <3>1, <3>5, <3>6
  <2> QED
    BY <1>6, <2>2, <2>3 DEF Recorded
<1>14. Gentle(c, d)
  BY <1>7, <1>9, <1>12, <1>13 DEF Gentle
<1> QED
  BY <1>1, <1>10, <1>14 DEF z

LEMMA EndGentle ==
  ASSUME NEW c, Ctl(c), NEW S, NEW T, NEW outcome \in Outcome
  PROVE  /\ Ctl(Finish(Stop(c, S), T, outcome))
         /\ Gentle(c, Finish(Stop(c, S), T, outcome))
<1> DEFINE s == Stop(c, S)
           d == Finish(s, T, outcome)
<1>1. Ctl(s) /\ Gentle(c, s)
  BY StopGentle
<1> HIDE DEF s
<1>2. Ctl(d) /\ Gentle(s, d)
  BY <1>1, FinishGentle
<1> HIDE DEF d
<1>3. Ctl(d) /\ Gentle(c, d)
  BY <1>1, <1>2, GentleTwice
<1> QED
  BY <1>3 DEF d, s

LEMMA JudgedGentle ==
  ASSUME NEW c, Ctl(c), NEW air \in Air
  PROVE  Ctl(Judged(c, air)) /\ Gentle(c, Judged(c, air))
<1> DEFINE d == Judged(c, air)
<1>1. /\ d.active = c.active /\ d.result = c.result /\ d.completed = c.completed
      /\ d.override = c.override /\ d.moving = c.moving /\ d.fan = c.fan
  BY DEF Judged, Ctl, Controller
<1> HIDE DEF d
<1>2. Gentle(c, d)
  BY <1>1, GentleEdit DEF Edited
<1> QED
  BY <1>2, JudgedKeeps DEF d

LEMMA SecuredGentle ==
  ASSUME NEW c, Ctl(c)
  PROVE  Ctl(Secured(c)) /\ Gentle(c, Secured(c))
<1> DEFINE U == {t \in Live(c) : c.active[t].desired /\ ~Safe(c, t)}
           V == U \cap {Window}
           d == Finish(Stop(c, V), U, "failed")
           s == Stop(d, Fans)
           x == [s EXCEPT !.automatic = [f \in Fans |-> FALSE]]
           e == IF d.safeFans THEN d ELSE x
           W == {Window}
           z == Stop(e, W)
           y == [z EXCEPT !.moving = "none", !.moveAge = 0]
<1>1. Secured(c) \in {e, y}
  BY DEF Secured
<1>2. "failed" \in Outcome
  BY DEF Outcome
<1> HIDE DEF U, V, W
<1>3. Ctl(d) /\ Gentle(c, d)
  BY <1>2, EndGentle
<1> HIDE DEF d
<1>4. Ctl(s) /\ Gentle(d, s)
  BY <1>3, StopGentle
<1> HIDE DEF s
<1>5. /\ x \in Controller /\ x.completed = s.completed
      /\ x.active = s.active /\ x.result = s.result
      /\ x.override = s.override /\ x.moving = s.moving /\ x.fan = s.fan
  BY <1>4 DEF Ctl, Controller
<1> HIDE DEF x
<1>6. Ctl(x) /\ Gentle(s, x)
  BY <1>4, <1>5, GentleEdit DEF Ctl, Edited
<1>7. Ctl(e) /\ Gentle(c, e)
  BY <1>3, <1>4, <1>6, GentleTwice
<1> HIDE DEF e
<1>8. Ctl(z) /\ Gentle(e, z)
  BY <1>7, StopGentle
<1> HIDE DEF z
<1>9. /\ y \in Controller /\ y.completed = z.completed
      /\ y.active = z.active /\ y.result = z.result
      /\ y.override = z.override /\ y.moving = "none" /\ y.fan = z.fan
  BY <1>8, ConstantTypes DEF Ctl, Controller
<1> HIDE DEF y
<1>10. Ctl(y) /\ Gentle(z, y)
  BY <1>8, <1>9, GentleEdit DEF Ctl, Edited
<1>11. Gentle(c, y)
  BY <1>7, <1>8, <1>10, GentleTwice
<1> QED
  BY <1>1, <1>7, <1>10, <1>11

LEMMA SafetyGentle ==
  ASSUME NEW c, Ctl(c), NEW air \in Air
  PROVE  Ctl(Safety(c, air)) /\ Gentle(c, Safety(c, air))
<1> DEFINE j == Judged(c, air)
           d == Secured(j)
<1>1. Ctl(j) /\ Gentle(c, j)
  BY JudgedGentle
<1> HIDE DEF j
<1>2. Ctl(d) /\ Gentle(j, d)
  BY <1>1, SecuredGentle
<1> HIDE DEF d
<1>3. Ctl(d) /\ Gentle(c, d)
  BY <1>1, <1>2, GentleTwice
<1> QED
  BY <1>3 DEF d, j, Safety

LEMMA SeenGentle ==
  ASSUME NEW c, Ctl(c), NEW f \in Feedback
  PROVE  Gentle(c, Seen(c, f))
<1> DEFINE limits == [open |-> f.open, close |-> f.close]
           aired == c.aired /\ f.open /\ c.limits.open
           d == [c EXCEPT !.limits = limits, !.aired = aired]
           x == [d EXCEPT !.windowFault = TRUE]
           W == {Window}
           y == Finish(Stop(x, W), W, "failed")
<1>1. Seen(c, f) \in {d, y} /\ "failed" \in Outcome
  BY DEF Seen, Outcome
<1>2. limits \in [open: BOOLEAN, close: BOOLEAN] /\ aired \in BOOLEAN
  BY FeedbackType DEF Ctl, Controller
<1> HIDE DEF limits, aired, W
<1>3. d \in Controller /\ Edited(c, d)
  BY <1>2 DEF Ctl, Controller, Edited
<1>4. Ctl(d) /\ Gentle(c, d)
  BY <1>3, GentleEdit DEF Ctl, Edited
<1> HIDE DEF d
<1>5. x \in Controller /\ Edited(d, x)
  BY <1>4 DEF Ctl, Controller, Edited
<1> HIDE DEF x
<1>6. Ctl(x) /\ Gentle(d, x)
  BY <1>4, <1>5, GentleEdit DEF Ctl, Edited
<1>7. Ctl(y) /\ Gentle(x, y)
  BY <1>1, <1>6, EndGentle
<1> HIDE DEF y
<1>8. Gentle(c, y)
  BY <1>4, <1>6, <1>7, GentleTwice
<1> QED
  BY <1>1, <1>4, <1>8

LEMMA LapsedGentle ==
  ASSUME NEW c, Ctl(c), NEW late
  PROVE  Gentle(c, Lapsed(c, late))
<1> DEFINE T == late \cap Live(c)
<1>1. Lapsed(c, late) = Finish(Stop(c, T), T, "failed") /\ "failed" \in Outcome
  BY DEF Lapsed, Outcome
<1> HIDE DEF T
<1> QED
  BY <1>1, EndGentle

LEMMA AchievedGentle ==
  ASSUME NEW c, Ctl(c), NEW f \in Feedback
  PROVE  Gentle(c, Achieved(c, f))
<1> DEFINE T == {t \in Live(c) : Reached(c, t, f)}
           S == T \cap {Window}
<1>1. Achieved(c, f) = Finish(Stop(c, S), T, "applied") /\ "applied" \in Outcome
  BY DEF Achieved, Outcome
<1> HIDE DEF T, S
<1> QED
  BY <1>1, EndGentle

LEMMA FailedGentle ==
  ASSUME NEW c, Ctl(c)
  PROVE  Gentle(c, Failed(c))
<1> DEFINE T == {t \in Live(c) : c.age[t] >= Limit}
           windowFault == c.windowFault \/ Window \in T
           fanFault == [g \in Fans |-> c.fanFault[g] \/ g \in T]
           x == [c EXCEPT !.windowFault = windowFault, !.fanFault = fanFault]
           y == Finish(Stop(x, T), T, "failed")
<1>1. Failed(c) = y /\ "failed" \in Outcome
  BY DEF Failed, Outcome
<1>2. windowFault \in BOOLEAN /\ fanFault \in [Fans -> BOOLEAN]
  OBVIOUS
<1> HIDE DEF T, windowFault, fanFault
<1>3. x \in Controller /\ Edited(c, x)
  BY <1>2 DEF Ctl, Controller, Edited
<1> HIDE DEF x
<1>4. Ctl(x) /\ Gentle(c, x)
  BY <1>3, GentleEdit DEF Ctl, Edited
<1>5. Ctl(y) /\ Gentle(x, y)
  BY <1>1, <1>4, EndGentle
<1> HIDE DEF y
<1> QED
  BY <1>1, <1>4, <1>5, GentleTwice

LEMMA DrivenGentle ==
  ASSUME NEW c, Ctl(c)
  PROVE  Gentle(c, Driven(c))
<1> DEFINE open == c.active[Window].desired
           close == ~c.active[Window].desired
           d == [c EXCEPT !.open = open, !.close = close]
<1>1. Driven(c) \in {c, d}
  BY DEF Driven
<1> HIDE DEF open, close
<1>2. Edited(c, c) /\ Edited(c, d)
  BY DEF Ctl, Controller, Edited
<1> HIDE DEF d
<1> QED
  BY <1>1, <1>2, GentleEdit

LEMMA WatchedGentle ==
  ASSUME NEW c, Ctl(c), NEW f \in Feedback
  PROVE  Gentle(c, Watched(c, f))
<1> DEFINE lost == {x \in Fans : c.fan[x] /\ x \notin f.turning /\ c.age[x] >= Limit}
           fanFault == [g \in Fans |-> c.fanFault[g] \/ g \in lost]
           x == [c EXCEPT !.fanFault = fanFault]
           y == Stop(x, lost)
<1>1. Watched(c, f) = y
  BY DEF Watched
<1>2. fanFault \in [Fans -> BOOLEAN]
  OBVIOUS
<1> HIDE DEF lost, fanFault
<1>3. x \in Controller /\ Edited(c, x)
  BY <1>2 DEF Ctl, Controller, Edited
<1> HIDE DEF x
<1>4. Ctl(x) /\ Gentle(c, x)
  BY <1>3, GentleEdit DEF Ctl, Edited
<1>5. Ctl(y) /\ Gentle(x, y)
  BY <1>4, StopGentle
<1> HIDE DEF y
<1> QED
  BY <1>1, <1>4, <1>5, GentleTwice

LEMMA MovedGentle ==
  ASSUME NEW c, Ctl(c), NEW f \in Feedback
  PROVE  Gentle(c, Moved(c, f))
<1> DEFINE W == {Window}
           s == Stop(c, W)
           aired == s.aired /\ ~f.open
           rest == [s EXCEPT !.moving = "none", !.moveAge = 0, !.aired = aired]
           fault == [s EXCEPT !.moving = "none", !.moveAge = 0, !.windowFault = TRUE]
           open == c.moving = "open"
           close == c.moving = "close"
           drive == [c EXCEPT !.open = open, !.close = close]
<1>1. Moved(c, f) \in {c, rest, fault, drive}
  <2>1. c.moveAge \in 0..Limit /\ Limit \in Nat /\ Settle \in Nat /\ Settle <= Limit
    BY ConstantTypes, FirmwareControllerAssumption DEF Ctl, Controller
  <2>2. c.moveAge < Settle \/ c.moveAge \in Settle..(Limit - 1) \/ c.moveAge >= Limit
    BY <2>1
  <2>3. CASE c.moveAge < Settle
    <3>1. c.moveAge \notin Settle..(Limit - 1) /\ ~(c.moveAge >= Limit)
      BY <2>1, <2>3
    <3> QED
      BY <2>3, <3>1 DEF Moved
  <2>4. CASE c.moveAge \in Settle..(Limit - 1)
    <3>1. ~(c.moveAge < Settle) /\ ~(c.moveAge >= Limit)
      BY <2>1, <2>4
    <3> QED
      BY <2>4, <3>1 DEF Moved
  <2>5. CASE c.moveAge >= Limit
    <3>1. ~(c.moveAge < Settle) /\ c.moveAge \notin Settle..(Limit - 1)
      BY <2>1, <2>5
    <3> QED
      BY <2>5, <3>1 DEF Moved
  <2> QED
    BY <2>2, <2>3, <2>4, <2>5
<1> HIDE DEF W
<1>2. Ctl(s) /\ Gentle(c, s)
  BY StopGentle
<1> HIDE DEF s, aired, open, close
<1>3. Edited(c, c) /\ Edited(s, rest) /\ Edited(s, fault) /\ Edited(c, drive)
  BY <1>2 DEF Ctl, Controller, Edited
<1>4. aired \in BOOLEAN
  BY <1>2 DEF aired, Ctl, Controller
<1>5. rest \in Controller /\ fault \in Controller
  BY <1>2, <1>4, ConstantTypes DEF Ctl, Controller
<1>6. rest.completed = s.completed /\ rest.active = s.active
      /\ fault.completed = s.completed /\ fault.active = s.active
  BY <1>3 DEF Edited
<1> HIDE DEF rest, fault, drive
<1>7. Ctl(rest) /\ Ctl(fault)
  BY <1>2, <1>5, <1>6 DEF Ctl
<1>8. Gentle(s, rest) /\ Gentle(s, fault) /\ Gentle(c, c) /\ Gentle(c, drive)
  BY <1>3, GentleEdit
<1>9. Gentle(c, rest) /\ Gentle(c, fault)
  BY <1>2, <1>7, <1>8, GentleTwice
<1> QED
  BY <1>1, <1>8, <1>9

LEMMA TickedGentle ==
  ASSUME NEW c, Ctl(c), NEW f \in Feedback, NEW late
  PROVE  Ctl(Ticked(c, f, late)) /\ Gentle(c, Ticked(c, f, late))
<1> DEFINE c1 == Seen(c, f)
           c2 == Lapsed(c1, late)
           c3 == Achieved(c2, f)
           c4 == Failed(c3)
           c5 == Driven(c4)
           c6 == Watched(c5, f)
           c7 == Moved(c6, f)
<1>1. Ticked(c, f, late) = c7
  BY DEF Ticked
<1>2. Gentle(c, c1) /\ Ctl(c1)
  BY SeenKeeps, SeenGentle DEF Keeps
<1> HIDE DEF c1
<1>3. Gentle(c1, c2) /\ Ctl(c2)
  BY <1>2, LapsedKeeps, LapsedGentle DEF Keeps
<1> HIDE DEF c2
<1>4. Gentle(c2, c3) /\ Ctl(c3)
  BY <1>3, AchievedKeeps, AchievedGentle DEF Keeps
<1> HIDE DEF c3
<1>5. Gentle(c3, c4) /\ Ctl(c4)
  BY <1>4, FailedKeeps, FailedGentle DEF Keeps
<1> HIDE DEF c4
<1>6. Gentle(c4, c5) /\ Ctl(c5)
  BY <1>5, DrivenKeeps, DrivenGentle DEF Keeps
<1> HIDE DEF c5
<1>7. Gentle(c5, c6) /\ Ctl(c6)
  BY <1>6, WatchedKeeps, WatchedGentle DEF Keeps
<1> HIDE DEF c6
<1>8. Gentle(c6, c7) /\ Ctl(c7)
  BY <1>7, MovedKeeps, MovedGentle DEF Keeps
<1> HIDE DEF c7
<1>9. Gentle(c, c3)
  <2>1. Gentle(c, c2)
    BY <1>2, <1>3, GentleTwice
  <2> QED
    BY <1>3, <1>4, <2>1, GentleTwice
<1>10. Gentle(c3, c5)
  BY <1>4, <1>5, <1>6, GentleTwice
<1>11. Gentle(c3, c6)
  BY <1>4, <1>6, <1>7, <1>10, GentleTwice
<1>12. Gentle(c3, c7)
  BY <1>4, <1>7, <1>8, <1>11, GentleTwice
<1> QED
  BY <1>1, <1>4, <1>8, <1>9, <1>12, GentleTwice

LEMMA PassiveGentle ==
  ASSUME NEW c, Ctl(c)
  PROVE  Ctl(Passive(c)) /\ Gentle(c, Passive(c))
<1> DEFINE T == {f \in Fans : c.automatic[f]} \cup (IF c.moving # "none" THEN {Window} ELSE {})
           s == Stop(c, T)
           d == [s EXCEPT !.automatic = [f \in Fans |-> FALSE], !.moving = "none", !.moveAge = 0]
<1>1. Passive(c) = d
  BY DEF Passive
<1> HIDE DEF T
<1>2. Ctl(s) /\ Gentle(c, s)
  BY StopGentle
<1> HIDE DEF s
<1>3. d \in Controller /\ Edited(s, d) /\ d.completed = s.completed /\ d.active = s.active
  BY <1>2, ConstantTypes DEF Ctl, Controller, Edited
<1> HIDE DEF d
<1>4. Ctl(d) /\ Gentle(s, d)
  BY <1>2, <1>3, GentleEdit DEF Ctl
<1> QED
  BY <1>1, <1>2, <1>4, GentleTwice

\* What is not driven by an operator may also be started, but by no command.
Tame(c, d) ==
  /\ d.override = c.override
  /\ \A t \in Targets : d.active[t] \in {c.active[t], None}
  /\ c.override => Milder(c, d)
  /\ Reported(c, d)
  /\ \A s \in Ages : Recorded(c, s) => Recorded(d, Counted(s, Ended(c, d)))

LEMMA TameTwice ==
  ASSUME NEW c, Ctl(c), NEW d, Ctl(d), NEW e, Ctl(e), Gentle(c, d), Tame(d, e)
  PROVE  Tame(c, e)
<1>1. /\ e.override = c.override
      /\ \A t \in Targets : e.active[t] \in {c.active[t], None}
      /\ c.override => Milder(c, e)
  BY DEF Gentle, Tame, Milder
<1>2. /\ \A t \in Targets : d.active[t] \in {c.active[t], None}
      /\ \A t \in Targets : e.active[t] \in {d.active[t], None}
  BY DEF Gentle, Milder, Tame
<1>3. /\ Reported(c, e)
      /\ \A s \in Ages : Recorded(c, s) => Recorded(e, Counted(s, Ended(c, e)))
  BY <1>2, RecordsTwice DEF Gentle, Tame
<1> QED
  BY <1>1, <1>3 DEF Tame

SameCommands(c, d) ==
  d.active = c.active /\ d.result = c.result /\ d.completed = c.completed
  /\ d.override = c.override

LEMMA StopSame ==
  ASSUME NEW c, Ctl(c), NEW T
  PROVE  Ctl(Stop(c, T)) /\ SameCommands(c, Stop(c, T))
<1> DEFINE fan == [f \in Fans |-> c.fan[f] /\ f \notin T]
           open == c.open /\ Window \notin T
           close == c.close /\ Window \notin T
           d == [c EXCEPT !.fan = fan, !.open = open, !.close = close]
<1>1. Stop(c, T) = d
  BY DEF Stop
<1> HIDE DEF fan, open, close
<1>2. SameCommands(c, d)
  BY DEF Ctl, Controller, SameCommands
<1> QED
  BY <1>1, <1>2, StopFields

\* The automation asks for no command.
LEMMA VentilatedSame ==
  ASSUME NEW c, Ctl(c), NEW air
  PROVE  Ctl(VentilatedBy(c, air)) /\ SameCommands(c, VentilatedBy(c, air))
<1> DEFINE on == {f \in Fans : ~c.fanFault[f] /\ ~c.fan[f]}
           off == {f \in Fans : c.age[f] >= Minimum}
           s == Stop(c, off)
           automatic == [f \in Fans |-> TRUE]
           age == [t \in Targets |-> IF t \in on THEN 0 ELSE c.age[t]]
           fan == [f \in Fans |-> c.fan[f] \/ f \in on]
           rest == [f \in Fans |-> s.automatic[f] /\ f \notin off]
           x == [c EXCEPT !.automatic = automatic, !.age = age, !.fan = fan]
           y == [s EXCEPT !.automatic = rest]
<1>1. VentilatedBy(c, air) \in {c, x, y}
  BY DEF VentilatedBy
<1>2. Ctl(s) /\ SameCommands(c, s)
  BY StopSame
<1> HIDE DEF on, off, s, automatic, age, fan, rest
<1>3. SameCommands(c, x) /\ SameCommands(s, y)
  BY <1>2 DEF Ctl, Controller, SameCommands
<1> HIDE DEF x, y
<1>4. SameCommands(c, c) /\ SameCommands(c, y)
  BY <1>2, <1>3 DEF SameCommands
<1> DEFINE v == VentilatedBy(c, air)
<1>5. Ctl(v)
  BY VentilatedByKeeps
<1> QED
  BY <1>1, <1>3, <1>4, <1>5

LEMMA StartedSame ==
  ASSUME NEW c, Ctl(c), NEW air
  PROVE  SameCommands(c, Started(c, air))
<1> DEFINE W == {Window}
           s == Stop(c, W)
           way == IF c.safeWindow /\ air.co2 = "high" THEN "open" ELSE "close"
           d == [s EXCEPT !.moving = way, !.moveAge = 0]
<1>1. Started(c, air) \in {c, d}
  BY DEF Started
<1> HIDE DEF W, way
<1>2. Ctl(s) /\ SameCommands(c, s)
  BY StopSame
<1> HIDE DEF s
<1>3. SameCommands(c, c) /\ SameCommands(c, d)
  BY <1>2 DEF Ctl, Controller, SameCommands
<1> HIDE DEF d
<1> QED
  BY <1>1, <1>3

LEMMA AutonomousTame ==
  ASSUME NEW c, Ctl(c), NEW air \in Air
  PROVE  Tame(c, Autonomous(c, air))
<1> DEFINE d == Safety(c, air)
           p == Passive(d)
           v == VentilatedBy(d, air)
           g == Started(v, air)
<1>1. Autonomous(c, air) = IF ~commissioned \/ ~d.policy.enabled THEN p
                           ELSE IF d.override \/ Live(d) # {} THEN d ELSE g
  BY DEF Autonomous
<1>2. Ctl(d) /\ Gentle(c, d)
  BY SafetyGentle
<1> HIDE DEF d
<1>3. Ctl(p) /\ Gentle(d, p)
  BY <1>2, PassiveGentle
<1> HIDE DEF p
<1>4. Gentle(c, p)
  BY <1>2, <1>3, GentleTwice
<1>5. Ctl(v) /\ SameCommands(d, v)
  BY <1>2, VentilatedSame
<1> HIDE DEF v
<1>6. SameCommands(v, g) /\ (Live(d) = {} => Ctl(g))
  <2>1. Live(d) = {} => v.active[Window] = None
    BY <1>5, ConstantTypes DEF Live, SameCommands
  <2> QED
    BY <1>5, <2>1, StartedKeeps, StartedSame
<1> HIDE DEF g
<1>7. Tame(c, d) /\ Tame(c, p)
  BY <1>2, <1>4 DEF Gentle, Tame, Milder
<1>8. ASSUME ~d.override
      PROVE  Tame(d, g)
  <2>1. SameCommands(d, g)
    BY <1>5, <1>6 DEF SameCommands
  <2>2. /\ Reported(d, g)
        /\ \A s \in Ages : Counted(s, Ended(d, g)) = s /\ (Recorded(d, s) => Recorded(g, s))
    BY <2>1, RecordsSame DEF SameCommands
  <2> QED
    BY <1>8, <2>1, <2>2 DEF Tame, SameCommands
<1>9. ~d.override /\ Live(d) = {} => Tame(c, g)
  BY <1>2, <1>6, <1>8, TameTwice
<1> QED
  BY <1>1, <1>7, <1>9

-----------------------------------------------------------------------------
(* The steps                                                               *)

\* What a step that ends the commands E may do to those that ended before it.
Remembers(c, d, E) ==
  \A s \in Ages : Recorded(c, s) =>
     /\ Recorded(d, Counted(s, E))
     /\ \A i \in Ids, t \in Targets :
          s[i] < RingSize => /\ d.active[t].id # i
                             /\ d.result[t].id = i => d.result[t] = c.result[t]

\* What the ring does not know has not ended, or was forgotten.
LEMMA UnknownIsOut ==
  ASSUME NEW c, Ctl(c), NEW k \in Ids, ~Known(c, k), NEW s \in Ages, Recorded(c, s)
  PROVE  s[k] = RingSize /\ \A t \in Targets : c.active[t].id # k
<1>1. s[k] \in 0..RingSize /\ RingSize \in Nat
  BY FirmwareControllerAssumption DEF Ages
<1>2. ASSUME s[k] < RingSize PROVE FALSE
  <2>1. PICK j \in 0..s[k] : j < Len(c.completed) /\ c.completed[Len(c.completed) - j] = k
    BY <1>2 DEF Recorded, InRing
  <2>2. Len(c.completed) \in Nat /\ DOMAIN c.completed = 1..Len(c.completed)
    BY LenProperties DEF Ctl, Controller
  <2>3. Len(c.completed) - j \in DOMAIN c.completed
    BY <1>1, <2>1, <2>2
  <2> QED
    BY <2>1, <2>3 DEF Known
<1> QED
  BY <1>1, <1>2 DEF Known

\* The commands that are worked for have not ended.
LEMMA LiveIsOut ==
  ASSUME NEW c, Ctl(c), NEW s \in Ages, Recorded(c, s), NEW i \in Ids, s[i] < RingSize
  PROVE  \A t \in Targets : c.active[t].id # i
<1> SUFFICES ASSUME NEW t \in Targets, c.active[t].id = i
             PROVE  FALSE
  OBVIOUS
<1>1. t \in Live(c)
  BY CommandType DEF Live, Ids
<1>2. s[i] = RingSize /\ RingSize \in Nat
  BY <1>1, FirmwareControllerAssumption DEF Recorded
<1> QED
  BY <1>2

LEMMA RejectRecords ==
  ASSUME NEW c, Ctl(c), NEW cmd \in Command, ~Known(c, cmd.id)
  PROVE  /\ Remembers(c, Reject(c, cmd, "failed"), {cmd.id})
         /\ Ended(c, Reject(c, cmd, "failed")) = {}
         /\ Reject(c, cmd, "failed").active[cmd.target] # cmd
<1> DEFINE k == cmd.id
           S == {k}
           t == cmd.target
           result == [c.result EXCEPT ![t] = [id |-> k, outcome |-> "failed"]]
           completed == Remember(c.completed, S)
           d == [c EXCEPT !.result = result, !.completed = completed]
<1>1. Reject(c, cmd, "failed") = d
  BY DEF Reject
<1>2. k \in Ids /\ t \in Targets /\ S \in SUBSET Ids
  BY CommandType
<1>3. c.completed \in Seq(Ids) /\ \A u \in Targets : c.active[u].id # k
  BY DEF Known, Ctl, Controller
<1>4. S = {cmd.id}
  OBVIOUS
<1> HIDE DEF S
<1>5. result[t] = [id |-> k, outcome |-> "failed"]
      /\ \A u \in Targets : u # t => result[u] = c.result[u]
  BY <1>2 DEF Ctl, Controller
<1> HIDE DEF result, completed
<1>6. d.active = c.active /\ d.result = result /\ d.completed = completed
  BY DEF Ctl, Controller
<1> HIDE DEF d
<1>7. Live(d) = Live(c) /\ Ended(c, d) = {}
  BY <1>6 DEF Live, Ended
<1>8. d.active[cmd.target] # cmd
  BY <1>2, <1>3, <1>6
<1>9. ASSUME NEW s \in Ages, Recorded(c, s)
      PROVE  /\ Recorded(d, Counted(s, S))
             /\ \A i \in Ids, u \in Targets :
                  s[i] < RingSize => /\ d.active[u].id # i
                                     /\ d.result[u].id = i => d.result[u] = c.result[u]
  <2>1. \A i \in Ids : Counted(s, S)[i] < RingSize => InRing(completed, i, Counted(s, S)[i])
    BY <1>2, <1>3, <1>9, RingCounted DEF Recorded, completed
  <2>2. ASSUME NEW u \in Live(c) PROVE Counted(s, S)[c.active[u].id] = RingSize
    <3>1. u \in Targets /\ c.active[u].id \in Ids
      BY CommandType DEF Ctl, Controller, Live
    <3>2. c.active[u].id \notin S
      BY <1>3, <1>4, <3>1
    <3>3. s[c.active[u].id] = RingSize
      BY <1>9 DEF Recorded
    <3> QED
      BY <1>2, <3>1, <3>2, <3>3, StaysOut
  <2>3. Recorded(d, Counted(s, S))
    BY <1>6, <1>7, <1>9, <2>1, <2>2 DEF Recorded
  <2>4. ASSUME NEW i \in Ids, NEW u \in Targets, s[i] < RingSize
        PROVE  d.active[u].id # i /\ (d.result[u].id = i => d.result[u] = c.result[u])
    <3>1. d.active[u].id # i
      BY <1>6, <1>9, <2>4, LiveIsOut
    <3>2. i # k
      <4>1. s[k] = RingSize /\ RingSize \in Nat
        BY <1>2, <1>9, UnknownIsOut, FirmwareControllerAssumption
      <4> QED
        BY <2>4, <4>1
    <3>3. u = t => d.result[u].id = k
      <4>1. u = t => d.result[u] = [id |-> k, outcome |-> "failed"]
        BY <1>5, <1>6
      <4> QED
        BY <4>1
    <3> QED
      BY <1>5, <1>6, <3>1, <3>2, <3>3
  <2> QED
    BY <2>3, <2>4
<1>10. Remembers(c, d, S)
  BY <1>9 DEF Remembers
<1> QED
  BY <1>1, <1>4, <1>7, <1>8, <1>10

\* finish leaves the other fields alone.
LEMMA FinishRest ==
  ASSUME NEW c, Ctl(c), NEW T, NEW outcome \in Outcome
  PROVE  LET d == Finish(c, T, outcome)
         IN /\ d.override = c.override /\ d.moving = c.moving /\ d.fan = c.fan
            /\ \A t \in Targets : d.active[t] = IF t \in T THEN None ELSE c.active[t]
BY FinishFields

\* What a new command changes: its own target, and override if an operator sent it.
LEMMA TakeFields ==
  ASSUME NEW c, Ctl(c), NEW cmd \in Command, NEW e, e = Finish(c, {cmd.target}, "failed")
  PROVE  LET d == Take(c, cmd)
         IN /\ d.override = (c.override \/ cmd.manual)
            /\ d.moving \in {c.moving, "none"}
            /\ \A u \in Targets : d.active[u] = IF u = cmd.target THEN cmd ELSE c.active[u]
            /\ \A f \in Fans : f # cmd.target => d.fan[f] = c.fan[f]
            /\ d.completed = e.completed
            /\ \A u \in Targets : d.result[u] = IF u = cmd.target
                                                THEN [id |-> cmd.id, outcome |-> "accepted"]
                                                ELSE e.result[u]
<1> DEFINE t == cmd.target
           T == {t}
           z == Finish(c, T, "failed")
<1>1. t \in Targets /\ "failed" \in Outcome /\ \A u \in Targets : u \in T <=> u = t
  BY CommandType DEF Outcome
<1>2. e = z
  OBVIOUS
<1> HIDE DEF T
<1>3. Ctl(z)
  BY <1>1, FinishGentle
<1>4. /\ z.override = c.override /\ z.moving = c.moving /\ z.fan = c.fan
      /\ \A u \in Targets : z.active[u] = IF u \in T THEN None ELSE c.active[u]
  BY <1>1, FinishRest
<1> HIDE DEF z
<1>5. /\ e \in Controller
      /\ e.override = c.override /\ e.moving = c.moving /\ e.fan = c.fan
      /\ \A u \in Targets : u # t => e.active[u] = c.active[u]
  BY <1>1, <1>2, <1>3, <1>4 DEF Ctl
<1> DEFINE active == [e.active EXCEPT ![t] = cmd]
           age == [e.age EXCEPT ![t] = 0]
           override == e.override \/ cmd.manual
           moving == IF t = Window THEN "none" ELSE e.moving
           moveAge == IF t = Window THEN 0 ELSE e.moveAge
           automatic == [f \in Fans |-> IF f = t THEN ~cmd.manual /\ cmd.desired
                                        ELSE e.automatic[f]]
           result == [e.result EXCEPT ![t] = [id |-> cmd.id, outcome |-> "accepted"]]
           fan == [f \in Fans |-> IF f = t THEN cmd.desired ELSE e.fan[f]]
           open == e.open /\ t # Window
           close == e.close /\ t # Window
           d == [e EXCEPT !.active = active, !.age = age, !.override = override,
                          !.moving = moving, !.moveAge = moveAge, !.automatic = automatic,
                          !.result = result, !.fan = fan, !.open = open, !.close = close]
<1>6. Take(c, cmd) = d
  BY DEF Take
<1>7. /\ \A u \in Targets : active[u] = IF u = t THEN cmd ELSE c.active[u]
      /\ \A u \in Targets : result[u] = IF u = t THEN [id |-> cmd.id, outcome |-> "accepted"]
                                        ELSE e.result[u]
  BY <1>1, <1>5 DEF Controller
<1>8. /\ override = (c.override \/ cmd.manual) /\ moving \in {c.moving, "none"}
      /\ \A f \in Fans : f # t => fan[f] = c.fan[f]
  BY <1>5
<1> HIDE DEF active, age, override, moving, moveAge, automatic, result, fan, open, close
<1>9. /\ d.active = active /\ d.override = override /\ d.moving = moving
      /\ d.result = result /\ d.fan = fan /\ d.completed = e.completed
  BY <1>5 DEF Controller
<1> HIDE DEF d
<1> QED
  BY <1>6, <1>7, <1>8, <1>9

LEMMA TakeRecords ==
  ASSUME NEW c, Ctl(c), NEW cmd \in Command, ~Known(c, cmd.id)
  PROVE  /\ Remembers(c, Take(c, cmd), Ended(c, Take(c, cmd)))
         /\ Take(c, cmd).active[cmd.target] = cmd
<1> DEFINE t == cmd.target
           k == cmd.id
           T == {t}
           e == Finish(c, T, "failed")
           d == Take(c, cmd)
<1>1. t \in Targets /\ k \in Ids /\ cmd # None /\ "failed" \in Outcome
      /\ \A u \in Targets : u \in T <=> u = t
  BY CommandType DEF Outcome
<1>2. /\ d.completed = e.completed
      /\ \A u \in Targets : d.active[u] = IF u = t THEN cmd ELSE c.active[u]
      /\ \A u \in Targets : d.result[u] = IF u = t THEN [id |-> k, outcome |-> "accepted"]
                                          ELSE e.result[u]
  BY TakeFields
<1>3. \A u \in Targets : c.active[u].id # k
  BY DEF Known
<1> HIDE DEF T, d
<1>4. /\ Ctl(e) /\ Gentle(c, e)
      /\ \A u \in Targets : e.active[u] = IF u \in T THEN None ELSE c.active[u]
  BY <1>1, FinishGentle, FinishRest
<1>5. \A u \in Targets : e.active[u] = IF u = t THEN None ELSE c.active[u]
  BY <1>1, <1>4
<1> HIDE DEF e
<1> DEFINE S == Ended(c, e)
<1>6. Ended(c, d) = S
  <2>1. \A u \in Live(c) : u \in Targets /\ c.active[u] # None /\ c.active[u].id # k
    BY <1>3 DEF Live
  <2>2. cmd.id = k
    OBVIOUS
  <2> HIDE DEF k, t
  <2>3. \A u \in Live(c) : d.active[u] # c.active[u] <=> e.active[u] # c.active[u]
    BY <1>2, <1>5, <2>1, <2>2
  <2>4. {u \in Live(c) : d.active[u] # c.active[u]} = {u \in Live(c) : e.active[u] # c.active[u]}
    BY <2>3
  <2> QED
    BY <2>4 DEF Ended
<1>7. S \in SUBSET Ids /\ k \notin S
  <2>1. S \in SUBSET Ids
    BY EndedType
  <2>2. \A u \in Live(c) : c.active[u].id # k
    BY <1>3 DEF Live
  <2> QED
    BY <2>1, <2>2 DEF Ended
<1>8. Reported(c, e) /\ \A s \in Ages : Recorded(c, s) => Recorded(e, Counted(s, S))
  BY <1>4 DEF Gentle
<1> HIDE DEF S
<1>9. ASSUME NEW s \in Ages, Recorded(c, s)
      PROVE  /\ Recorded(d, Counted(s, S))
             /\ \A i \in Ids, u \in Targets :
                  s[i] < RingSize => /\ d.active[u].id # i
                                     /\ d.result[u].id = i => d.result[u] = c.result[u]
  <2>1. s[k] = RingSize /\ RingSize \in Nat
    BY <1>1, <1>9, UnknownIsOut, FirmwareControllerAssumption
  <2>2. Counted(s, S)[k] = RingSize
    BY <1>1, <1>7, <2>1, StaysOut
  <2>3. Recorded(e, Counted(s, S))
    BY <1>8, <1>9
  <2>4. d.active[t] = cmd /\ d.active[t].id = k
    BY <1>1, <1>2
  <2>5. \A u \in Live(d) : u \in Targets /\ (u # t => u \in Live(e) /\ d.active[u] = e.active[u]
                                                      /\ d.active[u].id # k)
    BY <1>2, <1>3, <1>5 DEF Live
  <2>6. \A u \in Live(d) : Counted(s, S)[d.active[u].id] = RingSize
    BY <2>2, <2>3, <2>4, <2>5 DEF Recorded
  <2>7. ASSUME NEW u \in Live(d), NEW v \in Live(d), d.active[v].id = d.active[u].id
        PROVE  v = u
    <3>1. CASE u = t \/ v = t
      BY <2>4, <2>5, <2>7, <3>1
    <3>2. CASE u # t /\ v # t
      BY <2>3, <2>5, <2>7, <3>2 DEF Recorded
    <3> QED
      BY <3>1, <3>2
  <2>8. Recorded(d, Counted(s, S))
    BY <1>2, <2>3, <2>6, <2>7 DEF Recorded
  <2>9. ASSUME NEW i \in Ids, NEW u \in Targets, s[i] < RingSize
        PROVE  d.active[u].id # i /\ (d.result[u].id = i => d.result[u] = c.result[u])
    <3>1. i # k
      BY <2>1, <2>9
    <3>2. \A v \in Targets : c.active[v].id # i
      BY <1>9, <2>9, LiveIsOut
    <3>3. i \notin S
      <4>1. Ended(c, d) = S
        BY <1>6
      <4> QED
        BY <3>2, <4>1 DEF Ended, Live
    <3>4. CASE u = t
      <4>1. d.active[u].id = k /\ d.result[u] = [id |-> k, outcome |-> "accepted"]
        BY <1>2, <2>4, <3>4
      <4>2. d.result[u].id = k
        BY <4>1
      <4> QED
        BY <3>1, <4>1, <4>2
    <3>5. CASE u # t
      <4>1. d.active[u] = c.active[u] /\ d.result[u] = e.result[u]
        BY <1>2, <3>5
      <4>2. e.result[u] = c.result[u] \/ e.result[u].id \in S
        BY <1>8 DEF Reported, S
      <4> QED
        BY <3>2, <3>3, <4>1, <4>2
    <3> QED
      BY <3>4, <3>5
  <2> QED
    BY <2>8, <2>9
<1>10. Remembers(c, d, Ended(c, d))
  BY <1>6, <1>9 DEF Remembers
<1>11. d.active[cmd.target] = cmd
  BY <1>1, <1>2
<1> QED
  BY <1>10, <1>11 DEF d

\* What a step may do to an operator's override and to the outcomes.
Respects(c, d) ==
  /\ \A t \in Targets :
        d.active[t] # None /\ d.active[t] # c.active[t] /\ d.active[t].manual => d.override
  /\ c.override /\ d.override =>
       /\ d.moving # c.moving => d.moving = "none"
       /\ \A f \in Fans : d.fan[f] /\ ~c.fan[f] => d.active[f] # None

LEMMA TameRespects ==
  ASSUME NEW c, Ctl(c), NEW d, Tame(c, d) \/ Gentle(c, d)
  PROVE  Respects(c, d) /\ Remembers(c, d, Ended(c, d))
<1>1. Tame(c, d)
  BY DEF Gentle, Tame, Milder
<1>2. Respects(c, d)
  BY <1>1 DEF Tame, Milder, Respects
<1>3. ASSUME NEW s \in Ages, Recorded(c, s), NEW i \in Ids, NEW t \in Targets, s[i] < RingSize
      PROVE  d.active[t].id # i /\ (d.result[t].id = i => d.result[t] = c.result[t])
  <2>1. \A u \in Targets : c.active[u].id # i
    BY <1>3, LiveIsOut
  <2>2. i \notin Ended(c, d)
    BY <2>1 DEF Ended, Live
  <2>3. d.active[t].id # i
    BY <1>1, <2>1, CommandType DEF Tame, Ids
  <2>4. d.result[t] = c.result[t] \/ d.result[t].id \in Ended(c, d)
    BY <1>1 DEF Tame, Reported
  <2> QED
    BY <2>2, <2>3, <2>4
<1>4. \A s \in Ages : Recorded(c, s) => Recorded(d, Counted(s, Ended(c, d)))
  BY <1>1 DEF Tame
<1> QED
  BY <1>2, <1>3, <1>4 DEF Remembers

LEMMA SameRemembers ==
  ASSUME NEW c, Ctl(c), NEW d, SameCommands(c, d)
  PROVE  Remembers(c, d, {}) /\ Ended(c, d) = {}
<1>1. /\ Ended(c, d) = {}
      /\ \A s \in Ages : Counted(s, Ended(c, d)) = s
      /\ \A s : Recorded(c, s) => Recorded(d, s)
  BY RecordsSame DEF SameCommands
<1>2. \A s \in Ages : Recorded(c, s) => Recorded(d, Counted(s, {}))
  BY <1>1
<1>3. ASSUME NEW s \in Ages, Recorded(c, s), NEW i \in Ids, NEW t \in Targets, s[i] < RingSize
      PROVE  d.active[t].id # i /\ d.result[t] = c.result[t]
  BY <1>3, LiveIsOut DEF SameCommands
<1> QED
  BY <1>1, <1>2, <1>3 DEF Remembers

\* The commands that Receive ends, by being rejected too.
Lost(c, d, cmd) ==
  Ended(c, d) \cup (IF ~Known(c, cmd.id) /\ d.active[cmd.target] # cmd THEN {cmd.id} ELSE {})

LEMMA AcceptRespects ==
  ASSUME NEW c, Ctl(c), NEW cmd \in Command, NEW late
  PROVE  LET d == Accept(c, cmd, late)
         IN Respects(c, d) /\ Remembers(c, d, Lost(c, d, cmd))
<1> DEFINE r == Reject(c, cmd, "failed")
           d == Take(c, cmd)
           a == Accept(c, cmd, late)
<1>1. \/ Known(c, cmd.id) /\ a = c
      \/ ~Known(c, cmd.id) /\ a \in {r, d}
  BY DEF Accept
<1>2. Respects(c, c) /\ Remembers(c, c, {}) /\ Ended(c, c) = {}
  BY SameRemembers DEF Respects, SameCommands
<1>3. Respects(c, r)
  <2>1. r.active = c.active /\ r.moving = c.moving /\ r.fan = c.fan
    BY DEF Reject, Ctl, Controller
  <2> HIDE DEF r
  <2> QED
    BY <2>1 DEF Respects
<1>4. ~Known(c, cmd.id) => /\ Remembers(c, r, {cmd.id}) /\ Ended(c, r) = {}
                           /\ r.active[cmd.target] # cmd
  BY RejectRecords
<1>5. Respects(c, d)
  <2>1. /\ d.override = (c.override \/ cmd.manual)
        /\ d.moving \in {c.moving, "none"}
        /\ \A u \in Targets : d.active[u] = IF u = cmd.target THEN cmd ELSE c.active[u]
        /\ \A f \in Fans : f # cmd.target => d.fan[f] = c.fan[f]
    BY TakeFields
  <2>2. cmd # None /\ Fans \subseteq Targets
    BY CommandType, ConstantTypes
  <2> HIDE DEF d
  <2> QED
    BY <2>1, <2>2 DEF Respects
<1>6. ~Known(c, cmd.id) => Remembers(c, d, Ended(c, d)) /\ d.active[cmd.target] = cmd
  BY TakeRecords
<1> HIDE DEF r, d, a
<1>7. CASE Known(c, cmd.id) /\ a = c
  <2>1. Lost(c, a, cmd) = {}
    BY <1>2, <1>7 DEF Lost
  <2> QED
    BY <1>2, <1>7, <2>1 DEF a
<1>8. CASE ~Known(c, cmd.id) /\ a = r
  <2>1. Lost(c, a, cmd) = {cmd.id}
    BY <1>4, <1>8 DEF Lost
  <2> QED
    BY <1>3, <1>4, <1>8, <2>1 DEF a
<1>9. CASE ~Known(c, cmd.id) /\ a = d
  <2>1. Lost(c, a, cmd) = Ended(c, d)
    BY <1>6, <1>9 DEF Lost
  <2> QED
    BY <1>5, <1>6, <1>9, <2>1 DEF a
<1> QED
  BY <1>1, <1>7, <1>8, <1>9

LEMMA CycleRespects ==
  ASSUME Ctl(ctl), NEW air \in Air, NEW f \in Feedback, NEW late, NEW offline \in BOOLEAN,
         Cycle(air, f, late, offline)
  PROVE  Respects(ctl, ctl') /\ Remembers(ctl, ctl', Ended(ctl, ctl'))
<1> DEFINE s == Safety(ctl, air)
           c == Ticked(s, f, late)
           a == Autonomous(c, air)
<1>1. ctl' \in {a, c}
  BY DEF Cycle
<1>2. Ctl(s) /\ Gentle(ctl, s)
  BY SafetyGentle
<1> HIDE DEF s
<1>3. Ctl(c) /\ Gentle(s, c)
  BY <1>2, TickedGentle
<1> HIDE DEF c
<1>4. Gentle(ctl, c)
  BY <1>2, <1>3, GentleTwice
<1>5. Ctl(a) /\ Tame(c, a)
  BY <1>3, AutonomousKeeps, AutonomousTame
<1> HIDE DEF a
<1>6. Tame(ctl, a)
  BY <1>3, <1>4, <1>5, TameTwice
<1> QED
  BY <1>1, <1>4, <1>6, TameRespects

\* A policy ends no command.
LEMMA ConfiguredRespects ==
  ASSUME NEW c, Ctl(c), NEW policy \in Policies
  PROVE  LET d == Configured(c, policy)
         IN Respects(c, d) /\ SameCommands(c, d)
<1> DEFINE e == [c EXCEPT !.policy = policy]
           T == {f \in Fans : e.automatic[f]} \cup (IF e.moving # "none" THEN {Window} ELSE {})
           s == Stop(e, T)
           p == Passive(e)
<1>1. Configured(c, policy) \in {e, p} /\ policy \in Policy
  BY FirmwareControllerAssumption DEF Configured
<1>2. e \in Controller /\ Edited(c, e) /\ SameCommands(c, e)
  BY <1>1 DEF Ctl, Controller, Edited, SameCommands
<1>3. p = [s EXCEPT !.automatic = [f \in Fans |-> FALSE], !.moving = "none", !.moveAge = 0]
  BY DEF Passive
<1> HIDE DEF e, T
<1>4. Ctl(e) /\ Gentle(c, e)
  BY <1>2, GentleEdit DEF Ctl, Edited
<1>5. Ctl(s) /\ SameCommands(e, s)
  BY <1>4, StopSame
<1>6. Ctl(p) /\ Gentle(e, p)
  BY <1>4, PassiveGentle
<1> HIDE DEF s, p
<1>7. SameCommands(s, p)
  BY <1>3, <1>5 DEF Ctl, Controller, SameCommands
<1>8. Gentle(c, p)
  BY <1>4, <1>6, GentleTwice
<1>9. Respects(c, e) /\ Respects(c, p)
  BY <1>4, <1>8, TameRespects
<1>10. SameCommands(c, p)
  BY <1>2, <1>5, <1>7 DEF SameCommands
<1> QED
  BY <1>1, <1>2, <1>9, <1>10

LEMMA PassRespects ==
  ASSUME Ctl(ctl), (\E t \in Targets : PassFor(t)) \/ PassForMovement \/ PassForPolicy
  PROVE  Respects(ctl, ctl') /\ Remembers(ctl, ctl', {}) /\ since' = since
<1>1. ctl \in Controller
  BY DEF Ctl
<1>2. /\ ctl'.active = ctl.active /\ ctl'.result = ctl.result
      /\ ctl'.completed = ctl.completed /\ ctl'.moving = ctl.moving /\ ctl'.fan = ctl.fan
  <2>1. CASE \E t \in Targets : PassFor(t)
    <3>1. PICK t \in Targets : ctl' = [ctl EXCEPT !.age[t] = @ + 1]
      BY <2>1 DEF PassFor
    <3> QED
      BY <1>1, <3>1 DEF Controller
  <2>2. CASE PassForMovement
    <3>1. ctl' = [ctl EXCEPT !.moveAge = @ + 1]
      BY <2>2 DEF PassForMovement
    <3> QED
      BY <1>1, <3>1 DEF Controller
  <2>3. CASE PassForPolicy
    <3>1. ctl' = [ctl EXCEPT !.override = FALSE] \/ ctl' = [ctl EXCEPT !.aired = TRUE]
      BY <2>3 DEF PassForPolicy
    <3> QED
      BY <1>1, <3>1 DEF Controller
  <2> QED
    BY <2>1, <2>2, <2>3
<1>3. Remembers(ctl, ctl', {})
  <2> DEFINE d == ctl'
  <2>1. d.active = ctl.active /\ d.result = ctl.result /\ d.completed = ctl.completed
    BY <1>2
  <2> HIDE DEF d
  <2>2. /\ \A s \in Ages : Counted(s, Ended(ctl, d)) = s
        /\ \A s : Recorded(ctl, s) => Recorded(d, s)
        /\ Ended(ctl, d) = {}
    BY <2>1, RecordsSame
  <2>3. Remembers(ctl, d, {})
    BY <2>1, <2>2, LiveIsOut DEF Remembers
  <2> QED
    BY <2>3 DEF d
<1>4. since' = since
  BY DEF PassFor, PassForMovement, PassForPolicy
<1> QED
  BY <1>2, <1>3, <1>4 DEF Respects

LEMMA BootRespects ==
  ASSUME NEW c, NEW policy \in Policy
  PROVE  /\ Respects(c, AtBoot(policy)) /\ Recorded(AtBoot(policy), NoneEnded)
         /\ \A t \in Targets : AtBoot(policy).active[t].id = 0 /\ AtBoot(policy).result[t].id = 0
<1> DEFINE d == AtBoot(policy)
<1>1. /\ \A t \in Targets : d.active[t] = None /\ d.result[t].id = 0
      /\ d.override = FALSE
  BY DEF AtBoot
<1> HIDE DEF d
<1>2. Live(d) = {} /\ \A i \in Ids : NoneEnded[i] = RingSize /\ RingSize \in Nat
  BY <1>1, FirmwareControllerAssumption DEF Live, NoneEnded
<1>3. Recorded(d, NoneEnded)
  BY <1>2 DEF Recorded
<1>4. Respects(c, d) /\ \A t \in Targets : d.active[t].id = 0 /\ d.result[t].id = 0
  BY <1>1, CommandType DEF Respects
<1> QED
  BY <1>3, <1>4 DEF d

\* One step, whatever it is, once the history agrees with the ring.
LEMMA StepRespects ==
  ASSUME IInv, [Next]_vars
  PROVE  /\ Respects(ctl, ctl')
         /\ Recorded(ctl, since) =>
              /\ Recorded(ctl', since')
              /\ \A i \in Ids, t \in Targets :
                   since[i] < RingSize =>
                     /\ ctl'.active[t].id # i
                     /\ ctl'.result[t].id = i => ctl'.result[t] = ctl.result[t]
<1>1. Ctl(ctl) /\ TypeOK /\ since \in Ages
  BY CtlType DEF IInv, TypeOK, Ages
<1>2. CASE \E late \in BOOLEAN : Receive(late)
  <2>1. PICK late \in BOOLEAN : Receive(late)
    BY <1>2
  <2> DEFINE cmd == Head(queue)
             d == Accept(ctl, cmd, late)
  <2>2. queue # <<>> /\ ctl' = d
        /\ since' = Counted(since, Lost(ctl, ctl', cmd))
    BY <2>1 DEF Receive, Lost
  <2>3. cmd \in Command
    BY <1>1, <2>2, HeadTailProperties DEF TypeOK
  <2> HIDE DEF cmd
  <2>4. Respects(ctl, d) /\ Remembers(ctl, d, Lost(ctl, d, cmd))
    BY <1>1, <2>3, AcceptRespects
  <2> HIDE DEF d
  <2> QED
    BY <1>1, <2>2, <2>4 DEF Remembers
<1>3. CASE \E air \in Air, f \in Feedback, late \in SUBSET Live(ctl), offline \in BOOLEAN :
             Cycle(air, f, late, offline)
  <2>1. Respects(ctl, ctl') /\ Remembers(ctl, ctl', Ended(ctl, ctl'))
    BY <1>1, <1>3, CycleRespects
  <2>2. since' = Counted(since, Ended(ctl, ctl'))
    BY <1>3 DEF Cycle
  <2> QED
    BY <1>1, <2>1, <2>2 DEF Remembers
<1>4. CASE (\E t \in Targets : PassFor(t)) \/ PassForMovement \/ PassForPolicy
  <2>1. Respects(ctl, ctl') /\ Remembers(ctl, ctl', {}) /\ since' = Counted(since, {})
    BY <1>1, <1>4, PassRespects, NothingCounted
  <2> QED
    BY <1>1, <2>1 DEF Remembers
<1>5. CASE (\E answer \in Answers : Poll(answer)) \/ UNCHANGED vars
  <2>1. ctl' = ctl /\ since' = since
    BY <1>5 DEF Poll, vars
  <2>2. Remembers(ctl, ctl, {}) /\ Counted(since, {}) = since
    BY <1>1, SameRemembers, NothingCounted DEF SameCommands
  <2> QED
    BY <1>1, <2>1, <2>2 DEF Respects, Remembers
<1>6. CASE Reconcile
  <2> DEFINE ids == {c.id : c \in listed}
             gone == {t \in Live(ctl) : ctl.active[t].id \notin ids}
             d == Finish(Stop(ctl, gone), gone, "failed")
  <2>1. ctl' = d /\ "failed" \in Outcome /\ since' = Counted(since, Ended(ctl, ctl'))
    BY <1>6 DEF Reconcile, Reconciled, Outcome
  <2> HIDE DEF ids, gone
  <2>2. Gentle(ctl, d)
    BY <1>1, <2>1, EndGentle
  <2> HIDE DEF d
  <2>3. Respects(ctl, d) /\ Remembers(ctl, d, Ended(ctl, d))
    BY <1>1, <2>2, TameRespects
  <2> QED
    BY <1>1, <2>1, <2>3 DEF Remembers
<1>7. CASE \E policy \in Policies : SyncPolicy(policy)
  <2>1. PICK policy \in Policies : ctl' = Configured(ctl, policy) /\ since' = since
    BY <1>7 DEF SyncPolicy
  <2> DEFINE d == Configured(ctl, policy)
  <2>2. Respects(ctl, d) /\ SameCommands(ctl, d)
    BY <1>1, ConfiguredRespects
  <2> HIDE DEF d
  <2>3. Remembers(ctl, d, {}) /\ since' = Counted(since, {})
    BY <1>1, <2>1, <2>2, SameRemembers, NothingCounted
  <2> QED
    BY <1>1, <2>1, <2>2, <2>3 DEF Remembers, d
<1>8. CASE Reboot
  <2>1. ctl.policy \in Policy /\ ctl' = AtBoot(ctl.policy) /\ since' = NoneEnded
    BY <1>1, <1>8 DEF Reboot, Ctl, Controller
  <2>2. /\ Respects(ctl, ctl') /\ Recorded(ctl', since')
        /\ \A t \in Targets : ctl'.active[t].id = 0 /\ ctl'.result[t].id = 0
    BY <2>1, BootRespects
  <2>3. \A i \in Ids : i # 0
    BY DEF Ids
  <2> QED
    BY <2>2, <2>3
<1> QED
  BY <1>2, <1>3, <1>4, <1>5, <1>6, <1>7, <1>8 DEF Next

\* Controller::command suspends the local automation for an operator's command, and
\* autonomous starts nothing until that ends, in any order of commands, cycles, policies
\* and restarts.
THEOREM OverrideAlwaysRespected == Spec => OverrideIsRespected
<1>1. ASSUME IInv, [Next]_vars
      PROVE  [/\ \A t \in Targets :
                    LET cmd == ctl'.active[t]
                    IN cmd # None /\ cmd # ctl.active[t] /\ cmd.manual => ctl'.override
              /\ ctl.override /\ ctl'.override =>
                   /\ ctl'.moving # ctl.moving => ctl'.moving = "none"
                   /\ \A f \in Fans : ctl'.fan[f] /\ ~ctl.fan[f] => ctl'.active[f] # None]_vars
  BY <1>1, StepRespects DEF Respects
<1> QED
  BY <1>1, Invariant, PTL DEF Spec, OverrideIsRespected

\* Controller::command knows a command that ended by its ring.  As far as it may have
\* been overtaken by others that ended since, it has moved back in the ring and no
\* further: it is not taken again and its outcome stands while the ring has a place for
\* it, however many commands there are and however they end.
THEOREM OutcomesStayFinal == Spec => OutcomesAreFinal
<1> DEFINE Full == Recorded(ctl, since)
<1>1. Init => Full
  <2>1. Default \in Policy
    BY DEF Default, Policy
  <2> QED
    BY <2>1, BootRespects DEF Init
<1>2. IInv /\ Full /\ [Next]_vars => Full'
  BY StepRespects
<1>3. ASSUME IInv, Full, [Next]_vars
      PROVE  [\A id \in Ids, t \in Targets :
                since[id] < RingSize =>
                  /\ ctl'.active[t].id # id
                  /\ ctl'.result[t].id = id => ctl'.result[t] = ctl.result[t]]_vars
  BY <1>3, StepRespects
<1> HIDE DEF Full
<1> QED
  BY <1>1, <1>2, <1>3, Invariant, PTL DEF Spec, OutcomesAreFinal
=============================================================================
