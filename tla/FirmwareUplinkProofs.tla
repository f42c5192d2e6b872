------------------------- MODULE FirmwareUplinkProofs -------------------------
(***************************************************************************)
(* The uplink, for a card, a queue and a history of any size.              *)
(*                                                                         *)
(* The card is a log through failed writes and reboots at any point, and   *)
(* no packet is forgotten.  What makes it so: with the journal open its    *)
(* members are what the card holds; no two records share a generation;     *)
(* packets are stored in the order in which they were made; and a write    *)
(* begins only on a free slot, or on the oldest record once it is          *)
(* answered, so that whatever becomes of it, one record at most comes, at  *)
(* the end, or goes, from the front.                                       *)
(***************************************************************************)
EXTENDS FirmwareUplink, FiniteSetTheorems, SequenceTheorems, WellFoundedInduction,
        TLAPS

-----------------------------------------------------------------------------
(* The least and the greatest of a set of numbers *)

LEMMA LeastNat ==
  ASSUME NEW T \in SUBSET Nat, T # {}
  PROVE  \E n \in T : \A m \in T : n <= m
<1> DEFINE Less == {p \in Nat \X Nat : p[1] < p[2]}
<1>1. IsWellFoundedOn(Less, Nat)
  BY NatLessThanWellFounded DEF OpToRel
<1>2. \A x, y \in T : <<y, x>> \in Less <=> y < x
  OBVIOUS
<1> HIDE DEF Less
<1>3. \E x \in T : \A y \in T : ~ (<<y, x>> \in Less)
  BY <1>1, WFMin
<1>4. PICK x \in T : \A y \in T : ~ (<<y, x>> \in Less)
  BY <1>3
<1>5. \A y \in T : x <= y
  <2> SUFFICES ASSUME NEW y \in T PROVE x <= y
    OBVIOUS
  <2>1. x \in Nat /\ y \in Nat /\ ~(y < x)
    BY <1>2, <1>4
  <2> QED
    BY <2>1
<1> QED
  BY <1>5

LEMMA MinIs ==
  ASSUME NEW T \in SUBSET Nat, T # {}
  PROVE  Min(T) \in T /\ \A n \in T : Min(T) <= n
BY LeastNat DEF Min

LEMMA MaxIs ==
  ASSUME NEW T \in SUBSET Nat, T # {}, NEW b \in Nat, \A n \in T : n <= b
  PROVE  Max(T) \in T /\ \A n \in T : n <= Max(T)
<1> DEFINE Above == {n \in Nat : \A m \in T : m <= n}
<1>1. PICK n \in Above : \A m \in Above : n <= m
  BY LeastNat
<1>2. n \in T
  <2>1. SUFFICES ASSUME n \notin T PROVE FALSE
    OBVIOUS
  <2>2. \A m \in T : m <= n - 1
    <3> SUFFICES ASSUME NEW m \in T PROVE m <= n - 1
      OBVIOUS
    <3>1. m <= n /\ m # n /\ m \in Nat /\ n \in Nat
      BY <2>1
    <3> QED
      BY <3>1
  <2>3. n - 1 \in Nat
    <3>1. PICK m \in T : m \in Nat
      OBVIOUS
    <3> QED
      BY <2>2, <3>1
  <2> QED
    BY <2>2, <2>3, <1>1
<1> QED
  BY <1>1, <1>2 DEF Max

-----------------------------------------------------------------------------
(* The order of records by their generations *)

Rank(S, g, s) == Cardinality({t \in S : g[t] <= g[s]})
Nth(S, g, i)  == CHOOSE s \in S : Rank(S, g, s) = i
Listed(S, g, b) == [i \in 1..Cardinality(S) |-> b[Nth(S, g, i)]]

Numbered(S, g) ==
  /\ IsFiniteSet(S) /\ \A s \in S : g[s] \in Nat
  /\ \A s, t \in S : g[s] = g[t] => s = t

Items(S, g, b) == Numbered(S, g) /\ \A s \in S : b[s] \in Nat
Longer(q, n) == Append(q, n)
Newest(S, g, h, c, x) ==
  x \notin S /\ h[x] \in Nat /\ c[x] \in Nat /\ \A s \in S : g[s] < h[x]
Same(S, g, b, h, c) == \A s \in S : h[s] = g[s] /\ c[s] = b[s]

\* Ranks follow the generations, one after another.
LEMMA Ranks ==
  ASSUME NEW S, NEW g, Numbered(S, g)
  PROVE  /\ Cardinality(S) \in Nat
         /\ \A s \in S : Rank(S, g, s) \in 1..Cardinality(S)
         /\ \A s, t \in S : Rank(S, g, s) < Rank(S, g, t) <=> g[s] < g[t]
         /\ \A i \in 1..Cardinality(S) : \E s \in S : Rank(S, g, s) = i
<1> DEFINE Upto(s) == {t \in S : g[t] <= g[s]}
<1>1. /\ IsFiniteSet(S) /\ Cardinality(S) \in Nat
  BY FS_CardinalityType DEF Numbered
<1>2. ASSUME NEW s \in S
      PROVE  /\ IsFiniteSet(Upto(s)) /\ Cardinality(Upto(s)) \in Nat
             /\ Cardinality(Upto(s)) <= Cardinality(S) /\ Upto(s) # {}
             /\ Cardinality(Upto(s)) # 0
  <2>1. Upto(s) \in SUBSET S /\ s \in Upto(s)
    BY DEF Numbered
  <2>2. IsFiniteSet(Upto(s)) /\ Cardinality(Upto(s)) <= Cardinality(S)
    BY <1>1, <2>1, FS_Subset
  <2>3. Cardinality(Upto(s)) \in Nat /\ (Cardinality(Upto(s)) = 0 <=> Upto(s) = {})
    BY <2>2, FS_CardinalityType, FS_EmptySet
  <2> QED
    BY <2>1, <2>2, <2>3
<1>3. ASSUME NEW s \in S, NEW t \in S, g[s] < g[t]
      PROVE  Cardinality(Upto(s)) < Cardinality(Upto(t))
  <2>1. Upto(s) \in SUBSET Upto(t) /\ t \in Upto(t) /\ t \notin Upto(s)
    BY <1>3 DEF Numbered
  <2>2. /\ Cardinality(Upto(s)) <= Cardinality(Upto(t))
        /\ Cardinality(Upto(t)) = Cardinality(Upto(s)) => Upto(t) = Upto(s)
    BY <1>2, <2>1, FS_Subset
  <2>3. Cardinality(Upto(s)) \in Nat /\ Cardinality(Upto(t)) \in Nat
        /\ Cardinality(Upto(t)) # Cardinality(Upto(s))
    BY <1>2, <2>1, <2>2
  <2> QED
    BY <2>2, <2>3
<1>4. \A s \in S : Rank(S, g, s) = Cardinality(Upto(s))
  BY DEF Rank
<1> HIDE DEF Upto
<1>5. \A s \in S : Rank(S, g, s) \in 1..Cardinality(S)
  BY <1>1, <1>2, <1>4
<1>6. \A s, t \in S : Rank(S, g, s) < Rank(S, g, t) <=> g[s] < g[t]
  <2> SUFFICES ASSUME NEW s \in S, NEW t \in S
               PROVE  Rank(S, g, s) < Rank(S, g, t) <=> g[s] < g[t]
    OBVIOUS
  <2>1. g[s] \in Nat /\ g[t] \in Nat /\ Rank(S, g, s) \in Nat /\ Rank(S, g, t) \in Nat
    BY <1>5 DEF Numbered
  <2>2. g[s] < g[t] => Rank(S, g, s) < Rank(S, g, t)
    BY <1>3, <1>4
  <2>3. g[t] < g[s] => Rank(S, g, t) < Rank(S, g, s)
    BY <1>3, <1>4
  <2>4. g[s] = g[t] => s = t
    BY DEF Numbered
  <2> QED
    BY <2>1, <2>2, <2>3, <2>4
<1>7. \A i \in 1..Cardinality(S) : \E s \in S : Rank(S, g, s) = i
  <2> DEFINE f == [s \in S |-> Rank(S, g, s)]
             T == 1..Cardinality(S)
  <2>1. f \in [S -> T]
    BY <1>5
  <2>2. \A s, t \in S : f[s] = f[t] => s = t
    <3> SUFFICES ASSUME NEW s \in S, NEW t \in S, f[s] = f[t] PROVE s = t
      OBVIOUS
    <3>1. g[s] \in Nat /\ g[t] \in Nat /\ ~(g[s] < g[t]) /\ ~(g[t] < g[s])
      BY <1>5, <1>6 DEF Numbered
    <3> QED
      BY <3>1 DEF Numbered
  <2>3. f \in Injection(S, T)
    BY <2>1, <2>2 DEF Injection, IsInjective
  <2>4. IsFiniteSet(T) /\ Cardinality(T) = Cardinality(S)
    BY <1>1, FS_Interval
  <2>5. f \in Surjection(S, T)
    BY <2>3, <2>4, FS_Injection
  <2> QED
    BY <2>5 DEF Surjection
<1> QED
  BY <1>1, <1>5, <1>6, <1>7

\* The record of each rank.
LEMMA NthIs ==
  ASSUME NEW S, NEW g, Numbered(S, g)
  PROVE  /\ \A i \in 1..Cardinality(S) : Nth(S, g, i) \in S /\ Rank(S, g, Nth(S, g, i)) = i
         /\ \A s \in S : Nth(S, g, Rank(S, g, s)) = s
<1>1. \A i \in 1..Cardinality(S) : Nth(S, g, i) \in S /\ Rank(S, g, Nth(S, g, i)) = i
  BY Ranks DEF Nth
<1>2. ASSUME NEW s \in S PROVE Nth(S, g, Rank(S, g, s)) = s
  <2> DEFINE t == Nth(S, g, Rank(S, g, s))
  <2>1. t \in S /\ Rank(S, g, t) = Rank(S, g, s) /\ Rank(S, g, s) \in Nat
    BY <1>1, Ranks
  <2>2. g[s] \in Nat /\ g[t] \in Nat /\ ~(g[s] < g[t]) /\ ~(g[t] < g[s])
    BY <2>1, Ranks DEF Numbered
  <2>3. g[s] = g[t]
    BY <2>2
  <2> QED
    BY <2>1, <2>3 DEF Numbered
<1> QED
  BY <1>1, <1>2

LEMMA ListedIs ==
  ASSUME NEW S, NEW g, NEW b, Items(S, g, b)
  PROVE  /\ Listed(S, g, b) \in Seq(Nat) /\ Len(Listed(S, g, b)) = Cardinality(S)
         /\ Range(Listed(S, g, b)) = {b[s] : s \in S}
         /\ \A s \in S : /\ Rank(S, g, s) \in 1..Cardinality(S)
                         /\ Listed(S, g, b)[Rank(S, g, s)] = b[s]
<1> USE DEF Items, Same, Newest
<1> DEFINE L == Listed(S, g, b)
<1>1. Cardinality(S) \in Nat
  BY Ranks
<1>2. L \in [1..Cardinality(S) -> Nat]
  BY NthIs DEF Listed
<1>3. L \in Seq(Nat) /\ Len(L) = Cardinality(S)
  BY <1>1, <1>2
<1>4. ASSUME NEW s \in S PROVE Rank(S, g, s) \in 1..Cardinality(S) /\ L[Rank(S, g, s)] = b[s]
  BY Ranks, NthIs DEF Listed
<1>5. Range(L) = {b[s] : s \in S}
  <2>1. ASSUME NEW i \in 1..Cardinality(S) PROVE L[i] \in {b[s] : s \in S}
    BY NthIs DEF Listed
  <2>2. Range(L) = {L[i] : i \in 1..Cardinality(S)}
    BY <1>2 DEF Range
  <2> HIDE DEF L
  <2> QED
    BY <2>1, <2>2, <1>4
<1> QED
  BY <1>3, <1>4, <1>5

\* A sequence with each record at its rank is the list.
LEMMA OnlyList ==
  ASSUME NEW S, NEW g, NEW b, Numbered(S, g), NEW q \in Seq(Nat),
         Len(q) = Cardinality(S), \A s \in S : q[Rank(S, g, s)] = b[s]
  PROVE  q = Listed(S, g, b)
<1> USE DEF Items, Same, Newest
<1>1. \A i \in 1..Cardinality(S) : q[i] = b[Nth(S, g, i)]
  BY NthIs
<1>2. DOMAIN q = 1..Cardinality(S) /\ q = [i \in DOMAIN q |-> q[i]]
  OBVIOUS
<1> QED
  BY <1>1, <1>2 DEF Listed

\* Records that stay as they are.
LEMMA ListedStays ==
  ASSUME NEW S, NEW g, NEW b, Items(S, g, b),
         NEW h, NEW c, Same(S, g, b, h, c)
  PROVE  Numbered(S, h) /\ Listed(S, h, c) = Listed(S, g, b)
<1> USE DEF Items, Same, Newest
<1>1. Numbered(S, h)
  BY DEF Numbered
<1>2. \A s \in S : Rank(S, h, s) = Rank(S, g, s)
  BY DEF Rank
<1> DEFINE L == Listed(S, g, b)
<1>3. L \in Seq(Nat) /\ Len(L) = Cardinality(S) /\ \A s \in S : L[Rank(S, g, s)] = b[s]
  BY ListedIs
<1> HIDE DEF L
<1>4. \A s \in S : L[Rank(S, h, s)] = c[s]
  BY <1>2, <1>3
<1>5. L = Listed(S, h, c)
  BY <1>1, <1>3, <1>4, OnlyList
<1> QED
  BY <1>1, <1>5 DEF L

\* A record newer than all goes to the end.
LEMMA ListedGrows ==
  ASSUME NEW S, NEW g, NEW b, Items(S, g, b),
         NEW h, NEW c, Same(S, g, b, h, c),
         NEW x, Newest(S, g, h, c, x)
  PROVE  /\ Numbered(S \cup {x}, h)
         /\ Listed(S \cup {x}, h, c) = Longer(Listed(S, g, b), c[x])
<1> USE DEF Items, Same, Newest, Longer
<1> DEFINE T == S \cup {x}
           L == Listed(S, g, b)
           q == Append(L, c[x])
<1>1. /\ IsFiniteSet(T) /\ Cardinality(T) = Cardinality(S) + 1 /\ Cardinality(S) \in Nat
  BY FS_AddElement, Ranks DEF Numbered
<1>2. Numbered(T, h)
  <2>1. \A s, t \in T : h[s] \in Nat /\ (h[s] = h[t] => s = t)
    <3> SUFFICES ASSUME NEW s \in T, NEW t \in T PROVE h[s] \in Nat /\ (h[s] = h[t] => s = t)
      OBVIOUS
    <3>1. CASE s \in S /\ t \in S
      BY <3>1 DEF Numbered
    <3>2. CASE s = x \/ t = x
      BY <3>2 DEF Numbered
    <3> QED
      BY <3>1, <3>2
  <2> QED
    BY <1>1, <2>1 DEF Numbered
<1>3. \A s \in S : Rank(T, h, s) = Rank(S, g, s)
  <2> SUFFICES ASSUME NEW s \in S PROVE Rank(T, h, s) = Rank(S, g, s)
    OBVIOUS
  <2>1. h[s] = g[s] /\ g[s] \in Nat /\ ~(h[x] <= h[s])
    BY DEF Numbered
  <2>2. {t \in T : h[t] <= h[s]} = {t \in S : g[t] <= g[s]}
    BY <2>1
  <2> QED
    BY <2>2 DEF Rank
<1>4. Rank(T, h, x) = Cardinality(S) + 1
  <2>1. \A t \in T : h[t] <= h[x]
    BY DEF Numbered
  <2>2. {t \in T : h[t] <= h[x]} = T
    BY <2>1
  <2> QED
    BY <1>1, <2>2 DEF Rank
<1>5. L \in Seq(Nat) /\ Len(L) = Cardinality(S)
      /\ \A s \in S : Rank(S, g, s) \in 1..Cardinality(S) /\ L[Rank(S, g, s)] = b[s]
  BY ListedIs
<1> HIDE DEF L
<1>6. /\ q \in Seq(Nat) /\ Len(q) = Cardinality(T) /\ q[Cardinality(S) + 1] = c[x]
      /\ \A i \in 1..Cardinality(S) : q[i] = L[i]
  BY <1>1, <1>5
<1>7. \A s \in T : q[Rank(T, h, s)] = c[s]
  <2> SUFFICES ASSUME NEW s \in T PROVE q[Rank(T, h, s)] = c[s]
    OBVIOUS
  <2>1. CASE s \in S
    BY <2>1, <1>3, <1>5, <1>6
  <2>2. CASE s = x
    BY <2>2, <1>4, <1>6
  <2> QED
    BY <2>1, <2>2
<1>8. q = Listed(T, h, c)
  <2> HIDE DEF q, T
  <2> QED
    BY <1>2, <1>6, <1>7, OnlyList
<1> QED
  BY <1>2, <1>8 DEF L

LEMMA RemoveAtIs ==
  ASSUME NEW q \in Seq(Nat), NEW i \in 1..Len(q)
  PROVE  /\ RemoveAt(q, i) \in Seq(Nat) /\ Len(RemoveAt(q, i)) = Len(q) - 1
         /\ \A j \in 1..(Len(q) - 1) : RemoveAt(q, i)[j] = IF j < i THEN q[j] ELSE q[j + 1]
<1> DEFINE before == SubSeq(q, 1, i - 1)
           after  == SubSeq(q, i + 1, Len(q))
<1>1. Len(q) \in Nat /\ i \in Nat
  OBVIOUS
<1>2. /\ before \in Seq(Nat) /\ Len(before) = i - 1
      /\ \A j \in 1..(i - 1) : before[j] = q[j]
  BY <1>1, SubSeqProperties
<1>3. /\ after \in Seq(Nat) /\ Len(after) = Len(q) - i
      /\ \A j \in 1..(Len(q) - i) : after[j] = q[i + j]
  BY <1>1, SubSeqProperties
<1> HIDE DEF before, after
<1>4. /\ before \o after \in Seq(Nat) /\ Len(before \o after) = Len(q) - 1
      /\ \A j \in 1..(Len(q) - 1) :
           (before \o after)[j] = IF j <= i - 1 THEN before[j] ELSE after[j - (i - 1)]
  <2>1. before \o after \in Seq(Nat) /\ Len(before \o after) = Len(before) + Len(after)
    BY <1>2, <1>3, ConcatProperties
  <2>2. \A j \in 1..(Len(before) + Len(after)) :
          (before \o after)[j] = IF j <= Len(before) THEN before[j]
                                 ELSE after[j - Len(before)]
    BY <1>2, <1>3, ConcatProperties
  <2>3. Len(before) + Len(after) = Len(q) - 1
    BY <1>1, <1>2, <1>3
  <2> QED
    BY <1>2, <2>1, <2>2, <2>3
<1>5. \A j \in 1..(Len(q) - 1) : (before \o after)[j] = IF j < i THEN q[j] ELSE q[j + 1]
  <2> SUFFICES ASSUME NEW j \in 1..(Len(q) - 1)
               PROVE  (before \o after)[j] = IF j < i THEN q[j] ELSE q[j + 1]
    OBVIOUS
  <2>1. CASE j < i
    BY <2>1, <1>1, <1>2, <1>4
  <2>2. CASE ~(j < i)
    <3>1. j - (i - 1) \in 1..(Len(q) - i) /\ i + (j - (i - 1)) = j + 1
      BY <2>2, <1>1
    <3>2. after[j - (i - 1)] = q[j + 1]
      BY <3>1, <1>3
    <3> QED
      BY <2>2, <3>2, <1>1, <1>4
  <2> QED
    BY <2>1, <2>2
<1> QED
  BY <1>4, <1>5 DEF RemoveAt, before, after

\* A record that goes leaves the others in their order.
LEMMA ListedShrinks ==
  ASSUME NEW S, NEW g, NEW b, Items(S, g, b), NEW x \in S,
         NEW h, NEW c, Same(S \ {x}, g, b, h, c)
  PROVE  /\ Numbered(S \ {x}, h)
         /\ Rank(S, g, x) \in 1..Len(Listed(S, g, b))
         /\ Listed(S, g, b)[Rank(S, g, x)] = b[x]
         /\ Listed(S \ {x}, h, c) = RemoveAt(Listed(S, g, b), Rank(S, g, x))
<1> USE DEF Items, Same, Newest
<1> DEFINE T == S \ {x}
           L == Listed(S, g, b)
           n == Rank(S, g, x)
           q == RemoveAt(L, n)
<1>1. /\ IsFiniteSet(T) /\ Cardinality(T) = Cardinality(S) - 1 /\ Cardinality(S) \in Nat
  BY FS_RemoveElement, Ranks DEF Numbered
<1>2. Numbered(T, h)
  BY <1>1 DEF Numbered
<1>3. L \in Seq(Nat) /\ Len(L) = Cardinality(S)
      /\ \A s \in S : Rank(S, g, s) \in 1..Cardinality(S) /\ L[Rank(S, g, s)] = b[s]
  BY ListedIs
<1>4. n \in 1..Len(L) /\ L[n] = b[x]
  BY <1>3
<1>5. \A s \in T : Rank(T, h, s) = IF Rank(S, g, s) < n THEN Rank(S, g, s)
                                   ELSE Rank(S, g, s) - 1
  <2> SUFFICES ASSUME NEW s \in T
               PROVE  Rank(T, h, s) = IF Rank(S, g, s) < n THEN Rank(S, g, s)
                                      ELSE Rank(S, g, s) - 1
    OBVIOUS
  <2> DEFINE U == {t \in S : g[t] <= g[s]}
  <2>1. /\ g[s] \in Nat /\ g[x] \in Nat /\ g[s] # g[x] /\ h[s] = g[s]
        /\ (Rank(S, g, s) < n <=> g[s] < g[x])
    BY Ranks DEF Numbered
  <2>2. {t \in T : h[t] <= h[s]} = U \ {x}
    BY <2>1
  <2>3. IsFiniteSet(U)
    BY FS_Subset DEF Numbered
  <2>4. Cardinality(U \ {x}) = IF x \in U THEN Cardinality(U) - 1 ELSE Cardinality(U)
    BY <2>3, FS_RemoveElement
  <2>5. x \in U <=> ~(g[s] < g[x])
    BY <2>1
  <2>6. Rank(S, g, s) = Cardinality(U) /\ Rank(T, h, s) = Cardinality(U \ {x})
    BY <2>2 DEF Rank
  <2> QED
    BY <2>1, <2>4, <2>5, <2>6
<1>6. \A s \in T : Rank(S, g, s) # n
  BY NthIs
<1> HIDE DEF L
<1>7. /\ q \in Seq(Nat) /\ Len(q) = Cardinality(T)
      /\ \A j \in 1..Cardinality(T) : q[j] = IF j < n THEN L[j] ELSE L[j + 1]
  BY <1>1, <1>3, <1>4, RemoveAtIs
<1> HIDE DEF q, n
<1>8. \A s \in T : q[Rank(T, h, s)] = c[s]
  <2> SUFFICES ASSUME NEW s \in T PROVE q[Rank(T, h, s)] = c[s]
    OBVIOUS
  <2> DEFINE m == Rank(S, g, s)
  <2>1. m \in 1..Cardinality(S) /\ m # n /\ L[m] = c[s] /\ n \in 1..Cardinality(S)
    BY <1>3, <1>4, <1>6
  <2>2. Rank(T, h, s) = IF m < n THEN m ELSE m - 1
    BY <1>5
  <2> HIDE DEF m
  <2>3. CASE m < n
    <3>1. m \in 1..Cardinality(T)
      BY <2>1, <2>3, <1>1
    <3> QED
      BY <2>1, <2>2, <2>3, <3>1, <1>7
  <2>4. CASE ~(m < n)
    <3>1. m - 1 \in 1..Cardinality(T) /\ ~(m - 1 < n) /\ m - 1 + 1 = m
      BY <2>1, <2>4, <1>1
    <3> QED
      BY <2>1, <2>2, <2>4, <3>1, <1>7
  <2> QED
    BY <2>3, <2>4
<1>9. q = Listed(T, h, c)
  <2> HIDE DEF T
  <2> QED
    BY <1>2, <1>7, <1>8, OnlyList
<1> QED
  BY <1>2, <1>4, <1>9 DEF L, q, n

-----------------------------------------------------------------------------
(* A card as a log *)

WholeIn(d, s)  == d[s].gen # 0 /\ d[s].sum = d[s].body
RecordsIn(d)   == {s \in Slot : WholeIn(d, s)}
PlaceIn(d, s)  == Cardinality({t \in RecordsIn(d) : d[t].gen <= d[s].gen})
LogIn(d) == [i \in 1..Cardinality(RecordsIn(d)) |->
               d[CHOOSE s \in RecordsIn(d) : PlaceIn(d, s) = i].body]

Gens(d)   == [s \in Slot |-> d[s].gen]
Bodies(d) == [s \in Slot |-> d[s].body]

\* A card whose records can be told apart.
Card(d) ==
  /\ Slots \in Nat
  /\ \A s \in Slot : d[s].gen \in Nat /\ d[s].body \in Nat
  /\ \A s, t \in RecordsIn(d) : d[s].gen = d[t].gen => s = t

LEMMA CardNumbers ==
  ASSUME NEW d, Card(d)
  PROVE  Numbered(RecordsIn(d), Gens(d)) /\ Items(RecordsIn(d), Gens(d), Bodies(d))
<1>1. IsFiniteSet(Slot)
  BY FS_Interval DEF Slot, Card
<1>2. IsFiniteSet(RecordsIn(d))
  BY <1>1, FS_Subset DEF RecordsIn
<1> QED
  BY <1>2 DEF Numbered, Items, Card, Gens, Bodies, RecordsIn

LEMMA LogIsListed ==
  ASSUME NEW d, Card(d)
  PROVE  LogIn(d) = Listed(RecordsIn(d), Gens(d), Bodies(d))
<1> DEFINE S == RecordsIn(d)
           P(s) == PlaceIn(d, s)
           L == LogIn(d)
<1>1. /\ Numbered(S, Gens(d)) /\ Items(S, Gens(d), Bodies(d))
      /\ \A s \in S : Bodies(d)[s] \in Nat /\ s \in Slot
  BY CardNumbers DEF RecordsIn, Items
<1>2. \A s \in S : PlaceIn(d, s) = Rank(S, Gens(d), s)
  <2> SUFFICES ASSUME NEW s \in S PROVE PlaceIn(d, s) = Rank(S, Gens(d), s)
    OBVIOUS
  <2>1. {t \in S : d[t].gen <= d[s].gen} = {t \in S : Gens(d)[t] <= Gens(d)[s]}
    BY <1>1 DEF Gens
  <2> QED
    BY <2>1 DEF PlaceIn, Rank
<1>3. Cardinality(S) \in Nat
  BY <1>1, Ranks
<1>4. \A i \in 1..Cardinality(S) :
        L[i] = d[CHOOSE s \in S : PlaceIn(d, s) = i].body
  BY DEF LogIn
<1> HIDE DEF S, L
<1>5. ASSUME NEW s \in S
      PROVE  Rank(S, Gens(d), s) \in 1..Cardinality(S) /\ L[Rank(S, Gens(d), s)] = d[s].body
  <2> DEFINE i == Rank(S, Gens(d), s)
             t == CHOOSE r \in S : PlaceIn(d, r) = i
  <2>1. i \in 1..Cardinality(S) /\ PlaceIn(d, s) = i
    BY <1>1, <1>2, Ranks
  <2>2. t \in S /\ PlaceIn(d, t) = i
    BY <2>1
  <2>3. Rank(S, Gens(d), t) = i
    BY <2>2, <1>2
  <2> HIDE DEF t
  <2>4. t = s
    BY <2>2, <2>3, <1>1, NthIs
  <2>5. L[i] = d[t].body
    BY <2>1, <1>4 DEF t
  <2> QED
    BY <2>1, <2>4, <2>5
<1>6. L \in Seq(Nat) /\ Len(L) = Cardinality(S)
  <2>1. ASSUME NEW i \in 1..Cardinality(S) PROVE L[i] \in Nat
    <3>1. PICK s \in S : Rank(S, Gens(d), s) = i
      BY <1>1, Ranks
    <3>2. d[s].body \in Nat
      BY <1>1 DEF Bodies
    <3> QED
      BY <3>1, <3>2, <1>5
  <2>2. L = [i \in 1..Cardinality(S) |-> L[i]]
    BY DEF L, LogIn, S
  <2> QED
    BY <2>1, <2>2, <1>3
<1>7. \A s \in S : L[Rank(S, Gens(d), s)] = Bodies(d)[s]
  BY <1>1, <1>5 DEF Bodies
<1>8. L = Listed(S, Gens(d), Bodies(d))
  BY <1>1, <1>6, <1>7, OnlyList
<1> QED
  BY <1>8 DEF L, S

LEMMA CardLog ==
  ASSUME NEW d, Card(d)
  PROVE  /\ LogIn(d) \in Seq(Nat)
         /\ Range(LogIn(d)) = {d[s].body : s \in RecordsIn(d)}
<1> DEFINE S == RecordsIn(d)
<1>1. Numbered(S, Gens(d)) /\ Items(S, Gens(d), Bodies(d))
  BY CardNumbers
<1>2. {Bodies(d)[s] : s \in S} = {d[s].body : s \in S}
  BY DEF Bodies, RecordsIn
<1>3. LogIn(d) = Listed(S, Gens(d), Bodies(d))
  BY LogIsListed
<1>4. /\ Listed(S, Gens(d), Bodies(d)) \in Seq(Nat)
      /\ Range(Listed(S, Gens(d), Bodies(d))) = {Bodies(d)[s] : s \in S}
  BY <1>1, ListedIs
<1> QED
  BY <1>2, <1>3, <1>4

\* Cards that hold the same records are the same log.
LEMMA CardStays ==
  ASSUME NEW d, Card(d), NEW e, RecordsIn(e) = RecordsIn(d),
         \A s \in RecordsIn(d) : e[s].gen = d[s].gen /\ e[s].body = d[s].body,
         \A s \in Slot : e[s].gen \in Nat /\ e[s].body \in Nat
  PROVE  Card(e) /\ LogIn(e) = LogIn(d)
<1> DEFINE S == RecordsIn(d)
<1>1. Card(e)
  BY DEF Card
<1>2. Same(S, Gens(d), Bodies(d), Gens(e), Bodies(e))
  BY DEF Gens, Bodies, RecordsIn, Same
<1>3. Listed(S, Gens(e), Bodies(e)) = Listed(S, Gens(d), Bodies(d))
  BY <1>2, CardNumbers, ListedStays
<1> QED
  BY <1>1, <1>3, LogIsListed

\* A record newer than all comes at the end.
LEMMA CardGrows ==
  ASSUME NEW d, Card(d), NEW e, NEW x \in Slot, x \notin RecordsIn(d),
         RecordsIn(e) = RecordsIn(d) \cup {x},
         \A s \in RecordsIn(d) : /\ e[s].gen = d[s].gen /\ e[s].body = d[s].body
                                 /\ d[s].gen < e[x].gen,
         \A s \in Slot : e[s].gen \in Nat /\ e[s].body \in Nat
  PROVE  Card(e) /\ LogIn(e) = Append(LogIn(d), e[x].body)
<1> DEFINE S == RecordsIn(d)
<1>1. S \subseteq Slot
  BY DEF RecordsIn
<1>2. /\ Same(S, Gens(d), Bodies(d), Gens(e), Bodies(e))
      /\ \A s \in S : Gens(d)[s] < Gens(e)[x]
      /\ Gens(e)[x] \in Nat /\ Bodies(e)[x] \in Nat /\ Bodies(e)[x] = e[x].body
  BY <1>1 DEF Gens, Bodies, Same
<1>3. Numbered(S, Gens(d)) /\ Items(S, Gens(d), Bodies(d))
  BY CardNumbers
<1>4. /\ Numbered(S \cup {x}, Gens(e))
      /\ Listed(S \cup {x}, Gens(e), Bodies(e))
           = Append(Listed(S, Gens(d), Bodies(d)), Bodies(e)[x])
  <2> HIDE DEF S
  <2> DEFINE g == Gens(d)
             b == Bodies(d)
             h == Gens(e)
             c == Bodies(e)
  <2>1. /\ Items(S, g, b) /\ Numbered(S, g) /\ Same(S, g, b, h, c)
        /\ Newest(S, g, h, c, x)
    BY <1>2, <1>3 DEF S, Newest
  <2> HIDE DEF g, b, h, c
  <2>2. Numbered(S \cup {x}, h)
    BY <2>1, ListedGrows
  <2>3. Listed(S \cup {x}, h, c) = Longer(Listed(S, g, b), c[x])
    BY <2>1, ListedGrows
  <2> QED
    BY <2>2, <2>3 DEF g, b, h, c, Longer
<1>5. Card(e)
  <2>1. \A s, t \in RecordsIn(e) : e[s].gen = e[t].gen => s = t
    BY <1>1, <1>4 DEF Numbered, Gens
  <2> QED
    BY <2>1 DEF Card
<1> QED
  BY <1>2, <1>4, <1>5, LogIsListed

\* A record that goes leaves the others in their order.
LEMMA CardShrinks ==
  ASSUME NEW d, Card(d), NEW e, NEW x \in RecordsIn(d), RecordsIn(e) = RecordsIn(d) \ {x},
         \A s \in RecordsIn(e) : e[s].gen = d[s].gen /\ e[s].body = d[s].body,
         \A s \in Slot : e[s].gen \in Nat /\ e[s].body \in Nat
  PROVE  /\ Card(e)
         /\ \E i \in 1..Len(LogIn(d)) :
              /\ LogIn(e) = RemoveAt(LogIn(d), i) /\ LogIn(d)[i] = d[x].body
              /\ (\A s \in RecordsIn(d) : d[x].gen <= d[s].gen) => i = 1
<1> DEFINE S == RecordsIn(d)
           g == Gens(d)
<1>1. S \subseteq Slot
  BY DEF RecordsIn
<1>2. Same(S \ {x}, g, Bodies(d), Gens(e), Bodies(e))
  BY <1>1 DEF Gens, Bodies, Same
<1>3. Numbered(S, g) /\ Items(S, g, Bodies(d))
  BY CardNumbers
<1>4. Card(e)
  BY DEF Card
<1> DEFINE i == Rank(S, g, x)
<1>5. /\ i \in 1..Len(Listed(S, g, Bodies(d)))
      /\ Listed(S, g, Bodies(d))[i] = Bodies(d)[x]
      /\ Listed(S \ {x}, Gens(e), Bodies(e)) = RemoveAt(Listed(S, g, Bodies(d)), i)
  BY <1>2, <1>3, ListedShrinks
<1>6. ASSUME \A s \in S : d[x].gen <= d[s].gen PROVE i = 1
  <2>1. {t \in S : g[t] <= g[x]} = {x}
    <3>1. ASSUME NEW t \in S, g[t] <= g[x] PROVE t = x
      <4>1. g[t] \in Nat /\ g[x] \in Nat /\ g[x] <= g[t]
        BY <1>1, <1>3, <1>6 DEF Gens, Numbered
      <4>2. g[t] = g[x]
        BY <3>1, <4>1
      <4> QED
        BY <4>2, <1>3 DEF Numbered
    <3>2. g[x] <= g[x]
      BY <1>3 DEF Numbered
    <3> QED
      BY <3>1, <3>2
  <2> QED
    BY <2>1, FS_Singleton DEF Rank
<1>7. Bodies(d)[x] = d[x].body
  BY <1>1 DEF Bodies
<1>8. /\ LogIn(d) = Listed(S, g, Bodies(d))
      /\ LogIn(e) = Listed(S \ {x}, Gens(e), Bodies(e))
  BY <1>4, LogIsListed
<1> HIDE DEF i, S, g
<1>9. /\ i \in 1..Len(LogIn(d)) /\ LogIn(e) = RemoveAt(LogIn(d), i)
      /\ LogIn(d)[i] = d[x].body
  BY <1>5, <1>7, <1>8
<1> QED
  BY <1>4, <1>6, <1>9 DEF S

-----------------------------------------------------------------------------
(* The uplink's inductive invariant *)

Bounds ==
  /\ Slots \in Nat \ {0} /\ QueueSize \in Nat \ {0}
  /\ MaxGeneration \in Nat /\ MaxPackets \in Nat

\* The journal's members, when it is open, are what the card holds.
Mirror ==
  healthy => \A s \in Slot :
    /\ Whole(s) => generations[s] # 0
    /\ generations[s] # 0 => disk[s].gen = generations[s]
    /\ generations[s] <= generation

\* No two records have the same generation.
Distinct ==
  /\ \A s, t \in Records : disk[s].gen = disk[t].gen => s = t
  /\ healthy => \A s, t \in Slot :
       generations[s] = generations[t] /\ generations[s] # 0 => s = t

\* Packets wait in the order in which they were made, the pending one in front.
InLine ==
  /\ \A i, j \in 1..Len(queue) : i < j => queue[i] < queue[j]
  /\ \A i \in 1..Len(queue) : pending < queue[i]

\* What is stored is older than what waits, and the generations follow the age.
Ordered ==
  /\ \A s \in Records :
       /\ disk[s].body # 0
       /\ pending # 0 => disk[s].body <= pending
       /\ \A i \in 1..Len(queue) : disk[s].body < queue[i]
  /\ \A s, t \in Records : disk[s].gen <= disk[t].gen => disk[s].body <= disk[t].body

\* A write begins only with the journal open, on a slot that is free, or on the oldest
\* record, which is answered.
Stands ==
  /\ pc \in Writes => healthy
  /\ pc \in {"clear", "body", "commit"} =>
       pending # 0 /\ generations[slot] = 0 /\ generation < MaxGeneration
  /\ pc \in {"body", "commit"} => disk[slot].gen = 0
  /\ pc = "commit" => disk[slot].body = pending
  /\ pc = "ack" =>
       /\ generations[slot] # 0
       /\ \A s \in Slot : generations[s] # 0 => generations[slot] <= generations[s]
       /\ Whole(slot) => disk[slot].body \in answered

Accounted ==
  \A n \in 1..made : n \in Range(queue) \cup {pending} \cup {disk[s].body : s \in Records}
                           \cup answered \cup lost

IInv == TypeOK /\ Mirror /\ Distinct /\ InLine /\ Ordered /\ Stands /\ Accounted

-----------------------------------------------------------------------------
(* The card from one step to the next *)

LEMMA SameLog ==
  /\ Records = RecordsIn(disk) /\ Records' = RecordsIn(disk')
  /\ Log = LogIn(disk) /\ Log' = LogIn(disk')
BY DEF Records, Whole, RecordsIn, WholeIn, Log, Place, LogIn, PlaceIn

LEMMA SoundCard ==
  ASSUME Bounds, TypeOK, Distinct
  PROVE  Card(disk)
<1>1. \A s \in Slot : disk[s].gen \in Nat /\ disk[s].body \in Nat
  BY DEF TypeOK, Bounds
<1> QED
  BY <1>1, SameLog DEF Card, Distinct, Bounds

\* What is about to be removed is the oldest record.
LEMMA OldestRecord ==
  ASSUME IInv, pc = "ack"
  PROVE  \A s \in Records : slot \in Records => disk[slot].gen <= disk[s].gen
<1>1. /\ TypeOK /\ healthy /\ generations[slot] # 0
      /\ \A s \in Slot : generations[s] # 0 => generations[slot] <= generations[s]
  BY DEF IInv, Stands, Writes
<1>2. \A s \in Records : disk[s].gen = generations[s] /\ generations[s] # 0 /\ s \in Slot
  BY <1>1 DEF IInv, Mirror, Records
<1> QED
  BY <1>1, <1>2

SameRecords == \A s \in Records \cap Records' :
                 disk'[s].gen = disk[s].gen /\ disk'[s].body = disk[s].body
Keeps   == Records' = Records /\ SameRecords
Adds    == /\ pc = "commit" /\ slot \notin Records /\ Records' = Records \cup {slot}
           /\ disk'[slot].gen = generation + 1 /\ disk'[slot].body = pending
           /\ SameRecords
Removes == pc = "ack" /\ slot \in Records /\ Records' = Records \ {slot} /\ SameRecords

\* The type of the card.
Slotful(n) == [gen : 0..MaxGeneration, sum : 0..n, body : 0..n]

\* Whatever becomes of a write, one record at most comes or goes.
LEMMA LeftIs ==
  ASSUME Bounds, IInv, NEW left \in Left, disk' = [disk EXCEPT ![slot] = left]
  PROVE  /\ disk' \in [Slot -> Slotful(made)]
         /\ disk'[slot] = left /\ \A s \in Slot : s # slot => disk'[s] = disk[s]
         /\ Keeps \/ Adds \/ Removes
<1>1. /\ disk \in [Slot -> Slotful(made)] /\ slot \in Slot /\ pending \in 0..made
      /\ generation \in 0..MaxGeneration /\ made \in Nat /\ MaxGeneration \in Nat
  BY DEF IInv, TypeOK, Bounds, Slotful
<1>2. disk'[slot] = left /\ \A s \in Slot : s # slot => disk'[s] = disk[s]
  BY <1>1
<1>3. pc = "commit" => generation < MaxGeneration
  BY DEF IInv, Stands
<1>4. left \in Slotful(made)
  <2>1. CASE left = disk[slot]
    BY <2>1, <1>1
  <2> DEFINE old == disk[slot]
  <2>2. /\ old \in [gen : 0..MaxGeneration, sum : 0..made, body : 0..made]
        /\ 0 \in 0..MaxGeneration /\ 0 \in 0..made
        /\ pc = "commit" => generation + 1 \in 0..MaxGeneration
    BY <1>1, <1>3 DEF Slotful
  <2> HIDE DEF old
  <2>3. CASE pc \in Writes /\ left = Written
    <3>1. \/ left = [old EXCEPT !.gen = 0, !.sum = 0]
          \/ left = [old EXCEPT !.body = pending]
          \/ pc = "commit" /\ left = [old EXCEPT !.gen = generation + 1, !.sum = pending]
      BY <2>3 DEF Written, Writes, old
    <3> QED
      BY <2>2, <3>1, <1>1 DEF Slotful
  <2>4. CASE pc \in Writes /\ left = Torn
    <3>1. \/ left = [old EXCEPT !.gen = 0, !.sum = 0]
          \/ left = [old EXCEPT !.body = 0]
      BY <2>4 DEF Torn, Writes, old
    <3> QED
      BY <2>2, <3>1, <1>1 DEF Slotful
  <2> QED
    BY <2>1, <2>3, <2>4 DEF Left
<1>5. disk' \in [Slot -> Slotful(made)]
  BY <1>1, <1>4
<1>6. /\ Records \subseteq Slot /\ Records' \subseteq Slot
      /\ \A s \in Slot : s \in Records <=> disk[s].gen # 0 /\ disk[s].sum = disk[s].body
      /\ \A s \in Slot : s \in Records' <=> disk'[s].gen # 0 /\ disk'[s].sum = disk'[s].body
  BY DEF Records, Whole
<1>7. \A s \in Slot : s # slot => (s \in Records' <=> s \in Records)
  BY <1>2, <1>6
<1>8. CASE left = disk[slot]
  <2>1. Keeps
    BY <1>1, <1>2, <1>6, <1>8 DEF Keeps, SameRecords
  <2> QED
    BY <1>2, <1>5, <2>1
<1>9. CASE slot \notin Records /\ slot \notin Records'
  <2>1. Keeps
    BY <1>2, <1>6, <1>7, <1>9 DEF Keeps, SameRecords
  <2> QED
    BY <1>2, <1>5, <2>1
<1>10. CASE pc \in Writes /\ left \in {Written, Torn}
  <2>1. CASE pc = "clear"
    <3>1. slot \notin Records
      BY <2>1, <1>1 DEF IInv, Stands, Mirror, Writes, Records
    <3>2. left.gen = 0
      <4>1. left = [disk[slot] EXCEPT !.gen = 0, !.sum = 0]
        BY <2>1, <1>10 DEF Written, Torn
      <4>2. disk[slot] \in Slotful(made)
        BY <1>1
      <4> QED
        BY <4>1, <4>2 DEF Slotful
    <3> QED
      BY <3>1, <3>2, <1>1, <1>2, <1>6, <1>9
  <2>2. CASE pc = "body"
    <3>1. disk[slot].gen = 0
      BY <2>2 DEF IInv, Stands
    <3>2. left.gen = disk[slot].gen
      <4>1. left = [disk[slot] EXCEPT !.body = pending] \/ left = [disk[slot] EXCEPT !.body = 0]
        BY <2>2, <1>10 DEF Written, Torn
      <4>2. disk[slot] \in Slotful(made)
        BY <1>1
      <4> QED
        BY <4>1, <4>2 DEF Slotful
    <3>3. slot \notin Records /\ slot \notin Records'
      BY <3>1, <3>2, <1>1, <1>2, <1>6
    <3> QED
      BY <3>3, <1>9
  <2>3. CASE pc = "commit"
    <3>1. disk[slot].gen = 0 /\ disk[slot].body = pending
      BY <2>3 DEF IInv, Stands
    <3>2. CASE left = Torn
      <4>1. left.gen = 0
        BY <2>3, <3>2, <1>1 DEF Torn, Slotful
      <4> QED
        BY <3>1, <4>1, <1>1, <1>2, <1>6, <1>9
    <3>3. CASE left = Written
      <4>1. left.gen = generation + 1 /\ left.sum = pending /\ left.body = pending
        BY <2>3, <3>1, <3>3, <1>1 DEF Written, Slotful
      <4>2. slot \notin Records /\ slot \in Records'
        BY <3>1, <4>1, <1>1, <1>2, <1>6
      <4>3. Adds
        BY <2>3, <4>1, <4>2, <1>1, <1>2, <1>6, <1>7 DEF Adds, SameRecords
      <4> QED
        BY <1>2, <1>5, <4>3
    <3> QED
      BY <3>2, <3>3, <1>10
  <2>4. CASE pc = "ack"
    <3>1. left.gen = 0
      BY <2>4, <1>1, <1>10 DEF Written, Torn, Slotful
    <3>2. slot \notin Records'
      BY <3>1, <1>1, <1>2, <1>6
    <3>3. CASE slot \in Records
      <4>1. Removes
        BY <2>4, <3>2, <3>3, <1>1, <1>2, <1>6, <1>7 DEF Removes, SameRecords
      <4> QED
        BY <1>2, <1>5, <4>1
    <3> QED
      BY <3>2, <3>3, <1>9
  <2> QED
    BY <2>1, <2>2, <2>3, <2>4, <1>10 DEF Writes
<1> QED
  BY <1>8, <1>10 DEF Left

-----------------------------------------------------------------------------
(* What a step does to the log *)

LEMMA NextCard ==
  ASSUME Bounds, IInv, NEW n \in Nat, disk' \in [Slot -> Slotful(n)]
  PROVE  Card(disk) /\ \A s \in Slot : disk'[s].gen \in Nat /\ disk'[s].body \in Nat
BY SoundCard DEF IInv, Slotful, Bounds

LEMMA MadeIs ==
  ASSUME Bounds, IInv
  PROVE  made \in Nat
BY DEF IInv, TypeOK, Bounds

\* A step that keeps every record is no step of the log.
LEMMA KeepsLog ==
  ASSUME Bounds, IInv, Keeps, NEW n \in Nat, disk' \in [Slot -> Slotful(n)]
  PROVE  Log' = Log
<1>1. Card(disk) /\ \A s \in Slot : disk'[s].gen \in Nat /\ disk'[s].body \in Nat
  BY NextCard
<1>2. RecordsIn(disk') = RecordsIn(disk)
      /\ \A s \in RecordsIn(disk) : disk'[s].gen = disk[s].gen /\ disk'[s].body = disk[s].body
  BY SameLog DEF Keeps, SameRecords
<1>3. LogIn(disk') = LogIn(disk)
  BY <1>1, <1>2, CardStays
<1> QED
  BY <1>3, SameLog

LEMMA LogIs ==
  ASSUME Bounds, IInv
  PROVE  Log \in Seq(Nat) /\ Range(Log) = {disk[s].body : s \in Records}
BY SoundCard, CardLog, SameLog DEF IInv

\* The end of a commit puts the pending packet at the end.
LEMMA AddsToLog ==
  ASSUME Bounds, IInv, Adds, disk' \in [Slot -> Slotful(made)]
  PROVE  \E n \in Packet : (Log # <<>> => Last(Log) <= n) /\ Log' = Append(Log, n)
<1>1. Card(disk) /\ \A s \in Slot : disk'[s].gen \in Nat /\ disk'[s].body \in Nat
  BY NextCard, MadeIs
<1>2. /\ slot \in Slot /\ healthy /\ pc = "commit" /\ generation \in Nat /\ pending # 0
      /\ pending \in Packet /\ pending \in Nat
  BY DEF Adds, IInv, TypeOK, Stands, Bounds, Packet, Writes
<1>3. \A s \in Records : disk[s].gen < generation + 1
  <2> SUFFICES ASSUME NEW s \in Records PROVE disk[s].gen < generation + 1
    OBVIOUS
  <2>1. disk[s].gen = generations[s] /\ generations[s] <= generation
    BY <1>2 DEF IInv, Mirror, Records
  <2>2. disk[s].gen \in Nat
    BY <1>1 DEF Card, Records
  <2> QED
    BY <2>1, <2>2, <1>2
<1>4. /\ slot \notin RecordsIn(disk) /\ RecordsIn(disk') = RecordsIn(disk) \cup {slot}
      /\ \A s \in RecordsIn(disk) : /\ disk'[s].gen = disk[s].gen /\ disk'[s].body = disk[s].body
                                    /\ disk[s].gen < disk'[slot].gen
  BY <1>3, SameLog DEF Adds, SameRecords
<1>5. LogIn(disk') = Append(LogIn(disk), disk'[slot].body)
  BY <1>1, <1>2, <1>4, CardGrows
<1>6. Log' = Append(Log, pending)
  BY <1>5, SameLog DEF Adds
<1>7. ASSUME Log # <<>> PROVE Last(Log) <= pending
  <2>1. Log[Len(Log)] \in Range(Log)
    BY <1>7, LogIs DEF Range
  <2>2. PICK s \in Records : Log[Len(Log)] = disk[s].body
    BY <2>1, LogIs
  <2> QED
    BY <2>2, <1>2 DEF Last, IInv, Ordered
<1> QED
  BY <1>2, <1>6, <1>7

\* The end of a removal takes the oldest, which is answered.
LEMMA RemovesFromLog ==
  ASSUME Bounds, IInv, Removes, disk' \in [Slot -> Slotful(made)]
  PROVE  Log # <<>> /\ Head(Log) \in answered /\ Log' = Tail(Log)
<1>1. Card(disk) /\ \A s \in Slot : disk'[s].gen \in Nat /\ disk'[s].body \in Nat
  BY NextCard, MadeIs
<1>2. /\ slot \in RecordsIn(disk) /\ RecordsIn(disk') = RecordsIn(disk) \ {slot}
      /\ \A s \in RecordsIn(disk') : disk'[s].gen = disk[s].gen /\ disk'[s].body = disk[s].body
  BY SameLog DEF Removes, SameRecords
<1>3. \A s \in RecordsIn(disk) : disk[slot].gen <= disk[s].gen
  BY <1>2, OldestRecord, SameLog DEF Removes
<1>4. PICK i \in 1..Len(LogIn(disk)) :
        /\ LogIn(disk') = RemoveAt(LogIn(disk), i) /\ LogIn(disk)[i] = disk[slot].body
        /\ (\A s \in RecordsIn(disk) : disk[slot].gen <= disk[s].gen) => i = 1
  BY <1>1, <1>2, CardShrinks
<1>5. Log' = RemoveAt(Log, 1) /\ Log[1] = disk[slot].body /\ Len(Log) >= 1
  <2>1. i = 1
    BY <1>3, <1>4
  <2> QED
    BY <1>4, <2>1, SameLog
<1>6. Log \in Seq(Nat)
  BY LogIs
<1>7. RemoveAt(Log, 1) = Tail(Log)
  <2> DEFINE r == RemoveAt(Log, 1)
             t == Tail(Log)
  <2>1. Len(Log) \in Nat /\ 1 \in 1..Len(Log)
    BY <1>5, <1>6
  <2>2. /\ r \in Seq(Nat) /\ Len(r) = Len(Log) - 1
        /\ \A j \in 1..(Len(Log) - 1) : r[j] = Log[j + 1]
    BY <1>6, <2>1, RemoveAtIs
  <2>3. /\ t \in Seq(Nat) /\ Len(t) = Len(Log) - 1
        /\ \A j \in 1..(Len(Log) - 1) : t[j] = Log[j + 1]
    BY <1>6, <2>1
  <2> HIDE DEF r, t
  <2>4. r = t
    BY <2>2, <2>3
  <2> QED
    BY <2>4 DEF r, t
<1>8. Head(Log) \in answered
  BY <1>5, <1>6 DEF Removes, IInv, Stands, Records
<1> QED
  BY <1>5, <1>6, <1>7, <1>8

\* What the card loses leaves the log, at its place.
LEMMA RotsFromLog ==
  ASSUME Bounds, IInv, NEW x \in Records, Records' = Records \ {x}, SameRecords,
         disk' \in [Slot -> Slotful(made)]
  PROVE  \E i \in 1..Len(Log) : Log' = RemoveAt(Log, i) /\ Log[i] = disk[x].body
<1>1. Card(disk) /\ \A s \in Slot : disk'[s].gen \in Nat /\ disk'[s].body \in Nat
  BY NextCard, MadeIs
<1>2. /\ x \in RecordsIn(disk) /\ RecordsIn(disk') = RecordsIn(disk) \ {x}
      /\ \A s \in RecordsIn(disk') : disk'[s].gen = disk[s].gen /\ disk'[s].body = disk[s].body
  BY SameLog DEF SameRecords
<1> DEFINE b == disk[x].body
<1>3. PICK i \in 1..Len(LogIn(disk)) :
        /\ LogIn(disk') = RemoveAt(LogIn(disk), i) /\ LogIn(disk)[i] = b
        /\ (\A s \in RecordsIn(disk) : disk[x].gen <= disk[s].gen) => i = 1
  BY <1>1, <1>2, CardShrinks
<1> QED
  BY <1>3, SameLog

LEMMA AppendRange ==
  ASSUME NEW S, NEW q \in Seq(S), NEW x \in S
  PROVE  Range(Append(q, x)) = Range(q) \cup {x}
<1> DEFINE r == Append(q, x)
<1>1. /\ r \in Seq(S) /\ Len(r) = Len(q) + 1 /\ Len(q) \in Nat /\ r[Len(q) + 1] = x
      /\ \A i \in 1..Len(q) : r[i] = q[i]
  OBVIOUS
<1> HIDE DEF r
<1>2. Range(r) = {r[i] : i \in 1..Len(r)} /\ Range(q) = {q[i] : i \in 1..Len(q)}
  BY <1>1 DEF Range
<1>3. \A i \in 1..Len(r) : i \in 1..Len(q) \/ i = Len(q) + 1
  BY <1>1
<1>4. \A i \in 1..Len(q) : i \in 1..Len(r)
  BY <1>1
<1>5. Len(q) + 1 \in 1..Len(r)
  BY <1>1
<1>6. Range(r) = Range(q) \cup {x}
  BY <1>1, <1>2, <1>3, <1>4, <1>5
<1> QED
  BY <1>6 DEF r

LEMMA TailRange ==
  ASSUME NEW S, NEW q \in Seq(S), q # <<>>
  PROVE  /\ Head(q) \in S /\ Tail(q) \in Seq(S) /\ Len(q) \in Nat \ {0} /\ Head(q) = q[1]
         /\ Len(Tail(q)) = Len(q) - 1 /\ \A i \in 1..Len(Tail(q)) : Tail(q)[i] = q[i + 1]
         /\ Range(q) = {Head(q)} \cup Range(Tail(q))
<1> DEFINE t == Tail(q)
<1>1. /\ Head(q) \in S /\ t \in Seq(S) /\ Len(q) \in Nat \ {0} /\ Head(q) = q[1]
      /\ Len(t) = Len(q) - 1 /\ \A i \in 1..Len(t) : t[i] = q[i + 1]
  OBVIOUS
<1> HIDE DEF t
<1>2. Range(t) = {t[i] : i \in 1..Len(t)} /\ Range(q) = {q[i] : i \in 1..Len(q)}
  BY <1>1 DEF Range
<1>3. \A i \in 1..Len(q) : i = 1 \/ (i - 1 \in 1..Len(t) /\ t[i - 1] = q[i])
  BY <1>1
<1>4. \A i \in 1..Len(t) : i + 1 \in 1..Len(q) /\ t[i] = q[i + 1]
  BY <1>1
<1>5. 1 \in 1..Len(q)
  BY <1>1
<1>6. Range(q) = {Head(q)} \cup Range(t)
  BY <1>1, <1>2, <1>3, <1>4, <1>5
<1> QED
  BY <1>1, <1>6 DEF t

Rising(q) == \A i, j \in 1..Len(q) : i < j => q[i] < q[j]
Queue(q, n) == n \in Nat /\ q \in Seq(1..n) /\ Rising(q)
Queued(r, q, n) == r = Append(q, n + 1)
Taken(t, q) == q # <<>> /\ t = Tail(q)

\* A queue of packets made so far takes the next, or gives its first.
LEMMA QueueLonger ==
  ASSUME NEW n, NEW q, Queue(q, n), NEW r, Queued(r, q, n)
  PROVE  /\ r \in Seq(1..(n + 1)) /\ Len(r) = Len(q) + 1 /\ Rising(r)
         /\ Range(r) = Range(q) \cup {n + 1}
         /\ \A i \in 1..Len(r) : r[i] = n + 1 \/ \E j \in 1..Len(q) : r[i] = q[j]
<1>0. n \in Nat /\ q \in Seq(1..n) /\ Rising(q) /\ r = Append(q, n + 1)
  BY DEF Queue, Queued
<1>1. \A i \in 1..Len(q) : q[i] \in 1..n /\ q[i] \in 1..(n + 1)
  BY <1>0
<1>2. q \in Seq(1..(n + 1)) /\ Len(q) \in Nat /\ n + 1 \in 1..(n + 1)
  BY <1>0, <1>1
<1>3. /\ r \in Seq(1..(n + 1)) /\ Len(r) = Len(q) + 1 /\ r[Len(q) + 1] = n + 1
      /\ \A i \in 1..Len(q) : r[i] = q[i]
  BY <1>0, <1>2
<1>4. Range(r) = Range(q) \cup {n + 1}
  BY <1>0, <1>2, AppendRange
<1>5. \A i \in 1..Len(r) : i \in 1..Len(q) \/ i = Len(q) + 1
  BY <1>2, <1>3
<1>6. \A i \in 1..Len(r) : r[i] = n + 1 \/ \E j \in 1..Len(q) : r[i] = q[j]
  BY <1>3, <1>5
<1>7. ASSUME NEW i \in 1..Len(r), NEW j \in 1..Len(r), i < j PROVE r[i] < r[j]
  <2>1. i \in 1..Len(q)
    BY <1>7, <1>2, <1>3
  <2>2. CASE j \in 1..Len(q)
    BY <1>0, <1>3, <1>7, <2>1, <2>2 DEF Rising
  <2>3. CASE j = Len(q) + 1
    BY <1>0, <1>1, <1>3, <2>1, <2>3
  <2> QED
    BY <1>5, <2>2, <2>3
<1> QED
  BY <1>3, <1>4, <1>6, <1>7 DEF Rising

LEMMA QueueShorter ==
  ASSUME NEW n, NEW q, Queue(q, n), NEW t, Taken(t, q)
  PROVE  /\ Head(q) \in 1..n /\ t \in Seq(1..n) /\ Len(t) = Len(q) - 1 /\ Rising(t)
         /\ 1 \in 1..Len(q) /\ Head(q) = q[1]
         /\ Range(q) = {Head(q)} \cup Range(t)
         /\ \A i \in 1..Len(t) : /\ \E j \in 1..Len(q) : t[i] = q[j]
                                /\ Head(q) < t[i]
<1>0. n \in Nat /\ q \in Seq(1..n) /\ Rising(q) /\ q # <<>> /\ t = Tail(q)
  BY DEF Queue, Taken
<1>1. /\ Head(q) \in 1..n /\ t \in Seq(1..n) /\ Len(q) \in Nat \ {0} /\ Head(q) = q[1]
      /\ Len(t) = Len(q) - 1 /\ \A i \in 1..Len(t) : t[i] = q[i + 1]
      /\ Range(q) = {Head(q)} \cup Range(t)
  BY <1>0, TailRange
<1>2. 1 \in 1..Len(q) /\ \A i \in 1..Len(t) : i \in Int /\ i + 1 \in 1..Len(q) /\ 1 < i + 1
  BY <1>1
<1>3. Rising(t)
  <2> SUFFICES ASSUME NEW i \in 1..Len(t), NEW j \in 1..Len(t), i < j PROVE t[i] < t[j]
    BY DEF Rising
  <2>1. i + 1 < j + 1
    BY <1>2
  <2> QED
    BY <1>0, <1>1, <1>2, <2>1 DEF Rising
<1>4. \A i \in 1..Len(t) : Head(q) < t[i]
  BY <1>0, <1>1, <1>2 DEF Rising
<1> QED
  BY <1>1, <1>2, <1>3, <1>4

-----------------------------------------------------------------------------
LEMMA InitIInv == ASSUME Bounds, Init PROVE IInv
<1>1. TypeOK
  <2>1. queue \in Seq(1..made) /\ Len(queue) <= QueueSize
    BY DEF Init, Bounds
  <2>2. disk \in [Slot -> Slotful(made)]
    BY DEF Init, Empty, Slotful, Bounds
  <2>3. /\ 0 \in 0..MaxGeneration /\ 0 \in 0..MaxPackets /\ 0 \in 0..0 /\ 1 \in Slot
    BY DEF Bounds, Slot
  <2>4. generations \in [Slot -> 0..MaxGeneration]
    BY <2>3 DEF Init
  <2> QED
    BY <2>1, <2>2, <2>3, <2>4 DEF Init, TypeOK, Slotful
<1>2. Records = {}
  BY DEF Init, Records, Whole, Empty
<1> QED
  BY <1>1, <1>2 DEF Init, IInv, Mirror, Distinct, InLine, Ordered, Stands, Accounted, Writes

LEMMA StutterIInv == ASSUME IInv, UNCHANGED vars PROVE IInv'
BY DEF IInv, TypeOK, Mirror, Distinct, InLine, Ordered, Stands, Accounted, Records, Whole,
       vars, task, link, journal

LEMMA SameDisk ==
  ASSUME disk' = disk
  PROVE  Records' = Records /\ Log' = Log /\ \A s \in Slot : Whole(s)' <=> Whole(s)
BY SameLog DEF Records, Whole

LEMMA SampleIInv == ASSUME Bounds, IInv, Sample PROVE IInv'
<1> DEFINE n == made
<1>1. /\ made' = n + 1 /\ n \in Nat /\ n + 1 \in 0..MaxPackets
      /\ disk' = disk /\ pending' = pending /\ pc' = pc /\ slot' = slot
      /\ generations' = generations /\ generation' = generation /\ healthy' = healthy
      /\ answered' = answered
  BY DEF Sample, IInv, TypeOK, Bounds, task, journal
<1>2. /\ queue \in Seq(1..n) /\ Len(queue) \in Nat /\ Queue(queue, n)
      /\ Len(queue) <= QueueSize /\ QueueSize \in Nat \ {0} /\ pending \in 0..n
      /\ \A i \in 1..Len(queue) : queue[i] \in 1..n /\ pending < queue[i]
      /\ lost \subseteq 1..(n + 1) /\ answered \subseteq 1..(n + 1)
  <2>1. /\ queue \in Seq(1..n) /\ Len(queue) <= QueueSize /\ QueueSize \in Nat \ {0}
        /\ pending \in 0..n /\ lost \subseteq 1..n /\ answered \subseteq 1..n
    BY DEF IInv, TypeOK, Bounds
  <2>2. Rising(queue) /\ \A i \in 1..Len(queue) : pending < queue[i]
    BY DEF IInv, InLine, Rising
  <2>3. 1..n \subseteq 1..(n + 1)
    BY <1>1
  <2> HIDE DEF n
  <2>4. Len(queue) \in Nat /\ \A i \in 1..Len(queue) : queue[i] \in 1..n
    BY <2>1, LenProperties, ElementOfSeq
  <2> QED
    BY <2>1, <2>2, <2>3, <2>4, <1>1 DEF Queue
<1> HIDE DEF n
<1>3. /\ queue' \in Seq(1..(n + 1)) /\ Len(queue') <= QueueSize /\ lost' \subseteq 1..(n + 1)
      /\ Range(queue) \cup lost \cup {n + 1} \subseteq Range(queue') \cup lost'
      /\ Rising(queue')
      /\ \A i \in 1..Len(queue') :
           queue'[i] = n + 1 \/ \E j \in 1..Len(queue) : queue'[i] = queue[j]
  <2>1. CASE Len(queue) < QueueSize
    <3>1. queue' = Append(queue, n + 1) /\ lost' = lost
      BY <2>1 DEF Sample, n
    <3>2. Queued(queue', queue, n)
      BY <3>1 DEF Queued
    <3>3. /\ queue' \in Seq(1..(n + 1)) /\ Len(queue') = Len(queue) + 1 /\ Rising(queue')
          /\ Range(queue') = Range(queue) \cup {n + 1}
          /\ \A i \in 1..Len(queue') :
               queue'[i] = n + 1 \/ \E j \in 1..Len(queue) : queue'[i] = queue[j]
      BY <3>2, <1>2, QueueLonger
    <3> QED
      BY <2>1, <3>1, <3>3, <1>2
  <2>2. CASE ~(Len(queue) < QueueSize)
    <3> DEFINE t == Tail(queue)
    <3>1. queue' = Append(t, n + 1) /\ lost' = lost \cup {Head(queue)} /\ queue # <<>>
      BY <2>2, <1>2 DEF Sample, n
    <3> HIDE DEF t
    <3>0. Taken(t, queue) /\ Queued(queue', t, n)
      BY <3>1 DEF Taken, Queued, t
    <3>2. /\ Head(queue) \in 1..n /\ t \in Seq(1..n) /\ Len(t) = Len(queue) - 1 /\ Queue(t, n)
          /\ Range(queue) = {Head(queue)} \cup Range(t)
          /\ \A i \in 1..Len(t) : \E j \in 1..Len(queue) : t[i] = queue[j]
      BY <3>0, <1>1, <1>2, QueueShorter DEF Queue
    <3>3. /\ queue' \in Seq(1..(n + 1)) /\ Len(queue') = Len(t) + 1 /\ Rising(queue')
          /\ Range(queue') = Range(t) \cup {n + 1}
          /\ \A i \in 1..Len(queue') : queue'[i] = n + 1 \/ \E j \in 1..Len(t) : queue'[i] = t[j]
      BY <3>0, <3>2, QueueLonger
    <3>4. Len(queue') <= QueueSize /\ Head(queue) \in 1..(n + 1)
      BY <3>2, <3>3, <1>1, <1>2
    <3>5. \A i \in 1..Len(queue') :
            queue'[i] = n + 1 \/ \E j \in 1..Len(queue) : queue'[i] = queue[j]
      BY <3>2, <3>3
    <3>6. Range(queue) \cup lost \cup {n + 1} \subseteq Range(queue') \cup lost'
      BY <3>1, <3>2, <3>3
    <3> QED
      BY <3>1, <3>3, <3>4, <3>5, <3>6, <1>2
  <2> QED
    BY <2>1, <2>2
<1>4. TypeOK'
  <2>1. disk' \in [Slot -> Slotful(n + 1)]
    BY <1>1 DEF IInv, TypeOK, Slotful, n
  <2>2. pending' \in 0..(n + 1) /\ answered' \subseteq 1..(n + 1)
    BY <1>1, <1>2
  <2>3. UNCHANGED <<failed, wifi, synced>>
    BY DEF Sample, task, link
  <2> QED
    BY <2>1, <2>2, <2>3, <1>1, <1>3 DEF IInv, TypeOK, Slotful, Writes
<1>5. Mirror' /\ Distinct' /\ Stands'
  BY <1>1, SameDisk DEF IInv, Mirror, Distinct, Stands, Records, Whole
<1>6. InLine'
  <2>1. \A i \in 1..Len(queue') : pending < queue'[i]
    <3> SUFFICES ASSUME NEW i \in 1..Len(queue') PROVE pending < queue'[i]
      OBVIOUS
    <3>1. pending < n + 1
      BY <1>1, <1>2
    <3>2. queue'[i] = n + 1 \/ \E j \in 1..Len(queue) : queue'[i] = queue[j]
      BY <1>3
    <3> QED
      BY <3>1, <3>2, <1>2
  <2> QED
    BY <2>1, <1>1, <1>3 DEF InLine, Rising
<1>7. Ordered'
  <2>1. \A s \in Records : /\ disk[s].body \in 0..n
                           /\ \A i \in 1..Len(queue) : disk[s].body < queue[i]
    BY DEF IInv, TypeOK, Records, Ordered, n
  <2>2. \A s \in Records : \A i \in 1..Len(queue') : disk[s].body < queue'[i]
    <3> SUFFICES ASSUME NEW s \in Records, NEW i \in 1..Len(queue')
                 PROVE  disk[s].body < queue'[i]
      OBVIOUS
    <3>1. disk[s].body < n + 1
      BY <2>1, <1>1
    <3>2. queue'[i] = n + 1 \/ \E j \in 1..Len(queue) : queue'[i] = queue[j]
      BY <1>3
    <3> QED
      BY <3>1, <3>2, <2>1
  <2> QED
    BY <2>2, <1>1, SameDisk DEF IInv, Ordered
<1>8. Accounted'
  <2>1. \A m \in 1..made' : m \in 1..n \/ m = n + 1
    BY <1>1
  <2> QED
    BY <2>1, <1>1, <1>3, SameDisk DEF IInv, Accounted, n
<1> QED
  BY <1>4, <1>5, <1>6, <1>7, <1>8 DEF IInv

\* Steps that leave the packets and the card alone.
LEMMA LinkIInv == ASSUME IInv, Connect \/ Sync PROVE IInv'
<1>1. /\ UNCHANGED <<made, queue, pending, failed, pc, slot, generations, generation, healthy,
                    disk, answered, lost>>
      /\ <<wifi', synced'>> \in BOOLEAN \X BOOLEAN
  BY DEF Connect, Sync, IInv, TypeOK, task, journal
<1>2. TypeOK'
  BY <1>1 DEF IInv, TypeOK
<1> QED
  BY <1>1, <1>2 DEF IInv, Mirror, Distinct, InLine, Ordered, Stands, Accounted,
     Records, Whole

LEMMA MountIInv == ASSUME Bounds, IInv, NEW works \in BOOLEAN, Mount(works) PROVE IInv'
<1>1. /\ UNCHANGED <<made, queue, pending, failed, slot, wifi, synced, disk, answered, lost>>
      /\ pc = "mount" /\ pc' = "receive"
  BY DEF Mount, link
<1>2. InLine' /\ Ordered' /\ Accounted'
  BY <1>1, SameDisk DEF IInv, InLine, Ordered, Accounted
<1>3. Stands'
  BY <1>1 DEF Stands, Writes
<1>4. CASE UNCHANGED <<generations, generation, healthy>>
  <2>1. TypeOK'
    BY <1>1, <1>4 DEF IInv, TypeOK
  <2>2. Mirror' /\ Distinct'
    BY <1>1, <1>4 DEF IInv, Mirror, Distinct, Records, Whole
  <2> QED
    BY <2>1, <2>2, <1>2, <1>3 DEF IInv
<1>5. CASE generations' = Stored /\ generation' = Max(Range(Stored)) /\ healthy' = TRUE
  <2>1. /\ \A s \in Slot : disk[s].gen \in 0..MaxGeneration
        /\ MaxGeneration \in Nat
    BY DEF IInv, TypeOK, Bounds
  <2>2. /\ Stored \in [Slot -> 0..MaxGeneration]
        /\ \A s \in Slot : Stored[s] = IF Whole(s) THEN disk[s].gen ELSE 0
    BY <2>1 DEF Stored
  <2>3. Range(Stored) = {Stored[s] : s \in Slot}
    BY <2>2 DEF Range
  <2> DEFINE R == Range(Stored)
  <2>4. R \in SUBSET Nat /\ R # {} /\ \A n \in R : n <= MaxGeneration
    <3>1. 1 \in Slot
      BY DEF Slot, Bounds
    <3> QED
      BY <2>1, <2>2, <2>3, <3>1
  <2>5. Max(R) \in R /\ \A n \in R : n <= Max(R)
    <3> HIDE DEF R
    <3> QED
      BY <2>1, <2>4, MaxIs
  <2>6. generation' \in 0..MaxGeneration /\ \A s \in Slot : Stored[s] <= generation'
    BY <2>1, <2>2, <2>3, <2>4, <2>5, <1>5
  <2>7. TypeOK'
    BY <2>2, <2>6, <1>1, <1>5 DEF IInv, TypeOK
  <2>8. Mirror'
    <3>1. \A s \in Slot : (Whole(s)' <=> Whole(s)) /\ (Whole(s) => disk[s].gen # 0)
      BY <1>1, SameDisk DEF Whole
    <3> QED
      BY <2>2, <2>6, <3>1, <1>1, <1>5 DEF Mirror
  <2>9. Distinct'
    <3>1. \A s, t \in Slot : Stored[s] = Stored[t] /\ Stored[s] # 0 => s = t
      BY <2>2 DEF IInv, Distinct, Records
    <3> QED
      BY <3>1, <1>1, <1>5, SameDisk DEF IInv, Distinct
  <2> QED
    BY <2>7, <2>8, <2>9, <1>2, <1>3 DEF IInv
<1> QED
  BY <1>4, <1>5 DEF Mount

LEMMA ReceiveIInv == ASSUME Bounds, IInv, Receive PROVE IInv'
<1>1. /\ UNCHANGED <<made, failed, slot, wifi, synced, generations, generation, healthy,
                    disk, answered, lost>>
      /\ pc' = "live"
  BY DEF Receive, link, journal
<1>2. Mirror' /\ Distinct' /\ Stands'
  BY <1>1, SameDisk DEF IInv, Mirror, Distinct, Stands, Records, Whole, Writes
<1>3. CASE UNCHANGED <<pending, queue>>
  <2>1. TypeOK'
    BY <1>1, <1>3 DEF IInv, TypeOK
  <2> QED
    BY <2>1, <1>1, <1>2, <1>3, SameDisk DEF IInv, InLine, Ordered, Accounted
<1>4. CASE pending = 0 /\ queue # <<>> /\ pending' = Head(queue) /\ queue' = Tail(queue)
  <2>1. queue \in Seq(1..made) /\ made \in Nat /\ Len(queue) <= QueueSize /\ QueueSize \in Nat
    BY DEF IInv, TypeOK, Bounds
  <2>2. /\ pending' \in 1..made /\ queue' \in Seq(1..made) /\ Len(queue') = Len(queue) - 1
        /\ Rising(queue') /\ 1 \in 1..Len(queue) /\ pending' = queue[1]
        /\ Range(queue) = {pending'} \cup Range(queue')
        /\ \A i \in 1..Len(queue') : /\ \E j \in 1..Len(queue) : queue'[i] = queue[j]
                                     /\ pending' < queue'[i]
    <3>1. Queue(queue, made) /\ Taken(queue', queue) /\ pending' = Head(queue)
      BY <2>1, <1>4 DEF IInv, InLine, Rising, Queue, Taken
    <3> QED
      BY <3>1, QueueShorter
  <2>3. TypeOK'
    <3>1. Len(queue') <= QueueSize /\ pending' \in 0..made
      BY <2>1, <2>2
    <3> QED
      BY <2>2, <3>1, <1>1 DEF IInv, TypeOK
  <2>4. InLine'
    BY <2>2 DEF InLine, Rising
  <2>5. Ordered'
    <3>1. \A s \in Records : /\ disk[s].body \in 0..made
                             /\ \A i \in 1..Len(queue) : disk[s].body < queue[i]
      BY DEF IInv, TypeOK, Records, Ordered
    <3>2. \A s \in Records : disk[s].body < pending'
      BY <3>1, <2>2
    <3>3. \A s \in Records : disk[s].body <= pending'
      BY <3>1, <3>2, <2>1, <2>2
    <3>4. \A s \in Records : \A i \in 1..Len(queue') : disk[s].body < queue'[i]
      BY <3>1, <2>2
    <3> QED
      BY <3>3, <3>4, <1>1, SameDisk DEF IInv, Ordered
  <2>6. Accounted'
    BY <2>1, <2>2, <1>1, <1>4, SameDisk DEF IInv, Accounted
  <2> QED
    BY <2>3, <2>4, <2>5, <2>6, <1>2 DEF IInv
<1> QED
  BY <1>3, <1>4 DEF Receive

LEMMA LiveIInv == ASSUME Bounds, IInv, NEW status \in Statuses, Live(status) PROVE IInv'
<1>1. /\ UNCHANGED <<made, queue, slot, wifi, synced, generations, generation, healthy,
                    disk, lost>>
      /\ pc' = "append" /\ failed' \in BOOLEAN
      /\ \/ UNCHANGED <<pending, answered>>
         \/ pending # 0 /\ pending' = 0 /\ answered' = answered \cup {pending}
  BY DEF Live, link, journal, IInv, TypeOK
<1>2. made \in Nat /\ pending \in 0..made /\ queue \in Seq(1..made) /\ answered \subseteq 1..made
  BY MadeIs DEF IInv, TypeOK
<1>3. /\ pending' \in 0..made /\ answered' \subseteq 1..made /\ answered \subseteq answered'
      /\ pending' \in {0, pending} /\ {pending} \subseteq {0, pending'} \cup answered'
  <2>1. CASE UNCHANGED <<pending, answered>>
    BY <2>1, <1>2
  <2>2. CASE pending # 0 /\ pending' = 0 /\ answered' = answered \cup {pending}
    <3>1. pending \in 1..made /\ 0 \in 0..made
      BY <2>2, <1>2
    <3> QED
      BY <2>2, <3>1, <1>2
  <2> QED
    BY <2>1, <2>2, <1>1
<1>4. TypeOK'
  BY <1>1, <1>3 DEF IInv, TypeOK
<1>5. Mirror' /\ Distinct' /\ Stands'
  BY <1>1, SameDisk DEF IInv, Mirror, Distinct, Stands, Records, Whole, Writes
<1>6. InLine'
  <2>1. \A i \in 1..Len(queue) : queue[i] \in 1..made
    BY <1>2, ElementOfSeq
  <2>2. \A i \in 1..Len(queue) : 0 < queue[i] /\ pending < queue[i]
    BY <2>1, <1>2 DEF IInv, InLine
  <2> QED
    BY <2>2, <1>1, <1>3 DEF IInv, InLine
<1>7. Ordered'
  BY <1>1, <1>3, SameDisk DEF IInv, Ordered
<1>8. Accounted'
  <2>1. \A n \in 1..made : n # 0
    BY <1>2
  <2> QED
    BY <2>1, <1>1, <1>3, SameDisk DEF IInv, Accounted
<1> QED
  BY <1>4, <1>5, <1>6, <1>7, <1>8 DEF IInv

LEMMA StoreIInv == ASSUME Bounds, IInv, Store PROVE IInv'
<1>1. UNCHANGED <<made, queue, pending, failed, wifi, synced, generations, generation, healthy,
                  disk, answered, lost>>
  BY DEF Store, link, journal
<1>2. /\ pc' \in {"clear", "replay"}
      /\ \/ pc' = "replay" /\ slot' = slot
         \/ /\ pc' = "clear" /\ slot' = Min(Free) /\ Free # {}
            /\ pending # 0 /\ healthy /\ generation < MaxGeneration
  BY DEF Store
<1>3. Free # {} => Min(Free) \in Free
  <2>1. Free \in SUBSET Nat
    BY DEF Free, Slot, Bounds
  <2> HIDE DEF Free
  <2> QED
    BY <2>1, MinIs
<1>4. TypeOK'
  BY <1>1, <1>2, <1>3 DEF IInv, TypeOK, Free, Writes
<1>5. Stands'
  <2>1. CASE pc' = "replay"
    BY <2>1 DEF Stands, Writes
  <2>2. CASE pc' = "clear"
    <3>1. pending # 0 /\ healthy /\ generation < MaxGeneration /\ generations[slot'] = 0
      BY <2>2, <1>2, <1>3 DEF Free
    <3> QED
      BY <2>2, <3>1, <1>1 DEF Stands
  <2> QED
    BY <2>1, <2>2, <1>2
<1>6. Mirror' /\ Distinct' /\ InLine' /\ Ordered' /\ Accounted'
  BY <1>1, SameDisk DEF IInv, Mirror, Distinct, InLine, Ordered, Accounted, Records, Whole
<1> QED
  BY <1>4, <1>5, <1>6 DEF IInv

LEMMA OldestIs ==
  ASSUME Bounds, IInv, Held # {}
  PROVE  Oldest \in Held /\ \A t \in Held : generations[Oldest] <= generations[t]
<1> DEFINE T == {generations[t] : t \in Held}
<1>1. T \in SUBSET Nat /\ T # {}
  <2>1. generations \in [Slot -> 0..MaxGeneration] /\ MaxGeneration \in Nat /\ Held \subseteq Slot
    BY DEF IInv, TypeOK, Held, Bounds
  <2>2. \A t \in Held : generations[t] \in Nat
    BY <2>1
  <2> QED
    BY <2>2
<1>2. PICK n \in T : \A m \in T : n <= m
  <2> HIDE DEF T
  <2> QED
    BY <1>1, LeastNat
<1>3. PICK s \in Held : n = generations[s]
  BY <1>2
<1>4. \A t \in Held : generations[s] <= generations[t]
  BY <1>2, <1>3
<1> QED
  BY <1>4 DEF Oldest

\* What a replay sends is a record, and its packet was made.
LEMMA ReplayIs ==
  ASSUME Bounds, IInv, Replays
  PROVE  /\ Oldest \in Held /\ \A t \in Held : generations[Oldest] <= generations[t]
         /\ healthy /\ (Readable <=> Whole(Oldest))
         /\ Readable => disk[Oldest].body \in 1..made
<1>1. /\ Oldest \in Held /\ \A t \in Held : generations[Oldest] <= generations[t]
      /\ healthy
  BY OldestIs DEF Replays
<1>2. Oldest \in Slot /\ disk[Oldest].gen = generations[Oldest]
  BY <1>1 DEF IInv, Mirror, Held
<1>3. Readable <=> Whole(Oldest)
  BY <1>2 DEF Readable
<1>4. Whole(Oldest) => disk[Oldest].body # 0 /\ disk[Oldest].body \in 0..made
  BY <1>2 DEF IInv, TypeOK, Ordered, Records
<1>5. Readable => disk[Oldest].body \in 1..made
  BY <1>3, <1>4, MadeIs
<1> QED
  BY <1>1, <1>3, <1>5

LEMMA ReplayIInv == ASSUME Bounds, IInv, NEW status \in Statuses, Replay(status) PROVE IInv'
<1>1. UNCHANGED <<made, queue, pending, failed, wifi, synced, generations, generation, healthy,
                  disk, lost>>
  BY DEF Replay, link, journal
<1>2. /\ pc' = IF Replays /\ (Readable => status # "none") THEN "ack" ELSE "mount"
      /\ slot' = IF Replays THEN Oldest ELSE slot
      /\ answered' = IF Replays /\ Readable /\ status # "none"
                     THEN answered \cup {disk[Oldest].body} ELSE answered
  BY DEF Replay
<1>3. TypeOK'
  <2>1. answered' \subseteq 1..made /\ slot' \in Slot
    BY <1>2, ReplayIs DEF IInv, TypeOK, Held
  <2> QED
    BY <2>1, <1>1, <1>2 DEF IInv, TypeOK, Writes
<1>4. Stands'
  <2>1. CASE pc' = "mount"
    BY <2>1 DEF Stands, Writes
  <2>2. CASE pc' = "ack"
    <3>1. Replays /\ (Readable => status # "none") /\ slot' = Oldest
      BY <2>2, <1>2
    <3>2. Whole(Oldest) => disk[Oldest].body \in answered'
      BY <3>1, <1>2, ReplayIs
    <3>3. /\ generations[Oldest] # 0
          /\ \A s \in Slot : generations[s] # 0 => generations[Oldest] <= generations[s]
      BY <3>1, ReplayIs DEF Held
    <3> QED
      BY <2>2, <3>1, <3>2, <3>3, <1>1, ReplayIs DEF Stands, Whole
  <2> QED
    BY <2>1, <2>2, <1>2
<1>5. Mirror' /\ Distinct' /\ InLine' /\ Ordered'
  BY <1>1, SameDisk DEF IInv, Mirror, Distinct, InLine, Ordered, Records, Whole
<1>6. Accounted'
  <2>1. answered \subseteq answered'
    BY <1>2
  <2> QED
    BY <2>1, <1>1, SameDisk DEF IInv, Accounted
<1> QED
  BY <1>3, <1>4, <1>5, <1>6 DEF IInv

-----------------------------------------------------------------------------
(* Writes, failures and losses *)

\* Whatever becomes of a write, the records keep their order.
LEMMA CardOrder ==
  ASSUME Bounds, IInv, Keeps \/ Adds \/ Removes, pending' \in {0, pending},
         queue' \in {<<>>, queue}
  PROVE  /\ Ordered' /\ \A s, t \in Records' : disk'[s].gen = disk'[t].gen => s = t
         /\ InLine'
<1>1. /\ made \in Nat /\ pending \in 0..made /\ queue \in Seq(1..made)
      /\ \A i \in 1..Len(queue) : queue[i] \in 1..made
  BY MadeIs, ElementOfSeq DEF IInv, TypeOK
<1>2. \A i \in 1..Len(queue') : i \in 1..Len(queue) /\ queue' = queue
  BY <1>1
<1>3. InLine'
  <2>1. \A i \in 1..Len(queue') : pending' < queue'[i]
    BY <1>1, <1>2 DEF IInv, InLine
  <2> QED
    BY <2>1, <1>2 DEF IInv, InLine
<1>4. ASSUME Records' \subseteq Records, SameRecords
      PROVE  Ordered' /\ \A s, t \in Records' : disk'[s].gen = disk'[t].gen => s = t
  <2>1. \A s \in Records' : disk'[s].gen = disk[s].gen /\ disk'[s].body = disk[s].body
    BY <1>4 DEF SameRecords
  <2>2. \A s, t \in Records' : disk'[s].gen = disk'[t].gen => s = t
    BY <2>1, <1>4 DEF IInv, Distinct
  <2>3. Ordered'
    BY <2>1, <1>2, <1>4 DEF IInv, Ordered
  <2> QED
    BY <2>2, <2>3
<1>5. ASSUME Adds
      PROVE  Ordered' /\ \A s, t \in Records' : disk'[s].gen = disk'[t].gen => s = t
  <2>1. /\ slot \in Slot /\ pc = "commit" /\ healthy /\ pending # 0
        /\ disk'[slot].gen = generation + 1 /\ disk'[slot].body = pending
        /\ generation \in Nat /\ Records' = Records \cup {slot}
    BY <1>5 DEF Adds, IInv, TypeOK, Stands, Bounds, Writes
  <2>2. \A s \in Records : disk'[s].gen = disk[s].gen /\ disk'[s].body = disk[s].body
    BY <1>5 DEF Adds, SameRecords
  <2>3. \A s \in Records : /\ disk[s].gen \in Nat /\ disk[s].gen < generation + 1
                           /\ disk[s].body \in Nat /\ disk[s].body <= pending
    <3> SUFFICES ASSUME NEW s \in Records
                 PROVE  /\ disk[s].gen \in Nat /\ disk[s].gen < generation + 1
                        /\ disk[s].body \in Nat /\ disk[s].body <= pending
      OBVIOUS
    <3>1. disk[s].gen \in 0..MaxGeneration /\ disk[s].body \in 0..made
      BY DEF IInv, TypeOK, Records
    <3>2. disk[s].gen <= generation
      BY <2>1 DEF IInv, Mirror, Records
    <3>3. disk[s].body <= pending
      BY <2>1 DEF IInv, Ordered
    <3> QED
      BY <3>1, <3>2, <3>3, <2>1, <1>1 DEF Bounds
  <2>4. \A s, t \in Records' : disk'[s].gen = disk'[t].gen => s = t
    <3> SUFFICES ASSUME NEW s \in Records', NEW t \in Records', disk'[s].gen = disk'[t].gen
                 PROVE  s = t
      OBVIOUS
    <3>1. CASE s \in Records /\ t \in Records
      BY <3>1, <2>2 DEF IInv, Distinct
    <3>2. CASE s = slot \/ t = slot
      BY <3>2, <2>1, <2>2, <2>3
    <3> QED
      BY <3>1, <3>2, <2>1
  <2>5. \A s, t \in Records' : disk'[s].gen <= disk'[t].gen => disk'[s].body <= disk'[t].body
    <3> SUFFICES ASSUME NEW s \in Records', NEW t \in Records', disk'[s].gen <= disk'[t].gen
                 PROVE  disk'[s].body <= disk'[t].body
      OBVIOUS
    <3>1. CASE s \in Records /\ t \in Records
      BY <3>1, <2>2 DEF IInv, Ordered
    <3>2. CASE t = slot
      BY <3>2, <2>1, <2>2, <2>3, <1>1
    <3>3. CASE s = slot /\ t \in Records
      BY <3>3, <2>1, <2>2, <2>3
    <3> QED
      BY <3>1, <3>2, <3>3, <2>1
  <2>6. \A s \in Records' :
          /\ disk'[s].body # 0
          /\ pending' # 0 => disk'[s].body <= pending'
          /\ \A i \in 1..Len(queue') : disk'[s].body < queue'[i]
    <3> SUFFICES ASSUME NEW s \in Records'
                 PROVE  /\ disk'[s].body # 0
                        /\ pending' # 0 => disk'[s].body <= pending'
                        /\ \A i \in 1..Len(queue') : disk'[s].body < queue'[i]
      OBVIOUS
    <3>1. CASE s \in Records
      BY <3>1, <2>2, <1>2 DEF IInv, Ordered
    <3>2. CASE s = slot
      BY <3>2, <2>1, <1>1, <1>2 DEF IInv, InLine
    <3> QED
      BY <3>1, <3>2, <2>1
  <2> QED
    BY <2>4, <2>5, <2>6 DEF Ordered
<1> QED
  BY <1>3, <1>4, <1>5 DEF Keeps, Removes

\* A packet that is no record any more is answered.
LEMMA CardAccounts ==
  ASSUME Bounds, IInv, Keeps \/ Adds \/ Removes
  PROVE  /\ {disk[s].body : s \in Records}
              \subseteq {disk'[s].body : s \in Records'} \cup answered
         /\ Adds => pending \in {disk'[s].body : s \in Records'}
<1>1. CASE Keeps
  BY <1>1 DEF Keeps, SameRecords, Adds
<1>2. CASE Adds
  BY <1>2 DEF Adds, SameRecords
<1>3. CASE Removes
  <2>1. disk[slot].body \in answered
    BY <1>3 DEF Removes, IInv, Stands, Records
  <2> QED
    BY <2>1, <1>3 DEF Removes, SameRecords, Adds
<1> QED
  BY <1>1, <1>2, <1>3

LEMMA WriteIInv == ASSUME Bounds, IInv, Write PROVE IInv'
<1>1. /\ UNCHANGED <<made, queue, failed, slot, wifi, synced, healthy, answered, lost>>
      /\ pc \in Writes /\ disk' = [disk EXCEPT ![slot] = Written]
      /\ pending' = IF pc = "commit" THEN 0 ELSE pending
      /\ generation' = IF pc = "commit" THEN generation + 1 ELSE generation
      /\ pc' = CASE pc = "clear" -> "body" [] pc = "body" -> "commit"
                 [] pc = "commit" -> "replay" [] pc = "ack" -> "mount"
      /\ generations' = [generations EXCEPT ![slot] = CASE pc = "commit" -> generation + 1
                                                         [] pc = "ack" -> 0
                                                         [] OTHER -> @]
  BY DEF Write, link
<1>2. /\ disk' \in [Slot -> Slotful(made)]
      /\ disk'[slot] = Written /\ \A s \in Slot : s # slot => disk'[s] = disk[s]
      /\ Keeps \/ Adds \/ Removes
  BY <1>1, LeftIs DEF Left
<1>3. /\ made \in Nat /\ pending \in 0..made /\ slot \in Slot /\ healthy
      /\ generation \in 0..MaxGeneration /\ MaxGeneration \in Nat
      /\ generations \in [Slot -> 0..MaxGeneration]
      /\ pc = "commit" => generation < MaxGeneration
      /\ disk[slot] \in Slotful(made)
  BY <1>1, MadeIs DEF IInv, TypeOK, Stands, Bounds, Slotful
<1>4. /\ pc = "commit" => generations'[slot] = generation + 1
      /\ pc = "ack" => generations'[slot] = 0
      /\ pc \in {"clear", "body"} => generations'[slot] = generations[slot]
      /\ \A s \in Slot : s # slot => generations'[s] = generations[s]
  BY <1>1, <1>3
<1>5. TypeOK'
  <2>1. generations' \in [Slot -> 0..MaxGeneration] /\ generation' \in 0..MaxGeneration
    BY <1>1, <1>3
  <2>2. /\ pending' \in 0..made
        /\ pc' \in Writes \cup {"mount", "receive", "live", "append", "replay"}
    BY <1>1, <1>3 DEF Writes
  <2> QED
    BY <2>1, <2>2, <1>1, <1>2 DEF IInv, TypeOK, Slotful
<1>6. InLine' /\ Ordered' /\ \A s, t \in Records' : disk'[s].gen = disk'[t].gen => s = t
  BY <1>1, <1>2, CardOrder
<1>7. /\ pc \in {"clear", "ack"} => disk'[slot].gen = 0 /\ disk'[slot].body = disk[slot].body
      /\ pc = "body" => disk'[slot].gen = disk[slot].gen /\ disk'[slot].body = pending
      /\ pc = "commit" => disk'[slot].gen = generation + 1 /\ disk'[slot].body = disk[slot].body
  <2>1. CASE pc \in {"clear", "ack"}
    <3>1. disk'[slot] = [disk[slot] EXCEPT !.gen = 0, !.sum = 0]
      BY <2>1, <1>2 DEF Written
    <3> QED
      BY <2>1, <3>1, <1>3 DEF Slotful
  <2>2. CASE pc = "body"
    <3>1. disk'[slot] = [disk[slot] EXCEPT !.body = pending]
      BY <2>2, <1>2 DEF Written
    <3> QED
      BY <2>2, <3>1, <1>3 DEF Slotful
  <2>3. CASE pc = "commit"
    <3>1. disk'[slot] = [disk[slot] EXCEPT !.gen = generation + 1, !.sum = pending]
      BY <2>3, <1>2 DEF Written
    <3> QED
      BY <2>3, <3>1, <1>3 DEF Slotful
  <2> QED
    BY <2>1, <2>2, <2>3, <1>1 DEF Writes
<1>8. \A s \in Slot : s # slot => (Whole(s)' <=> Whole(s)) /\ disk'[s].gen = disk[s].gen
  BY <1>2 DEF Whole
<1>9. \A s \in Slot : /\ generations[s] \in Nat /\ generations[s] <= generation
                      /\ Whole(s) => generations[s] # 0
                      /\ generations[s] # 0 => disk[s].gen = generations[s]
  BY <1>3 DEF IInv, Mirror
<1>10. /\ pc \in {"clear", "body", "commit"} => generations[slot] = 0
       /\ pc = "body" => disk[slot].gen = 0
       /\ pc = "commit" => disk[slot].gen = 0
  BY DEF IInv, Stands
<1>11. Mirror'
  <2> SUFFICES ASSUME NEW s \in Slot
               PROVE  /\ Whole(s)' => generations'[s] # 0
                      /\ generations'[s] # 0 => disk'[s].gen = generations'[s]
                      /\ generations'[s] <= generation'
    BY DEF Mirror
  <2>1. CASE s # slot
    BY <2>1, <1>1, <1>3, <1>4, <1>8, <1>9
  <2>2. CASE s = slot /\ pc \in {"clear", "ack"}
    BY <2>2, <1>1, <1>3, <1>4, <1>7, <1>9, <1>10 DEF Whole
  <2>3. CASE s = slot /\ pc = "body"
    BY <2>3, <1>1, <1>3, <1>4, <1>7, <1>9, <1>10 DEF Whole
  <2>4. CASE s = slot /\ pc = "commit"
    BY <2>4, <1>1, <1>3, <1>4, <1>7
  <2> QED
    BY <2>1, <2>2, <2>3, <2>4, <1>1 DEF Writes
<1>12. \A s, t \in Slot : generations'[s] = generations'[t] /\ generations'[s] # 0 => s = t
  <2> SUFFICES ASSUME NEW s \in Slot, NEW t \in Slot,
                      generations'[s] = generations'[t], generations'[s] # 0
               PROVE  s = t
    OBVIOUS
  <2>1. \A r, q \in Slot : generations[r] = generations[q] /\ generations[r] # 0 => r = q
    BY <1>3 DEF IInv, Distinct
  <2>2. CASE pc = "commit"
    BY <2>1, <2>2, <1>3, <1>4, <1>9
  <2>3. CASE pc \in {"clear", "body", "ack"}
    BY <2>1, <2>3, <1>3, <1>4
  <2> QED
    BY <2>2, <2>3, <1>1 DEF Writes
<1>13. Stands'
  <2>1. CASE pc \in {"commit", "ack"}
    <3>1. pc' \in {"replay", "mount"}
      BY <2>1, <1>1
    <3> QED
      BY <3>1 DEF Stands, Writes
  <2>2. CASE pc = "clear"
    <3>1. pc' = "body" /\ pending # 0 /\ generation < MaxGeneration
      BY <2>2, <1>1 DEF IInv, Stands
    <3> QED
      BY <2>2, <3>1, <1>1, <1>3, <1>4, <1>7, <1>10 DEF Stands
  <2>3. CASE pc = "body"
    <3>1. pc' = "commit" /\ pending # 0 /\ generation < MaxGeneration
      BY <2>3, <1>1 DEF IInv, Stands
    <3> QED
      BY <2>3, <3>1, <1>1, <1>3, <1>4, <1>7, <1>10 DEF Stands
  <2> QED
    BY <2>1, <2>2, <2>3, <1>1 DEF Writes
<1>14. Accounted'
  <2>1. pending # pending' => pending \in {disk'[s].body : s \in Records'}
    <3> SUFFICES ASSUME pc = "commit" PROVE pending \in {disk'[s].body : s \in Records'}
      BY <1>1
    <3>1. disk'[slot].sum = pending /\ disk'[slot].gen # 0 /\ disk'[slot].body = pending
      <4>1. disk'[slot] = [disk[slot] EXCEPT !.gen = generation + 1, !.sum = pending]
        BY <1>2 DEF Written
      <4> QED
        BY <4>1, <1>3 DEF Slotful, IInv, Stands
    <3> QED
      BY <3>1, <1>3 DEF Records, Whole
  <2>2. {disk[s].body : s \in Records} \subseteq {disk'[s].body : s \in Records'} \cup answered
    BY <1>2, CardAccounts
  <2> QED
    BY <2>1, <2>2, <1>1 DEF IInv, Accounted
<1> QED
  BY <1>5, <1>6, <1>11, <1>12, <1>13, <1>14 DEF IInv, Distinct

LEMMA WriteFailsIInv == ASSUME Bounds, IInv, WriteFails PROVE IInv'
<1>1. PICK left \in Left : disk' = [disk EXCEPT ![slot] = left]
  BY DEF WriteFails
<1>2. /\ UNCHANGED <<made, queue, pending, failed, slot, wifi, synced, generations, generation,
                     answered, lost>>
      /\ healthy' = FALSE /\ pc' \in {"mount", "replay"}
  BY DEF WriteFails, link
<1>3. disk' \in [Slot -> Slotful(made)] /\ (Keeps \/ Adds \/ Removes)
  BY <1>1, LeftIs
<1>4. TypeOK'
  BY <1>2, <1>3 DEF IInv, TypeOK, Slotful
<1>5. InLine' /\ Ordered' /\ Distinct' /\ Mirror' /\ Stands'
  BY <1>2, <1>3, CardOrder DEF Distinct, Mirror, Stands, Writes
<1>6. Accounted'
  BY <1>2, <1>3, CardAccounts DEF IInv, Accounted
<1> QED
  BY <1>4, <1>5, <1>6 DEF IInv

LEMMA RebootIInv == ASSUME Bounds, IInv, Reboot PROVE IInv'
<1>1. PICK left \in Left : disk' = [disk EXCEPT ![slot] = left]
  BY DEF Reboot
<1>2. /\ UNCHANGED <<made, slot, answered>> /\ queue' = <<>> /\ pending' = 0
      /\ failed' = FALSE /\ wifi' = FALSE /\ synced' = FALSE
      /\ generations' = [s \in Slot |-> 0] /\ generation' = 0 /\ healthy' = FALSE
      /\ pc' = "mount" /\ lost' = lost \cup Range(queue) \cup ({pending} \ {0})
  BY DEF Reboot
<1>3. disk' \in [Slot -> Slotful(made)] /\ (Keeps \/ Adds \/ Removes)
  BY <1>1, LeftIs
<1>4. TypeOK'
  <2>1. /\ made \in Nat /\ pending \in 0..made /\ queue \in Seq(1..made) /\ lost \subseteq 1..made
    BY MadeIs DEF IInv, TypeOK
  <2>2. Range(queue) \subseteq 1..made
    BY <2>1, RangeOfSeq
  <2>3. lost' \subseteq 1..made
    <3>1. {pending} \ {0} \subseteq 1..made
      BY <2>1
    <3> QED
      BY <2>1, <2>2, <3>1, <1>2
  <2>4. /\ queue' \in Seq(1..made) /\ Len(queue') <= QueueSize /\ pending' \in 0..made
        /\ generations' \in [Slot -> 0..MaxGeneration] /\ generation' \in 0..MaxGeneration
    BY <2>1, <1>2 DEF Bounds
  <2> QED
    BY <2>3, <2>4, <1>2, <1>3 DEF IInv, TypeOK, Slotful
<1>5. InLine' /\ Ordered' /\ Distinct' /\ Mirror' /\ Stands'
  BY <1>2, <1>3, CardOrder DEF Distinct, Mirror, Stands, Writes
<1>6. Accounted'
  <2>1. \A n \in 1..made : n # 0
    BY MadeIs
  <2> QED
    BY <2>1, <1>2, <1>3, CardAccounts DEF IInv, Accounted
<1> QED
  BY <1>4, <1>5, <1>6 DEF IInv

\* What the card loses is counted as lost.
LEMMA RotIs ==
  ASSUME Bounds, IInv, NEW x \in Slot, Rot(x)
  PROVE  /\ x \in Records /\ disk' \in [Slot -> Slotful(made)]
         /\ Records' = Records \ {x} /\ SameRecords
         /\ \A s \in Slot : disk'[s].gen = disk[s].gen
         /\ x = slot => pc \notin {"body", "commit"}
         /\ \A s \in Slot : s # x => disk'[s] = disk[s]
<1>1. /\ disk \in [Slot -> Slotful(made)] /\ made \in Nat /\ Whole(x)
      /\ disk' = [disk EXCEPT ![x].body = 0]
  BY MadeIs DEF Rot, IInv, TypeOK, Slotful
<1>2. x \in Records /\ disk[x].body # 0 /\ disk[x].gen # 0 /\ disk[x].sum = disk[x].body
  BY <1>1 DEF Records, IInv, Ordered, Whole
<1>3. /\ disk'[x] \in Slotful(made) /\ disk'[x].gen = disk[x].gen
      /\ disk'[x].sum = disk[x].sum /\ disk'[x].body = 0
      /\ \A s \in Slot : s # x => disk'[s] = disk[s]
  <2>1. disk[x] \in Slotful(made)
    BY <1>1
  <2>2. disk'[x] = [disk[x] EXCEPT !.body = 0]
    BY <1>1
  <2> QED
    BY <2>1, <2>2, <1>1 DEF Slotful
<1>4. Records' = Records \ {x}
  BY <1>2, <1>3 DEF Records, Whole
<1>5. SameRecords
  BY <1>3, <1>4 DEF SameRecords, Records
<1>6. disk' \in [Slot -> Slotful(made)]
  BY <1>1, <1>3
<1>7. x = slot => pc \notin {"body", "commit"}
  BY <1>2 DEF IInv, Stands
<1> QED
  BY <1>2, <1>3, <1>4, <1>5, <1>6, <1>7

LEMMA RotIInv == ASSUME Bounds, IInv, NEW x \in Slot, Rot(x) PROVE IInv'
<1>1. /\ UNCHANGED <<made, queue, pending, failed, pc, slot, wifi, synced, generations,
                     generation, healthy, answered>>
      /\ lost' = lost \cup {disk[x].body}
  BY DEF Rot, link, task, journal
<1>2. /\ x \in Records /\ disk' \in [Slot -> Slotful(made)]
      /\ Records' = Records \ {x} /\ SameRecords
      /\ \A s \in Slot : disk'[s].gen = disk[s].gen
      /\ x = slot => pc \notin {"body", "commit"}
      /\ \A s \in Slot : s # x => disk'[s] = disk[s]
  BY RotIs
<1>3. disk[x].body \in 1..made
  BY <1>2, MadeIs DEF IInv, TypeOK, Ordered, Records
<1>4. TypeOK'
  <2>1. lost' \subseteq 1..made
    BY <1>1, <1>3 DEF IInv, TypeOK
  <2> QED
    BY <2>1, <1>1, <1>2 DEF IInv, TypeOK, Slotful
<1>5. \A s \in Records' :
        s \in Records /\ disk'[s].gen = disk[s].gen /\ disk'[s].body = disk[s].body
  BY <1>2 DEF SameRecords
<1>6. InLine' /\ Ordered' /\ Distinct'
  BY <1>1, <1>5 DEF IInv, InLine, Ordered, Distinct
<1>7. \A s \in Slot : (Whole(s)' => Whole(s)) /\ (Whole(s)' => s # x)
  BY <1>2 DEF Records, Whole
<1>8. Mirror'
  BY <1>1, <1>2, <1>7 DEF IInv, Mirror
<1>9. Stands'
  <2>1. slot \in Slot
    BY DEF IInv, TypeOK
  <2>2. Whole(slot)' => Whole(slot) /\ disk'[slot].body = disk[slot].body
    <3>1. slot' = slot
      BY <1>1
    <3> QED
      BY <2>1, <3>1, <1>2, <1>7 DEF Whole
  <2>4. pc = "commit" => disk'[slot].body = disk[slot].body
    BY <2>1, <1>2
  <2> QED
    BY <2>1, <2>2, <2>4, <1>1, <1>2 DEF IInv, Stands
<1>10. Accounted'
  <2>1. {disk[s].body : s \in Records}
          \subseteq {disk'[s].body : s \in Records'} \cup {disk[x].body}
    BY <1>2 DEF SameRecords
  <2> QED
    BY <2>1, <1>1 DEF IInv, Accounted
<1> QED
  BY <1>4, <1>6, <1>8, <1>9, <1>10 DEF IInv

-----------------------------------------------------------------------------
LEMMA NextIInv == ASSUME Bounds, IInv, [Next]_vars PROVE IInv'
<1>1. CASE Sample
  BY <1>1, SampleIInv
<1>2. CASE Connect \/ Sync
  BY <1>2, LinkIInv
<1>3. CASE Network
  BY <1>3, MountIInv, ReceiveIInv, LiveIInv, ReplayIInv, StoreIInv, WriteIInv DEF Network
<1>4. CASE WriteFails \/ Reboot
  BY <1>4, WriteFailsIInv, RebootIInv
<1>5. CASE \E s \in Slot : Rot(s)
  BY <1>5, RotIInv
<1>6. CASE UNCHANGED vars
  BY <1>6, StutterIInv
<1> QED
  BY <1>1, <1>2, <1>3, <1>4, <1>5, <1>6 DEF Next

LEMMA AlwaysIInv == ASSUME Bounds PROVE Spec => []IInv
<1>1. Init => IInv
  BY InitIInv
<1>2. IInv /\ [Next]_vars => IInv'
  BY NextIInv
<1> QED
  BY <1>1, <1>2, PTL DEF Spec

\* The packets, the card and the journal have their types.
THEOREM UplinkTypeOK == ASSUME Bounds PROVE Spec => []TypeOK
<1>1. IInv => TypeOK
  BY DEF IInv
<1> QED
  BY <1>1, AlwaysIInv, PTL

\* Every packet that was made is waiting, stored, answered or counted as lost.
THEOREM NoneIsForgotten == ASSUME Bounds PROVE Spec => []NothingForgotten
<1>1. IInv => NothingForgotten
  BY LogIs DEF IInv, Accounted, NothingForgotten
<1> QED
  BY <1>1, AlwaysIInv, PTL

\* The initial card is the empty log.
LEMMA InitLog == ASSUME Bounds, Init PROVE Abstract!Init
<1>1. Records = {}
  BY DEF Init, Records, Whole, Empty
<1>2. Log \in Seq(Nat) /\ Range(Log) = {}
  BY <1>1, InitIInv, LogIs
<1>3. Log = <<>>
  <2>1. Len(Log) # 0 => Log[1] \in Range(Log)
    BY <1>2 DEF Range
  <2>2. Len(Log) = 0
    BY <2>1, <1>2
  <2> QED
    BY <2>2, <1>2
<1> QED
  BY <1>3 DEF Init, Abstract!Init

LEMMA LostGrows == ASSUME [Next]_vars PROVE lost \subseteq lost'
BY DEF Next, Sample, Connect, Sync, Network, Mount, Receive, Live, Replay, Store, Write,
       WriteFails, Reboot, Rot, vars

\* Each step of the uplink is one of the log.
LEMMA StepLog ==
  ASSUME Bounds, IInv, [Next]_vars
  PROVE  [Abstract!Next]_<<Log, answered, lost>>
<1>0. lost \subseteq lost'
  BY LostGrows
<1>1. ASSUME disk' = disk, answered' = answered PROVE Abstract!Next
  BY <1>0, <1>1, SameDisk DEF Abstract!Next, Abstract!Lose
<1>2. ASSUME NEW n \in 1..made, disk' = disk, answered' = answered \cup {n}
      PROVE  Abstract!Next
  <2>1. n \in Packet
    BY <1>2 DEF IInv, TypeOK, Packet, Bounds
  <2>2. Abstract!Answer(n)
    BY <1>2, SameDisk DEF Abstract!Answer
  <2> QED
    BY <1>0, <2>1, <2>2 DEF Abstract!Next
<1>3. ASSUME NEW left \in Left, disk' = [disk EXCEPT ![slot] = left], answered' = answered
      PROVE  [Abstract!Next]_<<Log, answered, lost>>
  <2>1. disk' \in [Slot -> Slotful(made)] /\ (Keeps \/ Adds \/ Removes)
    BY <1>3, LeftIs
  <2>2. CASE Keeps
    BY <1>0, <2>1, <2>2, <1>3, KeepsLog, MadeIs DEF Abstract!Next, Abstract!Lose
  <2>3. CASE Adds
    <3>1. PICK n \in Packet : (Log # <<>> => Last(Log) <= n) /\ Log' = Append(Log, n)
      BY <2>1, <2>3, AddsToLog
    <3>2. Abstract!Put(n)
      BY <3>1, <1>3 DEF Abstract!Put, Abstract!Last, Last
    <3> QED
      BY <1>0, <3>2 DEF Abstract!Next
  <2>4. CASE Removes
    BY <1>0, <2>1, <2>4, <1>3, RemovesFromLog DEF Abstract!Next, Abstract!Drop
  <2> QED
    BY <2>1, <2>2, <2>3, <2>4
<1>4. CASE Sample \/ Connect \/ Sync
  BY <1>1, <1>4 DEF Sample, Connect, Sync
<1>8. CASE UNCHANGED vars
  BY <1>1, <1>8 DEF vars
<1>5. CASE Network
  <2>1. CASE (\E works \in BOOLEAN : Mount(works)) \/ Receive \/ Store
    BY <1>1, <2>1 DEF Mount, Receive, Store
  <2>2. ASSUME NEW status \in Statuses, Live(status) PROVE [Abstract!Next]_<<Log, answered, lost>>
    <3>1. /\ disk' = disk
          /\ answered' = answered \/ (pending # 0 /\ answered' = answered \cup {pending})
      BY <2>2 DEF Live
    <3>2. pending # 0 => pending \in 1..made
      BY MadeIs DEF IInv, TypeOK
    <3> QED
      BY <3>1, <3>2, <1>1, <1>2
  <2>3. ASSUME NEW status \in Statuses, Replay(status) PROVE [Abstract!Next]_<<Log, answered, lost>>
    <3>1. /\ disk' = disk
          /\ \/ answered' = answered
             \/ Replays /\ Readable /\ answered' = answered \cup {disk[Oldest].body}
      BY <2>3 DEF Replay
    <3>2. Replays /\ Readable => disk[Oldest].body \in 1..made
      BY ReplayIs
    <3> QED
      BY <3>1, <3>2, <1>1, <1>2
  <2>4. CASE Write
    <3>1. Written \in Left /\ disk' = [disk EXCEPT ![slot] = Written] /\ answered' = answered
      BY <2>4 DEF Write, Left
    <3> QED
      BY <3>1, <1>3
  <2> QED
    BY <2>1, <2>2, <2>3, <2>4, <1>5 DEF Network
<1>6. CASE WriteFails \/ Reboot
  BY <1>3, <1>6 DEF WriteFails, Reboot
<1>7. ASSUME NEW x \in Slot, Rot(x) PROVE [Abstract!Next]_<<Log, answered, lost>>
  <2>1. PICK i \in 1..Len(Log) : Log' = RemoveAt(Log, i) /\ Log[i] = disk[x].body
    BY <1>7, RotIs, RotsFromLog
  <2>2. answered' = answered /\ disk[x].body \in lost'
    BY <1>7 DEF Rot
  <2>3. Abstract!Rot(i)
    BY <2>1, <2>2 DEF Abstract!Rot, Abstract!RemoveAt, RemoveAt
  <2> QED
    BY <1>0, <2>1, <2>3 DEF Abstract!Next
<1> QED
  BY <1>4, <1>5, <1>6, <1>7, <1>8 DEF Next

\* Through failed writes and reboots at any point the card is a log.
THEOREM UplinkIsLog == ASSUME Bounds PROVE Spec => ImplementsRecordLog
<1>1. Init => Abstract!Init
  BY InitLog
<1>2. IInv /\ [Next]_vars => [Abstract!Next]_<<Log, answered, lost>>
  BY StepLog
<1> QED
  BY <1>1, <1>2, AlwaysIInv, PTL DEF Spec, ImplementsRecordLog, Abstract!Spec
==============================================================================
