-------------------------- MODULE CppGatewayProofs --------------------------
(***************************************************************************)
(* Theorems about CppGateway, for every number of connections, keys and     *)
(* budgets, every limit, cost and window.  The lemmas about the  *)
(* limiter's window and about sums and products come first.                 *)
(***************************************************************************)
EXTENDS CppGateway, TLAPS, SequenceTheorems, FiniteSetTheorems

\* What is left of a window is a sequence of times, whatever is in it.
LEMMA RecentType ==
    ASSUME NEW w \in Seq(Nat)
    PROVE  Recent(w) \in Seq(Nat)
<1> DEFINE Old == {i \in 1..Len(w) : w[i] <= now - Window}
           old == Cardinality(Old)
<1>1. Len(w) \in Nat
  BY LenProperties
<1>2. old \in Nat
  <2>1. IsFiniteSet(1..Len(w))
    BY <1>1, FS_Interval
  <2>2. IsFiniteSet(Old)
    BY <2>1, FS_Subset
  <2> QED BY <2>2, FS_CardinalityType
<1>3. \A i \in old + 1 .. Len(w) : w[i] \in Nat
  BY <1>1, <1>2, ElementOfSeq
<1>4. Recent(w) = SubSeq(w, old + 1, Len(w))
  BY DEF Recent
<1> HIDE DEF old
<1> QED BY <1>1, <1>2, <1>3, <1>4, SubSeqProperties

InOrder(w) == \A i, j \in 1..Len(w) : i <= j => w[i] <= w[j]

\* Of a window in clock order exactly the entries that are too old are
\* dropped (the while loop of check_and_consume).
LEMMA RecentIsSuffix ==
    ASSUME NEW w \in Seq(Nat), InOrder(w), now \in Nat
    PROVE  \E m \in 0..Len(w) :
              /\ Len(Recent(w)) = Len(w) - m
              /\ \A i \in 1..Len(w) - m : Recent(w)[i] = w[m + i]
              /\ \A i \in 1..m : w[i] <= now - Window
<1> DEFINE Old == {i \in 1..Len(w) : w[i] <= now - Window}
           old == Cardinality(Old)
<1>1. Len(w) \in Nat /\ \A i \in 1..Len(w) : w[i] \in Nat
  BY LenProperties, ElementOfSeq
<1>2. IsFiniteSet(Old) /\ old \in Nat /\ old <= Len(w)
  <2>1. IsFiniteSet(1..Len(w)) /\ Cardinality(1..Len(w)) = Len(w)
    <3>1. 1 \in Int /\ Len(w) \in Int
      BY <1>1
    <3>2. /\ IsFiniteSet(1..Len(w))
          /\ Cardinality(1..Len(w)) = IF 1 > Len(w) THEN 0 ELSE Len(w) - 1 + 1
      BY <3>1, FS_Interval
    <3> QED BY <1>1, <3>2
  <2>2. Old \subseteq 1..Len(w)
    OBVIOUS
  <2> HIDE DEF Old
  <2>3. IsFiniteSet(Old) /\ Cardinality(Old) <= Len(w)
    BY <2>1, <2>2, FS_Subset
  <2> QED BY <2>3, FS_CardinalityType
<1>3. \A i, j \in 1..Len(w) : i <= j /\ j \in Old => i \in Old
  BY <1>1, CppAssumption DEF InOrder, CppAssumption
<1>4. ASSUME NEW i \in 1..old PROVE i \in Old
  <2> SUFFICES ASSUME i \notin Old PROVE FALSE
    OBVIOUS
  <2>1. Old \subseteq 1..(i - 1)
    <3> SUFFICES ASSUME NEW j \in Old PROVE j \in 1..(i - 1)
      OBVIOUS
    <3>1. i \in 1..Len(w) /\ j \in 1..Len(w)
      BY <1>1, <1>2
    <3>2. ~(i <= j)
      BY <1>3, <3>1
    <3> QED BY <3>1, <3>2
  <2>2. IsFiniteSet(1..(i - 1)) /\ Cardinality(1..(i - 1)) = i - 1
    <3>1. 1 \in Int /\ i - 1 \in Int /\ i >= 1
      BY <1>2
    <3>2. /\ IsFiniteSet(1..(i - 1))
          /\ Cardinality(1..(i - 1)) = IF 1 > i - 1 THEN 0 ELSE (i - 1) - 1 + 1
      BY <3>1, FS_Interval
    <3> QED BY <3>1, <3>2
  <2> HIDE DEF Old
  <2>3. Cardinality(Old) <= i - 1
    <3>1. Cardinality(Old) <= Cardinality(1..(i - 1))
      BY <2>1, <2>2, FS_Subset, Zenon
    <3> QED BY <2>2, <3>1
  <2> QED BY <1>2, <2>3
<1>5. Recent(w) = SubSeq(w, old + 1, Len(w))
  BY DEF Recent
<1>6. \A i \in 1..old : w[i] <= now - Window
  BY <1>4
<1> HIDE DEF old
<1>7. \A i \in old + 1 .. Len(w) : w[i] \in Nat
  BY <1>1, <1>2
<1>8. /\ Len(Recent(w)) = Len(w) - old
      /\ \A i \in 1..Len(w) - old : Recent(w)[i] = w[old + i]
  <2>1. /\ Len(SubSeq(w, old + 1, Len(w)))
             = IF old + 1 <= Len(w) THEN Len(w) - (old + 1) + 1 ELSE 0
        /\ \A i \in 1..Len(SubSeq(w, old + 1, Len(w))) :
              SubSeq(w, old + 1, Len(w))[i] = w[old + 1 + i - 1]
    BY <1>1, <1>2, <1>7, SubSeqProperties
  <2> QED BY <1>1, <1>2, <1>5, <2>1
<1> QED BY <1>1, <1>2, <1>6, <1>8

LEMMA ProductMonotone ==
    \A m, a, b \in Nat : a <= b => m * a <= m * b
OBVIOUS

LEMMA ProductSuccessor ==
    \A m, a \in Nat : m * (a + 1) = m * a + m
OBVIOUS

-----------------------------------------------------------------------------
LEMMA IdleType == IdleThread \in Thread
BY CppAssumption DEF CppAssumption, IdleThread, Thread

LEMMA TypeInit == Init => TypeOK
<1>1. <<>> \in Seq(Nat)
  BY EmptySeq
<1> QED BY <1>1, IdleType DEF Init, TypeOK

LEMMA TypeStep == TypeOK /\ [Next]_vars => TypeOK'
<1> SUFFICES ASSUME TypeOK, [Next]_vars PROVE TypeOK'
  OBVIOUS
<1>1. ASSUME NEW t \in Threads, NEW k \in Keys, NEW p \in Projects, NEW o \in Orgs,
             Consume(t, k, p, o)
      PROVE  TypeOK'
  <2>1. window[k] \in Seq(Nat) /\ admitted[k] \in Seq(Nat) /\ now \in Nat
    BY DEF TypeOK
  <2>2. Recent(window[k]) \in Seq(Nat)
    BY <2>1, RecentType
  <2>3. Append(Recent(window[k]), now) \in Seq(Nat) /\ Append(admitted[k], now) \in Seq(Nat)
    BY <2>1, <2>2, AppendProperties
  <2>4. [pc |-> "limited", project |-> p, org |-> o] \in Thread
    BY DEF Thread
  <2>5. window' \in [Keys -> Seq(Nat)]
    BY <1>1, <2>2, <2>3 DEF Consume, TypeOK
  <2>6. admitted' \in [Keys -> Seq(Nat)] /\ thread' \in [Threads -> Thread]
    BY <1>1, <2>3, <2>4 DEF Consume, Goto, TypeOK
  <2> QED BY <1>1, <2>5, <2>6 DEF Consume, TypeOK
<1>2. ASSUME NEW t \in Threads, Preflight(t) PROVE TypeOK'
  <2>1. [thread[t] EXCEPT !.pc = "upstream"] \in Thread
    BY DEF TypeOK, Thread
  <2>2. thread' \in [Threads -> Thread]
    BY <1>2, <2>1, IdleType DEF Preflight, Goto, Finish, TypeOK
  <2> QED BY <1>2, <2>2 DEF Preflight, TypeOK
<1>3. ASSUME NEW t \in Threads, RecordSpend(t) PROVE TypeOK'
  <2>1. PICK c \in 0..MaxCost :
          spend' = [l \in Capped |-> IF l \in Charged(thread[t]) THEN spend[l] + c
                                                                ELSE spend[l]]
    BY <1>3 DEF RecordSpend, SpentAfter
  <2>2. c \in Nat
    BY <2>1, CppAssumption DEF CppAssumption
  <2>3. spend' \in [Capped -> Nat]
    BY <2>1, <2>2 DEF TypeOK
  <2>4. thread' \in [Threads -> Thread]
    BY <1>3, IdleType DEF RecordSpend, Finish, Goto, TypeOK
  <2> QED BY <1>3, <2>3, <2>4 DEF RecordSpend, TypeOK
<1>4. CASE Tick
  BY <1>4 DEF Tick, TypeOK
<1>5. CASE Restart
  <2>1. <<>> \in Seq(Nat)
    BY EmptySeq
  <2> QED BY <1>5, <2>1, IdleType DEF Restart, TypeOK
<1>6. CASE UNCHANGED vars
  BY <1>6 DEF vars, TypeOK
<1> QED BY <1>1, <1>2, <1>3, <1>4, <1>5, <1>6 DEF Next

\* Every variable keeps its type, for every number of connections and keys.
THEOREM TypeCorrect == Spec => []TypeOK
BY TypeInit, TypeStep, PTL DEF Spec


-----------------------------------------------------------------------------
\* Connections whose cost will be charged to the budget of l.
Serving(l) == {t \in Threads : thread[t].pc = "upstream" /\ l \in Charged(thread[t])}

\* The invariant behind SpendBounded: what is spent and what the admitted
\* requests can still spend stay below the limit plus one cost per connection.
SpendCovered ==
    \A l \in Capped :
        spend[l] + MaxCost * Cardinality(Serving(l))
            < Limit[l] + MaxCost * Cardinality(Threads)

LEMMA ServingFinite ==
    ASSUME NEW S \in SUBSET Threads
    PROVE  /\ IsFiniteSet(S) /\ Cardinality(S) \in Nat
           /\ Cardinality(Threads) \in Nat
           /\ Cardinality(S) <= Cardinality(Threads)
           /\ MaxCost * Cardinality(S) \in Nat
           /\ MaxCost * Cardinality(S) <= MaxCost * Cardinality(Threads)
<1>1. IsFiniteSet(Threads) /\ MaxCost \in Nat
  BY CppAssumption DEF CppAssumption
<1>2. IsFiniteSet(S) /\ Cardinality(S) <= Cardinality(Threads)
  BY <1>1, FS_Subset
<1>3. Cardinality(S) \in Nat /\ Cardinality(Threads) \in Nat
  BY <1>1, <1>2, FS_CardinalityType
<1> QED BY <1>1, <1>2, <1>3, ProductMonotone

LEMMA ServingStep ==
    ASSUME TypeOK, NEW l \in Capped, NEW t \in Threads, NEW d, Goto(t, d)
    PROVE  Serving(l)' = IF d.pc = "upstream" /\ l \in Charged(d)
                         THEN Serving(l) \cup {t} ELSE Serving(l) \ {t}
<1>1. /\ thread'[t] = d
      /\ \A u \in Threads \ {t} : thread'[u] = thread[u]
  BY DEF Goto, TypeOK
<1>2. \A u \in Threads : u \in Serving(l)'
                          <=> thread'[u].pc = "upstream" /\ l \in Charged(thread'[u])
  BY DEF Serving, Charged
<1>3. \A u \in Threads : u \in Serving(l)
                          <=> thread[u].pc = "upstream" /\ l \in Charged(thread[u])
  BY DEF Serving
<1>4. Serving(l) \subseteq Threads /\ Serving(l)' \subseteq Threads
  BY DEF Serving
<1> QED BY <1>1, <1>2, <1>3, <1>4

\* Where less than the limit is spent on l, its cover holds whatever is being served.
LEMMA CoveredUnderLimit ==
    ASSUME NEW l \in Capped, NEW n \in Nat, n < Limit[l], NEW S \in SUBSET Threads
    PROVE  n + MaxCost * Cardinality(S) < Limit[l] + MaxCost * Cardinality(Threads)
<1>1. Limit[l] \in Nat
  BY CppAssumption DEF CppAssumption
<1>2. /\ MaxCost * Cardinality(S) \in Nat
      /\ MaxCost * Cardinality(S) <= MaxCost * Cardinality(Threads)
  BY ServingFinite
<1>3. MaxCost * Cardinality(Threads) \in Nat
  BY ServingFinite
<1> QED BY <1>1, <1>2, <1>3

LEMMA SpendInit == Init => SpendCovered
<1> SUFFICES ASSUME Init, NEW l \in Capped
             PROVE  spend[l] + MaxCost * Cardinality(Serving(l))
                       < Limit[l] + MaxCost * Cardinality(Threads)
  BY DEF SpendCovered
<1>1. spend[l] = 0 /\ 0 < Limit[l] /\ Serving(l) \subseteq Threads
  BY CppAssumption DEF CppAssumption, Init, Serving
<1> QED BY <1>1, CoveredUnderLimit

LEMMA SpendStep == TypeOK /\ SpendCovered /\ [Next]_vars => SpendCovered'
<1> SUFFICES ASSUME TypeOK, SpendCovered, [Next]_vars, NEW l \in Capped
             PROVE  spend'[l] + MaxCost * Cardinality(Serving(l)')
                       < Limit[l] + MaxCost * Cardinality(Threads)
  BY DEF SpendCovered
<1>1. /\ spend[l] \in Nat
      /\ spend[l] + MaxCost * Cardinality(Serving(l))
            < Limit[l] + MaxCost * Cardinality(Threads)
      /\ Serving(l) \subseteq Threads /\ Serving(l)' \subseteq Threads
      /\ Limit[l] \in Nat \ {0}
      /\ MaxCost \in Nat
  BY CppAssumption DEF CppAssumption, TypeOK, SpendCovered, Serving
<1>2. ASSUME NEW t \in Threads, Preflight(t)
      PROVE  spend'[l] + MaxCost * Cardinality(Serving(l)')
                < Limit[l] + MaxCost * Cardinality(Threads)
  <2>1. spend' = spend
    BY <1>2 DEF Preflight
  <2>2. CASE spend[l] < Limit[l]
    BY <1>1, <2>1, <2>2, CoveredUnderLimit
  <2>3. CASE ~(spend[l] < Limit[l])
    <3>1. CASE l \in Charged(thread[t])
      <4>1. Finish(t) /\ thread[t].pc = "limited"
        BY <1>2, <2>3, <3>1 DEF Preflight, Affordable
      <4>2. Serving(l)' = Serving(l) \ {t} /\ t \notin Serving(l)
        BY <4>1, ServingStep DEF Finish, IdleThread, Serving
      <4> QED BY <1>1, <2>1, <4>2
    <3>2. CASE l \notin Charged(thread[t])
      <4>1. Goto(t, [thread[t] EXCEPT !.pc = "upstream"]) \/ Goto(t, IdleThread)
        BY <1>2 DEF Preflight, Finish
      <4>2. t \notin Serving(l)
        BY <3>2 DEF Serving
      <4>3. l \notin Charged([thread[t] EXCEPT !.pc = "upstream"])
        BY <3>2 DEF Charged, TypeOK, Thread
      <4>4. Serving(l)' = Serving(l) \ {t}
        BY <4>1, <4>3, ServingStep DEF IdleThread
      <4> QED BY <1>1, <2>1, <4>2, <4>4
    <3> QED BY <3>1, <3>2
  <2> QED BY <2>2, <2>3
<1>3. ASSUME NEW t \in Threads, RecordSpend(t)
      PROVE  spend'[l] + MaxCost * Cardinality(Serving(l)')
                < Limit[l] + MaxCost * Cardinality(Threads)
  <2>1. PICK c \in 0..MaxCost :
          spend'[l] = IF l \in Charged(thread[t]) THEN spend[l] + c ELSE spend[l]
    BY <1>3 DEF RecordSpend, SpentAfter
  <2>2. Serving(l)' = Serving(l) \ {t}
    BY <1>3, ServingStep DEF RecordSpend, Finish, IdleThread
  <2>3. CASE t \in Serving(l)
    <3>1. IsFiniteSet(Serving(l))
      BY <1>1, ServingFinite
    <3>2. Cardinality(Serving(l)) = Cardinality(Serving(l)') + 1
      <4>1. Cardinality(Serving(l) \ {t}) = Cardinality(Serving(l)) - 1
        BY <2>3, <3>1, FS_RemoveElement
      <4>2. Cardinality(Serving(l)) \in Nat
        BY <1>1, ServingFinite
      <4> QED BY <2>2, <4>1, <4>2
    <3>3. Cardinality(Serving(l)') \in Nat
      BY <1>1, ServingFinite
    <3>4. MaxCost * Cardinality(Serving(l)) = MaxCost * Cardinality(Serving(l)') + MaxCost
      BY <1>1, <3>2, <3>3, ProductSuccessor
    <3>5. spend'[l] \in Nat /\ spend'[l] <= spend[l] + MaxCost
      BY <1>1, <2>1
    <3>6. /\ MaxCost * Cardinality(Serving(l)') \in Nat
          /\ MaxCost * Cardinality(Threads) \in Nat
      BY <1>1, ServingFinite
    <3> QED BY <1>1, <3>4, <3>5, <3>6
  <2>4. CASE t \notin Serving(l)
    <3>1. l \notin Charged(thread[t])
      BY <1>3, <2>4 DEF RecordSpend, Serving
    <3>2. Serving(l)' = Serving(l)
      BY <2>2, <2>4
    <3> QED BY <1>1, <2>1, <3>1, <3>2
  <2> QED BY <2>3, <2>4
<1>4. CASE Restart
  <2>1. spend'[l] = 0
    BY <1>4 DEF Restart
  <2> QED BY <1>1, <2>1, CoveredUnderLimit
<1>5. CASE UNCHANGED spend /\ Serving(l)' = Serving(l)
  BY <1>1, <1>5
<1>6. ASSUME NEW t \in Threads, NEW k \in Keys, NEW p \in Projects, NEW o \in Orgs,
             Consume(t, k, p, o)
      PROVE  UNCHANGED spend /\ Serving(l)' = Serving(l)
  <2>1. CASE Goto(t, [pc |-> "limited", project |-> p, org |-> o])
    <3>1. Serving(l)' = Serving(l) \ {t}
      BY <2>1, ServingStep
    <3>2. t \notin Serving(l)
      BY <1>6 DEF Consume, Serving
    <3> QED BY <1>6, <3>1, <3>2 DEF Consume
  <2>2. CASE UNCHANGED thread
    BY <1>6, <2>2 DEF Consume, Serving, Charged
  <2> QED BY <1>6, <2>1, <2>2 DEF Consume
<1>7. Tick \/ UNCHANGED vars => UNCHANGED spend /\ Serving(l)' = Serving(l)
  BY DEF Tick, vars, Serving, Charged
<1> QED BY <1>2, <1>3, <1>4, <1>5, <1>6, <1>7 DEF Next

LEMMA SpendImplied == TypeOK /\ SpendCovered => SpendBounded
<1> SUFFICES ASSUME TypeOK, SpendCovered, NEW l \in Capped
             PROVE  spend[l] < Limit[l] + MaxCost * Cardinality(Threads)
  BY DEF SpendBounded
<1>1. /\ spend[l] \in Nat /\ Limit[l] \in Nat
      /\ spend[l] + MaxCost * Cardinality(Serving(l))
            < Limit[l] + MaxCost * Cardinality(Threads)
      /\ Serving(l) \subseteq Threads
  BY CppAssumption DEF CppAssumption, TypeOK, SpendCovered, Serving
<1>2. /\ MaxCost * Cardinality(Serving(l)) \in Nat
      /\ MaxCost * Cardinality(Threads) \in Nat
  BY <1>1, ServingFinite
<1> QED BY <1>1, <1>2

\* A HARD budget is overspent by less than the connections served at once can
\* cost (budget_manager.cpp:41-135), however many there are of both.
THEOREM SpendIsBounded == Spec => []SpendBounded
BY TypeCorrect, SpendInit, SpendStep, SpendImplied, PTL DEF Spec

-----------------------------------------------------------------------------
\* At time n the window w of a key holds the end of the history a of its
\* admissions, and what is no longer in it is too old.
TailOf(w, a, n) ==
    /\ InOrder(a)
    /\ \A i \in 1..Len(a) : a[i] <= n
    /\ Len(w) <= Len(a)
    /\ \A i \in 1..Len(w) : w[i] = a[Len(a) - Len(w) + i]
    /\ \A i \in 1..(Len(a) - Len(w)) : a[i] <= n - Window

Slides(a) ==
    \A i \in 1..(Len(a) - RateLimit) : a[i + RateLimit] - a[i] >= Window

\* The invariant behind WindowSlides.
WindowIsTail == \A k \in Keys : TailOf(window[k], admitted[k], now) /\ Slides(admitted[k])

\* Dropping what is too old leaves the end of the history.
LEMMA RecentTail ==
    ASSUME now \in Nat, NEW w \in Seq(Nat), NEW a \in Seq(Nat), TailOf(w, a, now)
    PROVE  Recent(w) \in Seq(Nat) /\ TailOf(Recent(w), a, now)
<1>1. /\ Len(w) \in Nat /\ Len(a) \in Nat
      /\ \A i \in 1..Len(a) : a[i] \in Nat
  BY LenProperties, ElementOfSeq
<1>2. InOrder(w)
  <2> SUFFICES ASSUME NEW i \in 1..Len(w), NEW j \in 1..Len(w), i <= j
               PROVE  w[i] <= w[j]
    BY DEF InOrder
  <2> DEFINE d == Len(a) - Len(w)
  <2>1. d \in Nat /\ d + Len(w) = Len(a)
    BY <1>1 DEF TailOf
  <2>2. w[i] = a[d + i] /\ w[j] = a[d + j]
    BY DEF TailOf
  <2> HIDE DEF d
  <2>3. d + i \in 1..Len(a) /\ d + j \in 1..Len(a) /\ d + i <= d + j
    <3>1. Len(w) \in Nat /\ Len(a) \in Nat
      BY <1>1
    <3>2. i \in Nat /\ j \in Nat /\ 1 <= i /\ 1 <= j /\ i <= Len(w) /\ j <= Len(w)
      BY <3>1
    <3> QED BY <2>1, <3>1, <3>2
  <2> QED BY <2>2, <2>3 DEF TailOf, InOrder
<1>3. PICK m \in 0..Len(w) :
          /\ Len(Recent(w)) = Len(w) - m
          /\ \A i \in 1..Len(w) - m : Recent(w)[i] = w[m + i]
          /\ \A i \in 1..m : w[i] <= now - Window
  BY <1>2, RecentIsSuffix
<1>4. m \in Nat /\ m <= Len(w)
  BY <1>1, <1>3
<1>5. \A i \in 1..(Len(a) - Len(Recent(w))) : a[i] <= now - Window
  <2> SUFFICES ASSUME NEW i \in 1..(Len(a) - Len(Recent(w)))
               PROVE  a[i] <= now - Window
    OBVIOUS
  <2>1. CASE i \in 1..(Len(a) - Len(w))
    BY <2>1 DEF TailOf
  <2>2. CASE i \notin 1..(Len(a) - Len(w))
    <3>1. i - (Len(a) - Len(w)) \in 1..m
      BY <1>1, <1>3, <1>4, <2>2 DEF TailOf
    <3>2. i - (Len(a) - Len(w)) \in 1..Len(w)
      BY <1>1, <1>4, <3>1
    <3>3. w[i - (Len(a) - Len(w))] = a[Len(a) - Len(w) + (i - (Len(a) - Len(w)))]
      BY <3>2 DEF TailOf
    <3>4. Len(a) - Len(w) + (i - (Len(a) - Len(w))) = i
      BY <1>1, <1>3, <1>4
    <3> QED BY <1>3, <3>1, <3>3, <3>4
  <2> QED BY <2>1, <2>2
<1>6. \A i \in 1..Len(Recent(w)) : Recent(w)[i] = a[Len(a) - Len(Recent(w)) + i]
  <2> SUFFICES ASSUME NEW i \in 1..Len(Recent(w))
               PROVE  Recent(w)[i] = a[Len(a) - Len(Recent(w)) + i]
    OBVIOUS
  <2>1. Recent(w)[i] = w[m + i] /\ m + i \in 1..Len(w)
    BY <1>1, <1>3, <1>4
  <2>2. w[m + i] = a[Len(a) - Len(w) + (m + i)]
    BY <2>1 DEF TailOf
  <2>3. Len(a) - Len(w) + (m + i) = Len(a) - Len(Recent(w)) + i
    BY <1>1, <1>3, <1>4
  <2> QED BY <2>1, <2>2, <2>3
<1>7. Recent(w) \in Seq(Nat)
  BY RecentType
<1> QED BY <1>1, <1>3, <1>4, <1>5, <1>6, <1>7 DEF TailOf

\* An admission with room in the window keeps both.
LEMMA AdmittedTail ==
    ASSUME now \in Nat, NEW w \in Seq(Nat), NEW a \in Seq(Nat),
           TailOf(w, a, now), Slides(a), Len(w) < RateLimit
    PROVE  TailOf(Append(w, now), Append(a, now), now) /\ Slides(Append(a, now))
<1> DEFINE x == Append(w, now)
           b == Append(a, now)
<1>1. /\ Len(w) \in Nat /\ Len(a) \in Nat
      /\ \A i \in 1..Len(a) : a[i] \in Nat
      /\ RateLimit \in Nat \ {0} /\ Window \in Nat \ {0}
  BY LenProperties, ElementOfSeq, CppAssumption DEF CppAssumption
<1>2. /\ Len(x) = Len(w) + 1 /\ x[Len(w) + 1] = now
      /\ \A i \in 1..Len(w) : x[i] = w[i]
  BY AppendProperties
<1>3. /\ Len(b) = Len(a) + 1 /\ b[Len(a) + 1] = now
      /\ \A i \in 1..Len(a) : b[i] = a[i]
  BY AppendProperties
<1> HIDE DEF x, b
<1>4. InOrder(b) /\ \A i \in 1..Len(b) : b[i] <= now
  <2>1. \A i \in 1..Len(b) : i \in 1..Len(a) \/ i = Len(a) + 1
    BY <1>1, <1>3
  <2>2. \A i \in 1..Len(a) : b[i] = a[i] /\ a[i] <= now
    BY <1>3 DEF TailOf
  <2>3. ASSUME NEW i \in 1..Len(b) PROVE b[i] <= now
    <3>1. CASE i \in 1..Len(a)
      BY <2>2, <3>1
    <3>2. CASE i = Len(a) + 1
      BY <1>3, <3>2
    <3> QED BY <2>1, <3>1, <3>2
  <2>4. ASSUME NEW i \in 1..Len(b), NEW j \in 1..Len(b), i <= j
        PROVE  b[i] <= b[j]
    <3>1. CASE j \in 1..Len(a)
      <4>1. i \in 1..Len(a)
        BY <1>1, <1>3, <2>4, <3>1
      <4> QED BY <1>3, <2>4, <3>1, <4>1 DEF TailOf, InOrder
    <3>2. CASE j = Len(a) + 1
      BY <1>3, <2>3, <3>2
    <3> QED BY <2>1, <3>1, <3>2
  <2> QED BY <2>3, <2>4 DEF InOrder
<1>5. Len(b) - Len(x) = Len(a) - Len(w) /\ Len(x) <= Len(b)
  BY <1>1, <1>2, <1>3 DEF TailOf
<1>6. \A i \in 1..(Len(b) - Len(x)) : b[i] <= now - Window
  <2> SUFFICES ASSUME NEW i \in 1..(Len(a) - Len(w)) PROVE b[i] <= now - Window
    BY <1>5
  <2>1. i \in 1..Len(a)
    BY <1>1
  <2> QED BY <1>3, <2>1 DEF TailOf
<1>7. \A i \in 1..Len(x) : x[i] = b[Len(b) - Len(x) + i]
  <2> SUFFICES ASSUME NEW i \in 1..Len(x) PROVE x[i] = b[Len(b) - Len(x) + i]
    OBVIOUS
  <2>1. CASE i \in 1..Len(w)
    <3>1. Len(a) - Len(w) + i \in 1..Len(a)
      BY <1>1, <2>1 DEF TailOf
    <3> QED BY <1>2, <1>3, <1>5, <2>1, <3>1 DEF TailOf
  <2>2. CASE i = Len(w) + 1
    <3>1. Len(a) - Len(w) + i = Len(a) + 1
      BY <1>1, <2>2
    <3> QED BY <1>2, <1>3, <1>5, <2>2, <3>1
  <2>3. i \in 1..Len(w) \/ i = Len(w) + 1
    <3>1. Len(w) \in Nat /\ Len(x) = Len(w) + 1
      BY <1>1, <1>2
    <3> QED BY <3>1
  <2> QED BY <2>1, <2>2, <2>3
<1>8. Slides(b)
  <2> SUFFICES ASSUME NEW i \in 1..(Len(b) - RateLimit)
               PROVE  b[i + RateLimit] - b[i] >= Window
    BY DEF Slides
  <2>1. CASE i + RateLimit <= Len(a)
    <3>1. i \in 1..(Len(a) - RateLimit) /\ i \in 1..Len(a) /\ i + RateLimit \in 1..Len(a)
      BY <1>1, <2>1
    <3> QED BY <1>3, <3>1 DEF Slides
  <2>2. CASE ~(i + RateLimit <= Len(a))
    <3>0. i + RateLimit = Len(a) + 1
      <4>1. i \in Nat /\ RateLimit \in Nat /\ Len(a) \in Nat
        BY <1>1
      <4>2. i + RateLimit <= Len(a) + 1
        BY <1>3, <4>1
      <4>3. \A m, n \in Nat : ~(m <= n) /\ m <= n + 1 => m = n + 1
        OBVIOUS
      <4>4. i + RateLimit \in Nat
        BY <4>1
      <4> QED BY <2>2, <4>1, <4>2, <4>3, <4>4, Zenon
    <3>1. i \in 1..(Len(a) - Len(w)) /\ i \in 1..Len(a)
      BY <1>1, <3>0
    <3>2. a[i] <= now - Window /\ a[i] \in Nat
      BY <1>1, <3>1 DEF TailOf
    <3>3. b[i + RateLimit] = now /\ b[i] = a[i]
      BY <1>3, <3>0, <3>1
    <3> QED BY <1>1, <3>2, <3>3
  <2> QED BY <2>1, <2>2
<1> QED BY <1>4, <1>5, <1>6, <1>7, <1>8 DEF TailOf, x, b

\* As time passes no more than that is too old.
LEMMA TailLater ==
    ASSUME NEW n \in Nat, NEW w \in Seq(Nat), NEW a \in Seq(Nat), TailOf(w, a, n)
    PROVE  TailOf(w, a, n + 1)
<1>1. /\ Len(w) \in Nat /\ Len(a) \in Nat /\ Window \in Nat
      /\ \A i \in 1..Len(a) : a[i] \in Nat
  BY LenProperties, ElementOfSeq, CppAssumption DEF CppAssumption
<1>2. \A i \in 1..Len(a) : a[i] <= n + 1
  BY <1>1 DEF TailOf
<1>3. \A i \in 1..(Len(a) - Len(w)) : a[i] <= (n + 1) - Window
  <2> SUFFICES ASSUME NEW i \in 1..(Len(a) - Len(w)) PROVE a[i] <= (n + 1) - Window
    OBVIOUS
  <2>1. a[i] \in Nat /\ a[i] <= n - Window
    BY <1>1 DEF TailOf
  <2> QED BY <1>1, <2>1
<1> QED BY <1>1, <1>2, <1>3 DEF TailOf

LEMMA WindowInit == Init => WindowIsTail
<1> SUFFICES ASSUME Init, NEW k \in Keys
             PROVE  TailOf(window[k], admitted[k], now) /\ Slides(admitted[k])
  BY DEF WindowIsTail
<1>1. window[k] = <<>> /\ admitted[k] = <<>> /\ Len(<<>>) = 0
  BY EmptySeq DEF Init
<1> QED BY <1>1, CppAssumption DEF CppAssumption, TailOf, Slides, InOrder

LEMMA WindowStep == TypeOK /\ WindowIsTail /\ [Next]_vars => WindowIsTail'
<1> SUFFICES ASSUME TypeOK, WindowIsTail, [Next]_vars, NEW q \in Keys
             PROVE  TailOf(window'[q], admitted'[q], now') /\ Slides(admitted'[q])
  BY DEF WindowIsTail, Slides
<1>1. /\ window[q] \in Seq(Nat) /\ admitted[q] \in Seq(Nat) /\ now \in Nat
      /\ TailOf(window[q], admitted[q], now) /\ Slides(admitted[q])
  BY DEF TypeOK, WindowIsTail
<1>2. ASSUME NEW t \in Threads, NEW k \in Keys, NEW p \in Projects, NEW o \in Orgs,
             Consume(t, k, p, o)
      PROVE  TailOf(window'[q], admitted'[q], now') /\ Slides(admitted'[q])
  <2>1. now' = now
    BY <1>2 DEF Consume
  <2>2. CASE k # q
    <3>1. window'[q] = window[q] /\ admitted'[q] = admitted[q]
      BY <1>2, <2>2 DEF Consume, TypeOK
    <3> QED BY <1>1, <2>1, <3>1 DEF TailOf, InOrder
  <2>3. CASE k = q
    <3>1. Recent(window[q]) \in Seq(Nat) /\ TailOf(Recent(window[q]), admitted[q], now)
      BY <1>1, RecentTail
    <3>2. CASE /\ Len(Recent(window[q])) < RateLimit
               /\ window'[q] = Append(Recent(window[q]), now)
               /\ admitted'[q] = Append(admitted[q], now)
      <4>1. /\ TailOf(Append(Recent(window[q]), now), Append(admitted[q], now), now)
            /\ Slides(Append(admitted[q], now))
        BY <1>1, <3>1, <3>2, AdmittedTail
      <4> QED BY <2>1, <3>2, <4>1 DEF TailOf, InOrder
    <3>3. CASE window'[q] = Recent(window[q]) /\ admitted'[q] = admitted[q]
      BY <1>1, <2>1, <3>1, <3>3 DEF TailOf, InOrder
    <3> QED BY <1>2, <2>3, <3>2, <3>3 DEF Consume, TypeOK
  <2> QED BY <2>2, <2>3
<1>3. CASE Tick
  <2>1. now' = now + 1 /\ window' = window /\ admitted' = admitted
    BY <1>3 DEF Tick
  <2>2. TailOf(window[q], admitted[q], now + 1)
    BY <1>1, TailLater
  <2> QED BY <1>1, <2>1, <2>2
<1>4. CASE Restart
  <2>1. window'[q] = <<>> /\ admitted'[q] = <<>> /\ Len(<<>>) = 0
    BY <1>4, EmptySeq DEF Restart
  <2> QED BY <2>1, CppAssumption DEF CppAssumption, TailOf, Slides, InOrder
<1>5. CASE UNCHANGED <<now, window, admitted>>
  BY <1>1, <1>5 DEF TailOf, InOrder
<1> QED BY <1>2, <1>3, <1>4, <1>5 DEF Next, Preflight, RecordSpend, vars

\* The limiter's window slides: no key is let through RateLimit + 1 times
\* within one window (rate_limiter.cpp:19-57).
THEOREM LimiterSlides == Spec => []WindowSlides
<1>1. WindowIsTail => WindowSlides
  BY DEF WindowIsTail, Slides, WindowSlides
<1> QED BY <1>1, TypeCorrect, WindowInit, WindowStep, PTL DEF Spec
=============================================================================
