---------------------------- MODULE UcosTmrProofs ----------------------------
(***************************************************************************)
(* Proofs about UcosTmr, for every table of timers, size of the wheel, range *)
(* of the clock and set of settings: the wheel and the pool stay sound       *)
(* lists, and the loop of OSTmr_Task only visits running timers, as long as  *)
(* callbacks leave the next timer of the turn alone.                         *)
(*                                                                         *)
(* And that they implement TimerService: a service is one step of the        *)
(* abstract timers; the turn of OSTmr_Task is a tick, when it begins, and    *)
(* then one step for each timer that expires in it.                          *)
(*                                                                         *)
(* A list is a predicate on the table of timers T, the first of the list and *)
(* the set of its members; the lemmas say what linking in front, unlinking   *)
(* and writing elsewhere do to it.                                           *)
(***************************************************************************)
EXTENDS UcosTmrService, FiniteSetTheorems, TLAPS

OSTmr ==
  [OSTmrState : {"UNUSED", "STOPPED", "RUNNING", "COMPLETED"},
   OSTmrOpt : {"NONE", "ONE_SHOT", "PERIODIC"},
   OSTmrDly : 0 .. TimeRange - 1, OSTmrPeriod : 0 .. TimeRange - 1,
   OSTmrMatch : 0 .. TimeRange - 1, OSTmrCallback : BOOLEAN,
   OSTmrNext : Timer \cup {Null}, OSTmrPrev : Timer \cup {Null}]

\* The timers S are linked by OSTmrNext, each once, beginning with first.
Lists(T, first, S, n, list) ==
  /\ \A i, j \in 1 .. n : list[i] = list[j] => i = j
  /\ \A t \in S : \E i \in 1 .. n : list[i] = t
  /\ first = IF n = 0 THEN Null ELSE list[1]
  /\ \A i \in 1 .. n : T[list[i]].OSTmrNext = IF i = n THEN Null ELSE list[i + 1]

Linked(T, first, S) == \E n \in Nat : \E list \in [1 .. n -> S] : Lists(T, first, S, n, list)

\* OSTmrPrev is the inverse of OSTmrNext on S.
BackLinked(T, first, S) ==
  /\ \A t, u \in S : T[t].OSTmrNext = u <=> T[u].OSTmrPrev = t
  /\ first # Null => T[first].OSTmrPrev = Null

-----------------------------------------------------------------------------
(* Linked lists.                                                            *)

\* Null is no timer.
LEMMA NullNoTimer == Null \notin Timer
BY TmrAssumption DEF TmrAssumption

\* The set of timers is finite and has the size of the table.
LEMMA TimerFinite == IsFiniteSet(Timer) /\ Cardinality(Timer) = Len(OSTmrTbl)
<1>1. OSTmrTbl \in Bijection(1 .. Len(OSTmrTbl), Timer)
  BY TmrAssumption DEF TmrAssumption, Bijection, Injection, Surjection, IsInjective, Timer, Range
<1>2. ExistsBijection(1 .. Len(OSTmrTbl), Timer)
  BY <1>1 DEF ExistsBijection
<1> QED
  BY <1>2, FS_NatBijection, FS_CountingElements, TmrAssumption DEF TmrAssumption

\* Every set of timers is finite and of at most as many elements as the table has.
LEMMA SubsetFinite ==
  ASSUME NEW S \in SUBSET Timer
  PROVE  /\ IsFiniteSet(S) /\ Cardinality(S) \in Nat
         /\ Cardinality(S) <= Cardinality(Timer) /\ Cardinality(Timer) <= 65500
BY TimerFinite, FS_Subset, FS_CardinalityType, TmrAssumption DEF TmrAssumption

\* Counting with one timer less.
LEMMA CountOneLess ==
  ASSUME NEW S \in SUBSET Timer, NEW t \in S
  PROVE  /\ Cardinality(S) \in Nat /\ Cardinality(S) > 0
         /\ Cardinality(S \ {t}) = Cardinality(S) - 1
<1>1. IsFiniteSet(S) /\ Cardinality(S) \in Nat
  BY SubsetFinite
<1>2. Cardinality(S) # 0
  BY <1>1, FS_EmptySet
<1>3. Cardinality(S \ {t}) = Cardinality(S) - 1
  BY <1>1, FS_RemoveElement
<1> QED
  BY <1>1, <1>2, <1>3

\* Counting with one timer more.
LEMMA CountOneMore ==
  ASSUME NEW S \in SUBSET Timer, NEW t \in Timer \ S
  PROVE  /\ Cardinality(S) \in Nat /\ Cardinality(S) < Cardinality(Timer)
         /\ Cardinality(S \cup {t}) = Cardinality(S) + 1
<1>1. IsFiniteSet(S) /\ Cardinality(S) \in Nat
  BY SubsetFinite
<1>2. Cardinality(S \cup {t}) = Cardinality(S) + 1
  BY <1>1, FS_AddElement
<1>3. S \cup {t} \in SUBSET Timer
  OBVIOUS
<1>4. Cardinality(S \cup {t}) <= Cardinality(Timer) /\ Cardinality(Timer) \in Nat
  BY <1>3, SubsetFinite
<1> QED
  BY <1>1, <1>2, <1>4

\* What a list says of its first timer and of each link.
LEMMA LinkedFacts ==
  ASSUME NEW T, NEW S \in SUBSET Timer, NEW first, Linked(T, first, S)
  PROVE  /\ first \in S \cup {Null}
         /\ first = Null <=> S = {}
         /\ \A t \in S : T[t].OSTmrNext \in S \cup {Null}
         /\ \A t \in S : T[t].OSTmrNext # t
         /\ \A t \in S : T[t].OSTmrNext # first
         /\ \A t, u \in S :
              T[t].OSTmrNext = T[u].OSTmrNext /\ T[t].OSTmrNext # Null => t = u
<1>0. PICK n \in Nat : \E list \in [1 .. n -> S] : Lists(T, first, S, n, list)
  BY DEF Linked
<1>01. PICK list \in [1 .. n -> S] : Lists(T, first, S, n, list)
  BY <1>0
<1>1. /\ \A i, j \in 1 .. n : list[i] = list[j] => i = j
      /\ \A u \in S : \E i \in 1 .. n : list[i] = u
      /\ first = IF n = 0 THEN Null ELSE list[1]
      /\ \A i \in 1 .. n : T[list[i]].OSTmrNext = IF i = n THEN Null ELSE list[i + 1]
  BY <1>01 DEF Lists
<1>2. Null \notin S
  BY NullNoTimer
<1>3. /\ first \in S \cup {Null}
      /\ first = Null <=> S = {}
  BY <1>1, <1>2
<1>4. ASSUME NEW t \in S, NEW i \in 1 .. n, list[i] = t
      PROVE  /\ T[t].OSTmrNext = IF i = n THEN Null ELSE list[i + 1]
             /\ i # n => list[i + 1] \in S /\ list[i + 1] # t /\ list[i + 1] # first
             /\ T[t].OSTmrNext \in S \cup {Null}
             /\ T[t].OSTmrNext # t /\ T[t].OSTmrNext # first
  <2>1. T[t].OSTmrNext = IF i = n THEN Null ELSE list[i + 1]
    BY <1>1, <1>4
  <2>2. ASSUME i # n
        PROVE  list[i + 1] \in S /\ list[i + 1] # t /\ list[i + 1] # first
    <3>1. i + 1 \in 1 .. n /\ 1 \in 1 .. n /\ n # 0
      BY <2>2
    <3>2. list[i + 1] \in S
      BY <3>1
    <3>3. list[i + 1] # list[i] /\ list[i + 1] # list[1]
      BY <1>1, <3>1
    <3> QED
      BY <3>1, <3>2, <3>3, <1>1, <1>4
  <2>3. i = n => n # 0
    OBVIOUS
  <2> QED
    BY <2>1, <2>2, <2>3, <1>1, <1>2
<1>5. ASSUME NEW t \in S, NEW u \in S, T[t].OSTmrNext = T[u].OSTmrNext,
             T[t].OSTmrNext # Null
      PROVE  t = u
  <2>1. PICK i \in 1 .. n : list[i] = t
    BY <1>1
  <2>2. PICK j \in 1 .. n : list[j] = u
    BY <1>1
  <2>3. /\ T[t].OSTmrNext = IF i = n THEN Null ELSE list[i + 1]
        /\ T[u].OSTmrNext = IF j = n THEN Null ELSE list[j + 1]
    BY <2>1, <2>2, <1>4
  <2>4. i # n /\ j # n /\ list[i + 1] = list[j + 1]
    BY <2>3, <1>5
  <2>5. i + 1 \in 1 .. n /\ j + 1 \in 1 .. n
    BY <2>4
  <2>6. i + 1 = j + 1
    BY <1>1, <2>4, <2>5
  <2> QED
    BY <2>6, <2>1, <2>2
<1>6. ASSUME NEW t \in S
      PROVE  /\ T[t].OSTmrNext \in S \cup {Null}
             /\ T[t].OSTmrNext # t /\ T[t].OSTmrNext # first
  BY <1>1, <1>4
<1> QED
  BY <1>3, <1>5, <1>6

\* Writing to other timers, or to other fields, keeps a list.
LEMMA LinkedKeep ==
  ASSUME NEW T, NEW T2, NEW S, NEW first, Linked(T, first, S),
         \A u \in S : T2[u].OSTmrNext = T[u].OSTmrNext
  PROVE  Linked(T2, first, S)
BY DEF Linked, Lists

\* A timer that points to the first of a list makes a longer list.
LEMMA LinkedFront ==
  ASSUME NEW T, NEW T2, NEW S, NEW first, NEW t, Linked(T, first, S), t \notin S,
         T2[t].OSTmrNext = first,
         \A u \in S : T2[u].OSTmrNext = T[u].OSTmrNext
  PROVE  Linked(T2, t, S \cup {t})
<1>0. PICK n \in Nat : \E list \in [1 .. n -> S] : Lists(T, first, S, n, list)
  BY DEF Linked
<1>01. PICK list \in [1 .. n -> S] : Lists(T, first, S, n, list)
  BY <1>0
<1>1. /\ \A i, j \in 1 .. n : list[i] = list[j] => i = j
      /\ \A u \in S : \E i \in 1 .. n : list[i] = u
      /\ first = IF n = 0 THEN Null ELSE list[1]
      /\ \A i \in 1 .. n : T[list[i]].OSTmrNext = IF i = n THEN Null ELSE list[i + 1]
  BY <1>01 DEF Lists
<1> DEFINE longer == [i \in 1 .. (n + 1) |-> IF i = 1 THEN t ELSE list[i - 1]]
<1>2. longer[1] = t /\ \A i \in 1 .. n : i + 1 \in 1 .. (n + 1) /\ longer[i + 1] = list[i]
  OBVIOUS
<1>3. \A i \in 1 .. (n + 1) : i = 1 \/ (i - 1 \in 1 .. n /\ longer[i] = list[i - 1])
  OBVIOUS
<1>4. longer \in [1 .. (n + 1) -> S \cup {t}]
  OBVIOUS
<1> HIDE DEF longer
<1>5. \A i, j \in 1 .. (n + 1) : longer[i] = longer[j] => i = j
  <2> SUFFICES ASSUME NEW i \in 1 .. (n + 1), NEW j \in 1 .. (n + 1), longer[i] = longer[j]
               PROVE  i = j
    OBVIOUS
  <2>1. CASE i # 1 /\ j # 1
    BY <2>1, <1>3, <1>1
  <2>2. CASE i = 1 /\ j # 1
    BY <2>2, <1>2, <1>3
  <2>3. CASE i # 1 /\ j = 1
    BY <2>3, <1>2, <1>3
  <2> QED
    BY <2>1, <2>2, <2>3
<1>6. \A u \in S \cup {t} : \E i \in 1 .. (n + 1) : longer[i] = u
  <2>1. 1 \in 1 .. (n + 1)
    OBVIOUS
  <2> QED
    BY <2>1, <1>1, <1>2
<1>7. \A i \in 1 .. (n + 1) :
        T2[longer[i]].OSTmrNext = IF i = n + 1 THEN Null ELSE longer[i + 1]
  <2> SUFFICES ASSUME NEW i \in 1 .. (n + 1)
               PROVE  T2[longer[i]].OSTmrNext = IF i = n + 1 THEN Null ELSE longer[i + 1]
    OBVIOUS
  <2>1. CASE i = 1 /\ n = 0
    BY <2>1, <1>1, <1>2
  <2>2. CASE i = 1 /\ n # 0
    <3>1. 1 \in 1 .. n /\ longer[1 + 1] = list[1]
      BY <2>2, <1>2
    <3> QED
      BY <2>2, <3>1, <1>1, <1>2
  <2>3. CASE i # 1
    <3>1. /\ i - 1 \in 1 .. n /\ longer[i] = list[i - 1] /\ list[i - 1] \in S
          /\ (i - 1) + 1 = i /\ (i - 1 = n <=> i = n + 1)
      BY <2>3, <1>3
    <3>2. T2[longer[i]].OSTmrNext = IF i - 1 = n THEN Null ELSE list[i]
      BY <3>1, <1>1
    <3>3. i # n + 1 => i \in 1 .. n
      OBVIOUS
    <3> QED
      BY <3>1, <3>2, <3>3, <1>2
  <2> QED
    BY <2>1, <2>2, <2>3
<1>8. n + 1 \in Nat /\ n + 1 # 0
  OBVIOUS
<1>9. Lists(T2, t, S \cup {t}, n + 1, longer)
  BY <1>2, <1>5, <1>6, <1>7, <1>8 DEF Lists
<1> QED
  BY <1>4, <1>8, <1>9 DEF Linked

\* Linking the predecessor of a timer to its successor takes it off the list.
LEMMA LinkedRemove ==
  ASSUME NEW T, NEW T2, NEW S \in SUBSET Timer, NEW first, NEW t \in S,
         Linked(T, first, S),
         \A u \in S \ {t} :
           T2[u].OSTmrNext = IF T[u].OSTmrNext = t THEN T[t].OSTmrNext ELSE T[u].OSTmrNext
  PROVE  Linked(T2, IF first = t THEN T[t].OSTmrNext ELSE first, S \ {t})
<1>0. PICK n \in Nat : \E list \in [1 .. n -> S] : Lists(T, first, S, n, list)
  BY DEF Linked
<1>01. PICK list \in [1 .. n -> S] : Lists(T, first, S, n, list)
  BY <1>0
<1>1. /\ \A i, j \in 1 .. n : list[i] = list[j] => i = j
      /\ \A u \in S : \E i \in 1 .. n : list[i] = u
      /\ first = IF n = 0 THEN Null ELSE list[1]
      /\ \A i \in 1 .. n : T[list[i]].OSTmrNext = IF i = n THEN Null ELSE list[i + 1]
  BY <1>01 DEF Lists
<1>2. PICK k \in 1 .. n : list[k] = t
  BY <1>1
<1>3. n - 1 \in Nat /\ n # 0 /\ Null \notin S
  BY <1>1, NullNoTimer
<1> DEFINE m == n - 1
           at(i) == IF i < k THEN i ELSE i + 1
           shorter == [i \in 1 .. m |-> list[at(i)]]
<1>4. \A i \in 1 .. m : at(i) \in 1 .. n /\ at(i) # k
  OBVIOUS
<1>5. \A i, j \in 1 .. m : at(i) = at(j) => i = j
  OBVIOUS
<1>6. \A j \in 1 .. n : j # k => \E i \in 1 .. m : at(i) = j
  <2> SUFFICES ASSUME NEW j \in 1 .. n, j # k PROVE \E i \in 1 .. m : at(i) = j
    OBVIOUS
  <2>1. CASE j < k
    BY <2>1
  <2>2. CASE j > k
    <3>1. j - 1 \in 1 .. m /\ at(j - 1) = j
      BY <2>2
    <3> QED
      BY <3>1
  <2> QED
    BY <2>1, <2>2
<1>7. \A i \in 1 .. m :
        /\ at(i) = n <=> (i = m /\ k # n)
        /\ at(i) + 1 = k <=> i = k - 1
        /\ i # m /\ i # k - 1 => at(i + 1) = at(i) + 1
        /\ i = k - 1 => (i = m <=> k = n) /\ (i # m => at(i + 1) = k + 1)
  OBVIOUS
<1>8. m = 0 <=> n = 1
  OBVIOUS
<1>9. m # 0 => 1 \in 1 .. m /\ at(1) = IF k = 1 THEN 2 ELSE 1
  OBVIOUS
<1>10. \A i \in 1 .. m : shorter[i] = list[at(i)]
  OBVIOUS
<1>11. shorter \in [1 .. m -> S \ {t}]
  <2>1. \A i \in 1 .. m : list[at(i)] \in S /\ list[at(i)] # t
    BY <1>1, <1>2, <1>4
  <2> QED
    BY <2>1
<1> HIDE DEF shorter, at
<1>12. \A i, j \in 1 .. m : shorter[i] = shorter[j] => i = j
  BY <1>1, <1>4, <1>5, <1>10
<1>13. \A u \in S \ {t} : \E i \in 1 .. m : shorter[i] = u
  <2> SUFFICES ASSUME NEW u \in S \ {t} PROVE \E i \in 1 .. m : shorter[i] = u
    OBVIOUS
  <2>1. PICK j \in 1 .. n : list[j] = u
    BY <1>1
  <2>2. j # k
    BY <2>1, <1>2
  <2> QED
    BY <2>1, <2>2, <1>6, <1>10
<1>14. (IF first = t THEN T[t].OSTmrNext ELSE first) = IF m = 0 THEN Null ELSE shorter[1]
  <2>1. first = list[1] /\ 1 \in 1 .. n /\ (first = t <=> k = 1)
    BY <1>1, <1>2, <1>3
  <2>2. T[t].OSTmrNext = IF k = n THEN Null ELSE list[k + 1]
    BY <1>1, <1>2
  <2>3. CASE m = 0
    <3>1. k = 1 /\ n = 1
      BY <2>3, <1>8
    <3> QED
      BY <3>1, <2>1, <2>2, <2>3
  <2>4. CASE m # 0
    <3>1. shorter[1] = list[IF k = 1 THEN 2 ELSE 1]
      BY <2>4, <1>9, <1>10
    <3>2. k = 1 => k # n /\ k + 1 = 2
      BY <2>4, <1>8
    <3> QED
      BY <3>1, <3>2, <2>1, <2>2, <2>4
  <2> QED
    BY <2>3, <2>4
<1>15. \A i \in 1 .. m : T2[shorter[i]].OSTmrNext = IF i = m THEN Null ELSE shorter[i + 1]
  <2> SUFFICES ASSUME NEW i \in 1 .. m
               PROVE  T2[shorter[i]].OSTmrNext = IF i = m THEN Null ELSE shorter[i + 1]
    OBVIOUS
  <2>1. shorter[i] \in S \ {t} /\ shorter[i] = list[at(i)] /\ at(i) \in 1 .. n /\ at(i) # k
    BY <1>4, <1>10, <1>11
  <2>2. T[shorter[i]].OSTmrNext = IF at(i) = n THEN Null ELSE list[at(i) + 1]
    BY <1>1, <2>1
  <2>3. T[t].OSTmrNext = IF k = n THEN Null ELSE list[k + 1]
    BY <1>1, <1>2
  <2>4. i # m => shorter[i + 1] = list[at(i + 1)]
    <3>1. i # m => i + 1 \in 1 .. m
      OBVIOUS
    <3> QED
      BY <3>1, <1>10
  <2>5. T[shorter[i]].OSTmrNext = t <=> i = k - 1
    <3>1. at(i) # n => at(i) + 1 \in 1 .. n
      BY <2>1
    <3>2. at(i) # n => (list[at(i) + 1] = t <=> at(i) + 1 = k)
      BY <3>1, <1>1, <1>2
    <3>3. at(i) = n => at(i) + 1 # k
      OBVIOUS
    <3> QED
      BY <3>2, <3>3, <2>2, <1>3, <1>7
  <2>6. CASE i = k - 1
    BY <2>1, <2>3, <2>4, <2>5, <2>6, <1>7
  <2>7. CASE i # k - 1
    <3>1. at(i) = n <=> i = m
      BY <2>7, <1>7
    <3>2. i # m => at(i + 1) = at(i) + 1
      BY <2>7, <1>7
    <3> QED
      BY <3>1, <3>2, <2>1, <2>2, <2>4, <2>5, <2>7
  <2> QED
    BY <2>6, <2>7
<1>16. m \in Nat
  BY <1>3
<1> HIDE DEF m
<1>17. Lists(T2, IF first = t THEN T[t].OSTmrNext ELSE first, S \ {t}, m, shorter)
  BY <1>12, <1>13, <1>14, <1>15 DEF Lists
<1> QED
  BY <1>11, <1>16, <1>17 DEF Linked

\* No link leads to the first timer or to a timer off the list.
LEMMA LinkedTargets ==
  ASSUME NEW T, NEW S \in SUBSET Timer, NEW first, Linked(T, first, S)
  PROVE  \A u \in S : T[u].OSTmrNext \in S \cup {Null} /\ T[u].OSTmrNext # first
<1>1. \A t \in S : T[t].OSTmrNext \in S \cup {Null}
  BY LinkedFacts
<1>2. \A t \in S : T[t].OSTmrNext # first
  BY LinkedFacts
<1> QED
  BY <1>1, <1>2

\* A link leads to every timer of the list but the first.
LEMMA LinkedPredecessor ==
  ASSUME NEW T, NEW S \in SUBSET Timer, NEW first, Linked(T, first, S),
         NEW t \in S, t # first
  PROVE  \E u \in S : T[u].OSTmrNext = t
<1>0. PICK n \in Nat : \E list \in [1 .. n -> S] : Lists(T, first, S, n, list)
  BY DEF Linked
<1>01. PICK list \in [1 .. n -> S] : Lists(T, first, S, n, list)
  BY <1>0
<1>1. /\ \A u \in S : \E i \in 1 .. n : list[i] = u
      /\ first = IF n = 0 THEN Null ELSE list[1]
      /\ \A i \in 1 .. n : T[list[i]].OSTmrNext = IF i = n THEN Null ELSE list[i + 1]
  BY <1>01 DEF Lists
<1>2. PICK i \in 1 .. n : list[i] = t
  BY <1>1
<1>3. i # 1
  BY <1>1, <1>2
<1>4. i - 1 \in 1 .. n /\ i - 1 # n /\ (i - 1) + 1 = i
  BY <1>3
<1>5. T[list[i - 1]].OSTmrNext = t /\ list[i - 1] \in S
  BY <1>1, <1>2, <1>4
<1> QED
  BY <1>5

\* The first timer is on the list, if there is one.
LEMMA LinkedFirst ==
  ASSUME NEW T, NEW S \in SUBSET Timer, NEW first, Linked(T, first, S)
  PROVE  first \in S \cup {Null}
BY LinkedFacts

\* Two timers do not link to each other.
LEMMA LinkedNoLoop ==
  ASSUME NEW T, NEW S \in SUBSET Timer, NEW first, Linked(T, first, S),
         NEW t \in S, NEW u \in S, T[t].OSTmrNext = u
  PROVE  T[u].OSTmrNext # t
<1>0. PICK n \in Nat : \E list \in [1 .. n -> S] : Lists(T, first, S, n, list)
  BY DEF Linked
<1>01. PICK list \in [1 .. n -> S] : Lists(T, first, S, n, list)
  BY <1>0
<1>1. /\ \A i, j \in 1 .. n : list[i] = list[j] => i = j
      /\ \A v \in S : \E i \in 1 .. n : list[i] = v
      /\ \A i \in 1 .. n : T[list[i]].OSTmrNext = IF i = n THEN Null ELSE list[i + 1]
  BY <1>01 DEF Lists
<1>2. PICK i \in 1 .. n : list[i] = t
  BY <1>1
<1>3. PICK j \in 1 .. n : list[j] = u
  BY <1>1
<1> SUFFICES ASSUME T[u].OSTmrNext = t
             PROVE  FALSE
  OBVIOUS
<1>4. i # n /\ j # n /\ list[i + 1] = list[j] /\ list[j + 1] = list[i]
  BY <1>1, <1>2, <1>3, NullNoTimer
<1>5. i + 1 \in 1 .. n /\ j + 1 \in 1 .. n
  BY <1>4
<1>6. i + 1 = j /\ j + 1 = i
  BY <1>1, <1>4, <1>5
<1> QED
  BY <1>6

\* OSTmr_Link keeps the links in both directions.
LEMMA BackLinkedFront ==
  ASSUME NEW T, NEW T2, NEW S \in SUBSET Timer, NEW first, NEW t \in Timer \ S,
         Linked(T, first, S), BackLinked(T, first, S),
         T2[t].OSTmrNext = first, T2[t].OSTmrPrev = Null,
         \A u \in S : /\ T2[u].OSTmrNext = T[u].OSTmrNext
                      /\ T2[u].OSTmrPrev = IF u = first THEN t ELSE T[u].OSTmrPrev
  PROVE  Linked(T2, t, S \cup {t}) /\ BackLinked(T2, t, S \cup {t})
<1>1. Linked(T2, t, S \cup {t})
  BY LinkedFront
<1>2. Null # t /\ t \notin S /\ first # t
  <2>1. first \in S \cup {Null}
    BY LinkedFacts
  <2> QED
    BY <2>1, NullNoTimer
<1>3. \A u \in S : T[u].OSTmrNext # first /\ T[u].OSTmrNext # t
  <2>1. \A u \in S : T[u].OSTmrNext \in S \cup {Null} /\ T[u].OSTmrNext # first
    BY LinkedTargets
  <2> QED
    BY <2>1, <1>2
<1>4. \A u, v \in S : T[u].OSTmrNext = v <=> T[v].OSTmrPrev = u
  BY DEF BackLinked
<1>5. ASSUME NEW u \in S, u # first
      PROVE  T[u].OSTmrPrev # t
  <2>1. PICK v \in S : T[v].OSTmrNext = u
    BY <1>5, LinkedPredecessor
  <2> QED
    BY <2>1, <1>4
<1>6. ASSUME NEW u \in S \cup {t}, NEW v \in S \cup {t}
      PROVE  T2[u].OSTmrNext = v <=> T2[v].OSTmrPrev = u
  <2>1. CASE u \in S /\ v \in S
    BY <2>1, <1>2, <1>3, <1>4
  <2>2. CASE u = t /\ v \in S
    BY <2>2, <1>2, <1>5
  <2>3. CASE u \in S /\ v = t
    BY <2>3, <1>2, <1>3, NullNoTimer
  <2>4. CASE u = t /\ v = t
    BY <2>4, <1>2
  <2> QED
    BY <2>1, <2>2, <2>3, <2>4
<1> QED
  BY <1>1, <1>6 DEF BackLinked

\* The neighbours of t on S are linked to each other.
ClosesGap(T, T2, S, first, t) ==
  \A u \in S \ {t} :
    /\ T2[u].OSTmrNext = IF u = T[t].OSTmrPrev THEN T[t].OSTmrNext ELSE T[u].OSTmrNext
    /\ T2[u].OSTmrPrev = IF u = T[t].OSTmrNext
                         THEN IF first = t THEN Null ELSE T[t].OSTmrPrev
                         ELSE T[u].OSTmrPrev

\* OSTmr_Unlink keeps the links in both directions.
LEMMA BackLinkedRemove ==
  ASSUME NEW T, NEW T2, NEW S \in SUBSET Timer, NEW first, NEW t \in S,
         Linked(T, first, S), BackLinked(T, first, S),
         ClosesGap(T, T2, S, first, t),
         NEW rest, rest = IF first = t THEN T[t].OSTmrNext ELSE first
  PROVE  Linked(T2, rest, S \ {t}) /\ BackLinked(T2, rest, S \ {t})
<1>0. \A u \in S \ {t} :
        /\ T2[u].OSTmrNext = IF u = T[t].OSTmrPrev THEN T[t].OSTmrNext ELSE T[u].OSTmrNext
        /\ T2[u].OSTmrPrev = IF u = T[t].OSTmrNext
                             THEN IF first = t THEN Null ELSE T[t].OSTmrPrev
                             ELSE T[u].OSTmrPrev
  BY DEF ClosesGap
<1>1. /\ Null \notin Timer /\ first \in S \cup {Null}
      /\ \A a \in S : T[a].OSTmrNext \in S \cup {Null}
      /\ \A a \in S : T[a].OSTmrNext # a
      /\ \A a \in S : T[a].OSTmrNext # first
      /\ \A a, b \in S :
           T[a].OSTmrNext = T[b].OSTmrNext /\ T[a].OSTmrNext # Null => a = b
  <2>1. /\ first \in S \cup {Null}
        /\ \A a \in S : T[a].OSTmrNext # a
    BY LinkedFacts
  <2>2. \A a \in S : T[a].OSTmrNext \in S \cup {Null} /\ T[a].OSTmrNext # first
    BY LinkedTargets
  <2>3. \A a, b \in S :
          T[a].OSTmrNext = T[b].OSTmrNext /\ T[a].OSTmrNext # Null => a = b
    BY LinkedFacts
  <2> QED
    BY <2>1, <2>2, <2>3, NullNoTimer
<1>2. /\ \A a, b \in S : T[a].OSTmrNext = b <=> T[b].OSTmrPrev = a
      /\ first # Null => T[first].OSTmrPrev = Null
  BY DEF BackLinked
<1>3. \A u \in S \ {t} :
        T2[u].OSTmrNext = IF T[u].OSTmrNext = t THEN T[t].OSTmrNext ELSE T[u].OSTmrNext
  BY <1>0, <1>2
<1>4. Linked(T2, rest, S \ {t})
  BY <1>3, LinkedRemove
<1>5. ASSUME NEW a \in S \ {t}, NEW b \in S \ {t}
      PROVE  T2[a].OSTmrNext = b <=> T2[b].OSTmrPrev = a
  <2>1. CASE T[a].OSTmrNext = t
    <3>1. T[t].OSTmrPrev = a /\ first # t
      BY <2>1, <1>1, <1>2
    <3>2. b # T[t].OSTmrNext => T2[b].OSTmrPrev # a
      <4>1. b # T[t].OSTmrNext => T2[b].OSTmrPrev = T[b].OSTmrPrev
        BY <1>0
      <4>2. T[a].OSTmrNext # b
        BY <2>1
      <4> QED
        BY <4>1, <4>2, <1>2
    <3>3. b = T[t].OSTmrNext => T2[b].OSTmrPrev = a
      BY <3>1, <1>0
    <3>4. T2[a].OSTmrNext = T[t].OSTmrNext
      BY <2>1, <1>3
    <3> QED
      BY <3>2, <3>3, <3>4
  <2>2. CASE T[a].OSTmrNext # t
    <3>1. T[t].OSTmrPrev # a
      BY <2>2, <1>2
    <3>2. b = T[t].OSTmrNext => T[a].OSTmrNext # b /\ T2[b].OSTmrPrev # a
      <4>1. b = T[t].OSTmrNext =>
              T2[b].OSTmrPrev = IF first = t THEN Null ELSE T[t].OSTmrPrev
        BY <1>0
      <4>2. b = T[t].OSTmrNext => T[a].OSTmrNext # b
        BY <1>1
      <4>3. a # Null
        BY <1>1
      <4> QED
        BY <3>1, <4>1, <4>2, <4>3
    <3>3. b # T[t].OSTmrNext => T2[b].OSTmrPrev = T[b].OSTmrPrev
      BY <1>0
    <3> QED
      BY <3>2, <3>3, <2>2, <1>2, <1>3
  <2> QED
    BY <2>1, <2>2
<1>6. rest # Null => T2[rest].OSTmrPrev = Null
  BY <1>0, <1>1, <1>2
<1> QED
  BY <1>4, <1>5, <1>6 DEF BackLinked

-----------------------------------------------------------------------------
(* The wheel.                                                               *)

\* The running timers that expire on a spoke.
On(T, s) == {t \in Timer : T[t].OSTmrState = "RUNNING" /\ SpokeOf(T[t].OSTmrMatch) = s}

GoodSpoke(T, W, s) ==
  /\ Linked(T, W[s].OSTmrFirst, On(T, s))
  /\ W[s].OSTmrEntries = Cardinality(On(T, s))
  /\ BackLinked(T, W[s].OSTmrFirst, On(T, s))

GoodWheel(T, W) ==
  /\ T \in [Timer -> OSTmr]
  /\ W \in [Spoke -> [OSTmrFirst : Timer \cup {Null}, OSTmrEntries : Nat]]
  /\ \A s \in Spoke : GoodSpoke(T, W, s)

\* u is the same timer but for its links, and those of a timer that does not run.
SameButLinks(T, T2, u) ==
  /\ T2[u].OSTmrState = T[u].OSTmrState /\ T2[u].OSTmrOpt = T[u].OSTmrOpt
  /\ T2[u].OSTmrDly = T[u].OSTmrDly /\ T2[u].OSTmrPeriod = T[u].OSTmrPeriod
  /\ T2[u].OSTmrMatch = T[u].OSTmrMatch /\ T2[u].OSTmrCallback = T[u].OSTmrCallback
  /\ T[u].OSTmrState # "RUNNING" => T2[u] = T[u]

\* t is taken out, and whatever running timer linked to it links to its successor.
Unlinked(T, T2, t) ==
  /\ T2[t] = [T[t] EXCEPT !.OSTmrState = "STOPPED", !.OSTmrNext = Null, !.OSTmrPrev = Null]
  /\ \A u \in Timer \ {t} :
       /\ SameButLinks(T, T2, u)
       /\ T[u].OSTmrState = "RUNNING" =>
            T2[u].OSTmrNext = IF T[u].OSTmrNext = t THEN T[t].OSTmrNext ELSE T[u].OSTmrNext

\* t is put in as running with that match, and no other timer links elsewhere.
LinkedIn(T, T2, t, match) ==
  /\ T2[t].OSTmrState = "RUNNING" /\ T2[t].OSTmrMatch = match
  /\ T2[t].OSTmrOpt = T[t].OSTmrOpt /\ T2[t].OSTmrDly = T[t].OSTmrDly
  /\ T2[t].OSTmrPeriod = T[t].OSTmrPeriod /\ T2[t].OSTmrCallback = T[t].OSTmrCallback
  /\ \A u \in Timer \ {t} : SameButLinks(T, T2, u) /\ T2[u].OSTmrNext = T[u].OSTmrNext

\* Every time is on a spoke.
LEMMA SpokeOfType == ASSUME NEW time \in Nat PROVE SpokeOf(time) \in Spoke
BY TmrAssumption DEF TmrAssumption, SpokeOf, Spoke

\* A spoke whose timers are not written to stays good.
LEMMA GoodSpokeKeep ==
  ASSUME NEW T, NEW W, NEW T2, NEW W2, NEW s, GoodSpoke(T, W, s), W2[s] = W[s],
         On(T2, s) = On(T, s),
         \A u \in On(T, s) : /\ T2[u].OSTmrNext = T[u].OSTmrNext
                             /\ T2[u].OSTmrPrev = T[u].OSTmrPrev
  PROVE  GoodSpoke(T2, W2, s)
<1>1. On(T, s) \in SUBSET Timer
  BY DEF On
<1>2. Linked(T2, W[s].OSTmrFirst, On(T, s))
  BY LinkedKeep DEF GoodSpoke
<1>3. W[s].OSTmrFirst \in On(T, s) \cup {Null}
  BY <1>1, LinkedFacts DEF GoodSpoke
<1>4. BackLinked(T2, W[s].OSTmrFirst, On(T, s))
  BY <1>3 DEF GoodSpoke, BackLinked
<1> QED
  BY <1>2, <1>4 DEF GoodSpoke

\* Writing to timers that do not run, before or after, leaves the wheel alone.
LEMMA GoodWheelKeep ==
  ASSUME NEW T, NEW W, NEW T2, GoodWheel(T, W), T2 \in [Timer -> OSTmr],
         \A u \in Timer :
           T[u].OSTmrState = "RUNNING" \/ T2[u].OSTmrState = "RUNNING" => T2[u] = T[u]
  PROVE  GoodWheel(T2, W)
<1>1. ASSUME NEW s \in Spoke PROVE GoodSpoke(T2, W, s)
  <2>1. On(T2, s) = On(T, s) /\ \A u \in On(T, s) : T2[u] = T[u]
    BY DEF On
  <2>2. GoodSpoke(T, W, s)
    BY DEF GoodWheel
  <2> QED
    BY <2>1, <2>2, GoodSpokeKeep
<1> QED
  BY <1>1 DEF GoodWheel

\* OSTmr_Link puts a timer that does not run on the wheel, and on no other list.
LEMMA OSTmr_Link_Good ==
  ASSUME NEW w, NEW T, NEW W, T = w.tmr, W = w.wheel, GoodWheel(T, W),
         NEW t \in Timer, T[t].OSTmrState # "RUNNING",
         NEW n, MatchIn(n) \in 0 .. TimeRange - 1,
         NEW T2, NEW W2, T2 = OSTmr_Link(w, t, n).tmr, W2 = OSTmr_Link(w, t, n).wheel
  PROVE  GoodWheel(T2, W2) /\ LinkedIn(T, T2, t, MatchIn(n))
<1> DEFINE match == MatchIn(n)
           spoke == SpokeOf(match)
           first == W[spoke].OSTmrFirst
<1>1. spoke \in Spoke
  BY SpokeOfType
<1>2. /\ T \in [Timer -> OSTmr]
      /\ W \in [Spoke -> [OSTmrFirst : Timer \cup {Null}, OSTmrEntries : Nat]]
      /\ GoodSpoke(T, W, spoke)
  BY <1>1 DEF GoodWheel
<1>3. /\ T2 = [u \in Timer |->
              IF u = t THEN [T[t] EXCEPT !.OSTmrState = "RUNNING", !.OSTmrMatch = match,
                                         !.OSTmrNext = first, !.OSTmrPrev = Null]
              ELSE IF u = first THEN [T[u] EXCEPT !.OSTmrPrev = t]
              ELSE T[u]]
      /\ W2 = [W EXCEPT
              ![spoke] = [OSTmrFirst |-> t,
                          OSTmrEntries |-> IF first = Null THEN 1 ELSE @.OSTmrEntries + 1]]
  BY DEF OSTmr_Link
<1> HIDE DEF match, spoke, first
<1>4. first \in On(T, spoke) \cup {Null}
  BY <1>2, LinkedFacts DEF GoodSpoke, On, first
<1>31. T[t] \in OSTmr
  BY <1>2
<1>32. T2[t] = [T[t] EXCEPT !.OSTmrState = "RUNNING", !.OSTmrMatch = match,
                            !.OSTmrNext = first, !.OSTmrPrev = Null]
  BY <1>3
<1>5. /\ T2[t].OSTmrState = "RUNNING" /\ T2[t].OSTmrMatch = match
      /\ T2[t].OSTmrNext = first /\ T2[t].OSTmrPrev = Null
      /\ T2[t].OSTmrOpt = T[t].OSTmrOpt /\ T2[t].OSTmrDly = T[t].OSTmrDly
      /\ T2[t].OSTmrPeriod = T[t].OSTmrPeriod /\ T2[t].OSTmrCallback = T[t].OSTmrCallback
  BY <1>31, <1>32 DEF OSTmr
<1>6. ASSUME NEW u \in Timer \ {t}
      PROVE  /\ SameButLinks(T, T2, u) /\ T2[u].OSTmrNext = T[u].OSTmrNext
             /\ T2[u].OSTmrPrev = IF u = first THEN t ELSE T[u].OSTmrPrev
  <2>1. CASE u = first
    BY <2>1, <1>2, <1>3, <1>4, NullNoTimer DEF On, SameButLinks, OSTmr
  <2>2. CASE u # first
    BY <2>2, <1>3 DEF SameButLinks
  <2> QED
    BY <2>1, <2>2
<1>7. T2 \in [Timer -> OSTmr]
  <2>1. first \in Timer \cup {Null} /\ match \in 0 .. TimeRange - 1
    BY <1>4 DEF On, match
  <2>2. ASSUME NEW u \in Timer PROVE T2[u] \in OSTmr
    <3>1. T[u] \in OSTmr
      BY <1>2
    <3>2. CASE u = t
      BY <3>2, <2>1, <1>31, <1>32 DEF OSTmr
    <3>3. CASE u # t
      <4>1. T2[u] = IF u = first THEN [T[u] EXCEPT !.OSTmrPrev = t] ELSE T[u]
        BY <3>3, <1>3
      <4> QED
        BY <4>1, <3>1 DEF OSTmr
    <3> QED
      BY <3>2, <3>3
  <2> QED
    BY <2>2, <1>3
<1>8. On(T2, spoke) = On(T, spoke) \cup {t} /\ t \notin On(T, spoke)
  BY <1>5, <1>6 DEF On, SameButLinks, spoke
<1>9. GoodSpoke(T2, W2, spoke)
  <2>1. W2[spoke].OSTmrFirst = t
    BY <1>1, <1>2, <1>3
  <2>2. W2[spoke].OSTmrEntries = IF first = Null THEN 1 ELSE W[spoke].OSTmrEntries + 1
    BY <1>1, <1>2, <1>3
  <2>3. On(T, spoke) \in SUBSET Timer /\ t \in Timer \ On(T, spoke)
    BY <1>8 DEF On
  <2>4. Linked(T, first, On(T, spoke)) /\ BackLinked(T, first, On(T, spoke))
    BY <1>2 DEF GoodSpoke, first
  <2>5. \A u \in On(T, spoke) :
          /\ T2[u].OSTmrNext = T[u].OSTmrNext
          /\ T2[u].OSTmrPrev = IF u = first THEN t ELSE T[u].OSTmrPrev
    BY <1>6, <2>3
  <2>6. Linked(T2, t, On(T2, spoke)) /\ BackLinked(T2, t, On(T2, spoke))
    BY <1>5, <1>8, <2>3, <2>4, <2>5, BackLinkedFront
  <2>7. /\ IsFiniteSet(On(T, spoke)) /\ Cardinality(On(T, spoke)) \in Nat
        /\ Cardinality(On(T2, spoke)) = Cardinality(On(T, spoke)) + 1
    BY <1>8, <2>3, SubsetFinite, FS_AddElement
  <2>8. first = Null => Cardinality(On(T, spoke)) = 0
    BY <2>3, <2>4, <2>7, LinkedFacts, FS_EmptySet
  <2>9. W[spoke].OSTmrEntries = Cardinality(On(T, spoke))
    BY <1>2 DEF GoodSpoke
  <2> QED
    BY <2>1, <2>2, <2>6, <2>7, <2>8, <2>9 DEF GoodSpoke
<1>10. ASSUME NEW s \in Spoke, s # spoke
       PROVE  GoodSpoke(T2, W2, s)
  <2>1. On(T2, s) = On(T, s) /\ t \notin On(T, s)
    BY <1>5, <1>6, <1>10 DEF On, SameButLinks, spoke
  <2>2. \A u \in On(T, s) : u \in Timer \ {t} /\ u # first
    BY <2>1, <1>4, <1>10, NullNoTimer DEF On
  <2>3. W2[s] = W[s]
    BY <1>2, <1>3, <1>10
  <2>4. GoodSpoke(T, W, s)
    BY DEF GoodWheel
  <2>5. \A u \in On(T, s) : T2[u].OSTmrNext = T[u].OSTmrNext /\ T2[u].OSTmrPrev = T[u].OSTmrPrev
    BY <1>6, <2>2
  <2> QED
    BY <2>1, <2>3, <2>4, <2>5, GoodSpokeKeep
<1>11. W2 \in [Spoke -> [OSTmrFirst : Timer \cup {Null}, OSTmrEntries : Nat]]
  <2>1. W[spoke].OSTmrEntries + 1 \in Nat
    BY <1>1, <1>2
  <2> QED
    BY <2>1, <1>1, <1>2, <1>3
<1> QED
  BY <1>5, <1>6, <1>7, <1>9, <1>10, <1>11 DEF GoodWheel, LinkedIn, match

\* OSTmrEntries, 16 bits wide, counts down without wrapping.
LEMMA EntriesDown ==
  ASSUME NEW n \in Nat, n > 0, n <= 65500
  PROVE  (n - 1) % 2^16 = n - 1 /\ n \in 0 .. 2^16 - 1
<1>1. 2^16 = 65536
  OBVIOUS
<1> QED
  BY <1>1

\* OSTmr_Unlink takes a running timer off the wheel and closes the gap.
LEMMA OSTmr_Unlink_Good ==
  ASSUME NEW w, NEW T, NEW W, T = w.tmr, W = w.wheel, GoodWheel(T, W),
         NEW t \in Timer, T[t].OSTmrState = "RUNNING",
         NEW T2, NEW W2, T2 = OSTmr_Unlink(w, t).tmr, W2 = OSTmr_Unlink(w, t).wheel
  PROVE  GoodWheel(T2, W2) /\ Unlinked(T, T2, t)
<1> DEFINE spoke == SpokeOf(T[t].OSTmrMatch)
           first == W[spoke].OSTmrFirst
           next  == T[t].OSTmrNext
           prev  == T[t].OSTmrPrev
<1>1. T \in [Timer -> OSTmr] /\ T[t] \in OSTmr
  BY DEF GoodWheel
<1>2. T[t].OSTmrMatch \in Nat
  BY <1>1 DEF OSTmr
<1>3. spoke \in Spoke
  BY <1>2, SpokeOfType
<1>4. /\ W \in [Spoke -> [OSTmrFirst : Timer \cup {Null}, OSTmrEntries : Nat]]
      /\ GoodSpoke(T, W, spoke)
  BY <1>3 DEF GoodWheel
<1>5. /\ T2 = [u \in Timer |->
              IF u = t THEN [T[t] EXCEPT !.OSTmrState = "STOPPED",
                                         !.OSTmrNext = Null, !.OSTmrPrev = Null]
              ELSE IF u = next
                THEN [T[u] EXCEPT !.OSTmrPrev = IF first = t THEN Null ELSE prev]
              ELSE IF u = prev /\ ~(first = t) THEN [T[u] EXCEPT !.OSTmrNext = next]
              ELSE T[u]]
      /\ W2 = [W EXCEPT
              ![spoke] = [OSTmrFirst |-> IF first = t THEN next ELSE @.OSTmrFirst,
                          OSTmrEntries |-> (@.OSTmrEntries - 1) % 2^16]]
  BY DEF OSTmr_Unlink
<1> DEFINE S == On(T, spoke)
<1>6. t \in S
  BY DEF On
<1>7. Linked(T, first, S) /\ BackLinked(T, first, S)
  BY <1>4 DEF GoodSpoke
<1>8. S \in SUBSET Timer
  BY DEF On
<1> HIDE DEF spoke, first, next, prev, S
<1>9. /\ next \in S \cup {Null} /\ next # t
      /\ \A u \in S : next = u => T[u].OSTmrNext # t
  <2>1. \A a \in S : T[a].OSTmrNext \in S \cup {Null} /\ T[a].OSTmrNext # first
    BY <1>7, <1>8, LinkedTargets
  <2>2. ASSUME NEW a \in S PROVE T[a].OSTmrNext # a
    BY <1>7, <1>8, LinkedNoLoop
  <2>3. \A u \in S : next = u => T[u].OSTmrNext # t
    BY <1>6, <1>7, <1>8, LinkedNoLoop DEF next
  <2> QED
    BY <2>1, <2>2, <2>3, <1>6 DEF next
<1>10. first = t => prev = Null
  BY <1>7, NullNoTimer DEF BackLinked, prev
<1>11. first # t => prev \in S /\ prev # t /\ T[prev].OSTmrNext = t /\ next # prev
  <2> SUFFICES ASSUME first # t
               PROVE  prev \in S /\ prev # t /\ T[prev].OSTmrNext = t /\ next # prev
    OBVIOUS
  <2>1. PICK u \in S : T[u].OSTmrNext = t
    BY <1>6, <1>7, <1>8, LinkedPredecessor
  <2>2. prev = u
    BY <2>1, <1>6, <1>7 DEF BackLinked, prev
  <2>3. u # t
    BY <2>1, <1>9 DEF next
  <2> QED
    BY <2>1, <2>2, <2>3, <1>9
<1>12. T2[t] = [T[t] EXCEPT !.OSTmrState = "STOPPED", !.OSTmrNext = Null, !.OSTmrPrev = Null]
  BY <1>5
<1>13. ASSUME NEW u \in Timer \ {t}
       PROVE  T2[u] = IF u = next THEN [T[u] EXCEPT !.OSTmrPrev = IF first = t THEN Null ELSE prev]
                      ELSE IF u = prev THEN [T[u] EXCEPT !.OSTmrNext = next] ELSE T[u]
  BY <1>5, <1>10, NullNoTimer
<1>14. ASSUME NEW u \in Timer \ {t}
       PROVE  /\ T2[u].OSTmrNext = IF u = prev THEN next ELSE T[u].OSTmrNext
              /\ T2[u].OSTmrPrev = IF u = next THEN IF first = t THEN Null ELSE prev
                                   ELSE T[u].OSTmrPrev
              /\ SameButLinks(T, T2, u)
              /\ T2[u] \in OSTmr
  <2>1. T[u] \in OSTmr
    BY <1>1
  <2>2. next \in Timer \cup {Null} /\ prev \in Timer \cup {Null}
    BY <1>1 DEF OSTmr, next, prev
  <2>3. CASE u = next
    <3>1. T2[u] = [T[u] EXCEPT !.OSTmrPrev = IF first = t THEN Null ELSE prev]
      BY <2>3, <1>13
    <3>2. u # prev /\ T[u].OSTmrState = "RUNNING"
      BY <2>3, <1>9, <1>10, <1>11, NullNoTimer DEF S, On
    <3> QED
      BY <3>1, <3>2, <2>1, <2>2, <2>3 DEF OSTmr, SameButLinks
  <2>4. CASE u # next /\ u = prev
    <3>1. T2[u] = [T[u] EXCEPT !.OSTmrNext = next]
      BY <2>4, <1>13
    <3>2. T[u].OSTmrState = "RUNNING"
      BY <2>4, <1>10, <1>11, NullNoTimer DEF S, On
    <3> QED
      BY <3>1, <3>2, <2>1, <2>2, <2>4 DEF OSTmr, SameButLinks
  <2>5. CASE u # next /\ u # prev
    <3>1. T2[u] = T[u]
      BY <2>5, <1>13
    <3> QED
      BY <3>1, <2>1, <2>5 DEF SameButLinks
  <2> QED
    BY <2>3, <2>4, <2>5
<1>15. T2 \in [Timer -> OSTmr]
  <2>1. T2[t] \in OSTmr
    BY <1>1, <1>12 DEF OSTmr
  <2>2. \A u \in Timer : T2[u] \in OSTmr
    BY <2>1, <1>14
  <2> QED
    BY <2>2, <1>5
<1>151. T2[t].OSTmrState = "STOPPED"
  BY <1>1, <1>12 DEF OSTmr
<1>16. On(T2, spoke) = S \ {t}
  BY <1>14, <1>151 DEF On, S, SameButLinks
<1>17. GoodSpoke(T2, W2, spoke)
  <2>1. \A u \in S \ {t} :
          /\ T2[u].OSTmrNext = IF u = T[t].OSTmrPrev THEN T[t].OSTmrNext ELSE T[u].OSTmrNext
          /\ T2[u].OSTmrPrev = IF u = T[t].OSTmrNext
                               THEN IF first = t THEN Null ELSE T[t].OSTmrPrev
                               ELSE T[u].OSTmrPrev
    BY <1>8, <1>14 DEF next, prev
  <2>2. W2[spoke].OSTmrFirst = IF first = t THEN next ELSE first
    BY <1>3, <1>4, <1>5 DEF first
  <2>3. /\ Linked(T2, IF first = t THEN next ELSE first, S \ {t})
        /\ BackLinked(T2, IF first = t THEN next ELSE first, S \ {t})
    <3>1. PICK rest : rest = IF first = t THEN T[t].OSTmrNext ELSE first
      OBVIOUS
    <3>2. ClosesGap(T, T2, S, first, t)
      BY <2>1 DEF ClosesGap
    <3>3. Linked(T2, rest, S \ {t}) /\ BackLinked(T2, rest, S \ {t})
      BY <3>1, <3>2, <1>6, <1>7, <1>8, BackLinkedRemove
    <3> QED
      BY <3>1, <3>3 DEF next
  <2>4. W[spoke].OSTmrEntries = Cardinality(S) /\ t \in S
    BY <1>4, <1>6 DEF GoodSpoke, S
  <2>5. /\ Cardinality(S) \in Nat /\ Cardinality(S) <= 65500 /\ Cardinality(S) > 0
        /\ Cardinality(S \ {t}) = Cardinality(S) - 1
    <3>1. Cardinality(S) <= 65500
      BY <1>8, SubsetFinite
    <3> QED
      BY <1>8, <2>4, <3>1, CountOneLess
  <2>6. W2[spoke].OSTmrEntries = (W[spoke].OSTmrEntries - 1) % 2^16
    BY <1>3, <1>4, <1>5
  <2>7. W2[spoke].OSTmrEntries = Cardinality(S \ {t})
    BY <2>4, <2>5, <2>6, EntriesDown
  <2> QED
    BY <2>2, <2>3, <2>7, <1>16 DEF GoodSpoke
<1>18. ASSUME NEW s \in Spoke, s # spoke
       PROVE  GoodSpoke(T2, W2, s)
  <2>1. On(T2, s) = On(T, s) /\ t \notin On(T, s)
    BY <1>14, <1>151, <1>18 DEF On, SameButLinks, spoke
  <2>2. \A u \in On(T, s) : u \in Timer \ {t} /\ u \notin S
    BY <2>1, <1>18 DEF On, S
  <2>3. \A u \in On(T, s) : u # next /\ u # prev
    BY <2>2, <1>9, <1>10, <1>11, NullNoTimer
  <2>4. W2[s] = W[s]
    BY <1>4, <1>5, <1>18
  <2>5. GoodSpoke(T, W, s)
    BY DEF GoodWheel
  <2>6. \A u \in On(T, s) : T2[u].OSTmrNext = T[u].OSTmrNext /\ T2[u].OSTmrPrev = T[u].OSTmrPrev
    BY <1>14, <2>2, <2>3
  <2> QED
    BY <2>1, <2>4, <2>5, <2>6, GoodSpokeKeep
<1>19. W2 \in [Spoke -> [OSTmrFirst : Timer \cup {Null}, OSTmrEntries : Nat]]
  <2>1. next \in Timer \cup {Null}
    BY <1>8, <1>9
  <2>2. (W[spoke].OSTmrEntries - 1) % 2^16 \in Nat
    <3>1. W[spoke].OSTmrEntries \in Nat
      BY <1>3, <1>4
    <3>2. 2^16 = 65536
      OBVIOUS
    <3> QED
      BY <3>1, <3>2
  <2> QED
    BY <2>1, <2>2, <1>3, <1>4, <1>5
<1>20. ASSUME NEW u \in Timer \ {t}, T[u].OSTmrState = "RUNNING"
       PROVE  T[u].OSTmrNext = t <=> u = prev
  <2>1. u = prev => T[u].OSTmrNext = t
    BY <1>10, <1>11, NullNoTimer
  <2>2. CASE u \in S
    BY <2>2, <1>6, <1>7 DEF BackLinked, prev
  <2>3. CASE u \notin S
    <3> DEFINE other == SpokeOf(T[u].OSTmrMatch)
    <3>1. T[u].OSTmrMatch \in Nat
      BY <1>1 DEF OSTmr
    <3>2. other \in Spoke /\ other # spoke
      BY <3>1, <2>3, <1>20, SpokeOfType DEF S, On
    <3>3. Linked(T, W[other].OSTmrFirst, On(T, other)) /\ u \in On(T, other)
      BY <3>2, <1>20 DEF GoodWheel, GoodSpoke, On
    <3>4. On(T, other) \in SUBSET Timer
      BY DEF On
    <3>5. T[u].OSTmrNext \in On(T, other) \cup {Null}
      BY <3>3, <3>4, LinkedTargets
    <3>6. t \notin On(T, other)
      BY <3>2 DEF On, spoke
    <3> QED
      BY <2>1, <3>5, <3>6, NullNoTimer
  <2> QED
    BY <2>2, <2>3
<1> QED
  BY <1>12, <1>14, <1>15, <1>17, <1>18, <1>19, <1>20 DEF GoodWheel, Unlinked, next

-----------------------------------------------------------------------------
(* The inductive invariant.                                                 *)

UnusedTimers(T) == {t \in Timer : T[t].OSTmrState = "UNUSED"}

GoodPool(T, free, nfree, nused) ==
  /\ Linked(T, free, UnusedTimers(T))
  /\ nfree = Cardinality(UnusedTimers(T))
  /\ nused = Cardinality(Timer) - nfree

\* Whatever starts the timers in use starts them for one tick at least.
ValidTimers(T) ==
  \A t \in Timer :
    T[t].OSTmrState # "UNUSED" =>
      /\ T[t].OSTmrOpt # "NONE"
      /\ T[t].OSTmrOpt = "PERIODIC" => T[t].OSTmrPeriod # 0
      /\ T[t].OSTmrOpt = "ONE_SHOT" => T[t].OSTmrDly # 0

\* What OSTmr_Task still has to visit in its turn, from next on: a part of the list
\* of the spoke, with every timer that expires in this tick.
Ahead(T, next, time) ==
  \E S \in SUBSET On(T, SpokeOf(time)) :
    /\ Linked(T, next, S)
    /\ \A t \in Timer : T[t].OSTmrState = "RUNNING" /\ T[t].OSTmrMatch = time => t \in S

IInv ==
  /\ GoodWheel(tmr, OSTmrWheelTbl)
  /\ GoodPool(tmr, OSTmrFreeList, OSTmrFree, OSTmrUsed)
  /\ ValidTimers(tmr)
  /\ Ahead(tmr, ptmr, OSTmrTime)
  /\ OSTmrTime \in 0 .. TimeRange - 1
  /\ OSTmrSemSignal \in 0 .. MaxSignals
  /\ callbacks \in Seq(Timer)

-----------------------------------------------------------------------------
(* What the operations on the wheel do to the pool and to the turn.         *)

\* The pool is the same.
SamePool(T, T2) ==
  \A u \in Timer : /\ T2[u].OSTmrState = "UNUSED" <=> T[u].OSTmrState = "UNUSED"
                   /\ T[u].OSTmrState = "UNUSED" => T2[u].OSTmrNext = T[u].OSTmrNext

\* The pool is not touched by what leaves the unused timers alone.
LEMMA GoodPoolKeep ==
  ASSUME NEW T, NEW T2, NEW free, NEW nfree, NEW nused, GoodPool(T, free, nfree, nused),
         SamePool(T, T2)
  PROVE  GoodPool(T2, free, nfree, nused)
<1>1. UnusedTimers(T2) = UnusedTimers(T)
  BY DEF UnusedTimers, SamePool
<1>2. \A u \in UnusedTimers(T) : T2[u].OSTmrNext = T[u].OSTmrNext
  BY DEF UnusedTimers, SamePool
<1>3. Linked(T2, free, UnusedTimers(T))
  BY <1>2, LinkedKeep DEF GoodPool
<1> QED
  BY <1>1, <1>3 DEF GoodPool

\* The turn of OSTmr_Task is not touched by what leaves the running timers alone.
LEMMA AheadKeep ==
  ASSUME NEW T, NEW T2, NEW p, NEW time, Ahead(T, p, time),
         \A u \in Timer :
           T[u].OSTmrState = "RUNNING" \/ T2[u].OSTmrState = "RUNNING" =>
             /\ T2[u].OSTmrState = T[u].OSTmrState /\ T2[u].OSTmrMatch = T[u].OSTmrMatch
             /\ T2[u].OSTmrNext = T[u].OSTmrNext
  PROVE  Ahead(T2, p, time)
<1>1. PICK S \in SUBSET On(T, SpokeOf(time)) :
        /\ Linked(T, p, S)
        /\ \A u \in Timer : T[u].OSTmrState = "RUNNING" /\ T[u].OSTmrMatch = time => u \in S
  BY DEF Ahead
<1>2. On(T2, SpokeOf(time)) = On(T, SpokeOf(time))
  BY DEF On
<1>3. \A u \in S : T2[u].OSTmrNext = T[u].OSTmrNext
  BY DEF On
<1>4. Linked(T2, p, S)
  BY <1>1, <1>3, LinkedKeep
<1>5. \A u \in Timer : T2[u].OSTmrState = "RUNNING" /\ T2[u].OSTmrMatch = time => u \in S
  BY <1>1
<1> QED
  BY <1>2, <1>4, <1>5 DEF Ahead

\* A started timer expires in another tick than the present one.
LEMMA MatchInType ==
  ASSUME OSTmrTime \in 0 .. TimeRange - 1, NEW n \in 1 .. TimeRange - 1
  PROVE  MatchIn(n) \in 0 .. TimeRange - 1 /\ MatchIn(n) # OSTmrTime
BY TmrAssumption DEF TmrAssumption, MatchIn

\* The delays of a timer in use are of one tick at least.
LEMMA DelayType ==
  ASSUME NEW T, T \in [Timer -> OSTmr], ValidTimers(T), NEW t \in Timer,
         T[t].OSTmrState # "UNUSED"
  PROVE  /\ Delay(T[t]) \in 1 .. TimeRange - 1
         /\ T[t].OSTmrOpt = "PERIODIC" => T[t].OSTmrPeriod \in 1 .. TimeRange - 1
<1>1. /\ T[t].OSTmrDly \in 0 .. TimeRange - 1 /\ T[t].OSTmrPeriod \in 0 .. TimeRange - 1
      /\ T[t].OSTmrOpt \in {"ONE_SHOT", "PERIODIC"}
  BY DEF OSTmr, ValidTimers
<1>2. /\ T[t].OSTmrOpt = "PERIODIC" => T[t].OSTmrPeriod # 0
      /\ T[t].OSTmrOpt = "ONE_SHOT" => T[t].OSTmrDly # 0
  BY DEF ValidTimers
<1> QED
  BY <1>1, <1>2, TmrAssumption DEF TmrAssumption, Delay

\* The timers, the wheel and the turn of OSTmr_Task at time.
Sound(T, W, p, time) ==
  GoodWheel(T, W) /\ ValidTimers(T) /\ Ahead(T, p, time)

\* Starting a timer that is in use and does not run.
LEMMA OSTmr_Link_Sound ==
  ASSUME NEW w, NEW T, NEW W, T = w.tmr, W = w.wheel, NEW p, Sound(T, W, p, OSTmrTime),
         OSTmrTime \in 0 .. TimeRange - 1,
         NEW t \in Timer, T[t].OSTmrState \notin {"RUNNING", "UNUSED"},
         NEW n \in 1 .. TimeRange - 1,
         NEW T2, NEW W2, T2 = OSTmr_Link(w, t, n).tmr, W2 = OSTmr_Link(w, t, n).wheel
  PROVE  Sound(T2, W2, p, OSTmrTime) /\ SamePool(T, T2) /\ LinkedIn(T, T2, t, MatchIn(n))
<1>1. MatchIn(n) \in 0 .. TimeRange - 1 /\ MatchIn(n) # OSTmrTime
  BY MatchInType
<1>2. GoodWheel(T, W) /\ T[t].OSTmrState # "RUNNING" /\ T[t].OSTmrState # "UNUSED"
  BY DEF Sound
<1>3. GoodWheel(T2, W2) /\ LinkedIn(T, T2, t, MatchIn(n))
  BY <1>1, <1>2, OSTmr_Link_Good
<1>4. /\ T2[t].OSTmrState = "RUNNING" /\ T2[t].OSTmrMatch = MatchIn(n)
      /\ T2[t].OSTmrOpt = T[t].OSTmrOpt /\ T2[t].OSTmrDly = T[t].OSTmrDly
      /\ T2[t].OSTmrPeriod = T[t].OSTmrPeriod
      /\ \A u \in Timer \ {t} : SameButLinks(T, T2, u) /\ T2[u].OSTmrNext = T[u].OSTmrNext
  BY <1>3 DEF LinkedIn
<1>5. ValidTimers(T2)
  BY <1>2, <1>4 DEF Sound, ValidTimers, SameButLinks
<1>6. PICK S \in SUBSET On(T, SpokeOf(OSTmrTime)) :
        /\ Linked(T, p, S)
        /\ \A u \in Timer : T[u].OSTmrState = "RUNNING" /\ T[u].OSTmrMatch = OSTmrTime => u \in S
  BY DEF Sound, Ahead
<1>7. t \notin S /\ S \in SUBSET Timer
  BY <1>2 DEF On
<1>8. S \in SUBSET On(T2, SpokeOf(OSTmrTime))
  BY <1>4, <1>7 DEF On, SameButLinks
<1>9. Linked(T2, p, S)
  BY <1>4, <1>6, <1>7, LinkedKeep
<1>10. \A u \in Timer : T2[u].OSTmrState = "RUNNING" /\ T2[u].OSTmrMatch = OSTmrTime => u \in S
  BY <1>1, <1>4, <1>6 DEF SameButLinks
<1>11. Ahead(T2, p, OSTmrTime)
  BY <1>8, <1>9, <1>10 DEF Ahead
<1>12. SamePool(T, T2)
  BY <1>2, <1>4 DEF SameButLinks, SamePool
<1> QED
  BY <1>3, <1>5, <1>11, <1>12 DEF Sound

\* Taking a running timer off the wheel.  If it is the next of the turn, the turn
\* goes on with its successor.
LEMMA OSTmr_Unlink_Sound ==
  ASSUME NEW w, NEW T, NEW W, T = w.tmr, W = w.wheel, NEW p, NEW time, Sound(T, W, p, time),
         NEW t \in Timer, T[t].OSTmrState = "RUNNING",
         NEW T2, NEW W2, T2 = OSTmr_Unlink(w, t).tmr, W2 = OSTmr_Unlink(w, t).wheel
  PROVE  /\ Sound(T2, W2, IF p = t THEN T[t].OSTmrNext ELSE p, time)
         /\ SamePool(T, T2) /\ Unlinked(T, T2, t)
<1>1. GoodWheel(T, W) /\ T[t] \in OSTmr
  BY DEF Sound, GoodWheel
<1>2. GoodWheel(T2, W2) /\ Unlinked(T, T2, t)
  BY <1>1, OSTmr_Unlink_Good
<1>3. /\ T2[t] = [T[t] EXCEPT !.OSTmrState = "STOPPED", !.OSTmrNext = Null, !.OSTmrPrev = Null]
      /\ \A u \in Timer \ {t} :
           /\ SameButLinks(T, T2, u)
           /\ T[u].OSTmrState = "RUNNING" =>
                T2[u].OSTmrNext = IF T[u].OSTmrNext = t THEN T[t].OSTmrNext ELSE T[u].OSTmrNext
  BY <1>2 DEF Unlinked
<1>4. /\ T2[t].OSTmrState = "STOPPED" /\ T2[t].OSTmrOpt = T[t].OSTmrOpt
      /\ T2[t].OSTmrDly = T[t].OSTmrDly /\ T2[t].OSTmrPeriod = T[t].OSTmrPeriod
  BY <1>1, <1>3 DEF OSTmr
<1>31. \A u \in Timer \ {t} :
         /\ T2[u].OSTmrState = T[u].OSTmrState /\ T2[u].OSTmrMatch = T[u].OSTmrMatch
         /\ T2[u].OSTmrOpt = T[u].OSTmrOpt /\ T2[u].OSTmrDly = T[u].OSTmrDly
         /\ T2[u].OSTmrPeriod = T[u].OSTmrPeriod
  BY <1>3 DEF SameButLinks
<1>5. ValidTimers(T2)
  BY <1>31, <1>4 DEF Sound, ValidTimers
<1>6. PICK S \in SUBSET On(T, SpokeOf(time)) :
        /\ Linked(T, p, S)
        /\ \A u \in Timer : T[u].OSTmrState = "RUNNING" /\ T[u].OSTmrMatch = time => u \in S
  BY DEF Sound, Ahead
<1>7. S \in SUBSET Timer /\ \A u \in S : T[u].OSTmrState = "RUNNING"
  BY DEF On
<1>8. S \ {t} \in SUBSET On(T2, SpokeOf(time))
  BY <1>3, <1>7 DEF On, SameButLinks
<1>9. Linked(T2, IF p = t THEN T[t].OSTmrNext ELSE p, S \ {t})
  <2>1. CASE t \in S
    <3>1. \A u \in S \ {t} :
            T2[u].OSTmrNext = IF T[u].OSTmrNext = t THEN T[t].OSTmrNext ELSE T[u].OSTmrNext
      BY <1>3, <1>7
    <3> QED
      <4>1. Linked(T, p, S) /\ S \in SUBSET Timer /\ t \in S
        BY <1>6, <1>7, <2>1
      <4> QED
        BY <3>1, <4>1, LinkedRemove
  <2>2. CASE t \notin S
    <3>0. Linked(T, p, S) /\ S \in SUBSET Timer
      BY <1>6, <1>7
    <3>1. p # t /\ \A u \in S : T[u].OSTmrNext # t
      <4>1. p \in S \cup {Null}
        BY <3>0, LinkedFirst
      <4>2. \A u \in S : T[u].OSTmrNext \in S \cup {Null} /\ T[u].OSTmrNext # p
        BY <3>0, LinkedTargets
      <4> QED
        BY <4>1, <4>2, <2>2, NullNoTimer
    <3>2. \A u \in S : T2[u].OSTmrNext = T[u].OSTmrNext
      BY <2>2, <3>1, <1>3, <1>7
    <3>3. Linked(T2, p, S) /\ S \ {t} = S
      BY <2>2, <3>2, <1>6, LinkedKeep
    <3> QED
      BY <3>1, <3>3
  <2> QED
    BY <2>1, <2>2
<1>10. \A u \in Timer : T2[u].OSTmrState = "RUNNING" /\ T2[u].OSTmrMatch = time => u \in S \ {t}
  BY <1>31, <1>4, <1>6
<1>11. Ahead(T2, IF p = t THEN T[t].OSTmrNext ELSE p, time)
  BY <1>8, <1>9, <1>10 DEF Ahead
<1>12. SamePool(T, T2)
  BY <1>3, <1>4 DEF SameButLinks, SamePool
<1> QED
  BY <1>2, <1>5, <1>11, <1>12 DEF Sound

\* Writing the other fields of a timer that does not run.
LEMMA Write_Sound ==
  ASSUME NEW T, NEW W, NEW p, NEW time, Sound(T, W, p, time),
         NEW t \in Timer, T[t].OSTmrState # "RUNNING",
         NEW r \in OSTmr, r.OSTmrState # "RUNNING",
         r.OSTmrState # "UNUSED" =>
           /\ r.OSTmrOpt # "NONE"
           /\ r.OSTmrOpt = "PERIODIC" => r.OSTmrPeriod # 0
           /\ r.OSTmrOpt = "ONE_SHOT" => r.OSTmrDly # 0,
         NEW T2, T2 = [T EXCEPT ![t] = r]
  PROVE  Sound(T2, W, p, time)
<1>1. GoodWheel(T, W) /\ ValidTimers(T) /\ Ahead(T, p, time) /\ T \in [Timer -> OSTmr]
  BY DEF Sound, GoodWheel
<1>2. T2 \in [Timer -> OSTmr] /\ T2[t] = r /\ \A u \in Timer \ {t} : T2[u] = T[u]
  BY <1>1
<1>3. \A u \in Timer :
        T[u].OSTmrState = "RUNNING" \/ T2[u].OSTmrState = "RUNNING" => T2[u] = T[u]
  BY <1>2
<1>4. GoodWheel(T2, W)
  BY <1>1, <1>2, <1>3, GoodWheelKeep
<1>5. Ahead(T2, p, time)
  <2>1. \A u \in Timer :
          T[u].OSTmrState = "RUNNING" \/ T2[u].OSTmrState = "RUNNING" =>
            /\ T2[u].OSTmrState = T[u].OSTmrState /\ T2[u].OSTmrMatch = T[u].OSTmrMatch
            /\ T2[u].OSTmrNext = T[u].OSTmrNext
    BY <1>3
  <2> QED
    BY <1>1, <2>1, AheadKeep
<1>6. ValidTimers(T2)
  BY <1>1, <1>2 DEF ValidTimers
<1> QED
  BY <1>4, <1>5, <1>6 DEF Sound

-----------------------------------------------------------------------------
(* The invariant is inductive.                                              *)

\* The list without timers.
LEMMA LinkedEmpty == ASSUME NEW T PROVE Linked(T, Null, {})
<1> DEFINE none == [i \in 1 .. 0 |-> i]
<1>1. none \in [1 .. 0 -> {}]
  OBVIOUS
<1>2. Lists(T, Null, {}, 0, none)
  BY DEF Lists
<1> QED
  BY <1>1, <1>2 DEF Linked

\* OSTmr_Init links the table into the pool and leaves the wheel empty.
LEMMA InitIInv == Init => IInv
<1> SUFFICES ASSUME Init PROVE IInv
  OBVIOUS
<1>1. /\ OSTmrTbl \in [1 .. Len(OSTmrTbl) -> Timer] /\ Len(OSTmrTbl) \in Nat /\ Len(OSTmrTbl) > 0
      /\ \A i, j \in 1 .. Len(OSTmrTbl) : OSTmrTbl[i] = OSTmrTbl[j] => i = j
      /\ \A t \in Timer : \E i \in 1 .. Len(OSTmrTbl) : OSTmrTbl[i] = t
      /\ DOMAIN OSTmrTbl = 1 .. Len(OSTmrTbl)
  <2>1. OSTmrTbl \in Seq(Timer) /\ OSTmrTbl # <<>> /\ IsInjective(OSTmrTbl)
    BY TmrAssumption DEF TmrAssumption
  <2>2. /\ OSTmrTbl \in [1 .. Len(OSTmrTbl) -> Timer] /\ Len(OSTmrTbl) \in Nat
        /\ Len(OSTmrTbl) > 0 /\ DOMAIN OSTmrTbl = 1 .. Len(OSTmrTbl)
    BY <2>1
  <2> QED
    BY <2>1, <2>2 DEF IsInjective, Timer, Range
<1>2. Len(OSTmrTbl) \in Nat /\ Len(OSTmrTbl) > 0
  BY <1>1
<1> DEFINE ix(t) == CHOOSE i \in DOMAIN OSTmrTbl : OSTmrTbl[i] = t
<1>21. tmr = [t \in Timer |->
         [Unused EXCEPT !.OSTmrNext =
            IF ix(t) = Len(OSTmrTbl) THEN Null ELSE OSTmrTbl[ix(t) + 1]]]
  BY DEF Init
<1>3. ASSUME NEW i \in 1 .. Len(OSTmrTbl)
      PROVE  tmr[OSTmrTbl[i]] =
               [Unused EXCEPT !.OSTmrNext =
                  IF i = Len(OSTmrTbl) THEN Null ELSE OSTmrTbl[i + 1]]
  <2>1. ix(OSTmrTbl[i]) = i
    BY <1>1
  <2>2. OSTmrTbl[i] \in Timer
    BY <1>1
  <2> HIDE DEF ix
  <2> QED
    BY <2>1, <2>2, <1>21
<1>4. \A t \in Timer : tmr[t] \in OSTmr /\ tmr[t].OSTmrState = "UNUSED"
  <2> SUFFICES ASSUME NEW t \in Timer PROVE tmr[t] \in OSTmr /\ tmr[t].OSTmrState = "UNUSED"
    OBVIOUS
  <2>1. PICK i \in 1 .. Len(OSTmrTbl) : OSTmrTbl[i] = t
    BY <1>1
  <2>2. (IF i = Len(OSTmrTbl) THEN Null ELSE OSTmrTbl[i + 1]) \in Timer \cup {Null}
    <3>1. i # Len(OSTmrTbl) => i + 1 \in 1 .. Len(OSTmrTbl)
      BY <1>2
    <3> QED
      BY <1>1, <3>1
  <2>3. 0 \in 0 .. TimeRange - 1
    BY TmrAssumption DEF TmrAssumption
  <2> DEFINE next == IF i = Len(OSTmrTbl) THEN Null ELSE OSTmrTbl[i + 1]
  <2>4. tmr[t] = [Unused EXCEPT !.OSTmrNext = next]
    BY <2>1, <1>3
  <2>5. next \in Timer \cup {Null}
    BY <2>2
  <2> HIDE DEF next
  <2> QED
    BY <2>3, <2>4, <2>5 DEF OSTmr, Unused
<1>5. tmr \in [Timer -> OSTmr]
  <2>1. tmr = [t \in Timer |-> tmr[t]]
    BY DEF Init
  <2> QED
    BY <2>1, <1>4
<1>6. \A s : On(tmr, s) = {}
  BY <1>4 DEF On
<1>7. GoodWheel(tmr, OSTmrWheelTbl)
  <2>1. OSTmrWheelTbl = [s \in Spoke |-> [OSTmrFirst |-> Null, OSTmrEntries |-> 0]]
    BY DEF Init
  <2>2. OSTmrWheelTbl \in [Spoke -> [OSTmrFirst : Timer \cup {Null}, OSTmrEntries : Nat]]
    BY <2>1
  <2>3. ASSUME NEW s \in Spoke PROVE GoodSpoke(tmr, OSTmrWheelTbl, s)
    <3>1. OSTmrWheelTbl[s].OSTmrFirst = Null /\ OSTmrWheelTbl[s].OSTmrEntries = 0
      BY <2>1
    <3> QED
      BY <3>1, <1>6, LinkedEmpty, FS_EmptySet DEF GoodSpoke, BackLinked
  <2> QED
    BY <2>2, <2>3, <1>5 DEF GoodWheel
<1>8. GoodPool(tmr, OSTmrFreeList, OSTmrFree, OSTmrUsed)
  <2>1. UnusedTimers(tmr) = Timer
    BY <1>4 DEF UnusedTimers
  <2>2. \A i \in 1 .. Len(OSTmrTbl) :
          tmr[OSTmrTbl[i]].OSTmrNext = IF i = Len(OSTmrTbl) THEN Null ELSE OSTmrTbl[i + 1]
    BY <1>3 DEF Unused
  <2>3. OSTmrFreeList = OSTmrTbl[1] /\ OSTmrFree = Len(OSTmrTbl) /\ OSTmrUsed = 0
    BY DEF Init
  <2>4. Lists(tmr, OSTmrFreeList, Timer, Len(OSTmrTbl), OSTmrTbl)
    <3>1. OSTmrFreeList = IF Len(OSTmrTbl) = 0 THEN Null ELSE OSTmrTbl[1]
      BY <1>2, <2>3
    <3>2. /\ \A i, j \in 1 .. Len(OSTmrTbl) : OSTmrTbl[i] = OSTmrTbl[j] => i = j
          /\ \A t \in Timer : \E i \in 1 .. Len(OSTmrTbl) : OSTmrTbl[i] = t
      BY <1>1
    <3> QED
      BY <2>2, <3>1, <3>2 DEF Lists
  <2>5. Linked(tmr, OSTmrFreeList, Timer)
    BY <1>1, <2>4 DEF Linked
  <2> QED
    BY <1>1, <2>1, <2>3, <2>5, TimerFinite DEF GoodPool
<1>9. ValidTimers(tmr)
  BY <1>4 DEF ValidTimers
<1>10. Ahead(tmr, ptmr, OSTmrTime)
  <2>1. {} \in SUBSET On(tmr, SpokeOf(OSTmrTime)) /\ Linked(tmr, ptmr, {})
    BY LinkedEmpty DEF Init
  <2> QED
    BY <2>1, <1>4 DEF Ahead
<1>11. /\ OSTmrTime \in 0 .. TimeRange - 1 /\ OSTmrSemSignal \in 0 .. MaxSignals
       /\ callbacks \in Seq(Timer)
  BY TmrAssumption DEF TmrAssumption, Init
<1> QED
  BY <1>7, <1>8, <1>9, <1>10, <1>11 DEF IInv

\* The parts of the invariant, with the timers, wheel and turn as one.
LEMMA IInvParts ==
  IInv <=> /\ Sound(tmr, OSTmrWheelTbl, ptmr, OSTmrTime)
           /\ GoodPool(tmr, OSTmrFreeList, OSTmrFree, OSTmrUsed)
           /\ OSTmrTime \in 0 .. TimeRange - 1
           /\ OSTmrSemSignal \in 0 .. MaxSignals
           /\ callbacks \in Seq(Timer)
BY DEF IInv, Sound

\* A service is not called with the next timer of the turn.
LEMMA MayUseSpares == ASSUME CallbacksSpareNext, NEW t \in Timer, MayUse(t) PROVE t # ptmr
BY NullNoTimer DEF MayUse, Unlocked

\* OSTmrCreate takes the first timer of the pool.
LEMMA OSTmrCreate_Step ==
  ASSUME IInv, NEW t \in Timer, NEW s \in Setting, OSTmrCreate(t, s)
  PROVE  IInv'
<1> DEFINE r == [tmr[t] EXCEPT !.OSTmrState = "STOPPED", !.OSTmrDly = s.dly,
                               !.OSTmrPeriod = s.period, !.OSTmrOpt = s.opt,
                               !.OSTmrCallback = s.callback,
                               !.OSTmrNext = Null, !.OSTmrPrev = Null]
<1>1. /\ Sound(tmr, OSTmrWheelTbl, ptmr, OSTmrTime)
      /\ GoodPool(tmr, OSTmrFreeList, OSTmrFree, OSTmrUsed)
      /\ tmr \in [Timer -> OSTmr] /\ tmr[t] \in OSTmr
  BY IInvParts DEF Sound, GoodWheel
<1>2. /\ OSTmrFreeList = t /\ OSTmrFreeList' = tmr[t].OSTmrNext
      /\ OSTmrUsed' = OSTmrUsed + 1 /\ OSTmrFree' = OSTmrFree - 1
      /\ tmr' = [tmr EXCEPT ![t] = r] /\ Valid(s)
      /\ UNCHANGED <<OSTmrWheelTbl, timeVars, ptmr, callbacks>>
  BY DEF OSTmrCreate, OSTmr_Alloc
<1>3. /\ s.opt \in {"ONE_SHOT", "PERIODIC"} /\ s.dly \in 0 .. TimeRange - 1
      /\ s.period \in 0 .. TimeRange - 1 /\ s.callback \in BOOLEAN
  BY TmrAssumption DEF TmrAssumption
<1>4. /\ r \in OSTmr /\ r.OSTmrState = "STOPPED" /\ r.OSTmrOpt = s.opt
      /\ r.OSTmrPeriod = s.period /\ r.OSTmrDly = s.dly
  BY <1>1, <1>3 DEF OSTmr
<1> DEFINE S == UnusedTimers(tmr)
<1>5. S \in SUBSET Timer /\ Linked(tmr, t, S)
  BY <1>1, <1>2 DEF GoodPool, UnusedTimers
<1>6. t \in S
  BY <1>5, LinkedFirst, NullNoTimer
<1>7. tmr[t].OSTmrState = "UNUSED"
  BY <1>6 DEF UnusedTimers
<1> HIDE DEF r, S
<1>8. Sound(tmr', OSTmrWheelTbl, ptmr, OSTmrTime)
  <2>1. /\ r.OSTmrOpt # "NONE"
        /\ r.OSTmrOpt = "PERIODIC" => r.OSTmrPeriod # 0
        /\ r.OSTmrOpt = "ONE_SHOT" => r.OSTmrDly # 0
    BY <1>2, <1>3, <1>4 DEF Valid
  <2> QED
    BY <2>1, <1>1, <1>2, <1>4, <1>7, Write_Sound
<1>9. tmr'[t] = r /\ \A u \in Timer \ {t} : tmr'[u] = tmr[u]
  BY <1>1, <1>2
<1>10. UnusedTimers(tmr') = S \ {t}
  BY <1>4, <1>9 DEF UnusedTimers, S
<1>11. Linked(tmr', tmr[t].OSTmrNext, S \ {t})
  <2>1. \A u \in S : tmr[u].OSTmrNext # t
    BY <1>5, LinkedTargets
  <2>2. \A u \in S \ {t} :
          tmr'[u].OSTmrNext = IF tmr[u].OSTmrNext = t THEN tmr[t].OSTmrNext ELSE tmr[u].OSTmrNext
    BY <2>1, <1>5, <1>9
  <2>3. Linked(tmr', IF t = t THEN tmr[t].OSTmrNext ELSE t, S \ {t})
    BY <2>2, <1>5, <1>6, LinkedRemove
  <2> QED
    BY <2>3
<1>12. GoodPool(tmr', OSTmrFreeList', OSTmrFree', OSTmrUsed')
  <2>1. Cardinality(S) \in Nat /\ Cardinality(S \ {t}) = Cardinality(S) - 1
    BY <1>5, <1>6, CountOneLess
  <2>2. OSTmrFree = Cardinality(S) /\ OSTmrUsed = Cardinality(Timer) - OSTmrFree
    BY <1>1 DEF GoodPool, S
  <2>3. Cardinality(Timer) \in Nat
    BY SubsetFinite
  <2>4. /\ OSTmrFree' = Cardinality(S \ {t})
        /\ OSTmrUsed' = Cardinality(Timer) - OSTmrFree'
    BY <2>1, <2>2, <2>3, <1>2
  <2> QED
    BY <2>4, <1>2, <1>10, <1>11 DEF GoodPool
<1> QED
  BY <1>2, <1>8, <1>12, IInvParts DEF IInv, Sound, timeVars

\* OSTmr_Free puts a timer that is in use and does not run in front of the pool.
LEMMA OSTmr_Free_Step ==
  ASSUME NEW w, NEW T, NEW W, w = [tmr |-> T, wheel |-> W],
         Sound(T, W, ptmr, OSTmrTime), GoodPool(T, OSTmrFreeList, OSTmrFree, OSTmrUsed),
         NEW t \in Timer, T[t].OSTmrState \notin {"RUNNING", "UNUSED"},
         OSTmr_Free(w, t)
  PROVE  /\ Sound(tmr', OSTmrWheelTbl', ptmr, OSTmrTime)
         /\ GoodPool(tmr', OSTmrFreeList', OSTmrFree', OSTmrUsed')
<1> DEFINE r == [Unused EXCEPT !.OSTmrDly = T[t].OSTmrDly, !.OSTmrNext = OSTmrFreeList]
           S == UnusedTimers(T)
<1>1. T \in [Timer -> OSTmr] /\ T[t] \in OSTmr
  BY DEF Sound, GoodWheel
<1>2. /\ tmr' = [T EXCEPT ![t] = r] /\ OSTmrWheelTbl' = W
      /\ OSTmrFreeList' = t /\ OSTmrUsed' = OSTmrUsed - 1 /\ OSTmrFree' = OSTmrFree + 1
  BY DEF OSTmr_Free, WheelBecomes
<1>3. S \in SUBSET Timer /\ Linked(T, OSTmrFreeList, S) /\ t \notin S
  BY DEF GoodPool, UnusedTimers
<1>4. OSTmrFreeList \in Timer \cup {Null}
  BY <1>3, LinkedFirst
<1>5. r \in OSTmr /\ r.OSTmrState = "UNUSED" /\ r.OSTmrNext = OSTmrFreeList
  <2>1. 0 \in 0 .. TimeRange - 1 /\ T[t].OSTmrDly \in 0 .. TimeRange - 1
    BY <1>1, TmrAssumption DEF TmrAssumption, OSTmr
  <2> QED
    BY <2>1, <1>4 DEF OSTmr, Unused
<1> HIDE DEF r
<1>6. Sound(tmr', OSTmrWheelTbl', ptmr, OSTmrTime)
  <2>1. T[t].OSTmrState # "RUNNING" /\ r.OSTmrState # "RUNNING"
    BY <1>5
  <2> QED
    BY <2>1, <1>2, <1>5, Write_Sound
<1>7. tmr'[t] = r /\ \A u \in Timer \ {t} : tmr'[u] = T[u]
  BY <1>1, <1>2
<1>8. UnusedTimers(tmr') = S \cup {t}
  BY <1>5, <1>7 DEF UnusedTimers
<1> HIDE DEF S
<1>9. Linked(tmr', t, S \cup {t})
  <2>1. \A u \in S : tmr'[u].OSTmrNext = T[u].OSTmrNext
    BY <1>3, <1>7
  <2>2. tmr'[t].OSTmrNext = OSTmrFreeList
    BY <1>5, <1>7
  <2> QED
    BY <2>1, <2>2, <1>3, LinkedFront
<1>10. GoodPool(tmr', OSTmrFreeList', OSTmrFree', OSTmrUsed')
  <2>1. Cardinality(S) \in Nat /\ Cardinality(S \cup {t}) = Cardinality(S) + 1
    BY <1>3, CountOneMore
  <2>2. OSTmrFree = Cardinality(S) /\ OSTmrUsed = Cardinality(Timer) - OSTmrFree
    BY DEF GoodPool, S
  <2>3. Cardinality(Timer) \in Nat
    BY SubsetFinite
  <2>4. /\ OSTmrFree' = Cardinality(S \cup {t})
        /\ OSTmrUsed' = Cardinality(Timer) - OSTmrFree'
    BY <2>1, <2>2, <2>3, <1>2
  <2> QED
    BY <2>4, <1>2, <1>8, <1>9 DEF GoodPool
<1> QED
  BY <1>6, <1>10

\* The wheel without a running timer t, as a record.
LEMMA UnlinkRecord ==
  ASSUME NEW w, NEW t
  PROVE  OSTmr_Unlink(w, t) = [tmr |-> OSTmr_Unlink(w, t).tmr, wheel |-> OSTmr_Unlink(w, t).wheel]
BY DEF OSTmr_Unlink

\* What taking a running timer off the wheel leaves.
LEMMA Unlink_Step ==
  ASSUME IInv, NEW t \in Timer, tmr[t].OSTmrState = "RUNNING",
         NEW T, NEW W, T = OSTmr_Unlink(Wheel, t).tmr, W = OSTmr_Unlink(Wheel, t).wheel
  PROVE  /\ Sound(T, W, IF ptmr = t THEN tmr[t].OSTmrNext ELSE ptmr, OSTmrTime)
         /\ GoodPool(T, OSTmrFreeList, OSTmrFree, OSTmrUsed)
         /\ T[t].OSTmrState = "STOPPED"
         /\ OSTmr_Unlink(Wheel, t) = [tmr |-> T, wheel |-> W]
         /\ Unlinked(tmr, T, t)
<1>1. /\ Sound(tmr, OSTmrWheelTbl, ptmr, OSTmrTime)
      /\ GoodPool(tmr, OSTmrFreeList, OSTmrFree, OSTmrUsed)
      /\ tmr[t] \in OSTmr
  BY IInvParts DEF Sound, GoodWheel
<1>2. tmr = Wheel.tmr /\ OSTmrWheelTbl = Wheel.wheel
  BY DEF Wheel
<1>3. /\ Sound(T, W, IF ptmr = t THEN tmr[t].OSTmrNext ELSE ptmr, OSTmrTime)
      /\ SamePool(tmr, T) /\ Unlinked(tmr, T, t)
  BY <1>1, <1>2, OSTmr_Unlink_Sound
<1>4. T[t].OSTmrState = "STOPPED"
  BY <1>1, <1>3 DEF Unlinked, OSTmr
<1>5. GoodPool(T, OSTmrFreeList, OSTmrFree, OSTmrUsed)
  BY <1>1, <1>3, GoodPoolKeep
<1> QED
  BY <1>3, <1>4, <1>5, UnlinkRecord

\* OSTmrDel, of a running timer or of another.
LEMMA OSTmrDel_Step ==
  ASSUME CallbacksSpareNext, IInv, NEW t \in Timer, OSTmrDel(t)
  PROVE  IInv'
<1>1. t # ptmr /\ UNCHANGED <<timeVars, ptmr, callbacks>>
  BY MayUseSpares DEF OSTmrDel
<1>2. /\ Sound(tmr', OSTmrWheelTbl', ptmr, OSTmrTime)
      /\ GoodPool(tmr', OSTmrFreeList', OSTmrFree', OSTmrUsed')
  <2>1. CASE tmr[t].OSTmrState = "RUNNING" /\ OSTmr_Free(OSTmr_Unlink(Wheel, t), t)
    <3> DEFINE T == OSTmr_Unlink(Wheel, t).tmr
               W == OSTmr_Unlink(Wheel, t).wheel
    <3>1. /\ Sound(T, W, IF ptmr = t THEN tmr[t].OSTmrNext ELSE ptmr, OSTmrTime)
          /\ GoodPool(T, OSTmrFreeList, OSTmrFree, OSTmrUsed)
          /\ T[t].OSTmrState = "STOPPED"
          /\ OSTmr_Unlink(Wheel, t) = [tmr |-> T, wheel |-> W]
      BY <2>1, Unlink_Step
    <3> HIDE DEF T, W
    <3>2. Sound(T, W, ptmr, OSTmrTime) /\ T[t].OSTmrState \notin {"RUNNING", "UNUSED"}
      BY <3>1, <1>1
    <3>3. OSTmr_Free([tmr |-> T, wheel |-> W], t)
      BY <2>1, <3>1
    <3> QED
      BY <3>1, <3>2, <3>3, OSTmr_Free_Step
  <2>2. CASE tmr[t].OSTmrState \in {"STOPPED", "COMPLETED"} /\ OSTmr_Free(Wheel, t)
    <3>1. Wheel = [tmr |-> tmr, wheel |-> OSTmrWheelTbl]
      BY DEF Wheel
    <3>2. tmr[t].OSTmrState \notin {"RUNNING", "UNUSED"}
      BY <2>2
    <3> QED
      BY <2>2, <3>1, <3>2, IInvParts, OSTmr_Free_Step
  <2> QED
    BY <2>1, <2>2 DEF OSTmrDel
<1> QED
  BY <1>1, <1>2, IInvParts DEF IInv, Sound, timeVars

\* OSTmrStart, of a running timer or of another.
LEMMA OSTmrStart_Step ==
  ASSUME CallbacksSpareNext, IInv, NEW t \in Timer, OSTmrStart(t)
  PROVE  IInv'
<1>1. t # ptmr /\ UNCHANGED <<poolVars, timeVars, ptmr, callbacks>>
  BY MayUseSpares DEF OSTmrStart
<1>2. /\ Sound(tmr, OSTmrWheelTbl, ptmr, OSTmrTime)
      /\ GoodPool(tmr, OSTmrFreeList, OSTmrFree, OSTmrUsed)
      /\ OSTmrTime \in 0 .. TimeRange - 1
      /\ tmr \in [Timer -> OSTmr] /\ ValidTimers(tmr)
  BY IInvParts DEF Sound, GoodWheel
<1> DEFINE n == Delay(tmr[t])
<1>3. tmr[t].OSTmrState # "UNUSED"
  BY DEF OSTmrStart
<1>4. n \in 1 .. TimeRange - 1
  BY <1>2, <1>3, DelayType
<1> HIDE DEF n
<1>5. /\ Sound(tmr', OSTmrWheelTbl', ptmr, OSTmrTime)
      /\ GoodPool(tmr', OSTmrFreeList, OSTmrFree, OSTmrUsed)
  <2>1. CASE /\ tmr[t].OSTmrState = "RUNNING"
             /\ WheelBecomes(OSTmr_Link(OSTmr_Unlink(Wheel, t), t, n))
    <3> DEFINE w == OSTmr_Unlink(Wheel, t)
    <3>1. /\ Sound(w.tmr, w.wheel, IF ptmr = t THEN tmr[t].OSTmrNext ELSE ptmr, OSTmrTime)
          /\ GoodPool(w.tmr, OSTmrFreeList, OSTmrFree, OSTmrUsed)
          /\ w.tmr[t].OSTmrState = "STOPPED"
      BY <2>1, Unlink_Step
    <3>2. tmr' = OSTmr_Link(w, t, n).tmr /\ OSTmrWheelTbl' = OSTmr_Link(w, t, n).wheel
      BY <2>1 DEF WheelBecomes
    <3> HIDE DEF w
    <3>3. Sound(w.tmr, w.wheel, ptmr, OSTmrTime) /\ w.tmr[t].OSTmrState \notin {"RUNNING", "UNUSED"}
      BY <3>1, <1>1
    <3>4. Sound(tmr', OSTmrWheelTbl', ptmr, OSTmrTime) /\ SamePool(w.tmr, tmr')
      BY <1>2, <1>4, <3>2, <3>3, OSTmr_Link_Sound
    <3> QED
      BY <3>1, <3>4, GoodPoolKeep
  <2>2. CASE /\ tmr[t].OSTmrState \in {"STOPPED", "COMPLETED"}
             /\ WheelBecomes(OSTmr_Link(Wheel, t, n))
    <3>1. tmr' = OSTmr_Link(Wheel, t, n).tmr /\ OSTmrWheelTbl' = OSTmr_Link(Wheel, t, n).wheel
      BY <2>2 DEF WheelBecomes
    <3>2. tmr[t].OSTmrState \notin {"RUNNING", "UNUSED"}
      BY <2>2
    <3>3. tmr = Wheel.tmr /\ OSTmrWheelTbl = Wheel.wheel
      BY DEF Wheel
    <3>4. Sound(tmr', OSTmrWheelTbl', ptmr, OSTmrTime) /\ SamePool(tmr, tmr')
      BY <1>2, <1>4, <3>1, <3>2, <3>3, OSTmr_Link_Sound
    <3> QED
      BY <1>2, <3>4, GoodPoolKeep
  <2> QED
    BY <2>1, <2>2 DEF OSTmrStart, n
<1> QED
  BY <1>1, <1>5, IInvParts DEF IInv, Sound, poolVars, timeVars

\* A list of callbacks with another in front.
LEMMA CallbackType ==
  ASSUME callbacks \in Seq(Timer), NEW t \in Timer PROVE Callback(t) \in Seq(Timer)
BY DEF Callback

\* OSTmrStop, with or without its callback.
LEMMA OSTmrStop_Step ==
  ASSUME CallbacksSpareNext, IInv, NEW t \in Timer, OSTmrStop(t)
  PROVE  IInv'
<1>1. t # ptmr /\ tmr[t].OSTmrState = "RUNNING" /\ UNCHANGED <<poolVars, timeVars, ptmr>>
  BY MayUseSpares DEF OSTmrStop
<1>2. tmr' = OSTmr_Unlink(Wheel, t).tmr /\ OSTmrWheelTbl' = OSTmr_Unlink(Wheel, t).wheel
  BY DEF OSTmrStop, WheelBecomes
<1>3. /\ Sound(tmr', OSTmrWheelTbl', IF ptmr = t THEN tmr[t].OSTmrNext ELSE ptmr, OSTmrTime)
      /\ GoodPool(tmr', OSTmrFreeList, OSTmrFree, OSTmrUsed)
  BY <1>1, <1>2, Unlink_Step
<1>4. Sound(tmr', OSTmrWheelTbl', ptmr, OSTmrTime)
  BY <1>1, <1>3
<1>5. callbacks' \in Seq(Timer)
  BY CallbackType DEF OSTmrStop, IInv
<1> QED
  BY <1>1, <1>3, <1>4, <1>5 DEF IInv, Sound, poolVars, timeVars

\* A tick: the turn begins with the list of the spoke of the new time, on which every
\* timer is that expires at that time.
LEMMA OSTmr_Task_Tick_Step ==
  ASSUME IInv, OSTmr_Task_Tick
  PROVE  IInv'
<1> DEFINE time == (OSTmrTime + 1) % TimeRange
           spoke == SpokeOf(time)
<1>1. /\ OSTmrTime' = time /\ ptmr' = OSTmrWheelTbl[spoke].OSTmrFirst
      /\ OSTmrSemSignal > 0 /\ OSTmrSemSignal' = OSTmrSemSignal - 1
      /\ UNCHANGED <<tmr, OSTmrWheelTbl, poolVars, callbacks>>
  BY DEF OSTmr_Task_Tick
<1>2. time \in 0 .. TimeRange - 1 /\ time \in Nat
  BY TmrAssumption DEF TmrAssumption, IInv
<1>3. OSTmrSemSignal' \in 0 .. MaxSignals
  BY <1>1, TmrAssumption DEF TmrAssumption, IInv
<1> HIDE DEF time
<1>4. spoke \in Spoke
  BY <1>2, SpokeOfType
<1>5. Linked(tmr, ptmr', On(tmr, spoke))
  BY <1>1, <1>4 DEF IInv, GoodWheel, GoodSpoke
<1>6. \A t \in Timer : tmr[t].OSTmrState = "RUNNING" /\ tmr[t].OSTmrMatch = time => t \in On(tmr, spoke)
  BY DEF On
<1>7. Ahead(tmr, ptmr', time)
  BY <1>5, <1>6 DEF Ahead
<1>8. Ahead(tmr', ptmr', OSTmrTime')
  BY <1>1, <1>7
<1> QED
  BY <1>1, <1>2, <1>3, <1>8 DEF IInv, poolVars

\* The successor of the first timer of a list begins the rest of it.
LEMMA LinkedRest ==
  ASSUME NEW T, NEW S \in SUBSET Timer, NEW t \in Timer, Linked(T, t, S)
  PROVE  t \in S /\ Linked(T, T[t].OSTmrNext, S \ {t})
<1>1. t \in S
  BY LinkedFirst, NullNoTimer
<1>2. \A u \in S : T[u].OSTmrNext # t
  BY LinkedTargets
<1>3. \A u \in S \ {t} :
        T[u].OSTmrNext = IF T[u].OSTmrNext = t THEN T[t].OSTmrNext ELSE T[u].OSTmrNext
  BY <1>2
<1>4. Linked(T, IF t = t THEN T[t].OSTmrNext ELSE t, S \ {t})
  BY <1>1, <1>3, LinkedRemove
<1> QED
  BY <1>1, <1>4

\* The next timer of the turn runs, on the spoke of the present time.
LEMMA NextOfTurn ==
  ASSUME Ahead(tmr, ptmr, OSTmrTime), ptmr # Null
  PROVE  ptmr \in On(tmr, SpokeOf(OSTmrTime))
<1>1. PICK S \in SUBSET On(tmr, SpokeOf(OSTmrTime)) : Linked(tmr, ptmr, S)
  BY DEF Ahead
<1>2. S \in SUBSET Timer
  BY DEF On
<1>3. ptmr \in S \cup {Null}
  BY <1>1, <1>2, LinkedFirst
<1> QED
  BY <1>3

\* One round of the loop of OSTmr_Task: the timer expires, and is started again or
\* completes, or it is passed by.
LEMMA OSTmr_Task_Visit_Step ==
  ASSUME IInv, OSTmr_Task_Visit
  PROVE  IInv'
<1>1. PICK t \in Timer : t = ptmr /\ tmr[t].OSTmrState = "RUNNING"
  BY NextOfTurn DEF OSTmr_Task_Visit, IInv, On
<1>2. ptmr' = tmr[t].OSTmrNext /\ UNCHANGED <<poolVars, timeVars>>
  BY <1>1 DEF OSTmr_Task_Visit
<1>3. /\ Sound(tmr, OSTmrWheelTbl, t, OSTmrTime) /\ OSTmrTime \in 0 .. TimeRange - 1
      /\ GoodPool(tmr, OSTmrFreeList, OSTmrFree, OSTmrUsed)
      /\ callbacks \in Seq(Timer)
      /\ tmr \in [Timer -> OSTmr] /\ ValidTimers(tmr)
  BY <1>1, IInvParts DEF Sound, GoodWheel
<1>4. CASE tmr[t].OSTmrMatch # OSTmrTime
  <2>1. UNCHANGED <<tmr, OSTmrWheelTbl, callbacks>>
    BY <1>1, <1>4 DEF OSTmr_Task_Visit
  <2>2. PICK S \in SUBSET On(tmr, SpokeOf(OSTmrTime)) :
          /\ Linked(tmr, t, S)
          /\ \A u \in Timer : tmr[u].OSTmrState = "RUNNING" /\ tmr[u].OSTmrMatch = OSTmrTime => u \in S
    BY <1>3 DEF Sound, Ahead
  <2>3. S \in SUBSET Timer
    BY DEF On
  <2>4. Linked(tmr, tmr[t].OSTmrNext, S \ {t})
    BY <2>2, <2>3, LinkedRest
  <2>5. S \ {t} \in SUBSET On(tmr, SpokeOf(OSTmrTime))
    OBVIOUS
  <2>6. \A u \in Timer :
          tmr[u].OSTmrState = "RUNNING" /\ tmr[u].OSTmrMatch = OSTmrTime => u \in S \ {t}
    BY <2>2, <1>4
  <2>7. Ahead(tmr, tmr[t].OSTmrNext, OSTmrTime)
    BY <2>4, <2>5, <2>6 DEF Ahead
  <2> QED
    BY <2>1, <2>7, <1>2 DEF IInv, poolVars, timeVars
<1>5. CASE tmr[t].OSTmrMatch = OSTmrTime
  <2> DEFINE w == OSTmr_Unlink(Wheel, t)
             n == tmr[t].OSTmrPeriod
  <2>1. tmr' = Expired(Wheel, t).tmr /\ OSTmrWheelTbl' = Expired(Wheel, t).wheel
    BY <1>1, <1>5 DEF OSTmr_Task_Visit, WheelBecomes
  <2>2. callbacks' \in Seq(Timer)
    BY <1>1, <1>3, <1>5, CallbackType DEF OSTmr_Task_Visit
  <2>3. /\ Sound(w.tmr, w.wheel, tmr[t].OSTmrNext, OSTmrTime)
        /\ GoodPool(w.tmr, OSTmrFreeList, OSTmrFree, OSTmrUsed)
        /\ w.tmr[t].OSTmrState = "STOPPED"
        /\ w = [tmr |-> w.tmr, wheel |-> w.wheel]
        /\ Unlinked(tmr, w.tmr, t)
    BY <1>1, Unlink_Step
  <2>4. Expired(Wheel, t) = IF tmr[t].OSTmrOpt = "PERIODIC" THEN OSTmr_Link(w, t, n)
                            ELSE [w EXCEPT !.tmr[t].OSTmrState = "COMPLETED"]
    BY DEF Expired, Wheel
  <2> HIDE DEF w
  <2>5. /\ Sound(tmr', OSTmrWheelTbl', tmr[t].OSTmrNext, OSTmrTime)
        /\ GoodPool(tmr', OSTmrFreeList, OSTmrFree, OSTmrUsed)
    <3>1. CASE tmr[t].OSTmrOpt = "PERIODIC"
      <4>1. n \in 1 .. TimeRange - 1
        BY <3>1, <1>1, <1>3, DelayType
      <4>2. tmr' = OSTmr_Link(w, t, n).tmr /\ OSTmrWheelTbl' = OSTmr_Link(w, t, n).wheel
        BY <3>1, <2>1, <2>4
      <4>3. w.tmr[t].OSTmrState \notin {"RUNNING", "UNUSED"}
        BY <2>3
      <4> HIDE DEF n
      <4>4. /\ Sound(tmr', OSTmrWheelTbl', tmr[t].OSTmrNext, OSTmrTime)
            /\ SamePool(w.tmr, tmr')
        BY <4>1, <4>2, <4>3, <1>3, <2>3, OSTmr_Link_Sound
      <4> QED
        BY <4>4, <2>3, GoodPoolKeep
    <3>2. CASE tmr[t].OSTmrOpt # "PERIODIC"
      <4> DEFINE r == [w.tmr[t] EXCEPT !.OSTmrState = "COMPLETED"]
      <4>1. w.tmr \in [Timer -> OSTmr] /\ w.tmr[t] \in OSTmr
        BY <2>3 DEF Sound, GoodWheel
      <4>2. tmr' = [w.tmr EXCEPT ![t] = r] /\ OSTmrWheelTbl' = w.wheel
        BY <3>2, <2>1, <2>3, <2>4, <4>1
      <4>3. /\ r \in OSTmr /\ r.OSTmrState = "COMPLETED" /\ r.OSTmrOpt = w.tmr[t].OSTmrOpt
            /\ r.OSTmrDly = w.tmr[t].OSTmrDly /\ r.OSTmrPeriod = w.tmr[t].OSTmrPeriod
            /\ r.OSTmrNext = w.tmr[t].OSTmrNext
        BY <4>1 DEF OSTmr
      <4> HIDE DEF r
      <4>4. /\ r.OSTmrOpt # "NONE"
            /\ r.OSTmrOpt = "PERIODIC" => r.OSTmrPeriod # 0
            /\ r.OSTmrOpt = "ONE_SHOT" => r.OSTmrDly # 0
        BY <2>3, <4>3 DEF Sound, ValidTimers
      <4>5. Sound(tmr', OSTmrWheelTbl', tmr[t].OSTmrNext, OSTmrTime)
        <5>1. w.tmr[t].OSTmrState # "RUNNING" /\ r.OSTmrState # "RUNNING"
          BY <2>3, <4>3
        <5> QED
          BY <2>3, <4>2, <4>3, <4>4, <5>1, Write_Sound
      <4>6. SamePool(w.tmr, tmr')
        BY <2>3, <4>1, <4>2, <4>3 DEF SamePool
      <4> QED
        BY <2>3, <4>5, <4>6, GoodPoolKeep
    <3> QED
      BY <3>1, <3>2
  <2> QED
    BY <2>2, <2>5, <1>2, <1>3 DEF IInv, Sound, poolVars, timeVars
<1> QED
  BY <1>4, <1>5

\* Every step keeps the invariant.
LEMMA NextIInv ==
  ASSUME CallbacksSpareNext, IInv, [Next]_vars
  PROVE  IInv'
<1>1. CASE \E t \in Timer : \E s \in Setting : OSTmrCreate(t, s)
  BY <1>1, OSTmrCreate_Step
<1>2. CASE \E t \in Timer : OSTmrDel(t)
  BY <1>2, OSTmrDel_Step
<1>3. CASE \E t \in Timer : OSTmrStart(t)
  BY <1>3, OSTmrStart_Step
<1>4. CASE \E t \in Timer : OSTmrStop(t)
  BY <1>4, OSTmrStop_Step
<1>5. CASE CallbackReturn
  <2>1. callbacks' \in Seq(Timer)
    BY <1>5 DEF CallbackReturn, IInv
  <2> QED
    BY <1>5, <2>1 DEF CallbackReturn, IInv, poolVars, timeVars
<1>6. CASE OSTmrSignal
  <2>1. OSTmrSemSignal' \in 0 .. MaxSignals
    BY <1>6, TmrAssumption DEF TmrAssumption, OSTmrSignal, IInv
  <2> QED
    BY <1>6, <2>1 DEF OSTmrSignal, IInv, poolVars
<1>7. CASE OSTmr_Task_Tick
  BY <1>7, OSTmr_Task_Tick_Step
<1>8. CASE OSTmr_Task_Visit
  BY <1>8, OSTmr_Task_Visit_Step
<1>9. CASE UNCHANGED vars
  BY <1>9 DEF IInv, vars, poolVars, timeVars
<1> QED
  BY <1>1, <1>2, <1>3, <1>4, <1>5, <1>6, <1>7, <1>8, <1>9 DEF Next

-----------------------------------------------------------------------------
(* The theorems.                                                            *)

\* Linked is what Chains says of the current timers.
LEMMA LinkedChains ==
  ASSUME NEW first, NEW S \in SUBSET Timer, Linked(tmr, first, S)
  PROVE  Chains(first, S)
<1>0. PICK n \in Nat : \E list \in [1 .. n -> S] : Lists(tmr, first, S, n, list)
  BY DEF Linked
<1>01. PICK list \in [1 .. n -> S] : Lists(tmr, first, S, n, list)
  BY <1>0
<1>1. /\ \A i, j \in 1 .. n : list[i] = list[j] => i = j
      /\ \A t \in S : \E i \in 1 .. n : list[i] = t
      /\ first = IF n = 0 THEN Null ELSE list[1]
      /\ \A i \in 1 .. n : tmr[list[i]].OSTmrNext = IF i = n THEN Null ELSE list[i + 1]
  BY <1>01 DEF Lists
<1>2. list \in Bijection(1 .. n, S)
  BY <1>1 DEF Bijection, Injection, Surjection, IsInjective
<1>3. ExistsBijection(1 .. n, S)
  BY <1>2 DEF ExistsBijection
<1>4. Cardinality(S) = n
  BY <1>3, FS_CountingElements
<1>5. list \in SetToSeqs(S)
  BY <1>1, <1>4 DEF SetToSeqs
<1>6. DOMAIN list = 1 .. n /\ Len(list) = n
  OBVIOUS
<1>7. n = 0 <=> S = {}
  <2>1. n # 0 => list[1] \in S
    OBVIOUS
  <2>2. n = 0 => 1 .. n = {}
    OBVIOUS
  <2> QED
    BY <1>1, <2>1, <2>2
<1>8. first = IF S = {} THEN Null ELSE list[1]
  BY <1>1, <1>7
<1>9. \A i \in DOMAIN list : tmr[list[i]].OSTmrNext = IF i = Len(list) THEN Null ELSE list[i + 1]
  BY <1>1, <1>6
<1> QED
  BY <1>5, <1>8, <1>9 DEF Chains

\* What the invariant says of a state.
LEMMA IInvImplies == IInv => WheelSound /\ PoolSound /\ VisitedIsRunning
<1> SUFFICES ASSUME IInv PROVE WheelSound /\ PoolSound /\ VisitedIsRunning
  OBVIOUS
<1>1. VisitedIsRunning
  BY NextOfTurn DEF IInv, VisitedIsRunning, On
<1>2. PoolSound
  <2>1. UnusedTimers(tmr) \in SUBSET Timer
    BY DEF UnusedTimers
  <2>2. Chains(OSTmrFreeList, UnusedTimers(tmr))
    BY <2>1, LinkedChains DEF IInv, GoodPool
  <2> QED
    BY <2>2 DEF IInv, GoodPool, PoolSound, UnusedTimers
<1>3. ASSUME NEW s \in Spoke
      PROVE  /\ Chains(OSTmrWheelTbl[s].OSTmrFirst, On(tmr, s))
             /\ OSTmrWheelTbl[s].OSTmrEntries = Cardinality(On(tmr, s))
             /\ OSTmrWheelTbl[s].OSTmrEntries \in 0 .. 2^16 - 1
             /\ BackLinked(tmr, OSTmrWheelTbl[s].OSTmrFirst, On(tmr, s))
  <2>1. On(tmr, s) \in SUBSET Timer /\ GoodSpoke(tmr, OSTmrWheelTbl, s)
    BY DEF IInv, GoodWheel, On
  <2>2. Chains(OSTmrWheelTbl[s].OSTmrFirst, On(tmr, s))
    BY <2>1, LinkedChains DEF GoodSpoke
  <2>3. Cardinality(On(tmr, s)) \in Nat /\ Cardinality(On(tmr, s)) <= 65500
    BY <2>1, SubsetFinite
  <2>4. Cardinality(On(tmr, s)) \in 0 .. 2^16 - 1
    <3>1. 2^16 = 65536
      OBVIOUS
    <3> QED
      BY <2>3, <3>1
  <2> QED
    BY <2>1, <2>2, <2>4 DEF GoodSpoke
<1>4. TypeOK
  <2>1. /\ tmr \in [Timer -> OSTmr]
        /\ OSTmrWheelTbl \in [Spoke -> [OSTmrFirst : Timer \cup {Null}, OSTmrEntries : Nat]]
    BY DEF IInv, GoodWheel
  <2>2. OSTmrWheelTbl \in [Spoke -> [OSTmrFirst : Timer \cup {Null}, OSTmrEntries : 0 .. 2^16 - 1]]
    BY <2>1, <1>3
  <2>3. OSTmrFreeList \in Timer \cup {Null} /\ UnusedTimers(tmr) \in SUBSET Timer
    <3>1. UnusedTimers(tmr) \in SUBSET Timer /\ Linked(tmr, OSTmrFreeList, UnusedTimers(tmr))
      BY DEF IInv, GoodPool, UnusedTimers
    <3> QED
      BY <3>1, LinkedFirst
  <2>4. ptmr \in Timer \cup {Null}
    BY NextOfTurn DEF IInv, On
  <2>5. OSTmrFree \in Nat /\ OSTmrUsed \in Nat
    <3>1. /\ Cardinality(UnusedTimers(tmr)) \in Nat /\ Cardinality(Timer) \in Nat
          /\ Cardinality(UnusedTimers(tmr)) <= Cardinality(Timer)
      BY <2>3, SubsetFinite, TimerFinite, TmrAssumption DEF TmrAssumption
    <3> QED
      BY <3>1 DEF IInv, GoodPool
  <2> QED
    BY <2>1, <2>2, <2>3, <2>4, <2>5 DEF IInv, TypeOK, OSTmr
<1> QED
  BY <1>1, <1>2, <1>3, <1>4 DEF WheelSound, On, BackLinked

\* The invariant holds throughout, for every wheel and table of timers.
THEOREM Invariant == ASSUME CallbacksSpareNext PROVE Spec => []IInv
<1>1. IInv /\ [Next]_vars => IInv'
  BY NextIInv
<1> QED
  BY <1>1, InitIInv, PTL DEF Spec

\* WheelSound, whatever tasks, callbacks and OSTmr_Task call in any order: every
\* spoke holds exactly the running timers that expire on it, linked in both
\* directions and counted.
THEOREM WheelIsSound == ASSUME CallbacksSpareNext PROVE Spec => []WheelSound
BY Invariant, IInvImplies, PTL

\* PoolSound: OSTmr_Alloc and OSTmr_Free neither lose a timer nor hand one out twice.
THEOREM PoolIsSound == ASSUME CallbacksSpareNext PROVE Spec => []PoolSound
BY Invariant, IInvImplies, PTL

\* VisitedIsRunning: the successor that OSTmr_Task reads before it calls a callback
\* is still on its spoke when the loop comes to it.
THEOREM VisitsRunning == ASSUME CallbacksSpareNext PROVE Spec => []VisitedIsRunning
BY Invariant, IInvImplies, PTL

-----------------------------------------------------------------------------
(* The clock.                                                               *)

\* What is left of a match, when the clock has not wrapped between and when it has.
LEMMA Remainder ==
  ASSUME NEW a \in Int, -TimeRange < a, a < TimeRange
  PROVE  a % TimeRange = IF a >= 0 THEN a ELSE a + TimeRange
BY TmrAssumption DEF TmrAssumption

\* A timer that is started for n ticks has n ticks left.
LEMMA LeftAtStart ==
  ASSUME OSTmrTime \in 0 .. TimeRange - 1, NEW n \in 1 .. TimeRange - 1
  PROVE  (MatchIn(n) - OSTmrTime) % TimeRange = n
<1>1. TimeRange \in Nat \ {0}
  BY TmrAssumption DEF TmrAssumption
<1>2. MatchIn(n) = IF OSTmrTime + n < TimeRange THEN OSTmrTime + n
                                                ELSE OSTmrTime + n - TimeRange
  BY <1>1 DEF MatchIn
<1> QED
  BY <1>1, <1>2, Remainder

\* A tick takes one from what is left, unless nothing is.
LEMMA LeftAtTick ==
  ASSUME NEW time \in 0 .. TimeRange - 1, NEW match \in 0 .. TimeRange - 1, match # time
  PROVE  (match - ((time + 1) % TimeRange)) % TimeRange = ((match - time) % TimeRange) - 1
<1>1. TimeRange \in Nat \ {0}
  BY TmrAssumption DEF TmrAssumption
<1>2. (time + 1) % TimeRange = IF time + 1 < TimeRange THEN time + 1 ELSE 0
  BY <1>1
<1> QED
  BY <1>1, <1>2, Remainder

\* Nothing is left exactly when the time of the match has come.
LEMMA NothingLeft ==
  ASSUME NEW time \in 0 .. TimeRange - 1, NEW match \in 0 .. TimeRange - 1
  PROVE  (match - time) % TimeRange = 0 <=> match = time
<1>1. TimeRange \in Nat \ {0}
  BY TmrAssumption DEF TmrAssumption
<1> QED
  BY <1>1, Remainder

-----------------------------------------------------------------------------
(* The abstract timers.                                                     *)

\* The invariant, in the parts the mapping needs.
LEMMA Timers ==
  ASSUME IInv
  PROVE  /\ tmr \in [Timer -> OSTmr] /\ ValidTimers(tmr) /\ Ahead(tmr, ptmr, OSTmrTime)
         /\ OSTmrTime \in 0 .. TimeRange - 1
BY DEF IInv, GoodWheel

\* What is left of a timer, by its state.
LEMMA LeftFacts ==
  ASSUME IInv, NEW t \in Timer
  PROVE  /\ tmr[t].OSTmrState = "RUNNING" =>
              TheLeft[t] = (tmr[t].OSTmrMatch - OSTmrTime) % TimeRange
         /\ tmr[t].OSTmrState = "STOPPED" => TheLeft[t] = Delay(tmr[t])
         /\ tmr[t].OSTmrState \in {"UNUSED", "COMPLETED"} => TheLeft[t] = 0
<1>1. tmr[t] \in OSTmr /\ ValidTimers(tmr)
  BY Timers
<1>2. TheLeft[t] = OSTmrRemainGet(t)
  BY DEF TheLeft
<1>3. tmr[t].OSTmrState = "STOPPED" /\ tmr[t].OSTmrOpt # "PERIODIC" =>
        Delay(tmr[t]) = tmr[t].OSTmrDly
  BY <1>1 DEF ValidTimers, Delay, OSTmr
<1> QED
  BY <1>2, <1>3 DEF OSTmrRemainGet

\* The abstract timer is due when its match is the time.
LEMMA DueMeaning ==
  ASSUME IInv
  PROVE  /\ Service!Running = {t \in Timer : tmr[t].OSTmrState = "RUNNING"}
         /\ Service!Due = {t \in Timer : tmr[t].OSTmrState = "RUNNING"
                                           /\ tmr[t].OSTmrMatch = OSTmrTime}
<1>1. Service!Running = {t \in Timer : tmr[t].OSTmrState = "RUNNING"}
  BY DEF Service!Running, TheStates
<1>2. ASSUME NEW t \in Timer, tmr[t].OSTmrState = "RUNNING"
      PROVE  TheLeft[t] = 0 <=> tmr[t].OSTmrMatch = OSTmrTime
  <2>1. tmr[t].OSTmrMatch \in 0 .. TimeRange - 1 /\ OSTmrTime \in 0 .. TimeRange - 1
    BY Timers DEF OSTmr
  <2> QED
    BY <2>1, <1>2, LeftFacts, NothingLeft
<1> QED
  BY <1>1, <1>2 DEF Service!Due

\* When the turn of OSTmr_Task is over, or has not begun, no timer is due.
LEMMA NoneDue ==
  ASSUME IInv, ptmr = Null
  PROVE  Service!Due = {}
<1>1. PICK S \in SUBSET On(tmr, SpokeOf(OSTmrTime)) :
        /\ Linked(tmr, Null, S)
        /\ \A t \in Timer : tmr[t].OSTmrState = "RUNNING" /\ tmr[t].OSTmrMatch = OSTmrTime => t \in S
  BY Timers DEF Ahead
<1>2. S \in SUBSET Timer
  BY DEF On
<1>3. S = {}
  BY <1>1, <1>2, LinkedFacts
<1> QED
  BY <1>1, <1>3, DueMeaning

\* Who may use a timer may use the abstract one.
LEMMA MayUseMeaning ==
  ASSUME IInv, NEW t \in Timer, MayUse(t)
  PROVE  Service!MayCall
BY NoneDue DEF MayUse, Unlocked, Service!MayCall

\* The delay of a timer is that of its setting.
LEMMA DelayMeaning ==
  ASSUME NEW t \in Timer, tmr[t].OSTmrState # "UNUSED"
  PROVE  /\ TheSettings[t] = SettingOf(t)
         /\ Service!FirstDelay(TheSettings[t]) = Delay(tmr[t])
         /\ TheSettings[t].opt = tmr[t].OSTmrOpt
         /\ TheSettings[t].period = tmr[t].OSTmrPeriod
         /\ TheSettings[t].callback = tmr[t].OSTmrCallback
         /\ Callback(t) = Service!Calling(t)
<1>1. TheSettings[t] = SettingOf(t)
  BY DEF TheSettings
<1> QED
  BY <1>1 DEF SettingOf, Service!FirstDelay, Delay, Callback, Service!Calling

\* Nothing but t changes, for those who see the timers through the services.
OnlyChanges(t) ==
  /\ OSTmrTime' = OSTmrTime
  /\ \A u \in Timer \ {t} : SameButLinks(tmr, tmr', u)

\* Then the abstract timers change but for t.
LEMMA Changes ==
  ASSUME IInv, IInv', NEW t \in Timer, OnlyChanges(t)
  PROVE  /\ TheStates' = [TheStates EXCEPT ![t] = tmr'[t].OSTmrState]
         /\ TheSettings' = [TheSettings EXCEPT ![t] = SettingOf(t)']
         /\ TheLeft' = [TheLeft EXCEPT ![t] = TheLeft'[t]]
<1>1. ASSUME NEW u \in Timer \ {t}
      PROVE  /\ tmr'[u].OSTmrState = tmr[u].OSTmrState /\ SettingOf(u)' = SettingOf(u)
             /\ OSTmrRemainGet(u)' = OSTmrRemainGet(u)
  <2>1. /\ tmr'[u].OSTmrState = tmr[u].OSTmrState /\ tmr'[u].OSTmrOpt = tmr[u].OSTmrOpt
        /\ tmr'[u].OSTmrDly = tmr[u].OSTmrDly /\ tmr'[u].OSTmrPeriod = tmr[u].OSTmrPeriod
        /\ tmr'[u].OSTmrMatch = tmr[u].OSTmrMatch
        /\ tmr'[u].OSTmrCallback = tmr[u].OSTmrCallback /\ OSTmrTime' = OSTmrTime
    BY DEF OnlyChanges, SameButLinks
  <2> QED
    BY <2>1 DEF SettingOf, OSTmrRemainGet, Delay
<1> QED
  BY <1>1 DEF TheStates, TheSettings, TheLeft

-----------------------------------------------------------------------------
(* The actions.                                                             *)

\* t is started for n ticks, as what it was created as.
Started(t, n) ==
  /\ tmr'[t].OSTmrState = "RUNNING" /\ tmr'[t].OSTmrMatch = MatchIn(n)
  /\ tmr'[t].OSTmrOpt = tmr[t].OSTmrOpt /\ tmr'[t].OSTmrDly = tmr[t].OSTmrDly
  /\ tmr'[t].OSTmrPeriod = tmr[t].OSTmrPeriod /\ tmr'[t].OSTmrCallback = tmr[t].OSTmrCallback

\* t is as it was created, in that state, and does not run.
Ended(t, state) ==
  /\ tmr'[t].OSTmrState = state
  /\ tmr'[t].OSTmrOpt = tmr[t].OSTmrOpt /\ tmr'[t].OSTmrDly = tmr[t].OSTmrDly
  /\ tmr'[t].OSTmrPeriod = tmr[t].OSTmrPeriod /\ tmr'[t].OSTmrCallback = tmr[t].OSTmrCallback

\* The abstract timer is then started too.
LEMMA StartedMeaning ==
  ASSUME IInv, IInv', NEW t \in Timer, tmr[t].OSTmrState # "UNUSED",
         NEW n \in 1 .. TimeRange - 1, OnlyChanges(t), Started(t, n)
  PROVE  Service!Become(t, "RUNNING", n) /\ TheSettings' = TheSettings
<1>1. TheLeft'[t] = (tmr'[t].OSTmrMatch - OSTmrTime') % TimeRange
  BY DEF Started, TheLeft, OSTmrRemainGet
<1>2. OSTmrTime' = OSTmrTime /\ tmr'[t].OSTmrMatch = MatchIn(n)
  BY DEF OnlyChanges, Started
<1>3. TheLeft'[t] = n
  BY <1>1, <1>2, LeftAtStart, Timers
<1>4. SettingOf(t)' = SettingOf(t)
  BY DEF Started, SettingOf
<1>5. TheSettings' = TheSettings
  BY <1>4, Changes DEF TheSettings
<1> QED
  BY <1>3, <1>5, Changes DEF Started, Service!Become

\* The abstract timer is then stopped or completed too.
LEMMA EndedMeaning ==
  ASSUME IInv, IInv', NEW t \in Timer, tmr[t].OSTmrState # "UNUSED",
         NEW state \in {"STOPPED", "COMPLETED"}, OnlyChanges(t), Ended(t, state)
  PROVE  /\ Service!Become(t, state, IF state = "STOPPED" THEN Delay(tmr[t]) ELSE 0)
         /\ TheSettings' = TheSettings
<1>1. Delay(tmr'[t]) = Delay(tmr[t])
  BY DEF Ended, Delay
<1>2. tmr'[t].OSTmrState = "STOPPED" /\ tmr'[t].OSTmrOpt # "PERIODIC" =>
        tmr'[t].OSTmrDly = Delay(tmr'[t])
  <2>1. tmr'[t] \in OSTmr /\ ValidTimers(tmr')
    BY DEF IInv, GoodWheel
  <2> QED
    BY <2>1 DEF ValidTimers, Delay, OSTmr
<1>3. TheLeft'[t] = IF state = "STOPPED" THEN Delay(tmr[t]) ELSE 0
  BY <1>1, <1>2 DEF Ended, TheLeft, OSTmrRemainGet
<1>4. SettingOf(t)' = SettingOf(t)
  BY DEF Ended, SettingOf
<1>5. TheSettings' = TheSettings
  BY <1>4, Changes DEF TheSettings
<1> QED
  BY <1>3, <1>5, Changes DEF Ended, Service!Become

\* What unlinking does, seen through the services.
LEMMA UnlinkedMeaning ==
  ASSUME NEW T \in [Timer -> OSTmr], NEW T2, NEW t \in Timer, Unlinked(T, T2, t)
  PROVE  /\ T2[t].OSTmrState = "STOPPED"
         /\ T2[t].OSTmrOpt = T[t].OSTmrOpt /\ T2[t].OSTmrDly = T[t].OSTmrDly
         /\ T2[t].OSTmrPeriod = T[t].OSTmrPeriod /\ T2[t].OSTmrCallback = T[t].OSTmrCallback
         /\ \A u \in Timer \ {t} : SameButLinks(T, T2, u)
BY DEF Unlinked, OSTmr

\* Two changes of links, one after the other.
LEMMA SameButLinksTwice ==
  ASSUME NEW T, NEW T2, NEW T3, NEW u, SameButLinks(T, T2, u), SameButLinks(T2, T3, u)
  PROVE  SameButLinks(T, T3, u)
BY DEF SameButLinks

\* Starting a timer again that was taken off the wheel, or starting one that was not on it.
LEMMA LinkStarts ==
  ASSUME IInv, NEW w, GoodWheel(w.tmr, w.wheel), NEW t \in Timer,
         w.tmr = tmr \/ Unlinked(tmr, w.tmr, t), w.tmr[t].OSTmrState # "RUNNING",
         NEW n \in 1 .. TimeRange - 1, WheelBecomes(OSTmr_Link(w, t, n)), UNCHANGED timeVars
  PROVE  OnlyChanges(t) /\ Started(t, n)
<1>1. MatchIn(n) \in 0 .. TimeRange - 1
  BY MatchInType, Timers
<1>2. LinkedIn(w.tmr, tmr', t, MatchIn(n))
  BY <1>1, OSTmr_Link_Good DEF WheelBecomes
<1>3. CASE w.tmr = tmr
  BY <1>2, <1>3 DEF LinkedIn, Started, OnlyChanges, timeVars
<1>4. CASE Unlinked(tmr, w.tmr, t)
  <2>1. \A u \in Timer \ {t} : SameButLinks(tmr, w.tmr, u) /\ SameButLinks(w.tmr, tmr', u)
    BY <1>2, <1>4, UnlinkedMeaning, Timers DEF LinkedIn
  <2>2. OnlyChanges(t)
    BY <2>1, SameButLinksTwice DEF OnlyChanges, timeVars
  <2>3. /\ w.tmr[t].OSTmrOpt = tmr[t].OSTmrOpt /\ w.tmr[t].OSTmrDly = tmr[t].OSTmrDly
        /\ w.tmr[t].OSTmrPeriod = tmr[t].OSTmrPeriod
        /\ w.tmr[t].OSTmrCallback = tmr[t].OSTmrCallback
    <3>1. tmr \in [Timer -> OSTmr]
      BY Timers
    <3> QED
      BY <3>1, <1>4, UnlinkedMeaning
  <2>4. /\ tmr'[t].OSTmrState = "RUNNING" /\ tmr'[t].OSTmrMatch = MatchIn(n)
        /\ tmr'[t].OSTmrOpt = w.tmr[t].OSTmrOpt /\ tmr'[t].OSTmrDly = w.tmr[t].OSTmrDly
        /\ tmr'[t].OSTmrPeriod = w.tmr[t].OSTmrPeriod
        /\ tmr'[t].OSTmrCallback = w.tmr[t].OSTmrCallback
    BY <1>2 DEF LinkedIn
  <2>5. Started(t, n)
    BY <2>3, <2>4 DEF Started
  <2> QED
    BY <2>2, <2>5
<1> QED
  BY <1>3, <1>4

\* OSTmrStart.
LEMMA StartSim ==
  ASSUME CallbacksSpareNext, IInv, IInv', NEW t \in Timer, OSTmrStart(t)
  PROVE  Service!Next
<1> DEFINE n == Delay(tmr[t])
<1>1. tmr[t].OSTmrState # "UNUSED" /\ UNCHANGED timeVars /\ callbacks' = callbacks /\ MayUse(t)
  BY DEF OSTmrStart
<1>2. n \in 1 .. TimeRange - 1
  BY <1>1, DelayType, Timers
<1> HIDE DEF n
<1>3. OnlyChanges(t) /\ Started(t, n)
  <2>1. CASE /\ tmr[t].OSTmrState = "RUNNING"
             /\ WheelBecomes(OSTmr_Link(OSTmr_Unlink(Wheel, t), t, n))
    <3> DEFINE w == OSTmr_Unlink(Wheel, t)
    <3>1. GoodWheel(w.tmr, w.wheel) /\ w.tmr[t].OSTmrState = "STOPPED" /\ Unlinked(tmr, w.tmr, t)
      BY <2>1, Unlink_Step DEF Sound
    <3> HIDE DEF w
    <3> QED
      BY <2>1, <3>1, <1>1, <1>2, LinkStarts DEF w
  <2>2. CASE /\ tmr[t].OSTmrState \in {"STOPPED", "COMPLETED"}
             /\ WheelBecomes(OSTmr_Link(Wheel, t, n))
    <3>1. Wheel.tmr = tmr /\ GoodWheel(Wheel.tmr, Wheel.wheel)
      BY DEF Wheel, IInv
    <3>2. Wheel.tmr[t].OSTmrState # "RUNNING"
      BY <2>2, <3>1
    <3> QED
      BY <2>2, <3>1, <3>2, <1>1, <1>2, LinkStarts
  <2> QED
    BY <2>1, <2>2 DEF OSTmrStart, n
<1>4. Service!Become(t, "RUNNING", n) /\ TheSettings' = TheSettings
  BY <1>1, <1>2, <1>3, StartedMeaning
<1>5. TheStates[t] # "UNUSED" /\ Service!FirstDelay(TheSettings[t]) = n
  BY <1>1, DelayMeaning DEF TheStates, n
<1>6. Service!Start(t)
  BY <1>1, <1>4, <1>5 DEF Service!Start
<1>7. Service!MayCall
  BY <1>1, MayUseMeaning
<1> QED
  BY <1>6, <1>7 DEF Service!Next

\* OSTmrCreate.
LEMMA CreateSim ==
  ASSUME IInv, IInv', NEW t \in Timer, NEW s \in Setting, OSTmrCreate(t, s)
  PROVE  Service!Next
<1>1. /\ tmr[t].OSTmrState = "UNUSED" /\ tmr[t] \in OSTmr
  <2>1. Linked(tmr, t, UnusedTimers(tmr)) /\ UnusedTimers(tmr) \in SUBSET Timer
    BY DEF OSTmrCreate, OSTmr_Alloc, IInv, GoodPool, UnusedTimers
  <2>2. t \in UnusedTimers(tmr)
    BY <2>1, LinkedFirst, NullNoTimer
  <2> QED
    BY <2>2, Timers DEF UnusedTimers
<1>2. /\ tmr' = [tmr EXCEPT ![t] =
           [@ EXCEPT !.OSTmrState = "STOPPED", !.OSTmrDly = s.dly, !.OSTmrPeriod = s.period,
                     !.OSTmrOpt = s.opt, !.OSTmrCallback = s.callback,
                     !.OSTmrNext = Null, !.OSTmrPrev = Null]]
      /\ UNCHANGED timeVars /\ callbacks' = callbacks /\ MayUse(t) /\ Valid(s)
  BY DEF OSTmrCreate
<1>3. /\ tmr'[t].OSTmrState = "STOPPED" /\ tmr'[t].OSTmrDly = s.dly
      /\ tmr'[t].OSTmrPeriod = s.period /\ tmr'[t].OSTmrOpt = s.opt
      /\ tmr'[t].OSTmrCallback = s.callback
      /\ \A u \in Timer \ {t} : tmr'[u] = tmr[u]
  BY <1>1, <1>2, Timers DEF OSTmr
<1>4. OnlyChanges(t)
  BY <1>2, <1>3 DEF OnlyChanges, SameButLinks, timeVars
<1>5. SettingOf(t)' = s
  <2>1. s \in [opt : {"ONE_SHOT", "PERIODIC"}, dly : 0 .. TimeRange - 1,
               period : 0 .. TimeRange - 1, callback : BOOLEAN]
    BY TmrAssumption DEF TmrAssumption
  <2>2. s = [opt |-> s.opt, dly |-> s.dly, period |-> s.period, callback |-> s.callback]
    BY <2>1
  <2>3. SettingOf(t)' = [opt |-> tmr'[t].OSTmrOpt, dly |-> tmr'[t].OSTmrDly,
                         period |-> tmr'[t].OSTmrPeriod, callback |-> tmr'[t].OSTmrCallback]
    BY <1>3 DEF SettingOf
  <2> QED
    BY <2>2, <2>3, <1>3
<1>6. TheLeft'[t] = Service!FirstDelay(s)
  <2>1. s.opt \in {"ONE_SHOT", "PERIODIC"}
    BY TmrAssumption DEF TmrAssumption
  <2>2. TheLeft'[t] = OSTmrRemainGet(t)'
    BY DEF TheLeft
  <2> QED
    BY <2>1, <2>2, <1>2, <1>3 DEF OSTmrRemainGet, Delay, Service!FirstDelay, Valid
<1>7. Service!Become(t, "STOPPED", Service!FirstDelay(s)) /\ TheSettings' = [TheSettings EXCEPT ![t] = s]
  BY <1>3, <1>4, <1>5, <1>6, Changes DEF Service!Become
<1>8. TheStates[t] = "UNUSED"
  BY <1>1 DEF TheStates
<1>9. Service!Create(t, s) /\ Service!MayCall
  BY <1>2, <1>7, <1>8, MayUseMeaning DEF Service!Create
<1> QED
  BY <1>9 DEF Service!Next

\* Freeing a timer that was taken off the wheel, or one that was not on it.
LEMMA FreeEnds ==
  ASSUME IInv, IInv', NEW w, w.tmr \in [Timer -> OSTmr], NEW t \in Timer,
         w.tmr = tmr \/ Unlinked(tmr, w.tmr, t), tmr[t].OSTmrState # "UNUSED",
         OSTmr_Free(w, t), UNCHANGED <<timeVars, ptmr, callbacks>>
  PROVE  Service!Delete(t)
<1>1. tmr' = [w.tmr EXCEPT ![t] = [Unused EXCEPT !.OSTmrDly = w.tmr[t].OSTmrDly,
                                                 !.OSTmrNext = OSTmrFreeList]]
  BY DEF OSTmr_Free, WheelBecomes
<1>2. tmr'[t].OSTmrState = "UNUSED" /\ \A u \in Timer \ {t} : tmr'[u] = w.tmr[u]
  BY <1>1 DEF Unused
<1>3. \A u \in Timer \ {t} : SameButLinks(tmr, w.tmr, u)
  <2>1. CASE w.tmr = tmr
    BY <2>1 DEF SameButLinks
  <2>2. CASE Unlinked(tmr, w.tmr, t)
    BY <2>2 DEF Unlinked
  <2> QED
    BY <2>1, <2>2
<1>4. OnlyChanges(t)
  BY <1>2, <1>3 DEF OnlyChanges, SameButLinks, timeVars
<1>5. SettingOf(t)' = Null
  BY <1>2 DEF SettingOf
<1>6. TheLeft'[t] = 0
  BY <1>2 DEF TheLeft, OSTmrRemainGet
<1>7. Service!Become(t, "UNUSED", 0) /\ TheSettings' = [TheSettings EXCEPT ![t] = Null]
  BY <1>2, <1>4, <1>5, <1>6, Changes DEF Service!Become
<1> QED
  BY <1>7 DEF Service!Delete, TheStates

\* OSTmrDel.
LEMMA DelSim ==
  ASSUME CallbacksSpareNext, IInv, IInv', NEW t \in Timer, OSTmrDel(t)
  PROVE  Service!Next
<1>1. UNCHANGED <<timeVars, ptmr, callbacks>> /\ MayUse(t)
  BY DEF OSTmrDel
<1>2. Service!Delete(t)
  <2>1. CASE tmr[t].OSTmrState = "RUNNING" /\ OSTmr_Free(OSTmr_Unlink(Wheel, t), t)
    <3> DEFINE w == OSTmr_Unlink(Wheel, t)
    <3>1. w.tmr \in [Timer -> OSTmr] /\ Unlinked(tmr, w.tmr, t)
      BY <2>1, Unlink_Step DEF Sound, GoodWheel
    <3>2. OSTmr_Free(w, t) /\ tmr[t].OSTmrState # "UNUSED"
      BY <2>1
    <3> HIDE DEF w
    <3> QED
      BY <3>1, <3>2, <1>1, FreeEnds
  <2>2. CASE tmr[t].OSTmrState \in {"STOPPED", "COMPLETED"} /\ OSTmr_Free(Wheel, t)
    <3>1. Wheel.tmr = tmr /\ tmr[t].OSTmrState # "UNUSED" /\ OSTmr_Free(Wheel, t)
      BY <2>2 DEF Wheel
    <3>2. Wheel.tmr \in [Timer -> OSTmr]
      BY <3>1, Timers
    <3> QED
      BY <3>1, <3>2, <1>1, FreeEnds
  <2> QED
    BY <2>1, <2>2 DEF OSTmrDel
<1> QED
  BY <1>1, <1>2, MayUseMeaning DEF Service!Next

\* OSTmrStop.
LEMMA StopSim ==
  ASSUME CallbacksSpareNext, IInv, IInv', NEW t \in Timer, OSTmrStop(t)
  PROVE  Service!Next
<1>1. tmr[t].OSTmrState = "RUNNING" /\ UNCHANGED timeVars /\ MayUse(t)
  BY DEF OSTmrStop
<1>2. Unlinked(tmr, tmr', t)
  <2>1. tmr' = OSTmr_Unlink(Wheel, t).tmr
    BY DEF OSTmrStop, WheelBecomes
  <2> QED
    BY <2>1, <1>1, Unlink_Step
<1>21. /\ tmr'[t].OSTmrState = "STOPPED"
       /\ tmr'[t].OSTmrOpt = tmr[t].OSTmrOpt /\ tmr'[t].OSTmrDly = tmr[t].OSTmrDly
       /\ tmr'[t].OSTmrPeriod = tmr[t].OSTmrPeriod /\ tmr'[t].OSTmrCallback = tmr[t].OSTmrCallback
       /\ \A u \in Timer \ {t} : SameButLinks(tmr, tmr', u)
  <2>1. tmr \in [Timer -> OSTmr]
    BY Timers
  <2> QED
    BY <2>1, <1>2, UnlinkedMeaning
<1>3. OnlyChanges(t) /\ Ended(t, "STOPPED")
  BY <1>1, <1>21 DEF OnlyChanges, Ended, timeVars
<1>4. Service!Become(t, "STOPPED", Delay(tmr[t])) /\ TheSettings' = TheSettings
  BY <1>1, <1>3, EndedMeaning
<1>5. callbacks' \in {callbacks, Callback(t)}
  BY DEF OSTmrStop
<1>6. t \in Service!Running /\ tmr[t].OSTmrState # "UNUSED"
  BY <1>1, DueMeaning
<1>7. Callback(t) = Service!Calling(t) /\ Service!FirstDelay(TheSettings[t]) = Delay(tmr[t])
  BY <1>6, DelayMeaning
<1>8. Service!Stop(t)
  BY <1>4, <1>5, <1>6, <1>7 DEF Service!Stop
<1> QED
  BY <1>1, <1>8, MayUseMeaning DEF Service!Next

\* The turn of OSTmr_Task begins.
LEMMA TickSim ==
  ASSUME IInv, IInv', OSTmr_Task_Tick
  PROVE  Service!Next
<1>1. /\ ptmr = Null /\ callbacks = <<>> /\ OSTmrTime' = (OSTmrTime + 1) % TimeRange
      /\ tmr' = tmr /\ callbacks' = callbacks
  BY DEF OSTmr_Task_Tick, Unlocked
<1>2. Service!Due = {}
  BY <1>1, NoneDue
<1>3. TheStates' = TheStates /\ TheSettings' = TheSettings
  BY <1>1 DEF TheStates, TheSettings, SettingOf
<1>4. ASSUME NEW t \in Timer
      PROVE  TheLeft'[t] = IF t \in Service!Running THEN TheLeft[t] - 1 ELSE TheLeft[t]
  <2>1. CASE tmr[t].OSTmrState = "RUNNING"
    <3>1. t \in Service!Running /\ tmr[t].OSTmrMatch # OSTmrTime
      BY <2>1, <1>2, DueMeaning
    <3>2. TheLeft[t] = (tmr[t].OSTmrMatch - OSTmrTime) % TimeRange
      BY <2>1, LeftFacts
    <3>3. TheLeft'[t] = (tmr[t].OSTmrMatch - OSTmrTime') % TimeRange
      BY <2>1, <1>1 DEF TheLeft, OSTmrRemainGet
    <3>4. tmr[t].OSTmrMatch \in 0 .. TimeRange - 1 /\ OSTmrTime \in 0 .. TimeRange - 1
      BY Timers DEF OSTmr
    <3> QED
      BY <3>1, <3>2, <3>3, <3>4, <1>1, LeftAtTick
  <2>2. CASE tmr[t].OSTmrState # "RUNNING"
    <3>1. t \notin Service!Running
      BY <2>2, DueMeaning
    <3>2. OSTmrRemainGet(t)' = OSTmrRemainGet(t)
      BY <2>2, <1>1 DEF OSTmrRemainGet
    <3> QED
      BY <3>1, <3>2 DEF TheLeft
  <2> QED
    BY <2>1, <2>2
<1>5. TheLeft' = [t \in Timer |-> IF t \in Service!Running THEN TheLeft[t] - 1 ELSE TheLeft[t]]
  <2>1. TheLeft' = [t \in Timer |-> TheLeft'[t]]
    BY DEF TheLeft
  <2> QED
    BY <2>1, <1>4
<1>6. Service!Tick
  BY <1>1, <1>2, <1>3, <1>5 DEF Service!Tick
<1> QED
  BY <1>6 DEF Service!Next

\* What tasks see of the timers stays.
Stutters == UNCHANGED <<TheStates, TheSettings, TheLeft, callbacks>>

\* What leaves the timers, the clock and the callbacks alone is not seen.
LEMMA Unseen ==
  ASSUME UNCHANGED <<tmr, OSTmrTime, callbacks>>
  PROVE  Stutters
BY DEF Stutters, TheStates, TheSettings, TheLeft, SettingOf, OSTmrRemainGet, Delay

\* OSTmr_Task comes to a timer whose match is the time.
LEMMA ExpireSim ==
  ASSUME IInv, IInv', OSTmr_Task_Visit, tmr[ptmr].OSTmrMatch = OSTmrTime
  PROVE  Service!Next
<1>1. PICK t \in Timer : t = ptmr /\ tmr[t].OSTmrState = "RUNNING"
  BY NextOfTurn DEF OSTmr_Task_Visit, IInv, On
<1>2. /\ callbacks = <<>> /\ callbacks' = Callback(t) /\ UNCHANGED timeVars
      /\ tmr' = Expired(Wheel, t).tmr /\ OSTmrWheelTbl' = Expired(Wheel, t).wheel
  BY <1>1 DEF OSTmr_Task_Visit, WheelBecomes
<1>3. t \in Service!Due
  BY <1>1, DueMeaning
<1>4. /\ TheSettings[t].opt = tmr[t].OSTmrOpt /\ TheSettings[t].period = tmr[t].OSTmrPeriod
      /\ Callback(t) = Service!Calling(t) /\ tmr[t].OSTmrState # "UNUSED"
  BY <1>1, DelayMeaning
<1>5. tmr[t].OSTmrOpt \in {"ONE_SHOT", "PERIODIC"}
  BY <1>1, Timers DEF ValidTimers, OSTmr
<1> DEFINE w == OSTmr_Unlink(Wheel, t)
           n == tmr[t].OSTmrPeriod
<1>6. /\ GoodWheel(w.tmr, w.wheel) /\ Unlinked(tmr, w.tmr, t)
      /\ w.tmr[t].OSTmrState = "STOPPED" /\ w = [tmr |-> w.tmr, wheel |-> w.wheel]
  BY <1>1, Unlink_Step DEF Sound
<1>7. Expired(Wheel, t) = IF tmr[t].OSTmrOpt = "PERIODIC" THEN OSTmr_Link(w, t, n)
                          ELSE [w EXCEPT !.tmr[t].OSTmrState = "COMPLETED"]
  BY DEF Expired, Wheel
<1> HIDE DEF w
<1>8. CASE tmr[t].OSTmrOpt = "PERIODIC"
  <2>1. n \in 1 .. TimeRange - 1
    BY <1>4, <1>8, DelayType, Timers
  <2>2. WheelBecomes(OSTmr_Link(w, t, n)) /\ w.tmr[t].OSTmrState # "RUNNING"
    BY <1>2, <1>6, <1>7, <1>8 DEF WheelBecomes
  <2> HIDE DEF n
  <2>3. OnlyChanges(t) /\ Started(t, n)
    BY <1>2, <1>6, <2>1, <2>2, LinkStarts
  <2>4. Service!Become(t, "RUNNING", n) /\ TheSettings' = TheSettings
    BY <1>4, <2>1, <2>3, StartedMeaning
  <2>5. Service!Expire(t)
    BY <1>2, <1>3, <1>4, <1>8, <2>4 DEF Service!Expire, n
  <2> QED
    BY <2>5 DEF Service!Next
<1>9. CASE tmr[t].OSTmrOpt = "ONE_SHOT"
  <2>1. /\ w.tmr[t].OSTmrOpt = tmr[t].OSTmrOpt /\ w.tmr[t].OSTmrDly = tmr[t].OSTmrDly
        /\ w.tmr[t].OSTmrPeriod = tmr[t].OSTmrPeriod
        /\ w.tmr[t].OSTmrCallback = tmr[t].OSTmrCallback
        /\ \A u \in Timer \ {t} : SameButLinks(tmr, w.tmr, u)
    <3>1. tmr \in [Timer -> OSTmr]
      BY Timers
    <3> QED
      BY <3>1, <1>6, UnlinkedMeaning
  <2>2. w.tmr \in [Timer -> OSTmr]
    BY <1>6 DEF GoodWheel
  <2>3. tmr' = [w.tmr EXCEPT ![t] = [w.tmr[t] EXCEPT !.OSTmrState = "COMPLETED"]]
    BY <1>2, <1>6, <1>7, <1>9, <2>2
  <2>4. /\ tmr'[t].OSTmrState = "COMPLETED" /\ tmr'[t].OSTmrOpt = w.tmr[t].OSTmrOpt
        /\ tmr'[t].OSTmrDly = w.tmr[t].OSTmrDly /\ tmr'[t].OSTmrPeriod = w.tmr[t].OSTmrPeriod
        /\ tmr'[t].OSTmrCallback = w.tmr[t].OSTmrCallback
        /\ \A u \in Timer \ {t} : tmr'[u] = w.tmr[u]
    BY <2>2, <2>3 DEF OSTmr
  <2>5. OnlyChanges(t)
    BY <1>2, <2>1, <2>4 DEF OnlyChanges, SameButLinks, timeVars
  <2>6. Ended(t, "COMPLETED")
    BY <2>1, <2>4 DEF Ended
  <2>7. Service!Become(t, "COMPLETED", 0) /\ TheSettings' = TheSettings
    BY <1>4, <2>5, <2>6, EndedMeaning
  <2>8. Service!Expire(t)
    BY <1>2, <1>3, <1>4, <1>9, <2>7 DEF Service!Expire
  <2> QED
    BY <2>8 DEF Service!Next
<1> QED
  BY <1>5, <1>8, <1>9

-----------------------------------------------------------------------------
(* The theorem.                                                             *)

\* Every step is a step of the abstract timers or is not seen.
LEMMA StepSim ==
  ASSUME CallbacksSpareNext, IInv, IInv', [Next]_vars
  PROVE  [Service!Next]_<<TheStates, TheSettings, TheLeft, callbacks>>
<1>1. CASE \E t \in Timer : \E s \in Setting : OSTmrCreate(t, s)
  BY <1>1, CreateSim
<1>2. CASE \E t \in Timer : OSTmrDel(t) \/ OSTmrStart(t) \/ OSTmrStop(t)
  BY <1>2, DelSim, StartSim, StopSim
<1>3. CASE CallbackReturn
  <2>1. callbacks # <<>> /\ callbacks' = Tail(callbacks) /\ UNCHANGED <<tmr, OSTmrTime>>
    BY <1>3 DEF CallbackReturn, timeVars
  <2>2. UNCHANGED <<TheStates, TheSettings, TheLeft>>
    BY <2>1 DEF TheStates, TheSettings, TheLeft, SettingOf, OSTmrRemainGet, Delay
  <2> QED
    BY <2>1, <2>2 DEF Service!Next, Service!Return
<1>4. CASE OSTmrSignal
  BY <1>4, Unseen DEF OSTmrSignal, Stutters
<1>5. CASE OSTmr_Task_Tick
  BY <1>5, TickSim
<1>6. CASE OSTmr_Task_Visit
  <2>1. CASE tmr[ptmr].OSTmrMatch = OSTmrTime
    BY <1>6, <2>1, ExpireSim
  <2>2. CASE tmr[ptmr].OSTmrMatch # OSTmrTime
    BY <1>6, <2>2, Unseen DEF OSTmr_Task_Visit, Stutters, timeVars
  <2> QED
    BY <2>1, <2>2
<1>7. CASE UNCHANGED vars
  BY <1>7, Unseen DEF vars, timeVars, Stutters
<1> QED
  BY <1>1, <1>2, <1>3, <1>4, <1>5, <1>6, <1>7 DEF Next

\* OSTmr_Init leaves no timer in use.
LEMMA InitSim ==
  ASSUME Init
  PROVE  Service!Init
<1>1. \A t \in Timer : tmr[t].OSTmrState = "UNUSED"
  BY DEF Init, Unused
<1>2. TheStates = [t \in Timer |-> "UNUSED"] /\ TheSettings = [t \in Timer |-> Null]
  BY <1>1 DEF TheStates, TheSettings, SettingOf
<1>3. TheLeft = [t \in Timer |-> 0]
  BY <1>1 DEF TheLeft, OSTmrRemainGet
<1> QED
  BY <1>2, <1>3 DEF Init, Service!Init

\* Whatever the size of the wheel, the settings and the wraps of the clock, and
\* whatever tasks and callbacks do with the timers between: a timer expires in the
\* tick it was started for, exactly once, and no tick passes one by.
THEOREM TimersImplementService == ASSUME CallbacksSpareNext PROVE Spec => IsTimerService
<1>1. Init => Service!Init
  BY InitSim
<1>2. IInv /\ IInv' /\ [Next]_vars => [Service!Next]_<<TheStates, TheSettings, TheLeft, callbacks>>
  BY StepSim
<1> QED
  BY <1>1, <1>2, Invariant, PTL DEF Spec, IsTimerService, Service!Spec, Service!vars
=============================================================================
