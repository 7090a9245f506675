------------------------- MODULE FreeRTOSRefinement -------------------------
(***************************************************************************)
(* The proof that the queue of FreeRTOSQueue implements BoundedQueue, for    *)
(* every set of tasks, queue length, width of the tick count and handlers,   *)
(* as long as waiting tasks look at the clock once per turn of its count: a  *)
(* call takes effect in the critical section in which it goes on, its time   *)
(* begins when it first cannot, and all that lies between is not seen.       *)
(***************************************************************************)
EXTENDS FreeRTOSProofs, FreeRTOSQueueService, SequenceTheorems

-----------------------------------------------------------------------------
(* The ring.                                                                *)

Item == Items \cup {NoItem}

\* The writing place is the one behind the last message.
RingOf(Q) ==
  Q.pcReadFrom + 1 + Q.uxMessagesWaiting
    \in {Q.pcWriteTo, Q.pcWriteTo + Q.uxLength, Q.pcWriteTo + Q.uxLength + Q.uxLength}

\* The message i places behind the reading place.
PlaceOf(Q, i) == IF Q.pcReadFrom + i < Q.uxLength THEN Q.pcReadFrom + i
                                                  ELSE Q.pcReadFrom + i - Q.uxLength

\* The fields of a queue.
LEMMA Fields ==
  ASSUME NEW n \in Nat \ {0}, NEW Q \in QueueType(n)
  PROVE  /\ Q.uxLength = n /\ Q.pcWriteTo \in 0 .. n - 1 /\ Q.pcReadFrom \in 0 .. n - 1
         /\ Q.uxMessagesWaiting \in 0 .. n /\ Q.storage \in [0 .. n - 1 -> Item]
BY DEF QueueType, Item

\* Counting round the ring.
LEMMA Around ==
  ASSUME NEW n \in Nat \ {0}, NEW k \in 0 .. 2 * n - 1
  PROVE  k % n = IF k < n THEN k ELSE k - n
<1>1. CASE k < n
  BY <1>1
<1>2. CASE k >= n
  <2>1. k - n \in 0 .. n - 1
    BY <1>2
  <2>2. k = 1 * n + (k - n)
    OBVIOUS
  <2> QED
    BY <1>2, <2>1, <2>2
<1> QED
  BY <1>1, <1>2

\* The content is a sequence of messages, in the places that follow pcReadFrom.
LEMMA ContentFacts ==
  ASSUME NEW n \in Nat \ {0}, NEW Q \in QueueType(n)
  PROVE  /\ ContentOf(Q) \in Seq(Item)
         /\ Len(ContentOf(Q)) = Q.uxMessagesWaiting
         /\ ContentOf(Q) = <<>> <=> Q.uxMessagesWaiting = 0
         /\ \A i \in 1 .. Q.uxMessagesWaiting :
              PlaceOf(Q, i) \in 0 .. n - 1 /\ ContentOf(Q)[i] = Q.storage[PlaceOf(Q, i)]
<1>1. /\ Q.uxLength = n /\ Q.pcReadFrom \in 0 .. n - 1 /\ Q.uxMessagesWaiting \in 0 .. n
      /\ Q.storage \in [0 .. n - 1 -> Item]
  BY Fields
<1>2. ASSUME NEW i \in 1 .. Q.uxMessagesWaiting
      PROVE  (Q.pcReadFrom + i) % n = PlaceOf(Q, i) /\ PlaceOf(Q, i) \in 0 .. n - 1
  <2>1. PICK k : k = Q.pcReadFrom + i
    OBVIOUS
  <2>2. k \in 0 .. 2 * n - 1
    BY <1>1, <2>1
  <2>3. k % n = IF k < n THEN k ELSE k - n
    BY <2>2, Around
  <2>4. PlaceOf(Q, i) = IF k < n THEN k ELSE k - n
    BY <1>1, <2>1 DEF PlaceOf
  <2>5. (IF k < n THEN k ELSE k - n) \in 0 .. n - 1
    BY <2>2
  <2> QED
    BY <2>1, <2>3, <2>4, <2>5
<1> DEFINE c == ContentOf(Q)
<1>3. /\ c \in [1 .. Q.uxMessagesWaiting -> Item]
      /\ \A i \in 1 .. Q.uxMessagesWaiting : c[i] = Q.storage[PlaceOf(Q, i)]
  BY <1>1, <1>2 DEF ContentOf
<1> HIDE DEF c
<1>4. c \in Seq(Item)
  BY <1>1, <1>3, SeqDef
<1>5. Len(c) = Q.uxMessagesWaiting
  <2>1. Len(c) \in Nat /\ DOMAIN c = 1 .. Len(c)
    BY <1>4, LenProperties
  <2>2. 1 .. Len(c) = 1 .. Q.uxMessagesWaiting
    BY <1>3, <2>1
  <2> QED
    BY <1>1, <2>1, <2>2
<1>6. c = <<>> <=> Q.uxMessagesWaiting = 0
  BY <1>4, <1>5, EmptySeq
<1> QED
  BY <1>2, <1>3, <1>4, <1>5, <1>6 DEF c

\* A sequence of that many messages in those places is the content.
LEMMA ContentIs ==
  ASSUME NEW n \in Nat \ {0}, NEW Q \in QueueType(n), NEW s \in Seq(Item),
         Len(s) = Q.uxMessagesWaiting,
         \A i \in 1 .. Q.uxMessagesWaiting : s[i] = Q.storage[PlaceOf(Q, i)]
  PROVE  ContentOf(Q) = s
<1> DEFINE c == ContentOf(Q)
<1>1. c \in Seq(Item) /\ Len(c) = Len(s) /\ \A i \in 1 .. Len(c) : c[i] = s[i]
  BY ContentFacts
<1> HIDE DEF c
<1>2. c = s
  BY <1>1, SeqEqual
<1> QED
  BY <1>2 DEF c

\* One place on, and one back.
LEMMA Neighbours ==
  ASSUME NEW n \in Nat \ {0}, NEW Q, Q.uxLength = n, NEW i \in 0 .. n - 1
  PROVE  /\ NextPlace(Q, i) = IF i = n - 1 THEN 0 ELSE i + 1
         /\ PrevPlace(Q, i) = IF i = 0 THEN n - 1 ELSE i - 1
<1>1. PICK k : k = i + 1
  OBVIOUS
<1>2. PICK l : l = i + n - 1
  OBVIOUS
<1>3. k \in 0 .. 2 * n - 1 /\ l \in 0 .. 2 * n - 1
  BY <1>1, <1>2
<1>4. k % n = IF k < n THEN k ELSE k - n
  BY <1>3, Around
<1>5. l % n = IF l < n THEN l ELSE l - n
  BY <1>3, Around
<1>6. NextPlace(Q, i) = k % n /\ PrevPlace(Q, i) = l % n
  BY <1>1, <1>2 DEF NextPlace, PrevPlace
<1> QED
  BY <1>1, <1>2, <1>4, <1>5, <1>6

\* A message sent is the last one.
LEMMA SendContent ==
  ASSUME NEW n \in Nat \ {0}, NEW Q \in QueueType(n), RingOf(Q), Q.uxMessagesWaiting # n,
         NEW item \in Item, NEW Q2, Q2 = prvCopyDataToQueue(Q, "send", item),
         Q2 \in QueueType(n)
  PROVE  RingOf(Q2) /\ ContentOf(Q2) = Append(ContentOf(Q), item)
<1>1. /\ Q.uxLength = n /\ Q.pcWriteTo \in 0 .. n - 1 /\ Q.pcReadFrom \in 0 .. n - 1
      /\ Q.uxMessagesWaiting \in 0 .. n /\ Q.storage \in [0 .. n - 1 -> Item]
  BY Fields
<1> DEFINE m == Q.uxMessagesWaiting
           c == ContentOf(Q)
           s == Append(c, item)
<1>2. /\ c \in Seq(Item) /\ Len(c) = m
      /\ \A i \in 1 .. m : PlaceOf(Q, i) \in 0 .. n - 1 /\ c[i] = Q.storage[PlaceOf(Q, i)]
  BY ContentFacts
<1>3. /\ Q2.uxLength = n /\ Q2.pcReadFrom = Q.pcReadFrom /\ Q2.uxMessagesWaiting = m + 1
      /\ Q2.storage = [Q.storage EXCEPT ![Q.pcWriteTo] = item]
      /\ Q2.pcWriteTo = NextPlace(Q, Q.pcWriteTo)
  BY <1>1 DEF prvCopyDataToQueue, QueueType
<1>4. Q2.pcWriteTo = IF Q.pcWriteTo = n - 1 THEN 0 ELSE Q.pcWriteTo + 1
  BY <1>1, <1>3, Neighbours
<1> HIDE DEF c
<1>5. s \in Seq(Item) /\ Len(s) = m + 1 /\ s[m + 1] = item /\ \A i \in 1 .. m : s[i] = c[i]
  BY <1>1, <1>2, AppendProperties
<1> HIDE DEF s
<1>61. PICK r \in 0 .. n - 1, w \in 0 .. n - 1 : r = Q.pcReadFrom /\ w = Q.pcWriteTo
  BY <1>1
<1>62. (r + 1 + m = w \/ r + 1 + m = w + n \/ r + 1 + m = w + n + n) /\ m \in 0 .. n - 1
  BY <1>1, <1>61 DEF RingOf
<1>6. RingOf(Q2)
  <2>1. PICK v : v = IF w = n - 1 THEN 0 ELSE w + 1
    OBVIOUS
  <2>2. r + 1 + (m + 1) = v \/ r + 1 + (m + 1) = v + n \/ r + 1 + (m + 1) = v + n + n
    <3> HIDE DEF m
    <3> QED
      BY <1>62, <2>1
  <2>3. Q2.pcReadFrom = r /\ Q2.pcWriteTo = v /\ Q2.uxMessagesWaiting = m + 1 /\ Q2.uxLength = n
    BY <1>3, <1>4, <1>61, <2>1
  <2> QED
    BY <2>2, <2>3 DEF RingOf
<1>7. PlaceOf(Q2, m + 1) = w
  <2>1. PlaceOf(Q2, m + 1) = IF r + (m + 1) < n THEN r + (m + 1) ELSE r + (m + 1) - n
    BY <1>3, <1>61 DEF PlaceOf
  <2> HIDE DEF m
  <2> QED
    BY <1>62, <2>1
<1>8. ASSUME NEW i \in 1 .. m
      PROVE  PlaceOf(Q2, i) = PlaceOf(Q, i) /\ PlaceOf(Q, i) # w
  <2>1. PlaceOf(Q, i) = IF r + i < n THEN r + i ELSE r + i - n
    BY <1>1, <1>61 DEF PlaceOf
  <2>2. PlaceOf(Q2, i) = PlaceOf(Q, i)
    BY <1>1, <1>3 DEF PlaceOf
  <2> HIDE DEF m
  <2> QED
    BY <1>62, <2>1, <2>2
<1>9. ASSUME NEW i \in 1 .. m + 1 PROVE s[i] = Q2.storage[PlaceOf(Q2, i)]
  <2>1. CASE i = m + 1
    BY <1>1, <1>3, <1>5, <1>61, <1>7, <2>1
  <2>2. CASE i \in 1 .. m
    BY <1>1, <1>2, <1>3, <1>5, <1>61, <1>8, <2>2
  <2> QED
    BY <1>1, <2>1, <2>2
<1>10. ContentOf(Q2) = s
  <2>1. s \in Seq(Item) /\ Len(s) = Q2.uxMessagesWaiting
    BY <1>3, <1>5
  <2>2. \A i \in 1 .. Q2.uxMessagesWaiting : s[i] = Q2.storage[PlaceOf(Q2, i)]
    BY <1>3, <1>9
  <2> QED
    BY <2>1, <2>2, ContentIs
<1> QED
  BY <1>6, <1>10 DEF s, c

\* A message sent to the front is the first one.
LEMMA FrontContent ==
  ASSUME NEW n \in Nat \ {0}, NEW Q \in QueueType(n), RingOf(Q), Q.uxMessagesWaiting # n,
         NEW item \in Item, NEW op, op \notin {"send", "overwrite"},
         NEW Q2, Q2 = prvCopyDataToQueue(Q, op, item), Q2 \in QueueType(n)
  PROVE  RingOf(Q2) /\ ContentOf(Q2) = <<item>> \o ContentOf(Q)
<1>1. /\ Q.uxLength = n /\ Q.pcWriteTo \in 0 .. n - 1 /\ Q.pcReadFrom \in 0 .. n - 1
      /\ Q.uxMessagesWaiting \in 0 .. n /\ Q.storage \in [0 .. n - 1 -> Item]
  BY Fields
<1> DEFINE m == Q.uxMessagesWaiting
           c == ContentOf(Q)
           s == <<item>> \o c
<1>2. /\ c \in Seq(Item) /\ Len(c) = m
      /\ \A i \in 1 .. m : PlaceOf(Q, i) \in 0 .. n - 1 /\ c[i] = Q.storage[PlaceOf(Q, i)]
  BY ContentFacts
<1>3. /\ Q2.uxLength = n /\ Q2.pcWriteTo = Q.pcWriteTo /\ Q2.uxMessagesWaiting = m + 1
      /\ Q2.storage = [Q.storage EXCEPT ![Q.pcReadFrom] = item]
      /\ Q2.pcReadFrom = PrevPlace(Q, Q.pcReadFrom)
  BY <1>1 DEF prvCopyDataToQueue, QueueType
<1>4. Q2.pcReadFrom = IF Q.pcReadFrom = 0 THEN n - 1 ELSE Q.pcReadFrom - 1
  BY <1>1, <1>3, Neighbours
<1> HIDE DEF c
<1>5. /\ s \in Seq(Item) /\ Len(s) = m + 1 /\ s[1] = item
      /\ \A i \in 1 .. m : s[i + 1] = c[i]
  <2>1. <<item>> \in Seq(Item) /\ Len(<<item>>) = 1 /\ <<item>>[1] = item
    OBVIOUS
  <2> QED
    BY <1>1, <1>2, <2>1, ConcatProperties
<1> HIDE DEF s
<1>61. PICK r \in 0 .. n - 1, w \in 0 .. n - 1 : r = Q.pcReadFrom /\ w = Q.pcWriteTo
  BY <1>1
<1>62. (r + 1 + m = w \/ r + 1 + m = w + n \/ r + 1 + m = w + n + n) /\ m \in 0 .. n - 1
  BY <1>1, <1>61 DEF RingOf
<1>63. PICK v : v = IF r = 0 THEN n - 1 ELSE r - 1
  OBVIOUS
<1>64. Q2.pcReadFrom = v /\ Q2.pcWriteTo = w /\ Q2.uxMessagesWaiting = m + 1 /\ Q2.uxLength = n
  BY <1>3, <1>4, <1>61, <1>63
<1>6. RingOf(Q2)
  <2>2. v + 1 + (m + 1) = w \/ v + 1 + (m + 1) = w + n \/ v + 1 + (m + 1) = w + n + n
    <3> HIDE DEF m
    <3> QED
      BY <1>62, <1>63
  <2> QED
    BY <2>2, <1>64 DEF RingOf
<1>7. PlaceOf(Q2, 1) = r
  <2>1. PlaceOf(Q2, 1) = IF v + 1 < n THEN v + 1 ELSE v + 1 - n
    BY <1>64 DEF PlaceOf
  <2> QED
    BY <1>63, <2>1
<1>8. ASSUME NEW i \in 1 .. m
      PROVE  PlaceOf(Q2, i + 1) = PlaceOf(Q, i) /\ PlaceOf(Q, i) # r
  <2>1. PlaceOf(Q, i) = IF r + i < n THEN r + i ELSE r + i - n
    BY <1>1, <1>61 DEF PlaceOf
  <2>2. PlaceOf(Q2, i + 1) = IF v + (i + 1) < n THEN v + (i + 1) ELSE v + (i + 1) - n
    BY <1>64 DEF PlaceOf
  <2> HIDE DEF m
  <2> QED
    BY <1>62, <1>63, <2>1, <2>2
<1>9. ASSUME NEW i \in 1 .. m + 1 PROVE s[i] = Q2.storage[PlaceOf(Q2, i)]
  <2>1. CASE i = 1
    BY <1>1, <1>3, <1>5, <1>61, <1>7, <2>1
  <2>2. CASE i # 1
    <3>1. PICK k \in 1 .. m : i = k + 1
      BY <1>1, <2>2
    <3>2. s[i] = c[k] /\ c[k] = Q.storage[PlaceOf(Q, k)] /\ PlaceOf(Q, k) \in 0 .. n - 1
      BY <1>2, <1>5, <3>1
    <3>3. PlaceOf(Q2, i) = PlaceOf(Q, k) /\ PlaceOf(Q, k) # r
      BY <1>8, <3>1
    <3> QED
      BY <1>1, <1>3, <1>61, <3>2, <3>3
  <2> QED
    BY <2>1, <2>2
<1>10. ContentOf(Q2) = s
  <2>1. s \in Seq(Item) /\ Len(s) = Q2.uxMessagesWaiting
    BY <1>3, <1>5
  <2>2. \A i \in 1 .. Q2.uxMessagesWaiting : s[i] = Q2.storage[PlaceOf(Q2, i)]
    BY <1>3, <1>9
  <2> QED
    BY <2>1, <2>2, ContentIs
<1> QED
  BY <1>6, <1>10 DEF s, c

\* A queue of one message holds the one that overwrites.
LEMMA OverwriteContent ==
  ASSUME NEW n \in Nat \ {0}, n = 1, NEW Q \in QueueType(n), RingOf(Q), NEW item \in Item,
         NEW Q2, Q2 = prvCopyDataToQueue(Q, "overwrite", item), Q2 \in QueueType(n)
  PROVE  RingOf(Q2) /\ ContentOf(Q2) = <<item>>
<1>0. ASSUME NEW R \in QueueType(n)
      PROVE  /\ R.uxLength = 1 /\ R.pcWriteTo = 0 /\ R.pcReadFrom = 0
             /\ R.uxMessagesWaiting \in 0 .. 1 /\ R.storage \in [0 .. n - 1 -> Item]
  <2>1. /\ R.uxLength = n /\ R.pcWriteTo \in 0 .. n - 1 /\ R.pcReadFrom \in 0 .. n - 1
        /\ R.uxMessagesWaiting \in 0 .. n /\ R.storage \in [0 .. n - 1 -> Item]
    BY Fields
  <2> QED
    BY <2>1
<1>1. /\ Q.uxLength = 1 /\ Q.pcWriteTo = 0 /\ Q.pcReadFrom = 0
      /\ Q.uxMessagesWaiting \in 0 .. 1 /\ Q.storage \in [0 .. n - 1 -> Item]
  BY <1>0
<1>2. /\ Q2.uxLength = 1 /\ Q2.pcWriteTo = 0 /\ Q2.pcReadFrom = 0
  BY <1>0
<1>3. Q2.uxMessagesWaiting = 1 /\ Q2.storage[0] = item
  BY <1>1 DEF prvCopyDataToQueue, QueueType
<1>4. RingOf(Q2)
  BY <1>2, <1>3 DEF RingOf
<1>5. PlaceOf(Q2, 1) = 0
  BY <1>2 DEF PlaceOf
<1>6. <<item>> \in Seq(Item) /\ Len(<<item>>) = 1 /\ <<item>>[1] = item
  OBVIOUS
<1>7. \A i \in 1 .. Q2.uxMessagesWaiting : <<item>>[i] = Q2.storage[PlaceOf(Q2, i)]
  BY <1>3, <1>5, <1>6
<1>8. ContentOf(Q2) = <<item>>
  BY <1>3, <1>6, <1>7, ContentIs
<1> QED
  BY <1>4, <1>8

\* The message removed was the first one.
LEMMA RemovedContent ==
  ASSUME NEW n \in Nat \ {0}, NEW Q \in QueueType(n), RingOf(Q), Q.uxMessagesWaiting # 0,
         NEW Q2, Q2 = Removed(Q), Q2 \in QueueType(n)
  PROVE  /\ RingOf(Q2) /\ ContentOf(Q2) = Tail(ContentOf(Q))
         /\ prvCopyDataFromQueue(Q) = Head(ContentOf(Q))
<1>1. /\ Q.uxLength = n /\ Q.pcWriteTo \in 0 .. n - 1 /\ Q.pcReadFrom \in 0 .. n - 1
      /\ Q.uxMessagesWaiting \in 0 .. n /\ Q.storage \in [0 .. n - 1 -> Item]
  BY Fields
<1> DEFINE m == Q.uxMessagesWaiting
           c == ContentOf(Q)
           s == Tail(c)
<1>2. /\ c \in Seq(Item) /\ Len(c) = m /\ c # <<>>
      /\ \A i \in 1 .. m : PlaceOf(Q, i) \in 0 .. n - 1 /\ c[i] = Q.storage[PlaceOf(Q, i)]
  BY ContentFacts
<1>3. /\ Q2.uxLength = n /\ Q2.pcWriteTo = Q.pcWriteTo /\ Q2.uxMessagesWaiting = m - 1
      /\ Q2.storage = [Q.storage EXCEPT ![NextPlace(Q, Q.pcReadFrom)] = NoItem]
      /\ Q2.pcReadFrom = NextPlace(Q, Q.pcReadFrom)
  BY <1>1 DEF Removed, QueueType
<1>4. NextPlace(Q, Q.pcReadFrom) = IF Q.pcReadFrom = n - 1 THEN 0 ELSE Q.pcReadFrom + 1
  BY <1>1, Neighbours
<1> HIDE DEF c
<1>5. /\ s \in Seq(Item) /\ Len(s) = m - 1 /\ Head(c) = c[1]
      /\ \A i \in 1 .. m - 1 : s[i] = c[i + 1]
  BY <1>1, <1>2, HeadTailProperties
<1> HIDE DEF s
<1>61. PICK r \in 0 .. n - 1, w \in 0 .. n - 1 : r = Q.pcReadFrom /\ w = Q.pcWriteTo
  BY <1>1
<1>62. (r + 1 + m = w \/ r + 1 + m = w + n \/ r + 1 + m = w + n + n) /\ m \in 1 .. n
  BY <1>1, <1>61 DEF RingOf
<1>63. PICK v : v = IF r = n - 1 THEN 0 ELSE r + 1
  OBVIOUS
<1>64. /\ Q2.pcReadFrom = v /\ Q2.pcWriteTo = w /\ Q2.uxMessagesWaiting = m - 1
       /\ Q2.uxLength = n /\ NextPlace(Q, Q.pcReadFrom) = v
  BY <1>3, <1>4, <1>61, <1>63
<1>6. RingOf(Q2)
  <2>2. v + 1 + (m - 1) = w \/ v + 1 + (m - 1) = w + n \/ v + 1 + (m - 1) = w + n + n
    <3> HIDE DEF m
    <3> QED
      BY <1>62, <1>63
  <2> QED
    BY <2>2, <1>64 DEF RingOf
<1>7. PlaceOf(Q, 1) = v
  <2>1. PlaceOf(Q, 1) = IF r + 1 < n THEN r + 1 ELSE r + 1 - n
    BY <1>1, <1>61 DEF PlaceOf
  <2> QED
    BY <1>63, <2>1
<1>8. ASSUME NEW i \in 1 .. m - 1
      PROVE  PlaceOf(Q2, i) = PlaceOf(Q, i + 1) /\ PlaceOf(Q2, i) # v
  <2>1. PlaceOf(Q, i + 1) = IF r + (i + 1) < n THEN r + (i + 1) ELSE r + (i + 1) - n
    BY <1>1, <1>61 DEF PlaceOf
  <2>2. PlaceOf(Q2, i) = IF v + i < n THEN v + i ELSE v + i - n
    BY <1>64 DEF PlaceOf
  <2> HIDE DEF m
  <2> QED
    BY <1>62, <1>63, <2>1, <2>2
<1>9. ASSUME NEW i \in 1 .. m - 1 PROVE s[i] = Q2.storage[PlaceOf(Q2, i)]
  <2>1. i + 1 \in 1 .. m
    BY <1>1
  <2>2. s[i] = Q.storage[PlaceOf(Q, i + 1)] /\ PlaceOf(Q, i + 1) \in 0 .. n - 1
    BY <1>2, <1>5, <2>1
  <2> QED
    BY <1>1, <1>3, <1>64, <1>8, <2>2
<1>10. ContentOf(Q2) = s
  <2>1. s \in Seq(Item) /\ Len(s) = Q2.uxMessagesWaiting
    BY <1>3, <1>5
  <2>2. \A i \in 1 .. Q2.uxMessagesWaiting : s[i] = Q2.storage[PlaceOf(Q2, i)]
    BY <1>3, <1>9
  <2> QED
    BY <2>1, <2>2, ContentIs
<1>11. prvCopyDataFromQueue(Q) = Head(c)
  <2>1. 1 \in 1 .. m
    BY <1>62
  <2> QED
    BY <1>2, <1>5, <1>64, <1>7, <2>1 DEF prvCopyDataFromQueue
<1> QED
  BY <1>6, <1>10, <1>11 DEF s, c

\* A queue just reset holds nothing.
LEMMA EmptyContent ==
  ASSUME NEW n \in Nat \ {0}, NEW Q, Q = Empty(n), Q \in QueueType(n)
  PROVE  RingOf(Q) /\ ContentOf(Q) = <<>>
<1>1. /\ Q.uxLength = n /\ Q.pcWriteTo = 0 /\ Q.pcReadFrom = n - 1 /\ Q.uxMessagesWaiting = 0
  BY DEF Empty
<1> QED
  BY <1>1, ContentFacts DEF RingOf

\* The locks are no part of it.
LEMMA SameRing ==
  ASSUME NEW Q, NEW Q2, Q2.storage = Q.storage, Q2.uxLength = Q.uxLength,
         Q2.pcWriteTo = Q.pcWriteTo, Q2.pcReadFrom = Q.pcReadFrom,
         Q2.uxMessagesWaiting = Q.uxMessagesWaiting
  PROVE  ContentOf(Q2) = ContentOf(Q) /\ (RingOf(Q) => RingOf(Q2))
BY DEF ContentOf, RingOf

\* Whether a call can go on, and what it does to the content when it does.
Goes(Q, Q2, op, item) ==
  /\ RingOf(Q2) /\ Q2.uxLength = Q.uxLength
  /\ op \in {"receive", "peek"} => ContentOf(Q) # <<>>
  /\ op \in {"send", "sendToFront"} => Len(ContentOf(Q)) # Q.uxLength
  /\ ContentOf(Q2) = CASE op = "send" -> Append(ContentOf(Q), item)
                       [] op = "sendToFront" -> <<item>> \o ContentOf(Q)
                       [] op = "overwrite" -> <<item>>
                       [] op = "receive" -> Tail(ContentOf(Q))
                       [] op = "peek" -> ContentOf(Q)
  /\ Result(Q, op) = IF op \in {"receive", "peek"} THEN Head(ContentOf(Q)) ELSE "pdPASS"

\* A call goes on exactly when there is a message, or a free place, for it.
LEMMA GoesOnMeaning ==
  ASSUME NEW n \in Nat \ {0}, NEW Q \in QueueType(n), NEW op \in Ops
  PROVE  /\ ~CannotGoOn(Q, op) /\ op \in {"receive", "peek"} =>
              ContentOf(Q) # <<>> /\ Q.uxMessagesWaiting # 0
         /\ ~CannotGoOn(Q, op) /\ op \in {"send", "sendToFront"} =>
              Len(ContentOf(Q)) # Q.uxLength /\ Q.uxMessagesWaiting # n
         /\ CannotGoOn(Q, op) =>
              \/ op \in {"receive", "peek"} /\ ContentOf(Q) = <<>>
              \/ op \in {"send", "sendToFront"} /\ Len(ContentOf(Q)) = Q.uxLength
<1>1. /\ Q.uxLength = n /\ Len(ContentOf(Q)) = Q.uxMessagesWaiting
      /\ ContentOf(Q) = <<>> <=> Q.uxMessagesWaiting = 0
  BY Fields, ContentFacts
<1> QED
  BY <1>1 DEF CannotGoOn, prvIsQueueFull, prvIsQueueEmpty, Ops, Sends

\* The message a peek returns is the first one.
LEMMA PeekContent ==
  ASSUME NEW n \in Nat \ {0}, NEW Q \in QueueType(n), RingOf(Q), Q.uxMessagesWaiting # 0
  PROVE  prvCopyDataFromQueue(Q) = Head(ContentOf(Q))
<1>1. ~prvIsQueueEmpty(Q)
  BY DEF prvIsQueueEmpty
<1>2. Removed(Q) \in QueueType(n)
  BY <1>1, RemovedFacts
<1> QED
  BY <1>2, RemovedContent

\* What a call that goes on does to the ring is what it does to the content.
LEMMA DoneContent ==
  ASSUME NEW n \in Nat \ {0}, NEW Q \in QueueType(n), RingOf(Q), NEW op \in Ops,
         ~CannotGoOn(Q, op), op = "overwrite" => n = 1, NEW item \in Item,
         NEW Q2, Q2 = Done(Q, op, item)
  PROVE  Goes(Q, Q2, op, item) /\ Q2 \in QueueType(n)
<1>1. /\ op \in {"receive", "peek"} => ContentOf(Q) # <<>> /\ Q.uxMessagesWaiting # 0
      /\ op \in {"send", "sendToFront"} =>
           Len(ContentOf(Q)) # Q.uxLength /\ Q.uxMessagesWaiting # n
      /\ Q.uxLength = n
  BY GoesOnMeaning, Fields
<1>2. CASE op \in Sends
  <2>1. Q2 = prvCopyDataToQueue(Q, op, item)
    BY <1>2 DEF Done, Sends
  <2>2. Q2 \in QueueType(n) /\ Q2.uxLength = n
    <3>1. Q2 \in QueueType(n)
      BY <1>2, <2>1, CopyFacts DEF Item
    <3> QED
      BY <3>1, Fields
  <2>3. Result(Q, op) = "pdPASS"
    BY <1>2 DEF Result
  <2>4. CASE op = "send"
    <3>1. RingOf(Q2) /\ ContentOf(Q2) = Append(ContentOf(Q), item)
      BY <1>1, <2>1, <2>2, <2>4, SendContent
    <3> QED
      BY <1>1, <2>2, <2>3, <2>4, <3>1 DEF Goes
  <2>5. CASE op = "sendToFront"
    <3>1. RingOf(Q2) /\ ContentOf(Q2) = <<item>> \o ContentOf(Q)
      BY <1>1, <2>1, <2>2, <2>5, FrontContent
    <3> QED
      BY <1>1, <2>2, <2>3, <2>5, <3>1 DEF Goes
  <2>6. CASE op = "overwrite"
    <3>1. RingOf(Q2) /\ ContentOf(Q2) = <<item>>
      BY <2>1, <2>2, <2>6, OverwriteContent
    <3> QED
      BY <1>1, <2>2, <2>3, <2>6, <3>1 DEF Goes
  <2> QED
    BY <1>2, <2>4, <2>5, <2>6 DEF Sends
<1>3. CASE op = "receive"
  <2>1. Q2 = Removed(Q) /\ Result(Q, op) = prvCopyDataFromQueue(Q)
    BY <1>3 DEF Done, Result, Sends
  <2>2. Q2 \in QueueType(n) /\ Q2.uxLength = n
    <3>1. ~prvIsQueueEmpty(Q)
      BY <1>1, <1>3 DEF prvIsQueueEmpty
    <3>2. Q2 \in QueueType(n)
      BY <2>1, <3>1, RemovedFacts
    <3> QED
      BY <3>2, Fields
  <2>3. /\ RingOf(Q2) /\ ContentOf(Q2) = Tail(ContentOf(Q))
        /\ prvCopyDataFromQueue(Q) = Head(ContentOf(Q))
    BY <1>1, <1>3, <2>1, <2>2, RemovedContent
  <2> QED
    BY <1>1, <1>3, <2>1, <2>2, <2>3 DEF Goes
<1>4. CASE op = "peek"
  <2>1. Q2 = Q /\ Result(Q, op) = prvCopyDataFromQueue(Q)
    BY <1>4 DEF Done, Result, Sends
  <2>2. prvCopyDataFromQueue(Q) = Head(ContentOf(Q))
    BY <1>1, <1>4, PeekContent
  <2> QED
    BY <1>1, <1>4, <2>1, <2>2 DEF Goes
<1> QED
  BY <1>2, <1>3, <1>4 DEF Ops, Sends

-----------------------------------------------------------------------------
(* The clock.                                                               *)

SameTime(K, K2) ==
  K2.xTickCount = K.xTickCount /\ K2.xNumOfOverflows = K.xNumOfOverflows

\* Kernel time is a number.
LEMMA NowFacts ==
  ASSUME NEW K \in KernelType
  PROVE  /\ Now(K) \in Nat /\ K.xTickCount \in Nat /\ K.xTickCount <= portMAX_DELAY
         /\ K.xNumOfOverflows \in Nat /\ TickRange \in Nat \ {0}
         /\ TickRange = portMAX_DELAY + 1
<1>1. K.xTickCount \in Ticks /\ K.xNumOfOverflows \in Nat
  BY KernelFields
<1>2. portMAX_DELAY \in Nat
  BY TasksAssumption DEF TasksAssumption
<1> QED
  BY <1>1, <1>2 DEF Now, TickRange, Ticks

\* Taking a waiter off an event list takes no time.
LEMMA RemoveTime ==
  ASSUME NEW K, ListsKept(K), NEW list \in {"send", "receive"}, Waiting(K, list) # {}
  PROVE  SameTime(K, xTaskRemoveFromEventList(K, list))
<1> DEFINE t == Highest(Waiting(K, list))
           above == AboveCurrent(K, {t})
           K1 == [K EXCEPT !.xYieldPending = K.xYieldPending \/ above]
           state == IF K.uxSchedulerSuspended = 0 THEN "ready" ELSE K.xStateListItem[t]
           event == IF K.uxSchedulerSuspended = 0 THEN "none" ELSE "pending"
           K2 == Moved(K1, {t}, state, event)
<1>1. xTaskRemoveFromEventList(K, list) = K2
  BY DEF xTaskRemoveFromEventList
<1>2. K \in KernelType
  BY DEF ListsKept
<1> HIDE DEF t, above, state, event
<1>3. SameTime(K, K1)
  BY <1>2 DEF KernelType, SameTime
<1>4. DOMAIN K1 = DOMAIN K /\ {"xTickCount", "xNumOfOverflows"} \subseteq DOMAIN K
  BY <1>2 DEF KernelType
<1> HIDE DEF K1
<1>5. SameTime(K1, K2)
  BY <1>2, <1>4 DEF Moved, SameTime, KernelType
<1> QED
  BY <1>1, <1>3, <1>5 DEF SameTime

\* The same for a list that may be empty.
LEMMA UnblockTime ==
  ASSUME NEW K, ListsKept(K), NEW list \in {"send", "receive"}
  PROVE  SameTime(K, Unblock(K, list))
<1>1. CASE Waiting(K, list) = {}
  BY <1>1 DEF Unblock, SameTime
<1>2. CASE Waiting(K, list) # {}
  <2> DEFINE K1 == xTaskRemoveFromEventList(K, list)
  <2>1. SameTime(K, K1)
    BY <1>2, RemoveTime
  <2>2. K1 \in KernelType
    BY <1>2, RemoveFacts DEF Unblocks, Advances, ListsKept
  <2>3. Unblock(K, list) \in {taskYIELD(K1), K1}
    BY <1>2 DEF Unblock
  <2> HIDE DEF K1
  <2>4. SameTime(K1, taskYIELD(K1))
    BY <2>2 DEF taskYIELD, SameTime, KernelType
  <2> QED
    BY <2>1, <2>3, <2>4 DEF SameTime
<1> QED
  BY <1>1, <1>2

\* Nor does it take time to unblock one for every count of a lock.
LEMMA UnlockedTime ==
  ASSUME NEW K, ListsKept(K), K.uxSchedulerSuspended = 1, NEW list \in {"send", "receive"},
         NEW lock \in Nat
  PROVE  SameTime(K, Unlocked(K, list, lock))
<1>1. PICK after : /\ after[0] = K /\ after[lock] = Unlocked(K, list, lock)
                   /\ \A m \in 0 .. lock - 1 : after[m + 1] = Round(after[m], list)
  BY LocksOneByOne
<1> DEFINE P == {m \in Nat : m <= lock => /\ SameTime(K, after[m]) /\ ListsKept(after[m])
                                          /\ after[m].uxSchedulerSuspended = 1}
<1>2. 0 \in P
  BY <1>1 DEF SameTime
<1>3. ASSUME NEW m \in Nat, m \in P PROVE m + 1 \in P
  <2> SUFFICES ASSUME m + 1 <= lock
               PROVE  /\ SameTime(K, after[m + 1]) /\ ListsKept(after[m + 1])
                      /\ after[m + 1].uxSchedulerSuspended = 1
    OBVIOUS
  <2>1. /\ SameTime(K, after[m]) /\ ListsKept(after[m])
        /\ after[m].uxSchedulerSuspended = 1
    BY <1>3
  <2>2. after[m + 1] = Round(after[m], list)
    BY <1>1
  <2>3. CASE Waiting(after[m], list) = {}
    BY <2>1, <2>2, <2>3 DEF Round
  <2>4. CASE Waiting(after[m], list) # {}
    <3>1. PICK L, L2 : L = after[m] /\ L2 = after[m + 1]
      OBVIOUS
    <3>2. L2 = xTaskRemoveFromEventList(L, list) /\ ListsKept(L) /\ Waiting(L, list) # {}
      BY <2>1, <2>2, <2>4, <3>1 DEF Round
    <3>3. SameTime(L, L2)
      BY <3>2, RemoveTime
    <3>4. ListsKept(L2) /\ L2.uxSchedulerSuspended = L.uxSchedulerSuspended
      <4>1. Unblocks(L, L2, list, Highest(Waiting(L, list)))
        BY <3>2, RemoveFacts
      <4> QED
        BY <4>1 DEF Unblocks, Advances
    <3> QED
      BY <2>1, <3>1, <3>3, <3>4 DEF SameTime
  <2> QED
    BY <2>3, <2>4
<1>4. lock \in P
  <2> HIDE DEF P
  <2> QED
    BY <1>2, <1>3, SetInduction, Zenon
<1> QED
  BY <1>1, <1>4

\* Nor to put the current task to sleep.
LEMMA BlockTime ==
  ASSUME NEW K, ListsKept(K), NEW ticks \in Ticks, NEW indefinitely, NEW event
  PROVE  SameTime(K, prvAddCurrentTaskToDelayedList(K, ticks, indefinitely, event))
<1> DEFINE t == K.pxCurrentTCB
           wake == (K.xTickCount + ticks) % TickRange
           K1 == [K EXCEPT !.xTimeToWake[t] = wake]
           K2 == prvAddCurrentTaskToDelayedList(K, ticks, indefinitely, event)
<1>1. {"xTickCount", "xNumOfOverflows"} \subseteq DOMAIN K
  BY DEF ListsKept, KernelType
<1>2. SameTime(K, K1) /\ DOMAIN K1 = DOMAIN K
  BY <1>1 DEF SameTime
<1>3. K2 = IF ticks = portMAX_DELAY /\ indefinitely THEN Moved(K, {t}, "suspended", event)
           ELSE IF wake < K.xTickCount THEN Moved(K1, {t}, "overflow", event)
           ELSE [Moved(K1, {t}, "delayed", event) EXCEPT !.xNextTaskUnblockTime =
                   Min({Moved(K1, {t}, "delayed", event).xNextTaskUnblockTime, wake})]
  BY DEF prvAddCurrentTaskToDelayedList
<1> HIDE DEF t, wake, K1, K2
<1>4. ASSUME NEW L, DOMAIN L = DOMAIN K, NEW S, NEW state
      PROVE  SameTime(L, Moved(L, S, state, event)) /\ DOMAIN Moved(L, S, state, event) = DOMAIN L
  BY <1>1, <1>4 DEF Moved, SameTime
<1> QED
  BY <1>1, <1>2, <1>3, <1>4 DEF SameTime, K2

\* A tick is one tick later, whether the count wraps or not.
LEMMA TickedTime ==
  ASSUME NEW K, ListsKept(K)
  PROVE  Now(Ticked(K).k) = Now(K) + 1
<1> DEFINE now == (K.xTickCount + 1) % TickRange
           C == [K EXCEPT !.xTickCount = now]
           D == [C EXCEPT !.xStateListItem = [t \in Tasks |-> CASE @[t] = "delayed" -> "overflow"
                                                                [] @[t] = "overflow" -> "delayed"
                                                                [] OTHER -> @[t]],
                          !.xNumOfOverflows = @ + 1]
           K1 == IF now = 0 THEN prvResetNextTaskUnblockTime(D) ELSE C
           due == {t \in Delayed(K1) : K1.xTimeToWake[t] <= now}
           K2 == IF now < K1.xNextTaskUnblockTime THEN K1
                 ELSE prvResetNextTaskUnblockTime(Moved(K1, due, "ready", "none"))
<1>1. Ticked(K).k = K2
  BY DEF Ticked, taskSWITCH_DELAYED_LISTS
<1>2. /\ {"xTickCount", "xNumOfOverflows"} \subseteq DOMAIN K
      /\ K \in KernelType
  BY DEF ListsKept, KernelType
<1>3. now = IF K.xTickCount = portMAX_DELAY THEN 0 ELSE K.xTickCount + 1
  BY <1>2, KernelFields, WrapFacts
<1> HIDE DEF now
<1>4. C.xTickCount = now /\ C.xNumOfOverflows = K.xNumOfOverflows /\ DOMAIN C = DOMAIN K
  BY <1>2
<1> HIDE DEF C
<1>5. /\ D.xTickCount = now /\ D.xNumOfOverflows = K.xNumOfOverflows + 1
      /\ DOMAIN D = DOMAIN K
  BY <1>2, <1>4
<1> HIDE DEF D
<1>6. ASSUME NEW L, DOMAIN L = DOMAIN K
      PROVE  /\ SameTime(L, prvResetNextTaskUnblockTime(L))
             /\ DOMAIN prvResetNextTaskUnblockTime(L) = DOMAIN K
             /\ \A S : /\ SameTime(L, Moved(L, S, "ready", "none"))
                      /\ DOMAIN Moved(L, S, "ready", "none") = DOMAIN K
  BY <1>2, <1>6 DEF SameTime, prvResetNextTaskUnblockTime, Moved
<1>7. /\ K1.xTickCount = now /\ DOMAIN K1 = DOMAIN K
      /\ K1.xNumOfOverflows = K.xNumOfOverflows + (IF now = 0 THEN 1 ELSE 0)
  <2>1. K.xNumOfOverflows \in Nat
    BY <1>2, NowFacts
  <2> QED
    BY <1>4, <1>5, <1>6, <2>1 DEF SameTime
<1> HIDE DEF K1, due
<1>8. SameTime(K1, K2)
  BY <1>6, <1>7 DEF SameTime
<1> HIDE DEF K2
<1>9. /\ K2.xTickCount = now
      /\ K2.xNumOfOverflows = K.xNumOfOverflows + (IF now = 0 THEN 1 ELSE 0)
  BY <1>7, <1>8 DEF SameTime
<1>10. /\ K.xTickCount \in Nat /\ K.xTickCount <= portMAX_DELAY
       /\ K.xNumOfOverflows \in Nat /\ TickRange \in Nat \ {0}
       /\ TickRange = portMAX_DELAY + 1 /\ portMAX_DELAY \in Nat
  BY <1>2, NowFacts, TickFacts
<1>11. (K.xNumOfOverflows + 1) * TickRange = K.xNumOfOverflows * TickRange + TickRange
  BY <1>10
<1>12. K.xNumOfOverflows * TickRange \in Nat
  BY <1>10
<1>13. PICK base : base = K.xNumOfOverflows * TickRange
  OBVIOUS
<1>14. Now(K) = base + K.xTickCount /\ base \in Nat
  BY <1>12, <1>13 DEF Now
<1>15. Now(K2) = base + K.xTickCount + 1
  <2>1. CASE K.xTickCount = portMAX_DELAY
    <3>1. now = 0 /\ K2.xNumOfOverflows = K.xNumOfOverflows + 1 /\ K2.xTickCount = 0
      BY <1>3, <1>9, <2>1
    <3>2. Now(K2) = base + TickRange
      BY <1>11, <1>10, <1>13, <1>14, <3>1 DEF Now
    <3> QED
      BY <1>10, <1>14, <2>1, <3>2
  <2>2. CASE K.xTickCount # portMAX_DELAY
    <3>1. K2.xTickCount = K.xTickCount + 1 /\ K2.xNumOfOverflows = K.xNumOfOverflows
      BY <1>3, <1>9, <1>10, <2>2
    <3> QED
      BY <1>10, <1>13, <1>14, <3>1 DEF Now
  <2> QED
    BY <2>1, <2>2
<1> QED
  BY <1>1, <1>10, <1>14, <1>15

\* Ticks made up for are as many ticks later.
LEMMA TicksMadeUpTime ==
  ASSUME NEW K, ListsKept(K), NEW n \in Nat
  PROVE  Now(TicksMadeUp(K, n)) = Now(K) + n
<1>1. PICK after : /\ after[0] = K /\ after[n] = TicksMadeUp(K, n)
                   /\ \A m \in 0 .. n - 1 : after[m + 1] = MadeUp(after[m])
  BY TicksOneByOne
<1>2. Now(K) \in Nat
  BY NowFacts DEF ListsKept
<1> DEFINE P == {m \in Nat : m <= n => Now(after[m]) = Now(K) + m /\ ListsKept(after[m])}
<1>3. 0 \in P
  BY <1>1, <1>2
<1>4. ASSUME NEW m \in Nat, m \in P PROVE m + 1 \in P
  <2> SUFFICES ASSUME m + 1 <= n
               PROVE  Now(after[m + 1]) = Now(K) + (m + 1) /\ ListsKept(after[m + 1])
    OBVIOUS
  <2>1. PICK L, L2 : L = after[m] /\ L2 = after[m + 1]
    OBVIOUS
  <2>2. Now(L) = Now(K) + m /\ ListsKept(L)
    BY <1>4, <2>1
  <2>3. L2 = MadeUp(L)
    BY <1>1, <2>1
  <2>4. ListsKept(L2)
    BY <2>2, <2>3, MadeUpFacts DEF Passes, Advances
  <2>5. Now(L2) = Now(Ticked(L).k)
    <3>1. PICK T : T = Ticked(L)
      OBVIOUS
    <3>2. T.k \in KernelType
      BY <2>2, <3>1, TickedFacts DEF Advances, ListsKept
    <3>3. L2 = [T.k EXCEPT !.xYieldPending = T.k.xYieldPending \/ T.Required]
      BY <2>3, <3>1 DEF MadeUp
    <3>4. SameTime(T.k, L2)
      BY <3>2, <3>3 DEF SameTime, KernelType
    <3> QED
      BY <3>1, <3>4 DEF SameTime, Now
  <2>6. Now(L2) = Now(L) + 1
    BY <2>2, <2>5, TickedTime
  <2> QED
    BY <1>2, <2>1, <2>2, <2>4, <2>6
<1>5. n \in P
  <2> HIDE DEF P
  <2> QED
    BY <1>3, <1>4, SetInduction, Zenon
<1> QED
  BY <1>1, <1>5

\* xTaskResumeAll makes up for the pended ticks.
LEMMA ResumeAllTime ==
  ASSUME NEW K, ListsKept(K), K.uxSchedulerSuspended = 1
  PROVE  Now(xTaskResumeAll(K)) >= Now(K)
<1>1. MakesUp(K, xTaskResumeAll(K))
  BY ResumeAllFacts
<1>2. PICK L : /\ ListsKept(L) /\ SameTime(K, L)
               /\ SameTime(TicksMadeUp(L, K.xPendedTicks), xTaskResumeAll(K))
  BY <1>1 DEF MakesUp, SameTime
<1>3. K.xPendedTicks \in Nat /\ Now(L) \in Nat /\ Now(L) = Now(K)
  <2>1. K \in KernelType /\ L \in KernelType
    BY <1>2 DEF ListsKept
  <2>2. K.xPendedTicks \in Nat /\ Now(L) \in Nat
    BY <2>1, KernelFields, NowFacts
  <2> QED
    BY <1>2, <2>2 DEF SameTime, Now
<1>4. Now(TicksMadeUp(L, K.xPendedTicks)) = Now(L) + K.xPendedTicks
  BY <1>2, <1>3, TicksMadeUpTime
<1>5. Now(xTaskResumeAll(K)) = Now(TicksMadeUp(L, K.xPendedTicks))
  BY <1>2 DEF SameTime, Now
<1> QED
  BY <1>3, <1>4, <1>5

\* What the functions of tasks.c do to the record, with the time in it.
Timed(K) == {"xTickCount", "xNumOfOverflows"} \subseteq DOMAIN K

LEMMA OtherFields ==
  ASSUME NEW K, Timed(K)
  PROVE  /\ SameTime(K, taskYIELD(K)) /\ Timed(taskYIELD(K))
         /\ SameTime(K, prvResetNextTaskUnblockTime(K)) /\ Timed(prvResetNextTaskUnblockTime(K))
         /\ \A S, state, event :
              SameTime(K, Moved(K, S, state, event)) /\ Timed(Moved(K, S, state, event))
<1>1. SameTime(K, taskYIELD(K)) /\ Timed(taskYIELD(K))
  BY DEF Timed, SameTime, taskYIELD
<1>2. SameTime(K, prvResetNextTaskUnblockTime(K)) /\ Timed(prvResetNextTaskUnblockTime(K))
  BY DEF Timed, SameTime, prvResetNextTaskUnblockTime
<1>3. \A S, state, event :
        SameTime(K, Moved(K, S, state, event)) /\ Timed(Moved(K, S, state, event))
  BY DEF Timed, SameTime, Moved
<1> QED
  BY <1>1, <1>2, <1>3

\* No step of the scheduler puts the clock back.
Later == Now(kernel') >= Now(kernel)

LEMMA SameTimeLater == ASSUME IInv, SameTime(kernel, kernel') PROVE Later
<1>1. Now(kernel) \in Nat /\ Now(kernel') = Now(kernel)
  BY NowFacts DEF IInv, KernelSound, ListsKept, SameTime, Now
<1> QED
  BY <1>1 DEF Later

LEMMA TasksTime == IInv /\ TasksNext => Later
<1> SUFFICES ASSUME IInv, TasksNext PROVE Later
  OBVIOUS
<1>1. /\ kernel \in KernelType /\ ListsKept(kernel) /\ Timed(kernel)
      /\ Now(kernel) \in Nat
  <2>1. kernel \in KernelType /\ ListsKept(kernel)
    BY DEF IInv, KernelSound, ListsKept
  <2> QED
    BY <2>1, NowFacts DEF KernelType, Timed
<1>2. CASE vTaskSwitchContext
  <2>1. SameTime(kernel, kernel')
    BY <1>1, <1>2 DEF vTaskSwitchContext, SameTime, Timed
  <2> QED
    BY <2>1, SameTimeLater
<1>3. CASE xPortSysTickHandler
  <2>1. CASE kernel.uxSchedulerSuspended # 0
    <3>1. SameTime(kernel, kernel')
      BY <1>1, <1>3, <2>1 DEF xPortSysTickHandler, SameTime, Timed
    <3> QED
      BY <3>1, SameTimeLater
  <2>2. CASE kernel.uxSchedulerSuspended = 0
    <3>1. PICK T : T = Ticked(kernel)
      OBVIOUS
    <3>2. kernel' \in {taskYIELD(T.k), T.k}
      BY <1>3, <2>2, <3>1 DEF xPortSysTickHandler
    <3>3. Now(T.k) = Now(kernel) + 1
      BY <1>1, <3>1, TickedTime
    <3>4. Timed(T.k)
      <4>1. T.k \in KernelType
        BY <1>1, <3>1, TickedFacts DEF Advances, ListsKept
      <4> QED
        BY <4>1 DEF KernelType, Timed
    <3>5. SameTime(T.k, kernel')
      BY <3>2, <3>4, OtherFields DEF SameTime
    <3>6. Now(kernel') = Now(T.k)
      BY <3>5 DEF SameTime, Now
    <3> QED
      BY <1>1, <3>3, <3>6 DEF Later
  <2> QED
    BY <2>1, <2>2
<1>4. CASE xTaskResumeFromISR
  <2>1. PICK u \in IsrResumed :
          kernel' =
            IF kernel.uxSchedulerSuspended # 0
            THEN [kernel EXCEPT !.xEventListItem[u] = "pending"]
            ELSE LET K == Moved(kernel, {u}, "ready", "none")
                 IN  IF AboveCurrent(kernel, {u})
                     THEN taskYIELD([K EXCEPT !.xYieldPending = TRUE]) ELSE K
    BY <1>4 DEF xTaskResumeFromISR
  <2>2. PICK K, K2 : /\ K = Moved(kernel, {u}, "ready", "none")
                     /\ K2 = [K EXCEPT !.xYieldPending = TRUE]
    OBVIOUS
  <2>3. SameTime(kernel, K) /\ Timed(K)
    BY <1>1, <2>2, OtherFields
  <2>4. SameTime(K, K2) /\ Timed(K2)
    BY <2>2, <2>3 DEF SameTime, Timed
  <2>5. SameTime(K2, taskYIELD(K2))
    BY <2>4, OtherFields
  <2>6. SameTime(kernel, [kernel EXCEPT !.xEventListItem[u] = "pending"])
    BY <1>1 DEF SameTime, Timed
  <2>7. SameTime(kernel, kernel')
    BY <2>1, <2>2, <2>3, <2>4, <2>5, <2>6 DEF SameTime
  <2> QED
    BY <2>7, SameTimeLater
<1>5. ASSUME NEW t \in Tasks,
             \/ vTaskDelay(t) \/ vTaskSuspend(t) \/ vTaskSuspend_Reset(t) \/ Task_Yield(t)
      PROVE  Later
  <2>1. SameTime(kernel, [kernel EXCEPT !.uxSchedulerSuspended = @ + 1])
    BY <1>1 DEF SameTime, Timed
  <2>2. SameTime(kernel, kernel')
    BY <1>1, <1>5, <2>1, OtherFields
    DEF vTaskDelay, vTaskSuspendAll, vTaskSuspend, vTaskSuspend_Reset, Task_Yield
  <2> QED
    BY <2>2, SameTimeLater
<1>6. ASSUME NEW t \in Tasks, vTaskDelay_Block(t) PROVE Later
  <2>1. PICK ticks \in DelayTicks :
          kernel' = prvAddCurrentTaskToDelayedList(kernel, ticks, FALSE, "none")
    BY <1>6 DEF vTaskDelay_Block
  <2>2. ticks \in Ticks
    BY TasksAssumption DEF TasksAssumption
  <2> QED
    BY <1>1, <2>1, <2>2, BlockTime, SameTimeLater
<1>7. ASSUME NEW t \in Tasks, vTaskDelay_ResumeAll(t) PROVE Later
  <2>1. At(t, "resume") /\ kernel' = xTaskResumeAll(kernel)
    BY <1>7 DEF vTaskDelay_ResumeAll
  <2>2. kernel.uxSchedulerSuspended = 1
    BY <2>1, Executes DEF SuspendedPlaces
  <2> QED
    BY <1>1, <2>1, <2>2, ResumeAllTime DEF Later
<1>8. ASSUME NEW t \in Tasks, vTaskResume(t) PROVE Later
  <2>1. PICK u : kernel' = LET K == Moved(kernel, {u}, "ready", "none")
                           IN  IF AboveCurrent(kernel, {u}) THEN taskYIELD(K) ELSE K
    BY <1>8 DEF vTaskResume
  <2>2. PICK K : K = Moved(kernel, {u}, "ready", "none")
    OBVIOUS
  <2>3. SameTime(kernel, K) /\ Timed(K)
    BY <1>1, <2>2, OtherFields
  <2>4. SameTime(K, taskYIELD(K))
    BY <2>3, OtherFields
  <2>5. SameTime(kernel, kernel')
    BY <2>1, <2>2, <2>3, <2>4 DEF SameTime
  <2> QED
    BY <2>5, SameTimeLater
<1> QED
  BY <1>2, <1>3, <1>4, <1>5, <1>6, <1>7, <1>8 DEF TasksNext

-----------------------------------------------------------------------------
(* The calls.                                                               *)

\* Where the task has set its timeout, and has time left.
HasTime == {"suspendAll", "lock", "check", "ask", "place"}

\* What holds of a call at a place of the code: nobody is in a call before it begins,
\* a call that waits has begun to in the past, and one gives up when its time is over.
CallOk(c, p, now) ==
  /\ p \in Free => c = NoCall
  /\ p \in HasTime => c.xEntryTimeSet /\ c.xTicksToWait # 0
  /\ p = "expired" \/ (p \in Unlocking /\ c.way = "expired") =>
       c.xEntryTimeSet /\ c.xTicksToWait = 0
  /\ Phase(c) = "waiting" => Entered(c) <= now

CallsSound == \A t \in Tasks : CallOk(call[t], pc[t], Now(kernel))

\* The invariants of FreeRTOSProofs that the steps below use.
LEMMA Sound ==
  ASSUME IInv
  PROVE  /\ kernel \in KernelType /\ ListsKept(kernel) /\ Now(kernel) \in Nat
         /\ pc \in [Tasks -> Places] /\ call \in [Tasks -> CallType]
         /\ \A t \in Tasks : call[t] \in CallType
         /\ queue.uxLength \in Nat \ {0} /\ queue \in QueueType(queue.uxLength)
<1>1. kernel \in KernelType /\ ListsKept(kernel) /\ FlowSound /\ QueueSound
  BY DEF IInv, KernelSound, ListsKept
<1> QED
  BY <1>1, NowFacts, QueueFacts DEF FlowSound

\* The time a call has begun to wait is a number.
LEMMA EnteredFacts ==
  ASSUME NEW c \in CallType
  PROVE  Entered(c) \in Nat
<1>1. PICK n \in Nat, k \in Nat, r \in Nat :
        n = c.xTimeOut.xOverflowCount /\ k = c.xTimeOut.xTimeOnEntering /\ r = TickRange
  <2>1. c.xTimeOut.xOverflowCount \in Nat /\ c.xTimeOut.xTimeOnEntering \in Nat
    BY CallFields, TickFacts
  <2>2. TickRange \in Nat
    BY TickFacts
  <2> QED
    BY <2>1, <2>2
<1>2. n * r \in Nat
  OBVIOUS
<1> QED
  BY <1>1, <1>2 DEF Entered

\* A task goes on to another place, with its call changed.
LEMMA CallSoundMoved ==
  ASSUME IInv, IInv', CallsSound, Later, NEW t \in Tasks, NEW s, NEW c,
         pc' = [pc EXCEPT ![t] = s], call' = [call EXCEPT ![t] = c],
         CallOk(c, s, Now(kernel'))
  PROVE  CallsSound'
<1>1. /\ pc \in [Tasks -> Places] /\ call \in [Tasks -> CallType]
      /\ Now(kernel) \in Nat
  BY Sound
<1>2. Now(kernel') \in Nat
  <2>1. kernel' \in KernelType
    BY DEF IInv, KernelSound, ListsKept
  <2> QED
    BY <2>1, NowFacts
<1>3. /\ pc'[t] = s /\ call'[t] = c
      /\ \A u \in Tasks : u # t => pc'[u] = pc[u] /\ call'[u] = call[u]
  BY <1>1
<1>4. ASSUME NEW u \in Tasks, u # t PROVE CallOk(call[u], pc[u], Now(kernel'))
  <2>1. CallOk(call[u], pc[u], Now(kernel)) /\ call[u] \in CallType
    BY <1>1 DEF CallsSound
  <2>2. Entered(call[u]) \in Nat
    BY <2>1, EnteredFacts
  <2> QED
    BY <1>1, <1>2, <2>1, <2>2 DEF CallOk, Later
<1>5. ASSUME NEW u \in Tasks PROVE CallOk(call'[u], pc'[u], Now(kernel'))
  BY <1>3, <1>4
<1> QED
  BY <1>5 DEF CallsSound

\* A task goes on, and its call stays as it is.
LEMMA CallSoundGoes ==
  ASSUME IInv, IInv', CallsSound, Later, NEW t \in Tasks, NEW s,
         pc' = [pc EXCEPT ![t] = s], UNCHANGED call,
         s \in Free => pc[t] \in Free,
         s \in HasTime => pc[t] \in HasTime,
         s = "expired" \/ (s \in Unlocking /\ call[t].way = "expired") =>
           call[t].xEntryTimeSet /\ call[t].xTicksToWait = 0
  PROVE  CallsSound'
<1>1. call \in [Tasks -> CallType] /\ Now(kernel) \in Nat /\ call[t] \in CallType
  BY Sound
<1>2. Now(kernel') \in Nat
  <2>1. kernel' \in KernelType
    BY DEF IInv, KernelSound, ListsKept
  <2> QED
    BY <2>1, NowFacts
<1>3. call' = [call EXCEPT ![t] = call[t]]
  BY <1>1
<1>4. CallOk(call[t], pc[t], Now(kernel))
  BY DEF CallsSound
<1>5. Entered(call[t]) \in Nat
  BY <1>1, EnteredFacts
<1>6. CallOk(call[t], s, Now(kernel'))
  BY <1>1, <1>2, <1>4, <1>5 DEF CallOk, Later
<1> QED
  BY <1>3, <1>6, CallSoundMoved

\* Nobody moves.
LEMMA CallSoundStays ==
  ASSUME IInv, IInv', CallsSound, Later, UNCHANGED <<pc, call>>
  PROVE  CallsSound'
<1>1. PICK t \in Tasks : t = IdleTask
  BY TasksAssumption DEF TasksAssumption
<1>2. CallOk(call[t], pc[t], Now(kernel)) /\ pc \in [Tasks -> Places]
  BY Sound DEF CallsSound
<1>3. pc' = [pc EXCEPT ![t] = pc[t]]
  BY <1>2
<1>4. pc[t] = "expired" \/ (pc[t] \in Unlocking /\ call[t].way = "expired") =>
        call[t].xEntryTimeSet /\ call[t].xTicksToWait = 0
  BY <1>2 DEF CallOk
<1> QED
  BY <1>3, <1>4, CallSoundGoes

-----------------------------------------------------------------------------
(* What the steps mean to those who call.                                   *)

\* A call, and no call, as the service sees them.
LEMMA CallMeaning ==
  ASSUME NEW c \in CallType
  PROVE  /\ c.op \in Ops =>
              /\ CallOf(c) = [op |-> c.op, msg |-> c.item, phase |-> Phase(c),
                              wait |-> Deadline(c)]
              /\ CallOf(c) # Queue!Idle /\ CallOf(c).op = c.op /\ CallOf(c).msg = c.item
              /\ CallOf(c).phase = Phase(c) /\ CallOf(c).wait = Deadline(c)
         /\ CallOf(NoCall) = Queue!Idle
<1>1. c.op \in Ops => c.op # "none"
  BY DEF Ops
<1>2. c.op \in Ops => CallOf(c) = [op |-> c.op, msg |-> c.item, phase |-> Phase(c),
                                   wait |-> Deadline(c)]
  BY <1>1 DEF CallOf
<1>3. c.op \in Ops =>
        /\ CallOf(c).op = c.op /\ CallOf(c).msg = c.item
        /\ CallOf(c).phase = Phase(c) /\ CallOf(c).wait = Deadline(c)
  BY <1>2
<1>4. c.op \in Ops => CallOf(c) # Queue!Idle
  BY <1>1, <1>3 DEF Queue!Idle
<1>5. CallOf(NoCall) = Queue!Idle
  BY DEF CallOf, NoCall, Queue!Idle
<1> QED
  BY <1>2, <1>3, <1>4, <1>5

\* One call changes.
LEMMA CallsUpdated ==
  ASSUME IInv, NEW t \in Tasks, NEW c, call' = [call EXCEPT ![t] = c]
  PROVE  TheCalls' = [TheCalls EXCEPT ![t] = CallOf(c)] /\ TheCalls[t] = CallOf(call[t])
<1>1. call \in [Tasks -> CallType]
  BY Sound
<1>2. /\ TheCalls = [u \in Tasks |-> CallOf(call[u])]
      /\ TheCalls' = [u \in Tasks |-> CallOf(call'[u])]
  BY DEF TheCalls
<1> QED
  BY <1>1, <1>2

\* A call can go on when the service says it is possible, and does what it says.
LEMMA PossibleMeaning ==
  ASSUME IInv, NEW op \in Ops
  PROVE  ~CannotGoOn(queue, op) <=> Queue!Possible(op)
<1>1. /\ queue.uxLength \in Nat \ {0} /\ queue \in QueueType(queue.uxLength)
      /\ op \in {"send", "sendToFront", "overwrite", "receive", "peek"}
  BY Sound DEF Ops
<1>2. PICK n \in Nat \ {0} : n = queue.uxLength
  BY <1>1
<1>3. /\ ~CannotGoOn(queue, op) /\ op \in {"receive", "peek"} => ContentOf(queue) # <<>>
      /\ ~CannotGoOn(queue, op) /\ op \in {"send", "sendToFront"} =>
           Len(ContentOf(queue)) # queue.uxLength
      /\ CannotGoOn(queue, op) =>
           \/ op \in {"receive", "peek"} /\ ContentOf(queue) = <<>>
           \/ op \in {"send", "sendToFront"} /\ Len(ContentOf(queue)) = queue.uxLength
  BY <1>1, <1>2, GoesOnMeaning
<1>4. op = "overwrite" => ~CannotGoOn(queue, op)
  BY DEF CannotGoOn, Sends
<1> QED
  BY <1>1, <1>3, <1>4 DEF Queue!Possible, Queue!Full

LEMMA AfterMeaning ==
  ASSUME NEW op \in Ops, NEW item, NEW Q2, Goes(queue, Q2, op, item)
  PROVE  /\ ContentOf(Q2) = Queue!After(op, item)
         /\ Result(queue, op) = Queue!Got(op)
BY DEF Goes, Ops, Queue!After, Queue!Got

\* The clock may go on, but nothing else is seen.
Stays ==
  /\ ContentOf(queue') = ContentOf(queue) /\ queue'.uxLength = queue.uxLength
  /\ RingOf(queue') /\ Later

LEMMA Unseen ==
  ASSUME IInv, IInv', Stays, TheCalls' = TheCalls, NoReturn
  PROVE  Queue!Next
<1>1. Now(kernel) \in Nat /\ Now(kernel') \in Nat
  <2>1. kernel \in KernelType /\ kernel' \in KernelType
    BY DEF IInv, KernelSound, ListsKept
  <2> QED
    BY <2>1, NowFacts
<1>2. CASE Now(kernel') > Now(kernel)
  <2>1. Queue!Tick
    BY <1>2 DEF Queue!Tick, Stays, NoReturn
  <2> QED
    BY <2>1 DEF Queue!Next
<1>3. CASE Now(kernel') = Now(kernel)
  <2>1. Queue!Forget
    BY <1>3 DEF Queue!Forget, Stays, NoReturn
  <2> QED
    BY <2>1 DEF Queue!Next
<1> QED
  BY <1>1, <1>2, <1>3 DEF Stays, Later

-----------------------------------------------------------------------------
(* The steps that are not seen.                                             *)

Kept == RingOf(queue) /\ CallsSound

\* The queue, or what counts of it, and the time stay.
LEMMA StaysFacts ==
  ASSUME IInv, RingOf(queue), SameTime(kernel, kernel') \/ UNCHANGED kernel,
         queue'.storage = queue.storage, queue'.uxLength = queue.uxLength,
         queue'.pcWriteTo = queue.pcWriteTo, queue'.pcReadFrom = queue.pcReadFrom,
         queue'.uxMessagesWaiting = queue.uxMessagesWaiting
  PROVE  Stays
<1>1. Later
  BY SameTimeLater DEF SameTime
<1>2. PICK Q, Q2 : Q = queue /\ Q2 = queue'
  OBVIOUS
<1>3. ContentOf(Q2) = ContentOf(Q) /\ (RingOf(Q) => RingOf(Q2))
  BY <1>2, SameRing
<1> QED
  BY <1>1, <1>2, <1>3 DEF Stays

\* A task goes on with the same call, as far as the service knows.
LEMMA QuietStep ==
  ASSUME IInv, CallsSound, IInv', Stays, NoReturn, NEW t \in Tasks, NEW s, NEW c,
         pc' = [pc EXCEPT ![t] = s], call' = [call EXCEPT ![t] = c],
         CallOf(c) = CallOf(call[t]), CallOk(c, s, Now(kernel'))
  PROVE  Kept' /\ Queue!Next
<1>1. TheCalls' = TheCalls
  <2>1. TheCalls' = [TheCalls EXCEPT ![t] = CallOf(c)] /\ TheCalls[t] = CallOf(call[t])
    BY CallsUpdated
  <2>2. TheCalls' = [TheCalls EXCEPT ![t] = TheCalls[t]]
    BY <2>1
  <2> QED
    BY <2>2 DEF TheCalls
<1>2. CallsSound'
  BY CallSoundMoved DEF Stays
<1>3. Queue!Next
  BY <1>1, Unseen
<1> QED
  BY <1>2, <1>3 DEF Kept, Stays

\* A task goes on, and its call stays as it is.
LEMMA QuietGoes ==
  ASSUME IInv, CallsSound, IInv', Stays, NoReturn, NEW t \in Tasks, NEW s,
         pc' = [pc EXCEPT ![t] = s], UNCHANGED call,
         s \in Free => pc[t] \in Free,
         s \in HasTime => pc[t] \in HasTime,
         s = "expired" \/ (s \in Unlocking /\ call[t].way = "expired") =>
           call[t].xEntryTimeSet /\ call[t].xTicksToWait = 0
  PROVE  Kept' /\ Queue!Next
<1>1. TheCalls' = TheCalls
  BY DEF TheCalls
<1>2. CallsSound'
  BY CallSoundGoes DEF Stays
<1>3. Queue!Next
  BY <1>1, Unseen
<1> QED
  BY <1>2, <1>3 DEF Kept, Stays

\* Which way a call is on is not seen.
LEMMA WayUnseen ==
  ASSUME NEW c \in CallType, NEW way
  PROVE  /\ CallOf([c EXCEPT !.way = way]) = CallOf(c)
         /\ Phase([c EXCEPT !.way = way]) = Phase(c)
         /\ Entered([c EXCEPT !.way = way]) = Entered(c)
         /\ [c EXCEPT !.way = way].xEntryTimeSet = c.xEntryTimeSet
         /\ [c EXCEPT !.way = way].xTicksToWait = c.xTicksToWait
         /\ [c EXCEPT !.way = way].way = way
<1>1. PICK d : d = [c EXCEPT !.way = way]
  OBVIOUS
<1>2. /\ d.op = c.op /\ d.item = c.item /\ d.xTicksToWait = c.xTicksToWait
      /\ d.xEntryTimeSet = c.xEntryTimeSet /\ d.xTimeOut = c.xTimeOut /\ d.way = way
  BY <1>1 DEF CallType
<1>3. Phase(d) = Phase(c) /\ Entered(d) = Entered(c)
  BY <1>2 DEF Phase, Entered
<1>4. Deadline(d) = Deadline(c)
  BY <1>2, <1>3 DEF Deadline
<1>5. CallOf(d) = CallOf(c)
  BY <1>2, <1>3, <1>4 DEF CallOf
<1> QED
  BY <1>1, <1>2, <1>3, <1>5

\* The scheduler is suspended and the queue is locked.
LEMMA SuspendAllSim ==
  ASSUME IInv, Kept, IInv', NEW t \in Tasks, SuspendAll(t)
  PROVE  Kept' /\ Queue!Next
<1>1. /\ pc[t] = "suspendAll" /\ pc' = [pc EXCEPT ![t] = "lock"] /\ UNCHANGED <<queue, call>>
      /\ NoReturn /\ kernel' = [kernel EXCEPT !.uxSchedulerSuspended = @ + 1]
  BY DEF SuspendAll, At, vTaskSuspendAll, Goto
<1>2. Stays
  <2>1. SameTime(kernel, kernel')
    BY <1>1, Sound DEF SameTime, KernelType
  <2> QED
    BY <1>1, <2>1, StaysFacts DEF Kept
<1>3. /\ "suspendAll" \in HasTime /\ "lock" \notin Free /\ "lock" # "expired"
      /\ "lock" \notin Unlocking
  BY DEF HasTime, Free, Unlocking
<1> QED
  BY <1>1, <1>2, <1>3, QuietGoes DEF Kept

LEMMA LockSim ==
  ASSUME IInv, Kept, IInv', NEW t \in Tasks, prvLockQueue(t)
  PROVE  Kept' /\ Queue!Next
<1>1. /\ pc[t] = "lock" /\ pc' = [pc EXCEPT ![t] = "check"] /\ UNCHANGED <<kernel, call>>
      /\ NoReturn
  BY DEF prvLockQueue, At, Goto
<1>2. Stays
  <2>1. /\ queue'.storage = queue.storage /\ queue'.uxLength = queue.uxLength
        /\ queue'.pcWriteTo = queue.pcWriteTo /\ queue'.pcReadFrom = queue.pcReadFrom
        /\ queue'.uxMessagesWaiting = queue.uxMessagesWaiting
    BY Sound DEF prvLockQueue, QueueType
  <2> QED
    BY <1>1, <2>1, StaysFacts DEF Kept
<1>3. /\ "lock" \in HasTime /\ "check" \notin Free /\ "check" # "expired"
      /\ "check" \notin Unlocking
  BY DEF HasTime, Free, Unlocking
<1> QED
  BY <1>1, <1>2, <1>3, QuietGoes DEF Kept

\* The queue is asked once more, and the task put on its event list.
LEMMA AskSim ==
  ASSUME IInv, Kept, IInv', NEW t \in Tasks, Ask(t)
  PROVE  Kept' /\ Queue!Next
<1>1. pc[t] = "ask" /\ UNCHANGED <<kernel, queue>> /\ NoReturn
  BY DEF Ask, At
<1>2. Stays
  BY <1>1, StaysFacts DEF Kept
<1>3. /\ "ask" \in HasTime /\ "place" \notin Free /\ "place" # "expired" /\ "place" \notin Unlocking
      /\ "unlockTx" \notin Free /\ "unlockTx" # "expired" /\ "unlockTx" \notin HasTime
  BY DEF HasTime, Free, Unlocking
<1>4. CASE pc' = [pc EXCEPT ![t] = "place"] /\ UNCHANGED call
  BY <1>1, <1>2, <1>3, <1>4, QuietGoes DEF Kept
<1>5. CASE /\ pc' = [pc EXCEPT ![t] = "unlockTx"]
           /\ call' = [call EXCEPT ![t] = [@ EXCEPT !.way = "again"]]
  <2>1. call[t] \in CallType /\ CallOk(call[t], pc[t], Now(kernel)) /\ Now(kernel') = Now(kernel)
    BY <1>1, Sound DEF Kept, CallsSound
  <2>2. PICK c : c = [call[t] EXCEPT !.way = "again"]
    OBVIOUS
  <2>3. /\ CallOf(c) = CallOf(call[t]) /\ Phase(c) = Phase(call[t])
        /\ Entered(c) = Entered(call[t]) /\ c.way = "again"
    BY <2>1, <2>2, WayUnseen
  <2>4. CallOk(c, "unlockTx", Now(kernel'))
    BY <1>3, <2>1, <2>3 DEF CallOk
  <2>5. call' = [call EXCEPT ![t] = c]
    BY <1>5, <2>2
  <2> QED
    BY <1>1, <1>2, <1>5, <2>3, <2>4, <2>5, QuietStep DEF Kept
<1> QED
  BY <1>4, <1>5 DEF Ask, Goto

LEMMA PlaceSim ==
  ASSUME IInv, Kept, IInv', NEW t \in Tasks, vTaskPlaceOnEventList(t)
  PROVE  Kept' /\ Queue!Next
<1>1. /\ pc[t] = "place" /\ pc' = [pc EXCEPT ![t] = "unlockTx"] /\ UNCHANGED queue /\ NoReturn
      /\ call' = [call EXCEPT ![t] = [@ EXCEPT !.way = "block"]]
      /\ kernel' = prvAddCurrentTaskToDelayedList(kernel, call[t].xTicksToWait, TRUE,
                                                  ListOf(call[t].op))
  BY DEF vTaskPlaceOnEventList, At, Goto
<1>2. call[t] \in CallType /\ CallOk(call[t], pc[t], Now(kernel)) /\ ListsKept(kernel)
  BY Sound DEF Kept, CallsSound
<1>3. SameTime(kernel, kernel')
  BY <1>1, <1>2, CallFields, BlockTime
<1>4. Stays /\ Now(kernel') = Now(kernel)
  BY <1>1, <1>3, StaysFacts DEF Kept, SameTime, Now
<1>5. "unlockTx" \notin Free /\ "unlockTx" # "expired" /\ "unlockTx" \notin HasTime
  BY DEF HasTime, Free
<1>6. PICK c : c = [call[t] EXCEPT !.way = "block"]
  OBVIOUS
<1>7. /\ CallOf(c) = CallOf(call[t]) /\ Phase(c) = Phase(call[t])
      /\ Entered(c) = Entered(call[t]) /\ c.way = "block"
  BY <1>2, <1>6, WayUnseen
<1>8. CallOk(c, "unlockTx", Now(kernel'))
  BY <1>2, <1>4, <1>5, <1>7 DEF CallOk
<1>9. call' = [call EXCEPT ![t] = c]
  BY <1>1, <1>6
<1> QED
  BY <1>1, <1>4, <1>7, <1>8, <1>9, QuietStep DEF Kept

\* The queue is unlocked and the scheduler resumed.
LEMMA UnlockSim ==
  ASSUME IInv, Kept, IInv', NEW t \in Tasks, prvUnlockQueue_Tx(t) \/ prvUnlockQueue_Rx(t)
  PROVE  Kept' /\ Queue!Next
<1>1. UNCHANGED call /\ NoReturn
  BY DEF prvUnlockQueue_Tx, prvUnlockQueue_Rx
<1>2. PICK from \in {"unlockTx", "unlockRx"}, s \in {"unlockRx", "resumeAll"} :
        At(t, from) /\ pc' = [pc EXCEPT ![t] = s]
  BY DEF prvUnlockQueue_Tx, prvUnlockQueue_Rx, Goto
<1>3. /\ pc[t] = from /\ t = kernel.pxCurrentTCB /\ kernel.uxSchedulerSuspended = 1
      /\ ListsKept(kernel)
  BY <1>2, Executes DEF SuspendedPlaces, Unlocking
<1>4. PICK list \in {"send", "receive"}, lock \in Nat : kernel' = Unlocked(kernel, list, lock)
  <2>1. /\ queue.cTxLock \in queueUNLOCKED .. Cardinality(Tasks)
        /\ queue.cRxLock \in queueUNLOCKED .. Cardinality(Tasks)
        /\ Cardinality(Tasks) \in Nat
    BY QueueFacts DEF IInv
  <2>2. CASE prvUnlockQueue_Tx(t)
    <3>1. pc[kernel.pxCurrentTCB] = "unlockTx"
      BY <2>2 DEF prvUnlockQueue_Tx, At
    <3>2. queue.cTxLock # queueUNLOCKED
      BY <3>1 DEF IInv, QueueSound
    <3>3. queue.cTxLock \in Nat
      BY <2>1, <3>2 DEF queueUNLOCKED
    <3> QED
      BY <2>2, <3>3 DEF prvUnlockQueue_Tx
  <2>3. CASE prvUnlockQueue_Rx(t)
    <3>1. pc[kernel.pxCurrentTCB] = "unlockRx"
      BY <2>3 DEF prvUnlockQueue_Rx, At
    <3>2. queue.cRxLock # queueUNLOCKED
      BY <3>1 DEF IInv, QueueSound
    <3>3. queue.cRxLock \in Nat
      BY <2>1, <3>2 DEF queueUNLOCKED
    <3> QED
      BY <2>3, <3>3 DEF prvUnlockQueue_Rx
  <2> QED
    BY <2>2, <2>3
<1>5. SameTime(kernel, kernel')
  BY <1>3, <1>4, UnlockedTime
<1>6. Stays
  <2>1. /\ queue'.storage = queue.storage /\ queue'.uxLength = queue.uxLength
        /\ queue'.pcWriteTo = queue.pcWriteTo /\ queue'.pcReadFrom = queue.pcReadFrom
        /\ queue'.uxMessagesWaiting = queue.uxMessagesWaiting
    BY Sound DEF prvUnlockQueue_Tx, prvUnlockQueue_Rx, QueueType
  <2> QED
    BY <1>5, <2>1, StaysFacts DEF Kept
<1>7. CallOk(call[t], from, Now(kernel))
  BY <1>3 DEF Kept, CallsSound
<1>8. /\ s \notin Free /\ s \notin HasTime /\ s # "expired"
      /\ s \in Unlocking /\ call[t].way = "expired" =>
           call[t].xEntryTimeSet /\ call[t].xTicksToWait = 0
  BY <1>7 DEF CallOk, Free, HasTime, Unlocking
<1> QED
  BY <1>1, <1>2, <1>6, <1>8, QuietGoes DEF Kept

LEMMA ResumeAllSim ==
  ASSUME IInv, Kept, IInv', NEW t \in Tasks, ResumeAll(t)
  PROVE  Kept' /\ Queue!Next
<1>1. /\ At(t, "resumeAll") /\ UNCHANGED <<queue, call>> /\ NoReturn
      /\ kernel' = xTaskResumeAll(kernel)
  BY DEF ResumeAll
<1>2. PICK s \in {"expired", "yieldTry", "try"} :
        pc' = [pc EXCEPT ![t] = s] /\ (s = "expired" => call[t].way = "expired")
  BY DEF ResumeAll, Goto
<1>3. /\ pc[t] = "resumeAll" /\ kernel.uxSchedulerSuspended = 1 /\ ListsKept(kernel)
  BY <1>1, Executes DEF SuspendedPlaces, Unlocking
<1>4. Stays
  <2>1. Later
    BY <1>1, <1>3, ResumeAllTime DEF Later
  <2> QED
    BY <1>1, <2>1 DEF Stays, Kept
<1>5. CallOk(call[t], "resumeAll", Now(kernel))
  BY <1>3 DEF Kept, CallsSound
<1>6. /\ s \notin Free /\ s \notin HasTime /\ s \notin Unlocking
      /\ s = "expired" => call[t].xEntryTimeSet /\ call[t].xTicksToWait = 0
  BY <1>2, <1>5 DEF CallOk, Free, HasTime, Unlocking
<1> QED
  BY <1>1, <1>2, <1>4, <1>6, QuietGoes DEF Kept

LEMMA QueueYieldSim ==
  ASSUME IInv, Kept, IInv', NEW t \in Tasks, Queue_Yield(t)
  PROVE  Kept' /\ Queue!Next
<1>1. /\ pc' = [pc EXCEPT ![t] = "try"] /\ UNCHANGED <<queue, call>> /\ NoReturn
      /\ kernel' = taskYIELD(kernel)
  BY DEF Queue_Yield, Goto
<1>2. Stays
  <2>1. Timed(kernel)
    BY Sound DEF Timed, KernelType
  <2>2. SameTime(kernel, kernel')
    BY <1>1, <2>1, OtherFields
  <2> QED
    BY <1>1, <2>2, StaysFacts DEF Kept
<1>3. "try" \notin Free /\ "try" \notin HasTime /\ "try" \notin Unlocking /\ "try" # "expired"
  BY DEF Free, HasTime, Unlocking
<1> QED
  BY <1>1, <1>2, <1>3, QuietGoes DEF Kept

\* The scheduler goes on.
LEMMA TasksSim ==
  ASSUME IInv, Kept, IInv', TasksNext, UNCHANGED <<queue, call>>, NoReturn
  PROVE  Kept' /\ Queue!Next
<1>1. Stays
  BY TasksTime DEF Stays, Kept
<1>2. CASE UNCHANGED pc
  <2>1. CallsSound'
    BY <1>1, <1>2, CallSoundStays DEF Kept, Stays
  <2>2. TheCalls' = TheCalls
    BY DEF TheCalls
  <2> QED
    BY <1>1, <2>1, <2>2, Unseen DEF Kept, Stays
<1>3. ASSUME NEW t \in Tasks, NEW s \in Free, pc' = [pc EXCEPT ![t] = s], pc[t] \in Free
      PROVE  Kept' /\ Queue!Next
  <2>1. s \notin HasTime /\ s # "expired" /\ s \notin Unlocking
    BY DEF Free, HasTime, Unlocking
  <2> QED
    BY <1>1, <1>3, <2>1, QuietGoes DEF Kept
<1>4. CASE vTaskSwitchContext \/ xPortSysTickHandler \/ xTaskResumeFromISR
  BY <1>2, <1>4 DEF vTaskSwitchContext, xPortSysTickHandler, xTaskResumeFromISR
<1>5. ASSUME NEW t \in Tasks,
             \/ vTaskDelay(t) \/ vTaskDelay_Block(t) \/ vTaskDelay_ResumeAll(t)
             \/ vTaskSuspend(t) \/ vTaskSuspend_Reset(t) \/ vTaskResume(t) \/ Task_Yield(t)
      PROVE  UNCHANGED pc \/ \E s \in Free : pc' = [pc EXCEPT ![t] = s] /\ pc[t] \in Free
  <2>1. CASE vTaskDelay(t)
    BY <2>1 DEF vTaskDelay, vTaskSuspendAll, At, Goto, Free
  <2>2. CASE vTaskDelay_Block(t)
    BY <2>2 DEF vTaskDelay_Block, At, Goto, Free
  <2>3. CASE vTaskDelay_ResumeAll(t)
    BY <2>3 DEF vTaskDelay_ResumeAll, At, Goto, Free
  <2>4. CASE vTaskSuspend(t)
    BY <2>4 DEF vTaskSuspend, At, Goto, Free
  <2>5. CASE vTaskSuspend_Reset(t)
    BY <2>5 DEF vTaskSuspend_Reset, At, Goto, Free
  <2>6. CASE vTaskResume(t)
    BY <2>6 DEF vTaskResume
  <2>7. CASE Task_Yield(t)
    BY <2>7 DEF Task_Yield, At, Goto, Free
  <2> QED
    BY <1>5, <2>1, <2>2, <2>3, <2>4, <2>5, <2>6, <2>7
<1>6. CASE \E t \in Tasks :
             \/ vTaskDelay(t) \/ vTaskDelay_Block(t) \/ vTaskDelay_ResumeAll(t)
             \/ vTaskSuspend(t) \/ vTaskSuspend_Reset(t) \/ vTaskResume(t) \/ Task_Yield(t)
  BY <1>2, <1>3, <1>5, <1>6
<1> QED
  BY <1>4, <1>6 DEF TasksNext

-----------------------------------------------------------------------------
(* The steps that are.                                                      *)

\* A task begins a call.
LEMMA CallSim ==
  ASSUME IInv, Kept, IInv', NEW t \in Tasks, Call(t)
  PROVE  Kept' /\ Queue!Next
<1>1. PICK k \in Calls[t] :
        call' = [call EXCEPT ![t] =
          [NoCall EXCEPT !.op = k.op, !.item = k.item, !.xTicksToWait = k.xTicksToWait]]
  BY DEF Call
<1>2. /\ pc[t] = "app" /\ pc' = [pc EXCEPT ![t] = "try"] /\ UNCHANGED <<kernel, queue>>
      /\ NoReturn
  BY DEF Call, At, Goto
<1>3. k.op \in Ops /\ k.item \in Item /\ k.xTicksToWait \in Ticks
  BY QueueAssumption DEF QueueAssumption, Item
<1>4. PICK c : c = [NoCall EXCEPT !.op = k.op, !.item = k.item, !.xTicksToWait = k.xTicksToWait]
  OBVIOUS
<1>5. /\ c \in CallType /\ c.op = k.op /\ c.item = k.item /\ c.xTicksToWait = k.xTicksToWait
      /\ c.xEntryTimeSet = FALSE
  BY <1>3, <1>4, NoCallType DEF CallType, NoCall, Item
<1>6. Phase(c) = "new" /\ Deadline(c) = k.xTicksToWait
  BY <1>5 DEF Phase, Deadline
<1>7. CallOf(c) = [op |-> k.op, msg |-> k.item, phase |-> "new", wait |-> k.xTicksToWait]
  BY <1>3, <1>5, <1>6, CallMeaning
<1>8. TheCalls[t] = Queue!Idle
  <2>1. CallOk(call[t], pc[t], Now(kernel)) /\ call[t] \in CallType
    BY Sound DEF Kept, CallsSound
  <2>2. call[t] = NoCall
    BY <1>2, <2>1 DEF CallOk, Free
  <2>3. TheCalls[t] = CallOf(call[t])
    BY DEF TheCalls
  <2> QED
    BY <2>1, <2>2, <2>3, CallMeaning
<1>9. TheCalls' = [TheCalls EXCEPT ![t] = [op |-> k.op, msg |-> k.item, phase |-> "new",
                                            wait |-> k.xTicksToWait]]
  <2>1. call' = [call EXCEPT ![t] = c]
    BY <1>1, <1>4
  <2>2. TheCalls' = [TheCalls EXCEPT ![t] = CallOf(c)]
    BY <2>1, CallsUpdated
  <2> QED
    BY <1>7, <2>2
<1>10. Queue!Begin(t)
  BY <1>2, <1>3, <1>8, <1>9 DEF Queue!Begin, Ops, Item, Ticks, NoReturn
<1>11. CallOk(c, "try", Now(kernel'))
  BY <1>6 DEF CallOk, Free, HasTime, Unlocking
<1>12. Later
  BY <1>2, Sound DEF Later
<1>13. CallsSound'
  BY <1>1, <1>2, <1>4, <1>11, <1>12, CallSoundMoved DEF Kept
<1> QED
  BY <1>2, <1>10, <1>13 DEF Kept, Queue!Next

\* A call ends.
LEMMA ReturnKept ==
  ASSUME IInv, Kept, IInv', Later, NEW t \in Tasks, NEW r, Return(t, r)
  PROVE  /\ CallsSound' /\ TheCalls' = [TheCalls EXCEPT ![t] = Queue!Idle]
         /\ returned' = <<t, r>>
<1>1. /\ pc' = [pc EXCEPT ![t] = "app"] /\ call' = [call EXCEPT ![t] = NoCall]
      /\ returned' = <<t, r>>
  BY DEF Return, Goto
<1>2. CallOf(NoCall) = Queue!Idle
  BY NoCallType, CallMeaning
<1>3. CallOk(NoCall, "app", Now(kernel'))
  BY DEF CallOk, NoCall, Phase, HasTime, Unlocking
<1>4. CallsSound'
  BY <1>1, <1>3, CallSoundMoved DEF Kept
<1> QED
  BY <1>1, <1>2, <1>4, CallsUpdated

\* The operation of a call that has begun.
LEMMA InCall ==
  ASSUME IInv, Calling, NEW t \in Tasks, pc[t] \notin Free
  PROVE  /\ call[t] \in CallType /\ call[t].op \in Ops /\ call[t].item \in Item
         /\ TheCalls[t] = [op |-> call[t].op, msg |-> call[t].item, phase |-> Phase(call[t]),
                           wait |-> Deadline(call[t])]
         /\ TheCalls[t] # Queue!Idle /\ TheCalls[t].op = call[t].op
         /\ TheCalls[t].msg = call[t].item
         /\ TheCalls[t].phase = Phase(call[t]) /\ TheCalls[t].wait = Deadline(call[t])
<1>1. call[t] \in CallType /\ call[t].op \in Ops
  BY Sound DEF Calling
<1>2. TheCalls[t] = CallOf(call[t])
  BY DEF TheCalls
<1>3. call[t].item \in Item
  BY <1>1, CallFields DEF Item
<1> QED
  BY <1>1, <1>2, <1>3, CallMeaning

\* A call goes on.
LEMMA SucceedSim ==
  ASSUME IInv, Calling, Kept, IInv', NEW t \in Tasks, pc[t] = "try",
         ~CannotGoOn(queue, call[t].op),
         queue' = Done(queue, call[t].op, call[t].item),
         kernel' = Unblock(kernel, Serves(call[t].op)),
         Return(t, Result(queue, call[t].op))
  PROVE  Kept' /\ Queue!Next
<1>1. PICK op \in Ops, item \in Item : op = call[t].op /\ item = call[t].item
  BY InCall DEF Free
<1>2. /\ TheCalls[t] # Queue!Idle /\ TheCalls[t].op = op /\ TheCalls[t].msg = item
  BY <1>1, InCall DEF Free
<1>3. PICK n \in Nat \ {0} : n = queue.uxLength
  BY Sound
<1>4. op = "overwrite" => n = 1
  BY <1>1, <1>3 DEF IInv, FlowSound
<1>5. Goes(queue, queue', op, item)
  <2>1. PICK Q, Q2 : Q = queue /\ Q2 = queue'
    OBVIOUS
  <2>2. /\ Q \in QueueType(n) /\ RingOf(Q) /\ ~CannotGoOn(Q, op) /\ Q2 = Done(Q, op, item)
    BY <1>1, <1>3, <2>1, Sound DEF Kept
  <2>3. Goes(Q, Q2, op, item)
    BY <1>4, <2>2, DoneContent
  <2> QED
    BY <2>1, <2>3
<1>6. SameTime(kernel, kernel')
  <2>1. Serves(op) \in {"send", "receive"}
    BY DEF Serves
  <2> QED
    BY <1>1, <2>1, Sound, UnblockTime
<1>7. Later /\ Now(kernel') = Now(kernel)
  BY <1>6, SameTimeLater DEF SameTime, Now
<1>8. /\ CallsSound' /\ TheCalls' = [TheCalls EXCEPT ![t] = Queue!Idle]
      /\ returned' = <<t, Result(queue, op)>>
  BY <1>1, <1>7, ReturnKept
<1>9. ContentOf(queue') = Queue!After(op, item) /\ Result(queue, op) = Queue!Got(op)
  BY <1>5, AfterMeaning
<1>10. Queue!Possible(op)
  BY <1>1, PossibleMeaning
<1>11. queue'.uxLength = queue.uxLength /\ RingOf(queue')
  BY <1>5 DEF Goes
<1>12. Queue!Succeed(t)
  BY <1>2, <1>7, <1>8, <1>9, <1>10, <1>11 DEF Queue!Succeed
<1> QED
  BY <1>8, <1>11, <1>12 DEF Kept, Queue!Next

\* A call fails that has found the queue so, or whose time is over.
LEMMA FailSim ==
  ASSUME IInv, Calling, Kept, IInv', NEW t \in Tasks, pc[t] \notin Free,
         call[t].xTicksToWait = 0, call[t].xEntryTimeSet \/ CannotGoOn(queue, call[t].op),
         UNCHANGED <<kernel, queue>>, Return(t, "fail")
  PROVE  Kept' /\ Queue!Next
<1>1. /\ call[t] \in CallType /\ call[t].op \in Ops
      /\ TheCalls[t] # Queue!Idle /\ TheCalls[t].op = call[t].op
      /\ TheCalls[t].phase = Phase(call[t]) /\ TheCalls[t].wait = Deadline(call[t])
  BY InCall
<1>2. \/ Phase(call[t]) = "expired"
      \/ Phase(call[t]) = "new" /\ Deadline(call[t]) = 0 /\ ~Queue!Possible(call[t].op)
  <2>1. CASE call[t].xEntryTimeSet
    BY <2>1 DEF Phase
  <2>2. CASE ~call[t].xEntryTimeSet
    <3>1. Phase(call[t]) = "new" /\ Deadline(call[t]) = 0
      BY <2>2 DEF Phase, Deadline
    <3>2. ~Queue!Possible(call[t].op)
      BY <1>1, <2>2, PossibleMeaning
    <3> QED
      BY <3>1, <3>2
  <2> QED
    BY <2>1, <2>2
<1>3. Later
  BY Sound DEF Later
<1>4. /\ CallsSound' /\ TheCalls' = [TheCalls EXCEPT ![t] = Queue!Idle]
      /\ returned' = <<t, "fail">>
  BY <1>3, ReturnKept
<1>5. Queue!Fail(t)
  BY <1>1, <1>2, <1>4 DEF Queue!Fail
<1> QED
  BY <1>4, <1>5 DEF Kept, Queue!Next

\* A call that does not wait for ever enters its time.
LEMMA TimeOutSetTime ==
  ASSUME kernel \in KernelType, NEW b \in CallType, NEW d, d = TimeOutSet(b)
  PROVE  /\ d \in CallType /\ d.op = b.op /\ d.item = b.item
         /\ d.xTicksToWait = b.xTicksToWait /\ d.xEntryTimeSet = b.xEntryTimeSet
         /\ d.way = b.way
         /\ b.xTicksToWait # portMAX_DELAY => Entered(d) = Now(kernel)
<1>1. kernel.xNumOfOverflows \in Nat /\ kernel.xTickCount \in Ticks
  BY KernelFields
<1>2. CASE b.xTicksToWait = portMAX_DELAY
  BY <1>2 DEF TimeOutSet
<1>3. CASE b.xTicksToWait # portMAX_DELAY
  <2>1. d = [b EXCEPT !.xTimeOut = [xOverflowCount |-> kernel.xNumOfOverflows,
                                    xTimeOnEntering |-> kernel.xTickCount]]
    BY <1>3 DEF TimeOutSet
  <2>2. /\ d \in CallType /\ d.op = b.op /\ d.item = b.item
        /\ d.xTicksToWait = b.xTicksToWait /\ d.xEntryTimeSet = b.xEntryTimeSet
        /\ d.way = b.way
        /\ d.xTimeOut.xOverflowCount = kernel.xNumOfOverflows
        /\ d.xTimeOut.xTimeOnEntering = kernel.xTickCount
    BY <1>1, <2>1 DEF CallType
  <2> QED
    BY <2>2 DEF Entered, Now
<1> QED
  BY <1>2, <1>3

\* A call that cannot go on begins to wait, if it has not yet.
LEMMA WaitSim ==
  ASSUME IInv, Calling, Kept, IInv', NEW t \in Tasks, pc[t] = "try",
         CannotGoOn(queue, call[t].op), call[t].xTicksToWait # 0,
         call' = IF call[t].xEntryTimeSet THEN call
                 ELSE [call EXCEPT ![t] = TimeOutSet([@ EXCEPT !.xEntryTimeSet = TRUE])],
         pc' = [pc EXCEPT ![t] = "suspendAll"], UNCHANGED <<kernel, queue>>, NoReturn
  PROVE  Kept' /\ Queue!Next
<1>1. /\ call[t] \in CallType /\ call[t].op \in Ops
      /\ TheCalls[t] # Queue!Idle /\ TheCalls[t].op = call[t].op
      /\ TheCalls[t].msg = call[t].item
      /\ TheCalls[t].phase = Phase(call[t]) /\ TheCalls[t].wait = Deadline(call[t])
  BY InCall DEF Free
<1>2. "suspendAll" \notin Free /\ "suspendAll" # "expired" /\ "suspendAll" \notin Unlocking
  BY DEF Free, Unlocking
<1>3. Stays /\ Later /\ kernel \in KernelType /\ Now(kernel) \in Nat
  BY Sound, StaysFacts DEF Kept, Stays
<1>4. CASE call[t].xEntryTimeSet
  <2>1. CallOk(call[t], pc[t], Now(kernel))
    BY DEF Kept, CallsSound
  <2>2. CallOk(call[t], "suspendAll", Now(kernel'))
    BY <1>2, <1>4, <2>1 DEF CallOk
  <2>3. call' = [call EXCEPT ![t] = call[t]]
    BY <1>4, Sound
  <2> QED
    BY <1>3, <2>2, <2>3, QuietStep DEF Kept
<1>5. CASE ~call[t].xEntryTimeSet
  <2>1. PICK ticks \in Ticks : ticks = call[t].xTicksToWait /\ ticks # 0
    BY <1>1, CallFields
  <2>2. Phase(call[t]) = "new" /\ Deadline(call[t]) = ticks
    BY <1>5, <2>1 DEF Phase, Deadline
  <2>3. PICK b : b = [call[t] EXCEPT !.xEntryTimeSet = TRUE]
    OBVIOUS
  <2>4. PICK c : c = TimeOutSet(b)
    OBVIOUS
  <2>5. /\ b \in CallType /\ b.op = call[t].op /\ b.item = call[t].item
        /\ b.xTicksToWait = ticks /\ b.xEntryTimeSet = TRUE
    BY <1>1, <2>1, <2>3 DEF CallType
  <2>6. /\ c \in CallType /\ c.op = call[t].op /\ c.item = call[t].item
        /\ c.xTicksToWait = ticks /\ c.xEntryTimeSet = TRUE
        /\ ticks # portMAX_DELAY => Entered(c) = Now(kernel)
    BY <1>3, <2>4, <2>5, TimeOutSetTime
  <2>7. CallOk(c, "suspendAll", Now(kernel'))
    <3>1. Phase(c) = "waiting" => Entered(c) <= Now(kernel')
      BY <1>3, <2>6 DEF Phase
    <3> QED
      BY <1>2, <2>1, <2>6, <3>1 DEF CallOk
  <2>8. call' = [call EXCEPT ![t] = c]
    BY <1>5, <2>3, <2>4
  <2>9. CallsSound'
    BY <1>3, <2>7, <2>8, CallSoundMoved DEF Kept
  <2>10. TheCalls' = [TheCalls EXCEPT ![t] = CallOf(c)]
    BY <2>8, CallsUpdated
  <2>11. ~Queue!Possible(call[t].op)
    BY <1>1, PossibleMeaning
  <2>12. Queue!Wait(t)
    <3>2. CallOf(c) = [op |-> call[t].op, msg |-> call[t].item, phase |-> Phase(c),
                       wait |-> Deadline(c)]
      BY <1>1, <2>6, CallMeaning
    <3>3. CASE ticks = portMAX_DELAY
      <4>1. Phase(c) = "forever" /\ Deadline(c) = ticks
        BY <2>1, <2>6, <3>3 DEF Phase, Deadline
      <4>2. CallOf(c) = Queue!Asks(t, "forever", portMAX_DELAY)
        BY <1>1, <2>1, <2>6, <3>2, <3>3, <4>1 DEF Queue!Asks
      <4> QED
        BY <1>1, <2>1, <2>2, <2>10, <2>11, <3>3, <4>2 DEF Queue!Wait, NoReturn
    <3>4. CASE ticks # portMAX_DELAY
      <4>1. Phase(c) = "waiting" /\ Deadline(c) = Now(kernel) + ticks
        BY <2>1, <2>6, <3>4 DEF Phase, Deadline
      <4>2. CallOf(c) = Queue!Asks(t, "waiting", Now(kernel) + TheCalls[t].wait)
        BY <1>1, <2>2, <3>2, <4>1 DEF Queue!Asks
      <4> QED
        BY <1>1, <2>1, <2>2, <2>10, <2>11, <3>4, <4>2 DEF Queue!Wait, NoReturn
    <3> QED
      BY <3>3, <3>4
  <2> QED
    BY <2>9, <2>12 DEF Kept, Queue!Next
<1> QED
  BY <1>4, <1>5

LEMMA TrySim ==
  ASSUME IInv, Calling, Kept, IInv', NEW t \in Tasks, Try(t)
  PROVE  Kept' /\ Queue!Next
<1>1. pc[t] = "try" /\ pc[t] \notin Free
  BY DEF Try, At, Free
<1>2. CASE /\ ~CannotGoOn(queue, call[t].op)
           /\ queue' = Done(queue, call[t].op, call[t].item)
           /\ kernel' = Unblock(kernel, Serves(call[t].op))
           /\ Return(t, Result(queue, call[t].op))
  BY <1>1, <1>2, SucceedSim
<1>3. CASE /\ CannotGoOn(queue, call[t].op) /\ call[t].xTicksToWait = 0
           /\ Return(t, "fail") /\ UNCHANGED <<kernel, queue>>
  BY <1>1, <1>3, FailSim
<1>4. CASE /\ CannotGoOn(queue, call[t].op) /\ call[t].xTicksToWait # 0
           /\ call' = IF call[t].xEntryTimeSet THEN call
                      ELSE [call EXCEPT ![t] = TimeOutSet([@ EXCEPT !.xEntryTimeSet = TRUE])]
           /\ Goto(t, "suspendAll") /\ UNCHANGED <<kernel, queue>> /\ NoReturn
  BY <1>1, <1>4, WaitSim DEF Goto
<1> QED
  BY <1>2, <1>3, <1>4 DEF Try

\* The difference of two tick counts is the time between them, if that is less than
\* a turn; after just a turn the counts are the same and the overflows differ.
LEMMA Elapsed ==
  ASSUME NEW R \in Nat \ {0}, NEW n \in Nat, NEW o \in Nat,
         NEW k \in 0 .. R - 1, NEW e \in 0 .. R - 1,
         o * R + e <= n * R + k, (n * R + k) - (o * R + e) <= R
  PROVE  \/ n # o /\ k >= e /\ (n * R + k) - (o * R + e) = R
         \/ ~(n # o /\ k >= e) /\ (k - e) % R = (n * R + k) - (o * R + e)
<1>1. n = o \/ n = o + 1
  <2>1. PICK a \in Nat, b \in Nat : a = o * R /\ b = n * R
    <3>1. o * R \in Nat /\ n * R \in Nat
      OBVIOUS
    <3> QED
      BY <3>1
  <2>2. CASE n < o
    <3>1. PICK j \in Nat : o = n + 1 + j
      <4>1. o - n - 1 \in Nat /\ o = n + 1 + (o - n - 1)
        BY <2>2
      <4> QED
        BY <4>1
    <3>2. PICK l \in Nat : l = j * R
      <4>1. j * R \in Nat
        OBVIOUS
      <4> QED
        BY <4>1
    <3>3. o * R = n * R + R + j * R
      BY <3>1
    <3>4. a = b + R + l
      BY <2>1, <3>2, <3>3
    <3>5. a + e <= b + k
      BY <2>1
    <3> QED
      BY <3>4, <3>5
  <2>3. CASE n > o + 1
    <3>1. PICK j \in Nat : n = o + 2 + j
      <4>1. n - o - 2 \in Nat /\ n = o + 2 + (n - o - 2)
        BY <2>3
      <4> QED
        BY <4>1
    <3>2. PICK l \in Nat : l = j * R
      <4>1. j * R \in Nat
        OBVIOUS
      <4> QED
        BY <4>1
    <3>3. n * R = o * R + R + R + j * R
      BY <3>1
    <3>4. b = a + R + R + l
      BY <2>1, <3>2, <3>3
    <3>5. (b + k) - (a + e) <= R
      BY <2>1
    <3> QED
      BY <3>4, <3>5
  <2> QED
    BY <2>2, <2>3
<1>2. PICK a \in Nat : a = o * R
  <2>1. o * R \in Nat
    OBVIOUS
  <2> QED
    BY <2>1
<1>3. CASE n = o
  <2>1. (n * R + k) - (o * R + e) = k - e /\ k - e \in 0 .. R - 1
    <3>1. n * R = a
      BY <1>2, <1>3
    <3>2. a + e <= a + k
      BY <1>2, <3>1
    <3> QED
      BY <1>2, <3>1, <3>2
  <2>2. (k - e) % R = k - e
    BY <2>1
  <2> QED
    BY <1>3, <2>1, <2>2
<1>4. CASE n = o + 1
  <2>1. n * R = a + R
    BY <1>2, <1>4
  <2>2. (n * R + k) - (o * R + e) = R + k - e
    BY <1>2, <2>1
  <2>3. CASE k >= e
    <3>1. k = e
      BY <2>2, <2>3
    <3> QED
      BY <1>4, <2>2, <2>3, <3>1
  <2>4. CASE k < e
    <3>1. R + k - e \in 0 .. R - 1
      BY <2>4
    <3>2. k - e = (-1) * R + (R + k - e)
      OBVIOUS
    <3>3. (k - e) % R = R + k - e
      BY <3>1, <3>2
    <3> QED
      BY <2>2, <2>4, <3>3
  <2> QED
    BY <2>3, <2>4
<1> QED
  BY <1>1, <1>3, <1>4

\* xTaskCheckForTimeOut sees, in time, whether the deadline of a call has come.
LEMMA ExpiredMeaning ==
  ASSUME NEW K \in KernelType, NEW c \in CallType, Entered(c) <= Now(K),
         Now(K) - Entered(c) <= TickRange, c.xTicksToWait # portMAX_DELAY,
         NEW elapsed, elapsed = (K.xTickCount - c.xTimeOut.xTimeOnEntering) % TickRange,
         NEW expired \in BOOLEAN,
         expired <=> \/ /\ K.xNumOfOverflows # c.xTimeOut.xOverflowCount
                        /\ K.xTickCount >= c.xTimeOut.xTimeOnEntering
                     \/ elapsed >= c.xTicksToWait
  PROVE  /\ expired => Now(K) >= Entered(c) + c.xTicksToWait
         /\ ~expired => elapsed = Now(K) - Entered(c) /\ elapsed \in Nat
                        /\ elapsed < c.xTicksToWait
<1>0. /\ K.xNumOfOverflows \in Nat /\ K.xTickCount \in Ticks
      /\ c.xTimeOut.xOverflowCount \in Nat /\ c.xTimeOut.xTimeOnEntering \in Ticks
      /\ TickRange \in Nat \ {0} /\ Ticks = 0 .. TickRange - 1
  <2>1. /\ K.xNumOfOverflows \in Nat /\ K.xTickCount \in Ticks
        /\ c.xTimeOut.xOverflowCount \in Nat /\ c.xTimeOut.xTimeOnEntering \in Ticks
    BY KernelFields, CallFields
  <2>2. TickRange \in Nat \ {0} /\ Ticks = 0 .. TickRange - 1
    BY TickFacts DEF Ticks
  <2> QED
    BY <2>1, <2>2
<1>01. PICK R \in Nat \ {0} : R = TickRange
  BY <1>0
<1>1. PICK n \in Nat, o \in Nat, k \in 0 .. R - 1, e \in 0 .. R - 1 :
        /\ R = TickRange /\ n = K.xNumOfOverflows /\ o = c.xTimeOut.xOverflowCount
        /\ k = K.xTickCount /\ e = c.xTimeOut.xTimeOnEntering
  BY <1>0, <1>01
<1>2. Now(K) = n * R + k /\ Entered(c) = o * R + e
  BY <1>1 DEF Now, Entered
<1>3. \/ n # o /\ k >= e /\ (n * R + k) - (o * R + e) = R
      \/ ~(n # o /\ k >= e) /\ (k - e) % R = (n * R + k) - (o * R + e)
  <2>1. o * R + e <= n * R + k /\ (n * R + k) - (o * R + e) <= R
    BY <1>1, <1>2
  <2> QED
    BY <2>1, Elapsed
<1>4. PICK x \in Nat, y \in Nat, w \in Nat :
        x = Now(K) /\ y = Entered(c) /\ w = c.xTicksToWait /\ w < R
  <2>1. Now(K) \in Nat /\ Entered(c) \in Nat /\ c.xTicksToWait \in Ticks
    BY NowFacts, EnteredFacts, CallFields
  <2>2. c.xTicksToWait \in Nat /\ c.xTicksToWait < R
    BY <1>0, <1>01, <2>1
  <2> QED
    BY <2>1, <2>2
<1>5. \/ n # o /\ k >= e /\ x - y = R
      \/ ~(n # o /\ k >= e) /\ elapsed = x - y
  BY <1>1, <1>2, <1>3, <1>4
<1>6. expired <=> (n # o /\ k >= e) \/ elapsed >= w
  BY <1>1, <1>4
<1>7. x >= y
  BY <1>4
<1>8. CASE n # o /\ k >= e
  BY <1>4, <1>5, <1>6, <1>8
<1>9. CASE ~(n # o /\ k >= e)
  BY <1>4, <1>5, <1>6, <1>7, <1>9
<1> QED
  BY <1>8, <1>9

\* A call looks at the clock: its time is over, or its deadline stays.
LEMMA CheckSim ==
  ASSUME IInv, Calling, Kept, IInv', NEW t \in Tasks, xTaskCheckForTimeOut(t), LooksInTime(t)
  PROVE  Queue!Next
<1> DEFINE c == call[t]
           elapsed == (kernel.xTickCount - c.xTimeOut.xTimeOnEntering) % TickRange
           wrapped == /\ kernel.xNumOfOverflows # c.xTimeOut.xOverflowCount
                      /\ kernel.xTickCount >= c.xTimeOut.xTimeOnEntering
           forever == c.xTicksToWait = portMAX_DELAY
           expired == ~forever /\ (wrapped \/ elapsed >= c.xTicksToWait)
<1>1. /\ pc[t] = "check" /\ UNCHANGED <<kernel, queue>> /\ NoReturn
      /\ call' = [call EXCEPT ![t] =
           IF expired THEN [c EXCEPT !.xTicksToWait = 0, !.way = "expired"]
           ELSE IF forever THEN c
           ELSE TimeOutSet([c EXCEPT !.xTicksToWait = @ - elapsed])]
  BY DEF xTaskCheckForTimeOut, At
<1>2. /\ c \in CallType /\ c.op \in Ops
      /\ TheCalls[t] # Queue!Idle /\ TheCalls[t].op = c.op /\ TheCalls[t].msg = c.item
      /\ TheCalls[t].phase = Phase(c) /\ TheCalls[t].wait = Deadline(c)
      /\ TheCalls[t] = [op |-> c.op, msg |-> c.item, phase |-> Phase(c), wait |-> Deadline(c)]
  BY <1>1, InCall DEF Free
<1>3. /\ c.xEntryTimeSet = TRUE /\ c.xTicksToWait # 0
      /\ Phase(c) = "waiting" => Entered(c) <= Now(kernel)
  BY <1>1, <1>2, CallFields DEF Kept, CallsSound, CallOk, HasTime
<1>4. Stays /\ kernel \in KernelType
  BY <1>1, Sound, StaysFacts DEF Kept
<1>5. ASSUME TheCalls' = TheCalls PROVE Queue!Next
  BY <1>1, <1>4, <1>5, Unseen
<1>6. CASE forever
  <2>1. call' = [call EXCEPT ![t] = c]
    BY <1>1, <1>6
  <2>2. call' = call
    BY <2>1, Sound
  <2> QED
    BY <1>5, <2>2 DEF TheCalls
<1>7. CASE ~forever
  <2>1. Phase(c) = "waiting" /\ Deadline(c) = Entered(c) + c.xTicksToWait
    BY <1>3, <1>7 DEF Phase, Deadline
  <2>2. Entered(c) <= Now(kernel) /\ Now(kernel) - Entered(c) <= TickRange
    BY <1>1, <1>3, <2>1 DEF LooksInTime
  <2>3. expired \in BOOLEAN /\ (expired <=> wrapped \/ elapsed >= c.xTicksToWait)
    BY <1>7
  <2>4. /\ expired => Now(kernel) >= Entered(c) + c.xTicksToWait
        /\ ~expired => elapsed = Now(kernel) - Entered(c) /\ elapsed \in Nat
                       /\ elapsed < c.xTicksToWait
    <3> HIDE DEF c, expired
    <3>1. c.xTicksToWait # portMAX_DELAY
      BY <1>7
    <3>2. PICK x : x = elapsed
      OBVIOUS
    <3>3. expired <=> \/ /\ kernel.xNumOfOverflows # c.xTimeOut.xOverflowCount
                         /\ kernel.xTickCount >= c.xTimeOut.xTimeOnEntering
                      \/ x >= c.xTicksToWait
      BY <2>3, <3>2
    <3> QED
      BY <1>2, <1>4, <2>2, <2>3, <3>1, <3>2, <3>3, ExpiredMeaning
  <2>5. /\ c.xTicksToWait \in Nat /\ Entered(c) \in Nat /\ Now(kernel) \in Nat
        /\ c.xTicksToWait < portMAX_DELAY /\ portMAX_DELAY \in Nat
    <3>1. Entered(c) \in Nat
      BY <1>2, EnteredFacts
    <3>2. Now(kernel) \in Nat
      BY <1>4, NowFacts
    <3>3. PICK w \in Ticks : w = c.xTicksToWait
      BY <1>2, CallFields
    <3>4. w \in Nat /\ w <= portMAX_DELAY /\ portMAX_DELAY \in Nat
      BY TickFacts
    <3>5. w # portMAX_DELAY
      BY <1>7, <3>3
    <3>6. w < portMAX_DELAY
      BY <3>4, <3>5
    <3> QED
      BY <3>1, <3>2, <3>3, <3>4, <3>6
  <2> HIDE DEF elapsed, wrapped, expired
  <2>6. CASE expired
    <3>1. PICK d : d = [c EXCEPT !.xTicksToWait = 0, !.way = "expired"]
      OBVIOUS
    <3>2. call' = [call EXCEPT ![t] = d]
      BY <1>1, <2>6, <3>1
    <3>3. /\ d \in CallType /\ d.op = c.op /\ d.item = c.item /\ d.xTicksToWait = 0
          /\ d.xEntryTimeSet = TRUE
      BY <1>2, <1>3, <3>1, TickFacts DEF CallType
    <3>4. Phase(d) = "expired" /\ Deadline(d) = 0
      BY <3>3 DEF Phase, Deadline
    <3>5. CallOf(d) = Queue!Asks(t, "expired", 0)
      <4>1. CallOf(d) = [op |-> d.op, msg |-> d.item, phase |-> Phase(d), wait |-> Deadline(d)]
        BY <1>2, <3>3, CallMeaning
      <4> QED
        BY <1>2, <3>3, <3>4, <4>1 DEF Queue!Asks
    <3>6. TheCalls' = [TheCalls EXCEPT ![t] = CallOf(d)]
      BY <3>2, CallsUpdated
    <3>7. Now(kernel) >= TheCalls[t].wait
      BY <1>2, <2>1, <2>4, <2>6
    <3>8. Queue!Expire(t)
      BY <1>1, <1>2, <2>1, <3>5, <3>6, <3>7 DEF Queue!Expire, NoReturn
    <3> QED
      BY <3>8 DEF Queue!Next
  <2>7. CASE ~expired
    <3>1. elapsed = Now(kernel) - Entered(c) /\ elapsed \in Nat /\ elapsed < c.xTicksToWait
      BY <2>4, <2>7
    <3>2. PICK left \in Nat : /\ left = c.xTicksToWait - elapsed /\ left # 0
                              /\ left < portMAX_DELAY
      <4>1. PICK w \in Nat, x \in Nat : w = c.xTicksToWait /\ x = elapsed
        BY <2>5, <3>1
      <4>2. x < w /\ w < portMAX_DELAY /\ portMAX_DELAY \in Nat
        BY <2>5, <3>1, <4>1
      <4>3. w - x \in Nat /\ w - x # 0 /\ w - x < portMAX_DELAY
        BY <4>2
      <4> QED
        BY <4>1, <4>3
    <3>3. PICK d : d = TimeOutSet([c EXCEPT !.xTicksToWait = left])
      OBVIOUS
    <3>4. /\ d \in CallType /\ d.op = c.op /\ d.item = c.item /\ d.xTicksToWait = left
          /\ d.xEntryTimeSet = TRUE /\ Entered(d) = Now(kernel)
      <4>1. left \in Ticks /\ left # portMAX_DELAY
        BY <2>5, <3>2 DEF Ticks
      <4>2. PICK b : b = [c EXCEPT !.xTicksToWait = left]
        OBVIOUS
      <4>3. /\ b \in CallType /\ b.op = c.op /\ b.item = c.item /\ b.xTicksToWait = left
            /\ b.xEntryTimeSet = TRUE
        BY <1>2, <1>3, <4>1, <4>2 DEF CallType
      <4>4. d = TimeOutSet(b)
        BY <3>3, <4>2
      <4> QED
        BY <1>4, <4>1, <4>3, <4>4, TimeOutSetTime
    <3>5. Phase(d) = "waiting"
      BY <3>2, <3>4 DEF Phase
    <3>6. Deadline(d) = Now(kernel) + left
      BY <3>4, <3>5 DEF Deadline
    <3>7. Now(kernel) + left = Entered(c) + c.xTicksToWait
      BY <2>5, <3>1, <3>2
    <3>8. CallOf(d) = TheCalls[t]
      <4>1. CallOf(d) = [op |-> d.op, msg |-> d.item, phase |-> Phase(d), wait |-> Deadline(d)]
        BY <1>2, <3>4, CallMeaning
      <4> QED
        BY <1>2, <2>1, <3>4, <3>5, <3>6, <3>7, <4>1
    <3>9. call' = [call EXCEPT ![t] = d]
      BY <1>1, <1>7, <2>7, <3>2, <3>3
    <3>10. TheCalls' = [TheCalls EXCEPT ![t] = CallOf(d)]
      BY <3>9, CallsUpdated
    <3>11. TheCalls' = TheCalls
      BY <3>8, <3>10 DEF TheCalls
    <3> QED
      BY <1>5, <3>11
  <2> QED
    BY <2>6, <2>7
<1> QED
  BY <1>6, <1>7

\* Having looked at the clock, a call has time left or gives up.
LEMMA CheckKept ==
  ASSUME IInv, Kept, IInv', NEW t \in Tasks, xTaskCheckForTimeOut(t)
  PROVE  Kept'
<1> DEFINE c == call[t]
           elapsed == (kernel.xTickCount - c.xTimeOut.xTimeOnEntering) % TickRange
           wrapped == /\ kernel.xNumOfOverflows # c.xTimeOut.xOverflowCount
                      /\ kernel.xTickCount >= c.xTimeOut.xTimeOnEntering
           forever == c.xTicksToWait = portMAX_DELAY
           expired == ~forever /\ (wrapped \/ elapsed >= c.xTicksToWait)
<1>1. /\ pc[t] = "check" /\ UNCHANGED <<kernel, queue>>
      /\ pc' = [pc EXCEPT ![t] = IF expired THEN "unlockTx" ELSE "ask"]
      /\ call' = [call EXCEPT ![t] =
           IF expired THEN [c EXCEPT !.xTicksToWait = 0, !.way = "expired"]
           ELSE IF forever THEN c
           ELSE TimeOutSet([c EXCEPT !.xTicksToWait = @ - elapsed])]
  BY DEF xTaskCheckForTimeOut, At, Goto
<1>2. kernel \in KernelType /\ Now(kernel) \in Nat /\ Later /\ c \in CallType
  BY <1>1, Sound DEF Later
<1>3. c.xEntryTimeSet = TRUE /\ c.xTicksToWait # 0
  BY <1>1, <1>2, CallFields DEF Kept, CallsSound, CallOk, HasTime
<1>4. /\ "unlockTx" \notin Free /\ "unlockTx" # "expired" /\ "unlockTx" \notin HasTime
      /\ "ask" \notin Free /\ "ask" # "expired" /\ "ask" \notin Unlocking
  BY DEF Free, HasTime, Unlocking
<1>5. elapsed \in Nat
  <2>1. kernel.xTickCount \in Nat /\ c.xTimeOut.xTimeOnEntering \in Nat /\ TickRange \in Nat \ {0}
    BY <1>2, NowFacts, CallFields, TickFacts
  <2> HIDE DEF c
  <2> QED
    BY <2>1
<1>6. ASSUME NEW d, NEW s, pc' = [pc EXCEPT ![t] = s], call' = [call EXCEPT ![t] = d],
             CallOk(d, s, Now(kernel))
      PROVE  Kept'
  BY <1>1, <1>2, <1>6, CallSoundMoved DEF Kept
<1> HIDE DEF elapsed, wrapped
<1>7. CASE expired
  <2>1. PICK d : d = [c EXCEPT !.xTicksToWait = 0, !.way = "expired"]
    OBVIOUS
  <2>2. d.xTicksToWait = 0 /\ d.xEntryTimeSet = TRUE
    BY <1>2, <1>3, <2>1 DEF CallType
  <2>3. CallOk(d, "unlockTx", Now(kernel))
    BY <1>4, <2>2 DEF CallOk, Phase
  <2> QED
    BY <1>1, <1>6, <1>7, <2>1, <2>3
<1>8. CASE ~expired /\ forever
  <2>1. CallOk(c, "ask", Now(kernel))
    BY <1>3, <1>4, <1>8 DEF CallOk, Phase
  <2> QED
    BY <1>1, <1>6, <1>8, <2>1
<1>9. CASE ~expired /\ ~forever
  <2>1. PICK w \in Ticks : w = c.xTicksToWait
    BY <1>2, CallFields
  <2>2. PICK x \in Nat : x = elapsed
    BY <1>5
  <2>3. w \in Nat /\ portMAX_DELAY \in Nat /\ w <= portMAX_DELAY /\ w # portMAX_DELAY
    BY <1>9, <2>1, TickFacts
  <2>4. x < w
    BY <1>9, <2>1, <2>2, <2>3
  <2>5. w - x \in Ticks /\ w - x # 0 /\ w - x # portMAX_DELAY
    BY <2>3, <2>4 DEF Ticks
  <2>6. PICK left : left = w - x
    OBVIOUS
  <2>7. PICK b : b = [c EXCEPT !.xTicksToWait = left]
    OBVIOUS
  <2>8. b \in CallType /\ b.xTicksToWait = left /\ b.xEntryTimeSet = TRUE
    BY <1>2, <1>3, <2>5, <2>6, <2>7 DEF CallType
  <2>9. PICK d : d = TimeOutSet(b)
    OBVIOUS
  <2>10. d.xTicksToWait = left /\ d.xEntryTimeSet = TRUE /\ Entered(d) = Now(kernel)
    BY <1>2, <2>5, <2>6, <2>8, <2>9, TimeOutSetTime
  <2>11. CallOk(d, "ask", Now(kernel))
    BY <1>2, <1>4, <2>5, <2>6, <2>10 DEF CallOk
  <2>12. call' = [call EXCEPT ![t] = d]
    BY <1>1, <1>9, <2>1, <2>2, <2>6, <2>7, <2>9
  <2> QED
    BY <1>1, <1>6, <1>9, <2>11, <2>12
<1> QED
  BY <1>7, <1>8, <1>9

\* A call whose time is over gives up, or asks once more.
LEMMA ExpiredSim ==
  ASSUME IInv, Calling, Kept, IInv', NEW t \in Tasks, Expired(t)
  PROVE  Kept' /\ Queue!Next
<1>1. pc[t] = "expired" /\ pc[t] \notin Free /\ UNCHANGED <<kernel, queue>>
  BY DEF Expired, At, Free
<1>2. call[t].xEntryTimeSet /\ call[t].xTicksToWait = 0
  BY <1>1 DEF Kept, CallsSound, CallOk
<1>3. CASE Return(t, "fail")
  BY <1>1, <1>2, <1>3, FailSim
<1>4. CASE Goto(t, "try") /\ UNCHANGED call /\ NoReturn
  <2>1. "try" \notin Free /\ "try" \notin HasTime /\ "try" \notin Unlocking /\ "try" # "expired"
    BY DEF Free, HasTime, Unlocking
  <2>2. Stays
    BY <1>1, StaysFacts DEF Kept
  <2> QED
    BY <1>4, <2>1, <2>2, QuietGoes DEF Goto, Kept
<1> QED
  BY <1>3, <1>4 DEF Expired

\* A handler's call, with or without a trace in the lock.
LEMMA HandleSim ==
  ASSUME IInv, Kept, IInv', SameTime(kernel, kernel') \/ UNCHANGED kernel,
         NEW op \in Ops, op # "peek", NEW item \in Item, ~CannotGoOn(queue, op),
         op = "overwrite" => queue.uxLength = 1,
         NEW Q2, Q2 = Done(queue, op, item),
         queue'.storage = Q2.storage, queue'.uxLength = Q2.uxLength,
         queue'.pcWriteTo = Q2.pcWriteTo, queue'.pcReadFrom = Q2.pcReadFrom,
         queue'.uxMessagesWaiting = Q2.uxMessagesWaiting,
         UNCHANGED <<pc, call>>, returned' = <<Isr, Result(queue, op)>>
  PROVE  Kept' /\ Queue!Next
<1>1. PICK n \in Nat \ {0} : n = queue.uxLength
  BY Sound
<1>2. Goes(queue, Q2, op, item)
  <2>1. PICK Q : Q = queue
    OBVIOUS
  <2>2. /\ Q \in QueueType(n) /\ RingOf(Q) /\ ~CannotGoOn(Q, op) /\ Q2 = Done(Q, op, item)
        /\ op = "overwrite" => n = 1
    BY <1>1, <2>1, Sound DEF Kept
  <2>3. Goes(Q, Q2, op, item)
    BY <2>2, DoneContent
  <2> QED
    BY <2>1, <2>3
<1>3. ContentOf(queue') = ContentOf(Q2) /\ RingOf(queue') /\ queue'.uxLength = queue.uxLength
  <2>1. PICK R : R = queue'
    OBVIOUS
  <2>2. ContentOf(R) = ContentOf(Q2) /\ (RingOf(Q2) => RingOf(R))
    BY <2>1, SameRing
  <2> QED
    BY <1>2, <2>1, <2>2 DEF Goes
<1>4. ContentOf(Q2) = Queue!After(op, item) /\ Result(queue, op) = Queue!Got(op)
  BY <1>2, AfterMeaning
<1>5. Later /\ Now(kernel') = Now(kernel)
  BY SameTimeLater, Sound DEF SameTime, Now, Later
<1>6. CallsSound'
  BY <1>5, CallSoundStays DEF Kept
<1>7. TheCalls' = TheCalls
  BY DEF TheCalls
<1>8. Queue!Possible(op)
  BY PossibleMeaning
<1>9. op \in {"send", "sendToFront", "overwrite", "receive"} /\ item \in Items \cup {NoItem}
  BY DEF Ops, Item
<1>10. Queue!Handle
  BY <1>3, <1>4, <1>5, <1>7, <1>8, <1>9 DEF Queue!Handle
<1> QED
  BY <1>3, <1>6, <1>10 DEF Kept, Queue!Next

LEMMA SendFromISRSim ==
  ASSUME IInv, Kept, IInv', xQueueGenericSendFromISR
  PROVE  Kept' /\ Queue!Next
<1>1. PICK c \in IsrCalls :
        /\ c.op \in Sends /\ Allowed(c.op) /\ ~CannotGoOn(queue, c.op)
        /\ IF queue.cTxLock = queueUNLOCKED
           THEN /\ kernel' = Unblock(kernel, "receive")
                /\ queue' = prvCopyDataToQueue(queue, c.op, c.item)
           ELSE /\ UNCHANGED kernel
                /\ queue' = [prvCopyDataToQueue(queue, c.op, c.item) EXCEPT
                               !.cTxLock = Incremented(@)]
        /\ returned' = <<Isr, "pdPASS">> /\ UNCHANGED <<pc, call>>
  BY DEF xQueueGenericSendFromISR
<1>2. PICK op \in Ops, item \in Item : op = c.op /\ item = c.item /\ op \in Sends /\ op # "peek"
  BY <1>1, QueueAssumption DEF QueueAssumption, Item, Sends
<1>3. PICK Q2 : Q2 = Done(queue, op, item)
  OBVIOUS
<1>4. Q2 = prvCopyDataToQueue(queue, op, item) /\ Result(queue, op) = "pdPASS"
  BY <1>2, <1>3 DEF Done, Result, Sends
<1>5. op = "overwrite" => queue.uxLength = 1
  BY <1>1, <1>2 DEF Allowed
<1>6. Q2 \in QueueType(queue.uxLength)
  <2>1. PICK n \in Nat \ {0}, Q \in {queue} : n = queue.uxLength
    BY Sound
  <2>2. /\ Q \in QueueType(n) /\ ~CannotGoOn(Q, op) /\ Q2 = prvCopyDataToQueue(Q, op, item)
        /\ op = "overwrite" => n = 1
    BY <1>1, <1>2, <1>4, <1>5, <2>1, Sound
  <2>3. Q2 \in QueueType(n)
    BY <1>2, <2>2, CopyFacts DEF Item
  <2> QED
    BY <2>1, <2>3
<1>7. /\ queue'.storage = Q2.storage /\ queue'.uxLength = Q2.uxLength
      /\ queue'.pcWriteTo = Q2.pcWriteTo /\ queue'.pcReadFrom = Q2.pcReadFrom
      /\ queue'.uxMessagesWaiting = Q2.uxMessagesWaiting
  <2>1. queue' = Q2 \/ queue' = [Q2 EXCEPT !.cTxLock = Incremented(@)]
    BY <1>1, <1>2, <1>4
  <2> QED
    BY <1>6, <2>1 DEF QueueType
<1>8. SameTime(kernel, kernel') \/ UNCHANGED kernel
  BY <1>1, Sound, UnblockTime
<1>9. UNCHANGED <<pc, call>> /\ returned' = <<Isr, Result(queue, op)>> /\ ~CannotGoOn(queue, op)
  BY <1>1, <1>2, <1>4
<1> QED
  BY <1>2, <1>3, <1>5, <1>7, <1>8, <1>9, HandleSim

LEMMA ReceiveFromISRSim ==
  ASSUME IInv, Kept, IInv', xQueueReceiveFromISR
  PROVE  Kept' /\ Queue!Next
<1>1. /\ ~prvIsQueueEmpty(queue)
      /\ \/ kernel' = Unblock(kernel, "send") /\ queue' = Removed(queue)
         \/ UNCHANGED kernel /\ queue' = [Removed(queue) EXCEPT !.cRxLock = Incremented(@)]
      /\ returned' = <<Isr, prvCopyDataFromQueue(queue)>> /\ UNCHANGED <<pc, call>>
  BY DEF xQueueReceiveFromISR
<1>2. PICK op \in Ops, item \in Item : op = "receive" /\ item = NoItem /\ op # "peek"
  BY DEF Ops, Item
<1>3. PICK Q2 : Q2 = Done(queue, op, item)
  OBVIOUS
<1>4. Q2 = Removed(queue) /\ Result(queue, op) = prvCopyDataFromQueue(queue)
  BY <1>2, <1>3 DEF Done, Result, Sends
<1>5. ~CannotGoOn(queue, op) /\ op # "overwrite"
  BY <1>1, <1>2 DEF CannotGoOn, Sends
<1>6. Q2 \in QueueType(queue.uxLength)
  <2>1. PICK n \in Nat \ {0}, Q \in {queue} : n = queue.uxLength
    BY Sound
  <2>2. Q \in QueueType(n) /\ ~prvIsQueueEmpty(Q) /\ Q2 = Removed(Q)
    BY <1>1, <1>4, <2>1, Sound
  <2>3. Q2 \in QueueType(n)
    BY <2>2, RemovedFacts
  <2> QED
    BY <2>1, <2>3
<1>7. /\ queue'.storage = Q2.storage /\ queue'.uxLength = Q2.uxLength
      /\ queue'.pcWriteTo = Q2.pcWriteTo /\ queue'.pcReadFrom = Q2.pcReadFrom
      /\ queue'.uxMessagesWaiting = Q2.uxMessagesWaiting
  <2>1. queue' = Q2 \/ queue' = [Q2 EXCEPT !.cRxLock = Incremented(@)]
    BY <1>1, <1>4
  <2> QED
    BY <1>6, <2>1 DEF QueueType
<1>8. SameTime(kernel, kernel') \/ UNCHANGED kernel
  BY <1>1, Sound, UnblockTime
<1>9. UNCHANGED <<pc, call>> /\ returned' = <<Isr, Result(queue, op)>>
  BY <1>1, <1>4
<1> QED
  BY <1>2, <1>3, <1>5, <1>7, <1>8, <1>9, HandleSim

\* The queue is reset.
LEMMA ResetSim ==
  ASSUME IInv, Kept, IInv', NEW t \in Tasks, xQueueGenericReset(t)
  PROVE  Kept' /\ Queue!Next
<1>1. /\ queue' = Empty(queue.uxLength) /\ kernel' = Unblock(kernel, "send")
      /\ UNCHANGED <<pc, call>> /\ NoReturn
  BY DEF xQueueGenericReset
<1>2. ContentOf(queue') = <<>> /\ RingOf(queue') /\ queue'.uxLength = queue.uxLength
  <2>1. PICK n \in Nat \ {0}, Q \in {queue'} : n = queue.uxLength
    BY Sound
  <2>2. Q = Empty(n) /\ Q \in QueueType(n) /\ Q.uxLength = n
    BY <1>1, <2>1, EmptyFacts
  <2>3. RingOf(Q) /\ ContentOf(Q) = <<>>
    BY <2>2, EmptyContent
  <2> QED
    BY <2>1, <2>2, <2>3
<1>3. SameTime(kernel, kernel')
  BY <1>1, Sound, UnblockTime
<1>4. Later /\ Now(kernel') = Now(kernel)
  BY <1>3, SameTimeLater DEF SameTime, Now
<1>5. CallsSound'
  BY <1>1, <1>4, CallSoundStays DEF Kept
<1>6. TheCalls' = TheCalls
  BY <1>1 DEF TheCalls
<1>7. Queue!Reset
  BY <1>1, <1>2, <1>4, <1>6 DEF Queue!Reset, NoReturn
<1> QED
  BY <1>2, <1>5, <1>7 DEF Kept, Queue!Next

-----------------------------------------------------------------------------
(* The theorems.                                                            *)

\* What a step of one task in the queue's services means.
LEMMA TaskSim ==
  ASSUME IInv, Calling, Kept, IInv', NEW t \in Tasks,
         \/ Call(t) \/ Try(t) \/ SuspendAll(t) \/ prvLockQueue(t)
         \/ xTaskCheckForTimeOut(t) \/ Ask(t) \/ vTaskPlaceOnEventList(t)
         \/ prvUnlockQueue_Tx(t) \/ prvUnlockQueue_Rx(t) \/ ResumeAll(t)
         \/ Queue_Yield(t) \/ Expired(t) \/ xQueueGenericReset(t)
  PROVE  Kept' /\ (Prompt => Queue!Next)
<1>1. CASE xTaskCheckForTimeOut(t)
  BY <1>1, CheckKept, CheckSim DEF Prompt
<1>2. CASE Call(t) \/ Try(t) \/ Expired(t) \/ xQueueGenericReset(t)
  BY <1>2, CallSim, TrySim, ExpiredSim, ResetSim
<1>3. CASE \/ SuspendAll(t) \/ prvLockQueue(t) \/ Ask(t) \/ vTaskPlaceOnEventList(t)
           \/ prvUnlockQueue_Tx(t) \/ prvUnlockQueue_Rx(t) \/ ResumeAll(t) \/ Queue_Yield(t)
  BY <1>3, SuspendAllSim, LockSim, AskSim, PlaceSim, UnlockSim, ResumeAllSim, QueueYieldSim
<1> QED
  BY <1>1, <1>2, <1>3

\* Every step keeps ring and calls sound, and is one of the service or is not seen.
LEMMA StepSim ==
  ASSUME IInv, Calling, Kept, IInv', [Next]_vars
  PROVE  Kept' /\ (Prompt => [Queue!Next]_<<ContentOf(queue), queue.uxLength, Now(kernel),
                                             TheCalls, returned>>)
<1>1. CASE TasksNext /\ UNCHANGED <<queue, call>> /\ NoReturn
  BY <1>1, TasksSim
<1>2. CASE xQueueGenericSendFromISR \/ xQueueReceiveFromISR
  BY <1>2, SendFromISRSim, ReceiveFromISRSim
<1>3. ASSUME NEW t \in Tasks,
             \/ Call(t) \/ Try(t) \/ SuspendAll(t) \/ prvLockQueue(t)
             \/ xTaskCheckForTimeOut(t) \/ Ask(t) \/ vTaskPlaceOnEventList(t)
             \/ prvUnlockQueue_Tx(t) \/ prvUnlockQueue_Rx(t) \/ ResumeAll(t)
             \/ Queue_Yield(t) \/ Expired(t) \/ xQueueGenericReset(t)
      PROVE  Kept' /\ (Prompt => Queue!Next)
  BY <1>3, TaskSim
<1>4. CASE UNCHANGED vars
  <2>1. UNCHANGED <<kernel, pc, queue, call, returned>>
    BY <1>4 DEF vars
  <2>2. Kept'
    BY <2>1 DEF Kept, CallsSound
  <2>3. UNCHANGED <<ContentOf(queue), queue.uxLength, Now(kernel), TheCalls, returned>>
    BY <2>1 DEF TheCalls
  <2> QED
    BY <2>2, <2>3
<1> QED
  BY <1>1, <1>2, <1>3, <1>4 DEF Next

\* The queue is empty and nobody calls.
LEMMA InitSim ==
  ASSUME QueueInit
  PROVE  Kept /\ Queue!Init
<1>1. IInv
  BY InitSound
<1>2. PICK n \in Nat \ {0} : n = queue.uxLength /\ queue = Empty(n)
  <2>1. PICK n \in Lengths : queue = Empty(n)
    BY DEF QueueInit
  <2>2. n \in Nat \ {0}
    BY QueueAssumption DEF QueueAssumption
  <2> QED
    BY <2>1, <2>2, EmptyFacts
<1>3. RingOf(queue) /\ ContentOf(queue) = <<>>
  <2>1. PICK Q : Q = queue
    OBVIOUS
  <2>2. Q = Empty(n) /\ Q \in QueueType(n)
    BY <1>2, <2>1, EmptyFacts
  <2> QED
    BY <2>1, <2>2, EmptyContent
<1>4. \A t \in Tasks : call[t] = NoCall /\ pc[t] = "app"
  BY DEF QueueInit, TasksInit
<1>5. CallsSound
  <2>1. CallOk(NoCall, "app", Now(kernel))
    BY DEF CallOk, NoCall, Phase, HasTime, Unlocking
  <2> QED
    BY <1>4, <2>1 DEF CallsSound
<1>6. TheCalls = [t \in Tasks |-> Queue!Idle]
  <2>1. CallOf(NoCall) = Queue!Idle
    BY NoCallType, CallMeaning
  <2> QED
    BY <1>4, <2>1 DEF TheCalls
<1>7. returned = <<>> /\ Now(kernel) \in Nat /\ queue.uxLength \in Nat \ {0}
  BY <1>1, Sound DEF QueueInit
<1> QED
  BY <1>3, <1>5, <1>6, <1>7 DEF Kept, Queue!Init

\* The messages lie in the ring one behind the other, up to the writing place, and
\* a call waits, has its timeout set or has given up just where the code says so.
THEOREM RingIsSound == Spec => []Kept
<1>1. QueueInit => Kept
  BY InitSim
<1>2. IInv /\ Calling /\ Kept /\ IInv' /\ [Next]_vars => Kept'
  BY StepSim
<1> QED
  BY <1>1, <1>2, Invariant, PTL DEF Spec

\* Whatever the queue's length, the width of the tick count, and what tasks, handlers
\* and ticks do in between: messages keep their order, none is lost, duplicated or
\* handed out twice, a call takes effect once, and fails only when it may.  Every
\* task that waits with a timeout looks at the clock within a turn of the tick count.
THEOREM QueueImplementsService == Spec /\ []Prompt => IsBoundedQueue
<1>1. QueueInit => Queue!Init
  BY InitSim
<1>2. IInv /\ Calling /\ Kept /\ IInv' /\ Prompt /\ [Next]_vars =>
        [Queue!Next]_<<ContentOf(queue), queue.uxLength, Now(kernel), TheCalls, returned>>
  BY StepSim
<1> QED
  BY <1>1, <1>2, Invariant, RingIsSound, PTL DEF Spec, IsBoundedQueue, Queue!Spec
=============================================================================
