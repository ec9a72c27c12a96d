------------------------- MODULE ThreadListsProofs -------------------------
(***************************************************************************)
(* What the operators of ThreadLists do to the members of a list.           *)
(***************************************************************************)
EXTENDS ThreadLists, WellFoundedInduction, SequenceTheorems, TLAPS

\* A non-empty set of natural numbers has a least member.
LEMMA NatMin ==
    ASSUME NEW S, S \subseteq Nat, S # {}
    PROVE  \E x \in S : \A y \in S : x =< y
<1>1. IsWellFoundedOn(OpToRel(<, Nat), Nat)
  BY NatLessThanWellFounded
<1>2. PICK x \in S : \A y \in S : ~(<<y, x>> \in OpToRel(<, Nat))
  BY <1>1, WFMin
<1>3. \A y \in S : ~(y < x)
  BY <1>2 DEF OpToRel
<1> QED
  BY <1>3

\* A non-empty set of natural numbers with a bound has a greatest member.
LEMMA NatMax ==
    ASSUME NEW n \in Nat, NEW S, S \subseteq 0 .. n, S # {}
    PROVE  \E x \in S : \A y \in S : x >= y
<1> DEFINE T == {k \in Nat : n - k \in S}
<1>1. PICK z \in S : TRUE
  OBVIOUS
<1>2. z \in Nat /\ z =< n /\ n - (n - z) = z
  BY <1>1
<1>3. T \subseteq Nat /\ n - z \in T
  BY <1>1, <1>2
<1> HIDE DEF T
<1>4. PICK m \in T : \A y \in T : m =< y
  BY <1>3, NatMin
<1>5. n - m \in S /\ m \in Nat
  BY <1>4 DEF T
<1>6. ASSUME NEW y \in S PROVE n - m >= y
  <2>1. n - y \in T
    BY n - (n - y) = y DEF T
  <2> QED
    BY <2>1, <1>4, <1>5
<1> QED
  BY <1>5, <1>6

---------------------------------------------------------------------------

\* What SelectInSeq returns for a thread: its place on the list.
LEMMA PlaceOf ==
    ASSUME NEW S, NEW list \in Seq(S), NEW t
    PROVE  LET i == SelectInSeq(list, LAMBDA u : u = t)
           IN  /\ i = 0 => \A j \in 1 .. Len(list) : list[j] # t
               /\ i # 0 => i \in 1 .. Len(list) /\ list[i] = t
<1> DEFINE I == {j \in 1 .. Len(list) : list[j] = t}
<1>1. SelectInSeq(list, LAMBDA u : u = t) = IF I # {} THEN Min(I) ELSE 0
  BY DEF SelectInSeq
<1>2. CASE I = {}
  BY <1>1, <1>2
<1>3. CASE I # {}
  <2>1. I \subseteq Nat
    OBVIOUS
  <2>2. \E x \in I : \A y \in I : x =< y
    BY <1>3, <2>1, NatMin
  <2>3. Min(I) \in I
    BY <2>2 DEF Min
  <2> QED
    BY <1>1, <1>3, <2>3
<1> QED
  BY <1>2, <1>3

\* list_insert finds a place on the list.
LEMMA ListInsertPlace ==
    ASSUME NEW S, NEW list \in Seq(S), NEW t, NEW priority
    PROVE  \E k \in 0 .. Len(list) : ListInsert(list, t, priority) = InsertAt(list, k + 1, t)
<1> DEFINE I == {j \in 1 .. Len(list) : priority[list[j]] >= priority[t]}
           k == IF I # {} THEN Max(I) ELSE 0
<1>1. ListInsert(list, t, priority) = InsertAt(list, k + 1, t)
  BY DEF ListInsert, SelectLastInSeq
<1>2. k \in 0 .. Len(list)
  <2>1. CASE I = {}
    BY <2>1
  <2>2. CASE I # {}
    <3>1. I \subseteq 0 .. Len(list) /\ Len(list) \in Nat
      OBVIOUS
    <3>2. \E x \in I : \A y \in I : x >= y
      BY <2>2, <3>1, NatMax
    <3>3. Max(I) \in I
      BY <3>2 DEF Max
    <3> QED
      BY <2>2, <3>3
  <2> QED
    BY <2>1, <2>2
<1> QED
  BY <1>1, <1>2

\* So does timer_list_insert.
LEMMA TimerListInsertPlace ==
    ASSUME NEW S, NEW list \in Seq(S), NEW t, NEW expiry
    PROVE  \E k \in 0 .. Len(list) : TimerListInsert(list, t, expiry) = InsertAt(list, k + 1, t)
<1> DEFINE I == {j \in 1 .. Len(list) : expiry[list[j]] <= expiry[t]}
           k == IF I # {} THEN Max(I) ELSE 0
<1>1. TimerListInsert(list, t, expiry) = InsertAt(list, k + 1, t)
  BY DEF TimerListInsert, SelectLastInSeq
<1>2. k \in 0 .. Len(list)
  <2>1. CASE I = {}
    BY <2>1
  <2>2. CASE I # {}
    <3>1. I \subseteq 0 .. Len(list) /\ Len(list) \in Nat
      OBVIOUS
    <3>2. \E x \in I : \A y \in I : x >= y
      BY <2>2, <3>1, NatMax
    <3>3. Max(I) \in I
      BY <3>2 DEF Max
    <3> QED
      BY <2>2, <3>3
  <2> QED
    BY <2>1, <2>2
<1> QED
  BY <1>1, <1>2

\* InsertAt moves the rest of the list up.
LEMMA InsertAtProperties ==
    ASSUME NEW S, NEW list \in Seq(S), NEW t \in S, NEW i \in 1 .. Len(list) + 1
    PROVE  /\ InsertAt(list, i, t) \in Seq(S)
           /\ Len(InsertAt(list, i, t)) = Len(list) + 1
           /\ \A j \in 1 .. Len(list) + 1 :
                InsertAt(list, i, t)[j] =
                    IF j < i THEN list[j] ELSE IF j = i THEN t ELSE list[j - 1]
<1> DEFINE front == SubSeq(list, 1, i - 1)
           back == SubSeq(list, i, Len(list))
<1>1. /\ front \in Seq(S)
      /\ Len(front) = i - 1
      /\ \A j \in 1 .. i - 1 : front[j] = list[j]
  OBVIOUS
<1>2. /\ back \in Seq(S)
      /\ Len(back) = Len(list) + 1 - i
      /\ \A j \in 1 .. Len(list) + 1 - i : back[j] = list[i + j - 1]
  OBVIOUS
<1>3. InsertAt(list, i, t) = (front \o <<t>>) \o back
  BY DEF InsertAt
<1> HIDE DEF front, back
<1>4. /\ front \o <<t>> \in Seq(S)
      /\ Len(front \o <<t>>) = i
      /\ \A j \in 1 .. i : (front \o <<t>>)[j] = IF j < i THEN list[j] ELSE t
  BY <1>1
<1> DEFINE begin == front \o <<t>>
           whole == begin \o back
<1>5. /\ whole \in Seq(S)
      /\ Len(whole) = Len(begin) + Len(back)
      /\ \A j \in 1 .. Len(begin) + Len(back) :
           whole[j] = IF j <= Len(begin) THEN begin[j] ELSE back[j - Len(begin)]
  <2>1. begin \in Seq(S)
    BY <1>4
  <2>2. back \in Seq(S)
    BY <1>2
  <2> HIDE DEF begin
  <2> QED
    BY <2>1, <2>2, ConcatProperties, Zenon
<1>6. \A j \in i + 1 .. Len(list) + 1 : back[j - i] = list[j - 1]
  BY <1>2
<1>7. /\ Len(begin) = i
      /\ \A j \in 1 .. i : begin[j] = IF j < i THEN list[j] ELSE t
  BY <1>4
<1>8. InsertAt(list, i, t) = whole
  BY <1>3
<1> HIDE DEF begin, whole
<1> QED
  BY <1>2, <1>5, <1>6, <1>7, <1>8

\* RemoveAt moves it down.
LEMMA RemoveAtProperties ==
    ASSUME NEW S, NEW list \in Seq(S), NEW i \in 1 .. Len(list)
    PROVE  /\ RemoveAt(list, i) \in Seq(S)
           /\ Len(RemoveAt(list, i)) = Len(list) - 1
           /\ \A j \in 1 .. Len(list) - 1 :
                RemoveAt(list, i)[j] = IF j < i THEN list[j] ELSE list[j + 1]
<1> DEFINE front == SubSeq(list, 1, i - 1)
           back == SubSeq(list, i + 1, Len(list))
<1>1. /\ front \in Seq(S)
      /\ Len(front) = i - 1
      /\ \A j \in 1 .. i - 1 : front[j] = list[j]
  OBVIOUS
<1>2. /\ back \in Seq(S)
      /\ Len(back) = Len(list) - i
      /\ \A j \in 1 .. Len(list) - i : back[j] = list[i + j]
  OBVIOUS
<1>3. RemoveAt(list, i) = front \o back
  BY DEF RemoveAt
<1> HIDE DEF front, back
<1>4. \A j \in i .. Len(list) - 1 : back[j - (i - 1)] = list[j + 1]
  BY <1>2
<1> DEFINE whole == front \o back
<1>5. /\ whole \in Seq(S)
      /\ Len(whole) = Len(front) + Len(back)
      /\ \A j \in 1 .. Len(front) + Len(back) :
           whole[j] = IF j <= Len(front) THEN front[j] ELSE back[j - Len(front)]
  <2>1. front \in Seq(S) /\ back \in Seq(S)
    BY <1>1, <1>2
  <2> QED
    BY <2>1, ConcatProperties, Zenon
<1>6. RemoveAt(list, i) = whole
  BY <1>3
<1> HIDE DEF whole
<1> QED
  <2>1. Len(whole) = Len(list) - 1
    BY <1>1, <1>2, <1>5
  <2>2. ASSUME NEW j \in 1 .. Len(list) - 1
        PROVE  whole[j] = IF j < i THEN list[j] ELSE list[j + 1]
    <3>1. whole[j] = IF j <= i - 1 THEN front[j] ELSE back[j - (i - 1)]
      BY <1>1, <1>2, <1>5
    <3>2. CASE j < i
      BY <1>1, <3>1, <3>2
    <3>3. CASE ~(j < i)
      BY <1>4, <3>1, <3>3
    <3> QED
      BY <3>2, <3>3
  <2> QED
    BY <1>5, <1>6, <2>1, <2>2

\* Rotating a list turns it round.
LEMMA RotateProperties ==
    ASSUME NEW S, NEW list \in Seq(S), NEW i \in 1 .. Len(list)
    PROVE  LET turned == SubSeq(list, i + 1, Len(list)) \o SubSeq(list, 1, i)
           IN  /\ turned \in Seq(S)
               /\ Len(turned) = Len(list)
               /\ \A j \in 1 .. Len(list) :
                    turned[j] = IF j <= Len(list) - i THEN list[j + i]
                                ELSE list[j - (Len(list) - i)]
<1> DEFINE front == SubSeq(list, i + 1, Len(list))
           back == SubSeq(list, 1, i)
<1>1. /\ front \in Seq(S)
      /\ Len(front) = Len(list) - i
      /\ \A j \in 1 .. Len(list) - i : front[j] = list[j + i]
  OBVIOUS
<1>2. /\ back \in Seq(S)
      /\ Len(back) = i
      /\ \A j \in 1 .. i : back[j] = list[j]
  OBVIOUS
<1> HIDE DEF front, back
<1> DEFINE whole == front \o back
<1>3. /\ whole \in Seq(S)
      /\ Len(whole) = Len(front) + Len(back)
      /\ \A j \in 1 .. Len(front) + Len(back) :
           whole[j] = IF j <= Len(front) THEN front[j] ELSE back[j - Len(front)]
  <2>1. front \in Seq(S) /\ back \in Seq(S)
    BY <1>1, <1>2
  <2> QED
    BY <2>1, ConcatProperties, Zenon
<1>4. SubSeq(list, i + 1, Len(list)) \o SubSeq(list, 1, i) = whole
  BY DEF front, back
<1> HIDE DEF whole
<1> QED
  <2>1. Len(whole) = Len(list)
    BY <1>1, <1>2, <1>3
  <2>2. ASSUME NEW j \in 1 .. Len(list)
        PROVE  whole[j] = IF j <= Len(list) - i THEN list[j + i]
                          ELSE list[j - (Len(list) - i)]
    <3>1. whole[j] = IF j <= Len(list) - i THEN front[j] ELSE back[j - (Len(list) - i)]
      BY <1>1, <1>2, <1>3
    <3>2. CASE j <= Len(list) - i
      BY <1>1, <3>1, <3>2
    <3>3. CASE ~(j <= Len(list) - i)
      BY <1>2, <3>1, <3>3
    <3> QED
      BY <3>2, <3>3
  <2> QED
    BY <1>3, <1>4, <2>1, <2>2, Zenon

---------------------------------------------------------------------------

\* The members of a list, by their places.
LEMMA Members ==
    ASSUME NEW S, NEW list \in Seq(S), NEW x
    PROVE  x \in ToSet(list) <=> \E j \in 1 .. Len(list) : list[j] = x
  BY DEF ToSet

\* Inserting adds the thread and nothing else.
LEMMA InsertAtHolds ==
    ASSUME NEW S, NEW list \in Seq(S), NEW t \in S, NEW i \in 1 .. Len(list) + 1,
           NEW T, Holds(list, T), t \notin T
    PROVE  Holds(InsertAt(list, i, t), T \cup {t})
<1> DEFINE new == InsertAt(list, i, t)
<1>1. /\ new \in Seq(S)
      /\ Len(new) = Len(list) + 1
      /\ \A j \in 1 .. Len(list) + 1 :
           new[j] = IF j < i THEN list[j] ELSE IF j = i THEN t ELSE list[j - 1]
  BY InsertAtProperties
<1> HIDE DEF new
<1>2. \A j \in 1 .. Len(list) : list[j] \in T /\ list[j] # t
  BY Members DEF Holds
<1>3. \A j, k \in 1 .. Len(list) : list[j] = list[k] => j = k
  BY DEF Holds
<1>4. ASSUME NEW j \in 1 .. Len(new), NEW k \in 1 .. Len(new), new[j] = new[k]
      PROVE  j = k
  <2>1. ASSUME NEW m \in 1 .. Len(new), m # i
        PROVE  \E n \in 1 .. Len(list) : new[m] = list[n] /\ m = IF n < i THEN n ELSE n + 1
    <3>1. new[m] = IF m < i THEN list[m] ELSE IF m = i THEN t ELSE list[m - 1]
      BY <1>1
    <3>2. Len(new) = Len(list) + 1 /\ Len(list) \in Nat
      BY <1>1
    <3>3. CASE m < i
      <4>1. m \in 1 .. Len(list) /\ new[m] = list[m]
        BY <3>1, <3>2, <3>3
      <4> QED
        BY <3>3, <4>1
    <3>4. CASE m > i
      <4> DEFINE n == m - 1
      <4>1. n \in 1 .. Len(list) /\ m = n + 1 /\ ~(n < i)
        BY <3>2, <3>4
      <4>2. new[m] = list[n]
        BY <3>1, <3>4
      <4> HIDE DEF n
      <4> QED
        BY <4>1, <4>2
    <3> QED
      BY <2>1, <3>3, <3>4
  <2>2. new[i] = t
    BY <1>1
  <2>3. CASE j = i \/ k = i
    BY <1>2, <1>4, <2>1, <2>2, <2>3
  <2>4. CASE j # i /\ k # i
    <3>1. PICK m \in 1 .. Len(list) : new[j] = list[m] /\ j = IF m < i THEN m ELSE m + 1
      BY <2>1, <2>4
    <3>2. PICK n \in 1 .. Len(list) : new[k] = list[n] /\ k = IF n < i THEN n ELSE n + 1
      BY <2>1, <2>4
    <3>3. m = n
      BY <1>3, <1>4, <3>1, <3>2
    <3> QED
      BY <3>1, <3>2, <3>3
  <2> QED
    BY <2>3, <2>4
<1>5. ASSUME NEW x \in T PROVE \E j \in 1 .. Len(new) : new[j] = x
  <2>1. PICK j \in 1 .. Len(list) : list[j] = x
    BY Members DEF Holds
  <2>2. CASE j < i
    BY <1>1, <2>1, <2>2
  <2>3. CASE ~(j < i)
    <3>1. j + 1 \in 1 .. Len(new) /\ new[j + 1] = x
      BY <1>1, <2>1, <2>3
    <3> QED
      BY <3>1
  <2> QED
    BY <2>2, <2>3
<1>6. i \in 1 .. Len(new) /\ new[i] = t
  BY <1>1
<1>7. \A j \in 1 .. Len(new) : new[j] \in T \cup {t}
  BY <1>1, <1>2
<1>8. ToSet(new) = T \cup {t}
  BY <1>1, <1>5, <1>6, <1>7, Members
<1> QED
  BY <1>4, <1>8 DEF Holds, new

\* Removing takes the thread out and nothing else.
LEMMA ListRemoveHolds ==
    ASSUME NEW S, NEW list \in Seq(S), NEW T, NEW t \in T, Holds(list, T)
    PROVE  /\ ListRemove(list, t) \in Seq(S)
           /\ Holds(ListRemove(list, t), T \ {t})
<1> DEFINE i == SelectInSeq(list, LAMBDA u : u = t)
           new == RemoveAt(list, i)
<1>1. \E j \in 1 .. Len(list) : list[j] = t
  BY Members DEF Holds
<1>2. i \in 1 .. Len(list) /\ list[i] = t
  BY <1>1, PlaceOf
<1>3. ListRemove(list, t) = new
  BY DEF ListRemove
<1> HIDE DEF i
<1>4. /\ new \in Seq(S)
      /\ Len(new) = Len(list) - 1
      /\ \A j \in 1 .. Len(list) - 1 :
           new[j] = IF j < i THEN list[j] ELSE list[j + 1]
  BY <1>2, RemoveAtProperties
<1> HIDE DEF new
<1>5. \A j, k \in 1 .. Len(list) : list[j] = list[k] => j = k
  BY DEF Holds
<1>6. \A j, k \in 1 .. Len(new) : new[j] = new[k] => j = k
  BY <1>2, <1>4, <1>5
<1>7. \A j \in 1 .. Len(list) : list[j] \in T
  BY Members DEF Holds
<1>8. \A j \in 1 .. Len(new) : new[j] \in T /\ new[j] # t
  BY <1>2, <1>4, <1>5, <1>7
<1>9. ASSUME NEW x \in T, x # t PROVE \E j \in 1 .. Len(new) : new[j] = x
  <2>1. PICK j \in 1 .. Len(list) : list[j] = x
    BY Members DEF Holds
  <2>2. j # i
    BY <1>2, <1>9, <2>1
  <2>3. CASE j < i
    <3>1. j \in 1 .. Len(new) /\ new[j] = x
      BY <1>2, <1>4, <2>1, <2>3
    <3> QED
      BY <3>1
  <2>4. CASE j > i
    <3>1. j - 1 \in 1 .. Len(new) /\ new[j - 1] = x
      BY <1>2, <1>4, <2>1, <2>4
    <3> QED
      BY <3>1
  <2> QED
    BY <1>2, <2>2, <2>3, <2>4
<1>10. ToSet(new) = T \ {t}
  BY <1>4, <1>8, <1>9, Members
<1> QED
  BY <1>3, <1>4, <1>6, <1>10 DEF Holds

\* list_insert adds the thread to the list.
LEMMA ListInsertHolds ==
    ASSUME NEW S, NEW list \in Seq(S), NEW t \in S, NEW T, Holds(list, T), t \notin T,
           NEW priority
    PROVE  /\ ListInsert(list, t, priority) \in Seq(S)
           /\ Holds(ListInsert(list, t, priority), T \cup {t})
<1>2. PICK k \in 0 .. Len(list) : ListInsert(list, t, priority) = InsertAt(list, k + 1, t)
  BY ListInsertPlace
<1>3. k + 1 \in 1 .. Len(list) + 1
  OBVIOUS
<1>4. InsertAt(list, k + 1, t) \in Seq(S)
  BY <1>3, InsertAtProperties
<1>5. Holds(InsertAt(list, k + 1, t), T \cup {t})
  BY <1>3, InsertAtHolds
<1> QED
  BY <1>2, <1>4, <1>5

\* So does timer_list_insert.
LEMMA TimerListInsertHolds ==
    ASSUME NEW S, NEW list \in Seq(S), NEW t \in S, NEW T, Holds(list, T), t \notin T,
           NEW expiry
    PROVE  /\ TimerListInsert(list, t, expiry) \in Seq(S)
           /\ Holds(TimerListInsert(list, t, expiry), T \cup {t})
<1>2. PICK k \in 0 .. Len(list) : TimerListInsert(list, t, expiry) = InsertAt(list, k + 1, t)
  BY TimerListInsertPlace
<1>3. k + 1 \in 1 .. Len(list) + 1
  OBVIOUS
<1>4. InsertAt(list, k + 1, t) \in Seq(S)
  BY <1>3, InsertAtProperties
<1>5. Holds(InsertAt(list, k + 1, t), T \cup {t})
  BY <1>3, InsertAtHolds
<1> QED
  BY <1>2, <1>4, <1>5

\* Rotating keeps the members.
LEMMA RotateHolds ==
    ASSUME NEW S, NEW list \in Seq(S), NEW T, NEW t \in T, Holds(list, T)
    PROVE  Rotate(list, t) \in Seq(S) /\ Holds(Rotate(list, t), T)
<1> DEFINE i == SelectInSeq(list, LAMBDA u : u = t)
           new == SubSeq(list, i + 1, Len(list)) \o SubSeq(list, 1, i)
<1>1. \E j \in 1 .. Len(list) : list[j] = t
  BY Members DEF Holds
<1>2. i \in 1 .. Len(list)
  BY <1>1, PlaceOf
<1>3. Rotate(list, t) = new
  BY DEF Rotate
<1> HIDE DEF i
<1>4. /\ new \in Seq(S)
      /\ Len(new) = Len(list)
      /\ \A j \in 1 .. Len(list) :
           new[j] = IF j <= Len(list) - i THEN list[j + i]
                    ELSE list[j - (Len(list) - i)]
  BY <1>2, RotateProperties
<1> HIDE DEF new
<1>5. \A j, k \in 1 .. Len(list) : list[j] = list[k] => j = k
  BY DEF Holds
<1>6. ASSUME NEW j \in 1 .. Len(new), NEW k \in 1 .. Len(new), new[j] = new[k]
      PROVE  j = k
  <2>1. ASSUME NEW m \in 1 .. Len(new)
        PROVE  \E n \in 1 .. Len(list) :
                 new[m] = list[n] /\ m = IF n > i THEN n - i ELSE n + (Len(list) - i)
    <3>1. new[m] = IF m <= Len(list) - i THEN list[m + i] ELSE list[m - (Len(list) - i)]
      BY <1>4
    <3>2. Len(new) = Len(list) /\ Len(list) \in Nat
      BY <1>4
    <3>3. CASE m <= Len(list) - i
      <4> DEFINE n == m + i
      <4>1. n \in 1 .. Len(list) /\ m = n - i /\ n > i
        BY <1>2, <3>2, <3>3
      <4>2. new[m] = list[n]
        BY <3>1, <3>3
      <4> HIDE DEF n
      <4> QED
        BY <4>1, <4>2
    <3>4. CASE ~(m <= Len(list) - i)
      <4> DEFINE n == m - (Len(list) - i)
      <4>1. n \in 1 .. Len(list) /\ m = n + (Len(list) - i) /\ ~(n > i)
        BY <1>2, <3>2, <3>4
      <4>2. new[m] = list[n]
        BY <3>1, <3>4
      <4> HIDE DEF n
      <4> QED
        BY <4>1, <4>2
    <3> QED
      BY <3>3, <3>4
  <2>2. PICK m \in 1 .. Len(list) :
          new[j] = list[m] /\ j = IF m > i THEN m - i ELSE m + (Len(list) - i)
    BY <2>1
  <2>3. PICK n \in 1 .. Len(list) :
          new[k] = list[n] /\ k = IF n > i THEN n - i ELSE n + (Len(list) - i)
    BY <2>1
  <2>4. m = n
    BY <1>5, <1>6, <2>2, <2>3
  <2> QED
    BY <2>2, <2>3, <2>4
<1>7. \A j \in 1 .. Len(new) : new[j] \in T
  <2>1. \A j \in 1 .. Len(list) : list[j] \in T
    BY Members DEF Holds
  <2>2. ASSUME NEW j \in 1 .. Len(new) PROVE new[j] \in T
    <3>1. new[j] = IF j <= Len(list) - i THEN list[j + i] ELSE list[j - (Len(list) - i)]
      BY <1>4
    <3>2. Len(new) = Len(list) /\ Len(list) \in Nat
      BY <1>4
    <3> QED
      BY <1>2, <2>1, <3>1, <3>2
  <2> QED
    BY <2>2
<1>8. ASSUME NEW x \in T PROVE \E j \in 1 .. Len(new) : new[j] = x
  <2>1. PICK j \in 1 .. Len(list) : list[j] = x
    BY Members DEF Holds
  <2>2. CASE j > i
    <3> DEFINE k == j - i
    <3>1. k \in 1 .. Len(list) /\ k <= Len(list) - i /\ k + i = j
      BY <1>2, <2>2
    <3> HIDE DEF k
    <3>2. new[k] = x /\ k \in 1 .. Len(new)
      BY <1>4, <2>1, <3>1
    <3> QED
      BY <3>2
  <2>3. CASE j <= i
    <3> DEFINE k == j + (Len(list) - i)
    <3>1. k \in 1 .. Len(list) /\ ~(k <= Len(list) - i) /\ k - (Len(list) - i) = j
      BY <1>2, <2>3
    <3> HIDE DEF k
    <3>2. new[k] = x /\ k \in 1 .. Len(new)
      BY <1>4, <2>1, <3>1
    <3> QED
      BY <3>2
  <2> QED
    BY <1>2, <2>2, <2>3
<1>9. ToSet(new) = T
  <2>1. ASSUME NEW x PROVE x \in ToSet(new) <=> x \in T
    <3>1. x \in ToSet(new) <=> \E j \in 1 .. Len(new) : new[j] = x
      BY <1>4, Members
    <3> QED
      BY <1>7, <1>8, <3>1
  <2> QED
    BY <2>1
<1> QED
  BY <1>3, <1>4, <1>6, <1>9 DEF Holds
=============================================================================
