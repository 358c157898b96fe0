-------------------------- MODULE QueueStoreProofs --------------------------
(***************************************************************************)
(* What the list operations of QueueStore return: the elements they keep    *)
(* and that they repeat none.                                               *)
(***************************************************************************)
EXTENDS QueueStore, SequenceTheorems, TLAPS

(* lpush adds its id, and only it, to what the list holds. *)
LEMMA LpushFacts ==
    ASSUME NEW S, NEW list \in Seq(S), NEW id \in S
    PROVE  /\ lpush(list, id) \in Seq(S)
           /\ Elems(lpush(list, id)) = Elems(list) \cup {id}
           /\ NoRepeat(list) /\ id \notin Elems(list) => NoRepeat(lpush(list, id))
<1> DEFINE new == lpush(list, id)
<1>1. /\ new \in Seq(S) /\ Len(new) = Len(list) + 1 /\ new[1] = id
      /\ \A i \in 1 .. Len(list) : new[i + 1] = list[i]
  BY DEF lpush
<1>2. \A i \in 2 .. Len(new) : i - 1 \in 1 .. Len(list) /\ new[i] = list[i - 1]
  BY <1>1
<1> HIDE DEF new
<1>3. Elems(new) = Elems(list) \cup {id}
  <2>1. \A i \in 1 .. Len(list) : i + 1 \in 1 .. Len(new)
    BY <1>1
  <2>2. \A i \in 1 .. Len(new) : i = 1 \/ i \in 2 .. Len(new)
    BY <1>1
  <2>3. Elems(new) \subseteq Elems(list) \cup {id}
    BY <1>1, <1>2, <2>2 DEF Elems
  <2>4. id \in Elems(new) /\ Elems(list) \subseteq Elems(new)
    BY <1>1, <2>1 DEF Elems
  <2> QED BY <2>3, <2>4
<1>4. ASSUME NoRepeat(list), id \notin Elems(list) PROVE NoRepeat(new)
  BY <1>1, <1>2, <1>4 DEF NoRepeat, Elems
<1> QED BY <1>1, <1>3, <1>4 DEF new

(* rpush likewise. *)
LEMMA RpushFacts ==
    ASSUME NEW S, NEW list \in Seq(S), NEW id \in S
    PROVE  /\ rpush(list, id) \in Seq(S)
           /\ Elems(rpush(list, id)) = Elems(list) \cup {id}
           /\ NoRepeat(list) /\ id \notin Elems(list) => NoRepeat(rpush(list, id))
<1> DEFINE new == rpush(list, id)
<1>1. /\ new \in Seq(S) /\ Len(new) = Len(list) + 1 /\ new[Len(list) + 1] = id
      /\ \A i \in 1 .. Len(list) : new[i] = list[i]
  BY DEF rpush
<1>2. Elems(new) = Elems(list) \cup {id}
  BY <1>1 DEF Elems
<1>3. ASSUME NoRepeat(list), id \notin Elems(list) PROVE NoRepeat(new)
  BY <1>1, <1>3 DEF NoRepeat, Elems
<1> QED BY <1>1, <1>2, <1>3

(* For job ids, on lists without the id. *)
LEMMA PushNew ==
    ASSUME NEW list \in Seq(Jobs), NEW id \in Jobs, NoRepeat(list), id \notin Elems(list)
    PROVE  /\ NoRepeat(lpush(list, id)) /\ Elems(lpush(list, id)) = Elems(list) \cup {id}
           /\ NoRepeat(rpush(list, id)) /\ Elems(rpush(list, id)) = Elems(list) \cup {id}
<1>1. NoRepeat(lpush(list, id)) /\ Elems(lpush(list, id)) = Elems(list) \cup {id}
  BY LpushFacts
<1>2. NoRepeat(rpush(list, id)) /\ Elems(rpush(list, id)) = Elems(list) \cup {id}
  BY RpushFacts
<1> QED BY <1>1, <1>2

(* rpop takes the back of a non-empty list out of it. *)
LEMMA RpopFacts ==
    ASSUME NEW S, NEW list \in Seq(S), list # <<>>
    PROVE  /\ rpop(list) \in Seq(S)
           /\ back(list) \in S /\ back(list) \in Elems(list)
           /\ Elems(rpop(list)) \subseteq Elems(list)
           /\ Elems(list) = Elems(rpop(list)) \cup {back(list)}
           /\ NoRepeat(list) => NoRepeat(rpop(list)) /\ back(list) \notin Elems(rpop(list))
<1> DEFINE new == rpop(list)
<1>1. Len(list) \in Nat \ {0}
  BY EmptySeq
<1>2. /\ new \in Seq(S) /\ Len(new) = Len(list) - 1
      /\ \A i \in 1 .. Len(new) : new[i] = list[i] /\ i \in 1 .. Len(list) /\ i # Len(list)
  <2>1. \A i \in 1 .. (Len(list) - 1) : list[i] \in S
    BY <1>1
  <2>2. /\ new \in Seq(S)
        /\ Len(new) = IF 1 <= Len(list) - 1 THEN Len(list) - 1 - 1 + 1 ELSE 0
        /\ \A i \in 1 .. (Len(list) - 1 - 1 + 1) : new[i] = list[1 + i - 1]
    BY <1>1, <2>1, SubSeqProperties DEF rpop
  <2>3. Len(new) = Len(list) - 1
    <3>1. \A n \in Nat \ {0} : (IF 1 <= n - 1 THEN n - 1 - 1 + 1 ELSE 0) = n - 1
      OBVIOUS
    <3>2. (IF 1 <= Len(list) - 1 THEN Len(list) - 1 - 1 + 1 ELSE 0) = Len(list) - 1
      BY <1>1, <3>1, Zenon
    <3>3. Len(new) = IF 1 <= Len(list) - 1 THEN Len(list) - 1 - 1 + 1 ELSE 0
      BY <2>2
    <3> HIDE DEF new
    <3> QED BY <3>2, <3>3
  <2> HIDE DEF new
  <2>4. \A i \in 1 .. Len(new) : new[i] = list[i] /\ i \in 1 .. Len(list) /\ i # Len(list)
    BY <1>1, <2>2, <2>3
  <2> QED BY <2>2, <2>3, <2>4
<1>3. back(list) \in S /\ back(list) \in Elems(list)
  BY <1>1 DEF back, Elems
<1>4. Elems(new) \subseteq Elems(list)
  BY <1>2 DEF Elems
<1>5. Elems(list) = Elems(new) \cup {back(list)}
  <2> HIDE DEF new
  <2>1. \A i \in 1 .. Len(list) : i = Len(list) \/ (i \in 1 .. Len(new) /\ list[i] = new[i])
    BY <1>1, <1>2
  <2>2. Elems(list) \subseteq Elems(new) \cup {back(list)}
    BY <2>1 DEF Elems, back
  <2> QED BY <1>3, <1>4, <2>2
<1>6. ASSUME NoRepeat(list) PROVE NoRepeat(new) /\ back(list) \notin Elems(new)
  BY <1>1, <1>2, <1>6 DEF NoRepeat, Elems, back
<1> QED BY <1>2, <1>3, <1>4, <1>5, <1>6

(* Iterating over a list takes its front out of it. *)
LEMMA TailFacts ==
    ASSUME NEW S, NEW list \in Seq(S), list # <<>>
    PROVE  /\ Tail(list) \in Seq(S)
           /\ Head(list) \in S /\ Head(list) \in Elems(list)
           /\ Elems(Tail(list)) \subseteq Elems(list)
           /\ Elems(list) = Elems(Tail(list)) \cup {Head(list)}
           /\ NoRepeat(list) => NoRepeat(Tail(list)) /\ Head(list) \notin Elems(Tail(list))
<1> DEFINE new == Tail(list)
<1>1. Len(list) \in Nat \ {0}
  BY EmptySeq
<1>2. /\ new \in Seq(S) /\ Len(new) = Len(list) - 1
      /\ \A i \in 1 .. Len(new) : new[i] = list[i + 1] /\ i + 1 \in 1 .. Len(list) /\ i + 1 # 1
  BY <1>1
<1>3. Head(list) = list[1] /\ Head(list) \in S /\ Head(list) \in Elems(list)
  BY <1>1 DEF Elems
<1>4. Elems(new) \subseteq Elems(list)
  BY <1>2 DEF Elems
<1>5. \A i \in 1 .. Len(list) : i = 1 \/ (i - 1 \in 1 .. Len(new) /\ list[i] = new[i - 1])
  BY <1>1, <1>2
<1>6. Elems(list) = Elems(new) \cup {Head(list)}
  BY <1>2, <1>3, <1>4, <1>5 DEF Elems
<1>7. ASSUME NoRepeat(list) PROVE NoRepeat(new) /\ Head(list) \notin Elems(new)
  BY <1>1, <1>2, <1>3, <1>7 DEF NoRepeat, Elems
<1> QED BY <1>2, <1>3, <1>4, <1>6, <1>7

(* lremove_first_by takes one occurrence of its id out of the list. *)
LEMMA LremoveFirstFacts ==
    ASSUME NEW S, NEW list \in Seq(S), NEW id \in Elems(list), NoRepeat(list)
    PROVE  /\ lremoveFirst(list, id) \in Seq(S)
           /\ Elems(lremoveFirst(list, id)) \subseteq Elems(list)
           /\ Elems(list) = Elems(lremoveFirst(list, id)) \cup {id}
           /\ id \in S
           /\ NoRepeat(lremoveFirst(list, id))
           /\ id \notin Elems(lremoveFirst(list, id))
<1>1. PICK i \in 1 .. Len(list) : list[i] = id
  BY DEF Elems
<1>2. \A k \in 1 .. (i - 1) : list[k] # id
  BY <1>1 DEF NoRepeat
<1> DEFINE First(n) == list[n] = id /\ \A k \in 1 .. (n - 1) : list[k] # id
<1> DEFINE first == CHOOSE n \in 1 .. Len(list) : First(n)
<1>3. first \in 1 .. Len(list) /\ First(first)
  <2>1. \E n \in 1 .. Len(list) : First(n)
    BY <1>1, <1>2
  <2> QED BY <2>1
<1>4. list[first] = id
  BY <1>3
<1> HIDE DEF First
<1> DEFINE new == SubSeq(list, 1, first - 1) \o SubSeq(list, first + 1, Len(list))
<1>5. lremoveFirst(list, id) = new
  BY DEF lremoveFirst, First
<1> HIDE DEF first
<1>6. /\ SubSeq(list, 1, first - 1) \in Seq(S) /\ Len(SubSeq(list, 1, first - 1)) = first - 1
      /\ \A k \in 1 .. (first - 1) : SubSeq(list, 1, first - 1)[k] = list[k]
  BY <1>3
<1>7. /\ SubSeq(list, first + 1, Len(list)) \in Seq(S)
      /\ Len(SubSeq(list, first + 1, Len(list))) = Len(list) - first
      /\ \A k \in 1 .. (Len(list) - first) : SubSeq(list, first + 1, Len(list))[k] = list[first + k]
  BY <1>3
<1>8. /\ new \in Seq(S) /\ Len(new) = Len(list) - 1
      /\ \A k \in 1 .. Len(new) : new[k] = IF k < first THEN list[k] ELSE list[k + 1]
  <2> DEFINE a == SubSeq(list, 1, first - 1)
             b == SubSeq(list, first + 1, Len(list))
  <2>1. /\ a \o b \in Seq(S) /\ Len(a \o b) = Len(a) + Len(b)
        /\ \A k \in 1 .. Len(a) + Len(b) :
              (a \o b)[k] = IF k <= Len(a) THEN a[k] ELSE b[k - Len(a)]
    BY <1>6, <1>7, ConcatProperties
  <2>2. Len(list) \in Nat /\ first \in Int /\ 1 <= first /\ first <= Len(list)
    BY <1>3
  <2> HIDE DEF a, b
  <2>3. Len(a) = first - 1 /\ Len(b) = Len(list) - first
    BY <1>6, <1>7 DEF a, b
  <2>4. \A k \in 1 .. (first - 1) : a[k] = list[k]
    BY <1>6 DEF a
  <2>5. \A k \in 1 .. (Len(list) - first) : b[k] = list[first + k]
    BY <1>7 DEF b
  <2>6. new = a \o b
    BY DEF a, b
  <2> HIDE DEF new
  <2>7. ASSUME NEW k \in 1 .. Len(new) PROVE new[k] = IF k < first THEN list[k] ELSE list[k + 1]
    <3>1. CASE k < first
      BY <3>1, <2>1, <2>2, <2>3, <2>4, <2>6
    <3>2. CASE ~(k < first)
      <4>1. k - (first - 1) \in 1 .. (Len(list) - first)
        BY <3>2, <2>1, <2>2, <2>3, <2>6
      <4>2. b[k - (first - 1)] = list[k + 1]
        BY <4>1, <2>2, <2>5
      <4>3. new[k] = b[k - (first - 1)]
        BY <3>2, <2>1, <2>2, <2>3, <2>6
      <4> QED BY <3>2, <4>2, <4>3
    <3> QED BY <3>1, <3>2
  <2>8. new \in Seq(S) /\ Len(new) = Len(list) - 1
    <3>1. \A n \in Nat, m \in Int : (m - 1) + (n - m) = n - 1
      OBVIOUS
    <3>2. Len(new) = (first - 1) + (Len(list) - first)
      BY <2>1, <2>3, <2>6, Zenon
    <3> QED BY <2>1, <2>2, <2>6, <3>1, <3>2, Zenon
  <2> QED BY <2>7, <2>8
<1> HIDE DEF new
<1>9. Elems(new) \subseteq Elems(list)
  BY <1>3, <1>8 DEF Elems
<1>10. \A k \in 1 .. Len(list) : k # first => list[k] \in Elems(new)
  <2> SUFFICES ASSUME NEW k \in 1 .. Len(list), k # first PROVE list[k] \in Elems(new)
    OBVIOUS
  <2>1. CASE k < first
    BY <2>1, <1>3, <1>8 DEF Elems
  <2>2. CASE k > first
    <3>1. k - 1 \in 1 .. Len(new) /\ new[k - 1] = list[k]
      BY <2>2, <1>3, <1>8
    <3> QED BY <3>1 DEF Elems
  <2> QED BY <2>1, <2>2, <1>3
<1>11. Elems(list) = Elems(new) \cup {id}
  BY <1>3, <1>4, <1>9, <1>10 DEF Elems
<1>12. NoRepeat(new)
  <2> SUFFICES ASSUME NEW m \in 1 .. Len(new), NEW k \in 1 .. Len(new), new[m] = new[k] PROVE m = k
    BY DEF NoRepeat
  <2>1. PICK p \in 1 .. Len(list) : new[m] = list[p] /\ p = IF m < first THEN m ELSE m + 1
    <3>1. CASE m < first
      BY <1>3, <1>8, <3>1
    <3>2. CASE ~(m < first)
      BY <1>3, <1>8, <3>2
    <3> QED BY <3>1, <3>2
  <2>2. PICK r \in 1 .. Len(list) : new[k] = list[r] /\ r = IF k < first THEN k ELSE k + 1
    <3>1. CASE k < first
      BY <1>3, <1>8, <3>1
    <3>2. CASE ~(k < first)
      BY <1>3, <1>8, <3>2
    <3> QED BY <3>1, <3>2
  <2>3. p = r
    BY <2>1, <2>2 DEF NoRepeat
  <2>4. first \in Nat /\ m \in Nat /\ k \in Nat
    BY <1>3, <1>8
  <2> QED BY <2>1, <2>2, <2>3, <2>4
<1>13. id \notin Elems(new)
  <2> SUFFICES ASSUME NEW k \in 1 .. Len(new), new[k] = id PROVE FALSE
    BY DEF Elems
  <2>1. k < first => k \in 1 .. Len(list) /\ list[k] = id /\ k # first
    BY <1>3, <1>8
  <2>2. ~(k < first) => k + 1 \in 1 .. Len(list) /\ list[k + 1] = id /\ k + 1 # first
    BY <1>3, <1>8
  <2> QED BY <1>3, <1>4, <2>1, <2>2 DEF NoRepeat
<1> QED BY <1>1, <1>5, <1>8, <1>9, <1>11, <1>12, <1>13
============================================================================
