--------------------------- MODULE SequenceLemmas ---------------------------
(***************************************************************************)
(* Facts about the operators that the models use on lists, for the proofs: *)
(* the smallest member of a set of places, an element put into a list,     *)
(* taken out of it or replaced at its end.                                 *)
(***************************************************************************)
EXTENDS Integers, Sequences, SequencesExt, FiniteSetTheorems,
        SequenceTheorems, WellFoundedInduction, TLAPS

(* A set of natural numbers that is not empty has a smallest member; the   *)
(* list walks of the code (scheduleAction, nbClockSetTimer) stop there.    *)
LEMMA MinOfNaturals ==
  ASSUME NEW S \in SUBSET Nat, S # {}
  PROVE  Min(S) \in S /\ \A y \in S : Min(S) <= y
<1> DEFINE Initial == {0..n : n \in S}
<1>1. Initial \subseteq FiniteSubsetsOf(Nat)
  <2>1. ASSUME NEW n \in S
        PROVE  (0..n) \in SUBSET Nat /\ IsFiniteSet(0..n)
    BY FS_Interval
  <2>2. QED
    BY <2>1 DEF FiniteSubsetsOf
<1>2. PICK T \in Initial : \A U \in Initial : <<U, T>> \notin StrictSubsetOrdering(Nat)
  <2>1. IsWellFoundedOn(StrictSubsetOrdering(Nat), FiniteSubsetsOf(Nat))
    BY FS_StrictSubsetOrderingWellFounded
  <2>2. Initial # {}
    OBVIOUS
  <2> HIDE DEF Initial
  <2>3. QED
    BY <1>1, <2>1, <2>2, WFMin
<1>3. PICK m \in S : T = 0..m
  OBVIOUS
<1>4. ASSUME NEW n \in S, n < m
      PROVE  FALSE
  <2>1. (0..n) \subseteq (0..m) /\ (0..n) # (0..m)
    BY <1>4
  <2>2. <<0..n, 0..m>> \in StrictSubsetOrdering(Nat)
    BY <2>1 DEF StrictSubsetOrdering
  <2>3. QED
    BY <1>2, <1>3, <2>2
<1>5. \A y \in S : m <= y
  BY <1>4
<1>6. QED
  BY <1>5 DEF Min

(* A part of a list is a list.                                             *)
LEMMA SubSeqIsSeq ==
  ASSUME NEW S, NEW s \in Seq(S), NEW m \in 1..Len(s) + 1, NEW n \in 0..Len(s)
  PROVE  /\ SubSeq(s, m, n) \in Seq(S)
         /\ Len(SubSeq(s, m, n)) = IF m <= n THEN n - m + 1 ELSE 0
         /\ \A i \in 1..n - m + 1 : SubSeq(s, m, n)[i] = s[m + i - 1]
<1>1. \A i \in m..n : s[i] \in S
  OBVIOUS
<1>2. QED
  BY <1>1, SubSeqProperties

(* InsertAt puts e at i and moves the rest up.                             *)
LEMMA InsertAtProperties ==
  ASSUME NEW S, NEW s \in Seq(S), NEW i \in 1..Len(s) + 1, NEW e \in S
  PROVE  /\ InsertAt(s, i, e) \in Seq(S)
         /\ Len(InsertAt(s, i, e)) = Len(s) + 1
         /\ \A j \in 1..Len(s) + 1 :
              InsertAt(s, i, e)[j] = IF j < i THEN s[j] ELSE IF j = i THEN e ELSE s[j - 1]
<1> DEFINE before == SubSeq(s, 1, i - 1)
           after == SubSeq(s, i, Len(s))
<1>1. /\ before \in Seq(S) /\ Len(before) = i - 1
      /\ \A j \in 1..i - 1 : before[j] = s[j]
  BY SubSeqIsSeq
<1>2. /\ after \in Seq(S) /\ Len(after) = Len(s) - i + 1
      /\ \A j \in 1..Len(s) - i + 1 : after[j] = s[i + j - 1]
  BY SubSeqIsSeq
<1>3. InsertAt(s, i, e) = (before \o <<e>>) \o after
  BY DEF InsertAt
<1> HIDE DEF before, after
<1>4. /\ before \o <<e>> \in Seq(S) /\ Len(before \o <<e>>) = i
      /\ \A j \in 1..i : (before \o <<e>>)[j] = IF j < i THEN s[j] ELSE e
  BY <1>1
<1> DEFINE upTo == before \o <<e>>
<1> HIDE DEF upTo
<1>5. /\ upTo \in Seq(S) /\ Len(upTo) = i
      /\ \A j \in 1..i : upTo[j] = IF j < i THEN s[j] ELSE e
  BY <1>4 DEF upTo
<1>6. /\ upTo \o after \in Seq(S)
      /\ Len(upTo \o after) = Len(upTo) + Len(after)
      /\ \A j \in 1..Len(upTo) + Len(after) :
           (upTo \o after)[j] = IF j <= Len(upTo) THEN upTo[j] ELSE after[j - Len(upTo)]
  BY <1>2, <1>5, ConcatProperties
<1>7. Len(upTo) + Len(after) = Len(s) + 1
  BY <1>2, <1>5
<1>8. ASSUME NEW j \in 1..Len(s) + 1
      PROVE  (upTo \o after)[j] = IF j < i THEN s[j] ELSE IF j = i THEN e ELSE s[j - 1]
  BY <1>2, <1>5, <1>6, <1>7
<1>9. QED
  BY <1>3, <1>6, <1>7, <1>8 DEF upTo

(* RemoveAt takes out what is at i and moves the rest down.                *)
LEMMA RemoveAtProperties ==
  ASSUME NEW S, NEW s \in Seq(S), NEW i \in 1..Len(s)
  PROVE  /\ RemoveAt(s, i) \in Seq(S)
         /\ Len(RemoveAt(s, i)) = Len(s) - 1
         /\ \A j \in 1..Len(s) - 1 : RemoveAt(s, i)[j] = IF j < i THEN s[j] ELSE s[j + 1]
<1> DEFINE before == SubSeq(s, 1, i - 1)
           after == SubSeq(s, i + 1, Len(s))
<1>1. /\ before \in Seq(S) /\ Len(before) = i - 1
      /\ \A j \in 1..i - 1 : before[j] = s[j]
  BY SubSeqIsSeq
<1>2. /\ after \in Seq(S) /\ Len(after) = Len(s) - i
      /\ \A j \in 1..Len(s) - i : after[j] = s[i + j]
  BY SubSeqIsSeq
<1>3. RemoveAt(s, i) = before \o after
  BY DEF RemoveAt
<1> HIDE DEF before, after
<1>4. /\ before \o after \in Seq(S)
      /\ Len(before \o after) = Len(before) + Len(after)
      /\ \A j \in 1..Len(before) + Len(after) :
           (before \o after)[j] = IF j <= Len(before) THEN before[j] ELSE after[j - Len(before)]
  BY <1>1, <1>2, ConcatProperties
<1>5. Len(before) + Len(after) = Len(s) - 1
  BY <1>1, <1>2
<1>6. ASSUME NEW j \in 1..Len(s) - 1
      PROVE  (before \o after)[j] = IF j < i THEN s[j] ELSE s[j + 1]
  BY <1>1, <1>2, <1>4, <1>5
<1>7. QED
  BY <1>3, <1>4, <1>5, <1>6

(* RemoveFirst takes e out at the first place where it is.                 *)
LEMMA RemoveFirstProperties ==
  ASSUME NEW S, NEW s \in Seq(S), NEW e
  PROVE  \/ RemoveFirst(s, e) = s /\ e \notin ToSet(s)
         \/ \E i \in 1..Len(s) : s[i] = e /\ RemoveFirst(s, e) = RemoveAt(s, i)
<1> DEFINE I == {i \in 1..Len(s) : s[i] = e}
<1>1. CASE I = {}
  BY <1>1 DEF RemoveFirst, SelectInSeq, ToSet
<1>2. CASE I # {}
  <2>1. I \in SUBSET Nat
    OBVIOUS
  <2>2. Min(I) \in I
    BY <1>2, <2>1, MinOfNaturals
  <2>3. RemoveFirst(s, e) = RemoveAt(s, Min(I))
    BY <1>2 DEF RemoveFirst, SelectInSeq
  <2>4. QED
    BY <2>2, <2>3
<1>3. QED
  BY <1>1, <1>2

(* Replacing the last element of a list, as GoOn does with the innermost   *)
(* frame, leaves the others where they are.                                *)
LEMMA ReplaceLast ==
  ASSUME NEW S, NEW s \in Seq(S), s # <<>>, NEW e \in S
  PROVE  LET t == Append(SubSeq(s, 1, Len(s) - 1), e)
         IN  /\ t \in Seq(S)
             /\ Len(t) = Len(s)
             /\ t[Len(s)] = e
             /\ \A j \in 1..Len(s) - 1 : t[j] = s[j]
<1> DEFINE below == SubSeq(s, 1, Len(s) - 1)
<1>1. Len(s) \in Nat \ {0}
  OBVIOUS
<1>2. 1 \in 1..Len(s) + 1 /\ Len(s) - 1 \in 0..Len(s)
  BY <1>1
<1>3. /\ below \in Seq(S)
      /\ Len(below) = IF 1 <= Len(s) - 1 THEN (Len(s) - 1) - 1 + 1 ELSE 0
      /\ \A i \in 1..(Len(s) - 1) - 1 + 1 : below[i] = s[1 + i - 1]
  BY <1>2, SubSeqIsSeq
<1> HIDE DEF below
<1>4. Len(below) = Len(s) - 1
  <2>1. ASSUME NEW n \in Nat \ {0}
        PROVE  (IF 1 <= n - 1 THEN (n - 1) - 1 + 1 ELSE 0) = n - 1
    OBVIOUS
  <2>2. QED
    BY <1>1, <1>3, <2>1
<1>5. ASSUME NEW i \in 1..Len(s) - 1
      PROVE  below[i] = s[i]
  <2>1. i \in 1..(Len(s) - 1) - 1 + 1 /\ 1 + i - 1 = i
    BY <1>1
  <2>2. QED
    BY <1>3, <2>1
<1>6. QED
  BY <1>1, <1>3, <1>4, <1>5 DEF below

(* A list that an element is put into has that one and the others.         *)
LEMMA InsertAtMembers ==
  ASSUME NEW S, NEW list \in Seq(S), NEW k \in 1..Len(list) + 1, NEW a \in S
  PROVE  /\ ToSet(InsertAt(list, k, a)) = ToSet(list) \cup {a}
         /\ IsInjective(list) /\ a \notin ToSet(list) => IsInjective(InsertAt(list, k, a))
<1> DEFINE new == InsertAt(list, k, a)
<1>1. /\ new \in Seq(S) /\ Len(new) = Len(list) + 1
      /\ \A j \in 1..Len(list) + 1 :
           new[j] = IF j < k THEN list[j] ELSE IF j = k THEN a ELSE list[j - 1]
  BY InsertAtProperties
<1> HIDE DEF new
<1>2. Len(list) \in Nat /\ DOMAIN list = 1..Len(list) /\ DOMAIN new = 1..Len(list) + 1
  BY <1>1
<1>3. ASSUME NEW j \in DOMAIN new
      PROVE  new[j] \in ToSet(list) \cup {a}
  <2>1. CASE j < k
    <3>1. j \in DOMAIN list /\ new[j] = list[j]
      BY <1>1, <1>2, <2>1
    <3>2. QED
      BY <3>1 DEF ToSet
  <2>2. CASE j = k
    BY <1>1, <1>2, <2>2
  <2>3. CASE j > k
    <3>1. j - 1 \in DOMAIN list /\ new[j] = list[j - 1]
      BY <1>1, <1>2, <2>3
    <3>2. QED
      BY <3>1 DEF ToSet
  <2>4. QED
    BY <1>2, <2>1, <2>2, <2>3
<1>4. ASSUME NEW i \in DOMAIN list
      PROVE  list[i] \in ToSet(new)
  <2>1. CASE i < k
    <3>1. i \in DOMAIN new /\ new[i] = list[i]
      BY <1>1, <1>2, <2>1
    <3>2. QED
      BY <3>1 DEF ToSet
  <2>2. CASE i >= k
    <3>1. i + 1 \in DOMAIN new /\ new[i + 1] = list[i]
      BY <1>1, <1>2, <2>2
    <3>2. QED
      BY <3>1 DEF ToSet
  <2>3. QED
    BY <1>2, <2>1, <2>2
<1>5. a \in ToSet(new)
  <2>1. k \in DOMAIN new /\ new[k] = a
    BY <1>1, <1>2
  <2>2. QED
    BY <2>1 DEF ToSet
<1>6. ASSUME IsInjective(list), a \notin ToSet(list)
      PROVE  IsInjective(new)
  <2>1. \A i \in DOMAIN list : list[i] # a
    BY <1>6 DEF ToSet
  <2>2. \A i, j \in DOMAIN list : list[i] = list[j] => i = j
    BY <1>6 DEF IsInjective
  <2>3. ASSUME NEW i \in DOMAIN new, NEW j \in DOMAIN new, new[i] = new[j], i < j
        PROVE  FALSE
    <3>1. CASE j < k
      <4>1. /\ new[i] = list[i] /\ new[j] = list[j]
            /\ i \in DOMAIN list /\ j \in DOMAIN list /\ i # j
        BY <1>1, <1>2, <2>3, <3>1
      <4>2. QED
        BY <2>2, <2>3, <4>1
    <3>2. CASE j = k
      <4>1. new[i] = list[i] /\ new[j] = a /\ i \in DOMAIN list
        BY <1>1, <1>2, <2>3, <3>2
      <4>2. QED
        BY <2>1, <2>3, <4>1
    <3>3. CASE j > k /\ i = k
      <4>1. new[i] = a /\ new[j] = list[j - 1] /\ j - 1 \in DOMAIN list
        BY <1>1, <1>2, <2>3, <3>3
      <4>2. QED
        BY <2>1, <2>3, <4>1
    <3>4. CASE j > k /\ i < k
      <4>1. /\ new[i] = list[i] /\ new[j] = list[j - 1]
            /\ i \in DOMAIN list /\ j - 1 \in DOMAIN list /\ i # j - 1
        BY <1>1, <1>2, <2>3, <3>4
      <4>2. QED
        BY <2>2, <2>3, <4>1
    <3>5. CASE j > k /\ i > k
      <4>1. /\ new[i] = list[i - 1] /\ new[j] = list[j - 1]
            /\ i - 1 \in DOMAIN list /\ j - 1 \in DOMAIN list /\ i - 1 # j - 1
        BY <1>1, <1>2, <2>3, <3>5
      <4>2. QED
        BY <2>2, <2>3, <4>1
    <3>6. QED
      BY <1>2, <2>3, <3>1, <3>2, <3>3, <3>4, <3>5
  <2>4. \A i, j \in DOMAIN new : i < j \/ j < i \/ i = j
    BY <1>2
  <2>5. QED
    BY <2>3, <2>4 DEF IsInjective
<1>7. ToSet(new) = ToSet(list) \cup {a}
  BY <1>3, <1>4, <1>5 DEF ToSet
<1>8. QED
  BY <1>6, <1>7 DEF new

(* The first action of a list and the others.                              *)
LEMMA HeadMembers ==
  ASSUME NEW S, NEW list \in Seq(S), list # <<>>
  PROVE  /\ ToSet(list) = {Head(list)} \cup ToSet(Tail(list))
         /\ IsInjective(list) => Head(list) \notin ToSet(Tail(list)) /\ IsInjective(Tail(list))
<1>1. /\ Tail(list) \in Seq(S) /\ Len(Tail(list)) = Len(list) - 1
      /\ \A i \in 1..Len(Tail(list)) : Tail(list)[i] = list[i + 1]
  BY HeadTailProperties
<1>2. Len(list) \in Nat \ {0} /\ DOMAIN list = 1..Len(list) /\ Head(list) = list[1]
  OBVIOUS
<1>3. DOMAIN Tail(list) = 1..Len(list) - 1
  BY <1>1
<1>4. \A i \in DOMAIN Tail(list) : i + 1 \in DOMAIN list /\ Tail(list)[i] = list[i + 1]
  BY <1>1, <1>2, <1>3
<1>5. \A i \in DOMAIN list : i = 1 \/ (i - 1 \in DOMAIN Tail(list) /\ Tail(list)[i - 1] = list[i])
  BY <1>1, <1>2, <1>3
<1>6. ToSet(list) = {Head(list)} \cup ToSet(Tail(list))
  <2>1. ASSUME NEW i \in DOMAIN list
        PROVE  list[i] \in {Head(list)} \cup ToSet(Tail(list))
    BY <1>2, <1>5 DEF ToSet
  <2>2. ASSUME NEW i \in DOMAIN Tail(list)
        PROVE  Tail(list)[i] \in ToSet(list)
    BY <1>4 DEF ToSet
  <2>3. Head(list) \in ToSet(list)
    <3>1. 1 \in DOMAIN list /\ Head(list) = list[1]
      BY <1>2
    <3>2. QED
      BY <3>1 DEF ToSet
  <2>4. QED
    BY <2>1, <2>2, <2>3 DEF ToSet
<1>7. ASSUME IsInjective(list)
      PROVE  Head(list) \notin ToSet(Tail(list)) /\ IsInjective(Tail(list))
  <2>1. \A i, j \in DOMAIN list : list[i] = list[j] => i = j
    BY <1>7 DEF IsInjective
  <2>2. Head(list) \notin ToSet(Tail(list))
    <3>1. SUFFICES ASSUME NEW i \in DOMAIN Tail(list), Tail(list)[i] = Head(list)
                   PROVE  FALSE
      BY DEF ToSet
    <3>2. i + 1 \in DOMAIN list /\ list[i + 1] = list[1] /\ 1 \in DOMAIN list /\ i + 1 # 1
      BY <1>2, <1>3, <1>4, <3>1
    <3>3. QED
      BY <2>1, <3>2
  <2>3. IsInjective(Tail(list))
    <3>1. SUFFICES ASSUME NEW i \in DOMAIN Tail(list), NEW j \in DOMAIN Tail(list),
                          Tail(list)[i] = Tail(list)[j]
                   PROVE  i = j
      BY DEF IsInjective
    <3>2. i + 1 = j + 1
      BY <1>4, <2>1, <3>1
    <3>3. QED
      BY <1>3, <3>2
  <2>4. QED
    BY <2>2, <2>3
<1>8. QED
  BY <1>6, <1>7

(* A list that an element is put in front of.                              *)
LEMMA ConsMembers ==
  ASSUME NEW S, NEW list \in Seq(S), NEW a \in S
  PROVE  /\ ToSet(<<a>> \o list) = ToSet(list) \cup {a}
         /\ IsInjective(list) /\ a \notin ToSet(list) => IsInjective(<<a>> \o list)
<1>1. InsertAt(list, 1, a) = <<a>> \o list
  <2>1. SubSeq(list, 1, 0) = <<>> /\ SubSeq(list, 1, Len(list)) = list
    OBVIOUS
  <2>2. InsertAt(list, 1, a) = SubSeq(list, 1, 1 - 1) \o <<a>> \o SubSeq(list, 1, Len(list))
    BY DEF InsertAt
  <2>3. QED
    BY <2>1, <2>2
<1>2. 1 \in 1..Len(list) + 1
  OBVIOUS
<1>3. /\ ToSet(InsertAt(list, 1, a)) = ToSet(list) \cup {a}
      /\ IsInjective(list) /\ a \notin ToSet(list) => IsInjective(InsertAt(list, 1, a))
  BY <1>2, InsertAtMembers
<1>4. QED
  BY <1>1, <1>3, Zenon

(* A list without repetitions that an element is taken out of.             *)
LEMMA RemoveFirstMembers ==
  ASSUME NEW S, NEW list \in Seq(S), IsInjective(list), NEW e
  PROVE  /\ ToSet(RemoveFirst(list, e)) = ToSet(list) \ {e}
         /\ IsInjective(RemoveFirst(list, e))
<1>1. CASE RemoveFirst(list, e) = list /\ e \notin ToSet(list)
  BY <1>1
<1>2. CASE \E i \in 1..Len(list) : list[i] = e /\ RemoveFirst(list, e) = RemoveAt(list, i)
  <2>1. PICK i \in 1..Len(list) : list[i] = e /\ RemoveFirst(list, e) = RemoveAt(list, i)
    BY <1>2
  <2> DEFINE new == RemoveAt(list, i)
  <2>2. /\ new \in Seq(S) /\ Len(new) = Len(list) - 1
        /\ \A j \in 1..Len(list) - 1 : new[j] = IF j < i THEN list[j] ELSE list[j + 1]
    BY RemoveAtProperties
  <2> HIDE DEF new
  <2>3. Len(list) \in Nat /\ DOMAIN list = 1..Len(list) /\ DOMAIN new = 1..Len(list) - 1
    BY <2>2
  <2>4. \A j, k \in 1..Len(list) : list[j] = list[k] => j = k
    BY <2>3 DEF IsInjective
  <2>5. ASSUME NEW j \in DOMAIN new
        PROVE  \E k \in 1..Len(list) : k # i /\ new[j] = list[k] /\ k = IF j < i THEN j ELSE j + 1
    <3>1. CASE j < i
      BY <2>2, <2>3, <3>1
    <3>2. CASE ~(j < i)
      BY <2>2, <2>3, <3>2
    <3>3. QED
      BY <3>1, <3>2
  <2>6. ASSUME NEW k \in 1..Len(list), k # i
        PROVE  \E j \in DOMAIN new : new[j] = list[k]
    <3>1. CASE k < i
      BY <2>2, <2>3, <3>1
    <3>2. CASE k > i
      <4>1. k - 1 \in DOMAIN new /\ ~(k - 1 < i) /\ (k - 1) + 1 = k
        BY <2>3, <3>2
      <4>2. QED
        BY <2>2, <2>3, <4>1
    <3>3. QED
      BY <2>6, <3>1, <3>2
  <2>7. ToSet(new) = ToSet(list) \ {e}
    <3>1. \A x \in ToSet(new) : x \in ToSet(list) /\ x # e
      BY <2>1, <2>3, <2>4, <2>5 DEF ToSet
    <3>2. \A x \in ToSet(list) \ {e} : x \in ToSet(new)
      BY <2>1, <2>3, <2>6 DEF ToSet
    <3>3. QED
      BY <3>1, <3>2
  <2>8. IsInjective(new)
    <3>1. ASSUME NEW j \in DOMAIN new, NEW k \in DOMAIN new, new[j] = new[k]
          PROVE  j = k
      <4>1. PICK x \in 1..Len(list) : new[j] = list[x] /\ x = IF j < i THEN j ELSE j + 1
        BY <2>5
      <4>2. PICK y \in 1..Len(list) : new[k] = list[y] /\ y = IF k < i THEN k ELSE k + 1
        BY <2>5
      <4>3. x = y
        BY <2>4, <3>1, <4>1, <4>2
      <4>4. QED
        BY <2>3, <4>1, <4>2, <4>3
    <3>2. QED
      BY <3>1 DEF IsInjective
  <2>9. QED
    BY <2>1, <2>7, <2>8 DEF new
<1>3. QED
  BY <1>1, <1>2, RemoveFirstProperties

(* The members of a finite set of numbers have the ranks 0, 1, ... in      *)
(* their order.                                                            *)
LEMMA PlacesRanked ==
  ASSUME NEW I \in SUBSET Nat, IsFiniteSet(I)
  PROVE  /\ \A i \in I : /\ Cardinality({j \in I : j < i}) \in Nat
                        /\ Cardinality({j \in I : j < i}) + 1 <= Cardinality(I)
         /\ \A n \in 1..Cardinality(I) : \E i \in I : Cardinality({j \in I : j < i}) = n - 1
         /\ \A i, k \in I : i < k => Cardinality({j \in I : j < i}) < Cardinality({j \in I : j < k})
<1>1. PICK lower : lower = [i \in I |-> {j \in I : j < i}]
  OBVIOUS
<1>2. PICK size : size = [i \in I |-> Cardinality(lower[i])]
  OBVIOUS
<1>3. \A i \in I : lower[i] = {j \in I : j < i}
  BY <1>1
<1>4. \A i \in I : size[i] = Cardinality(lower[i])
  BY <1>2
<1>5. \A i \in I : size[i] = Cardinality({j \in I : j < i})
  BY <1>3, <1>4
<1>6. ASSUME NEW i \in I, NEW T \in SUBSET I, lower[i] \cup {i} \subseteq T
      PROVE  size[i] \in Nat /\ size[i] + 1 <= Cardinality(T)
  <2>1. lower[i] \in SUBSET I /\ i \notin lower[i]
    <3>1. lower[i] = {j \in I : j < i}
      BY <1>3
    <3>2. ~(i < i)
      OBVIOUS
    <3>3. QED
      BY <3>1, <3>2
  <2>2. IsFiniteSet(lower[i]) /\ IsFiniteSet(T)
    BY <2>1, FS_Subset
  <2>3. Cardinality(lower[i] \cup {i}) = Cardinality(lower[i]) + 1
    BY <2>1, <2>2, FS_AddElement
  <2>4. Cardinality(lower[i] \cup {i}) <= Cardinality(T)
    BY <1>6, <2>2, FS_Subset
  <2>5. size[i] = Cardinality(lower[i])
    BY <1>4
  <2>6. Cardinality(lower[i]) \in Nat
    BY <2>2, FS_CardinalityType
  <2>7. QED
    BY <2>3, <2>4, <2>5, <2>6
<1>7. Cardinality(I) \in Nat
  BY FS_CardinalityType
<1>8. ASSUME NEW i \in I
      PROVE  size[i] \in Nat /\ size[i] + 1 <= Cardinality(I)
  <2>1. lower[i] \cup {i} \subseteq I
    BY <1>3
  <2>2. QED
    BY <1>6, <2>1
<1>9. ASSUME NEW i \in I, NEW k \in I, i < k
      PROVE  size[i] < size[k]
  <2>1. lower[i] = {j \in I : j < i} /\ lower[k] = {j \in I : j < k}
    BY <1>3
  <2>2. i \in Nat /\ k \in Nat
    OBVIOUS
  <2>3. \A j \in I : j < i => j < k
    BY <1>9, <2>2
  <2>4. lower[i] \cup {i} \subseteq lower[k] /\ lower[k] \in SUBSET I
    BY <1>9, <2>1, <2>3
  <2>5. size[i] + 1 <= Cardinality(lower[k])
    BY <1>6, <2>4
  <2>6. QED
    BY <1>4, <1>8, <2>5
<1>10. PICK rank : rank = [i \in I |-> size[i] + 1]
  OBVIOUS
<1>11. rank \in [I -> 1..Cardinality(I)] /\ \A i \in I : rank[i] = size[i] + 1
  BY <1>7, <1>8, <1>10
<1>12. ASSUME NEW i \in I, NEW k \in I, rank[i] = rank[k]
       PROVE  i = k
  <2>1. size[i] = size[k]
    BY <1>8, <1>11, <1>12
  <2>2. ~(i < k) /\ ~(k < i)
    BY <1>8, <1>9, <2>1
  <2>3. i \in Nat /\ k \in Nat
    OBVIOUS
  <2>4. QED
    BY <2>2, <2>3
<1>13. rank \in Injection(I, 1..Cardinality(I))
  BY <1>11, <1>12 DEF Injection, IsInjective
<1>14. IsFiniteSet(1..Cardinality(I)) /\ Cardinality(1..Cardinality(I)) = Cardinality(I)
  BY <1>7, FS_Interval
<1>15. rank \in Surjection(I, 1..Cardinality(I))
  BY <1>13, <1>14, FS_Injection
<1>16. \A n \in 1..Cardinality(I) : \E i \in I : rank[i] = n
  BY <1>15 DEF Surjection
<1>17. \A n \in 1..Cardinality(I) : \E i \in I : size[i] = n - 1
  BY <1>8, <1>11, <1>16
<1>18. QED
  BY <1>5, <1>8, <1>9, <1>17

(* The places I in their order: those of the elements that are kept when   *)
(* others are left out of a list.                                          *)
LEMMA PlacesInOrder ==
  ASSUME NEW I \in SUBSET Nat, IsFiniteSet(I)
  PROVE  /\ Cardinality(I) \in Nat
         /\ \E f \in [1..Cardinality(I) -> I] :
              /\ f = [n \in 1..Cardinality(I) |-> CHOOSE i \in I : Cardinality({j \in I : j < i}) = n - 1]
              /\ \A m, n \in 1..Cardinality(I) : m < n => f[m] < f[n]
              /\ \A i \in I : \E n \in 1..Cardinality(I) : f[n] = i
<1>1. Cardinality(I) \in Nat
  BY FS_CardinalityType
<1>2. PICK size : size = [i \in I |-> Cardinality({j \in I : j < i})]
  OBVIOUS
<1>3. /\ \A i \in I : size[i] = Cardinality({j \in I : j < i})
      /\ \A i \in I : size[i] \in Nat /\ size[i] + 1 <= Cardinality(I)
      /\ \A n \in 1..Cardinality(I) : \E i \in I : size[i] = n - 1
      /\ \A i, k \in I : i < k => size[i] < size[k]
  BY <1>2, PlacesRanked
<1>4. PICK f : f = [n \in 1..Cardinality(I) |-> CHOOSE i \in I : Cardinality({j \in I : j < i}) = n - 1]
  OBVIOUS
<1>5. \A n \in 1..Cardinality(I) : f[n] \in I /\ size[f[n]] = n - 1
  <2> TAKE n \in 1..Cardinality(I)
  <2>1. \E i \in I : Cardinality({j \in I : j < i}) = n - 1
    BY <1>3
  <2>2. f[n] = CHOOSE i \in I : Cardinality({j \in I : j < i}) = n - 1
    BY <1>4
  <2>3. f[n] \in I /\ Cardinality({j \in I : j < f[n]}) = n - 1
    BY <2>1, <2>2
  <2>4. QED
    BY <1>3, <2>3
<1>6. f \in [1..Cardinality(I) -> I]
  BY <1>4, <1>5
<1>7. \A i, k \in I : size[i] = size[k] => i = k
  <2>1. ASSUME NEW i \in I, NEW k \in I, size[i] = size[k]
        PROVE  i = k
    <3>1. i \in Nat /\ k \in Nat /\ size[i] \in Nat
      BY <1>3
    <3>2. ~(i < k) /\ ~(k < i)
      BY <1>3, <2>1, <3>1
    <3>3. QED
      BY <3>1, <3>2
  <2>2. QED
    BY <2>1
<1>8. ASSUME NEW m \in 1..Cardinality(I), NEW n \in 1..Cardinality(I), m < n
      PROVE  f[m] < f[n]
  <2>1. f[m] \in I /\ f[n] \in I /\ size[f[m]] = m - 1 /\ size[f[n]] = n - 1
    BY <1>5
  <2>2. size[f[m]] < size[f[n]]
    BY <1>1, <1>8, <2>1
  <2>3. f[m] \in Nat /\ f[n] \in Nat
    BY <2>1
  <2>4. f[n] < f[m] => size[f[n]] < size[f[m]]
    BY <1>3, <2>1
  <2>5. size[f[n]] \in Nat /\ size[f[m]] \in Nat
    BY <1>3, <2>1
  <2>6. ~(f[n] < f[m]) /\ f[m] # f[n]
    BY <2>2, <2>4, <2>5
  <2>7. QED
    BY <2>3, <2>6
<1>9. ASSUME NEW i \in I
      PROVE  \E n \in 1..Cardinality(I) : f[n] = i
  <2>1. PICK n \in 1..Cardinality(I) : n = size[i] + 1
    BY <1>1, <1>3
  <2>2. size[f[n]] = size[i] /\ f[n] \in I
    BY <1>3, <1>5, <2>1
  <2>3. QED
    BY <1>7, <2>2
<1>10. QED
  BY <1>1, <1>4, <1>6, <1>8, <1>9

============================================================================
