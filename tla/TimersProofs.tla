---------------------------- MODULE TimersProofs ----------------------------
(***************************************************************************)
(* What the timer queue promises, for any number of delay conditions, any  *)
(* durations, rows and interval, and without bound on time and commands:   *)
(* the queue implements AlarmClock, delays hold their time, whatever waits *)
(* has a timer, and the cache agrees with its rows.                        *)
(***************************************************************************)
EXTENDS Timers, SequenceTheorems, SequenceLemmas, TLAPS

----------------------------------------------------------------------------
(* The queue of timers.                                                    *)
Entry == [object : Object, at : Nat \ {0}]

(* In order of time, with one timer at most for an object.                 *)
Ordered(q) ==
  /\ q \in Seq(Entry)
  /\ \A i, j \in 1..Len(q) : i < j => q[i].at <= q[j].at
  /\ \A i, j \in 1..Len(q) : i < j => q[i].object # q[j].object

(* The timer at i is its object's.                                         *)
LEMMA DueIs ==
  ASSUME NEW q, Ordered(q)
  PROVE  /\ \A i \in 1..Len(q) : Timed(q, q[i].object) /\ Due(q, q[i].object) = q[i].at
         /\ \A o : ~Timed(q, o) => Due(q, o) = 0
         /\ \A o : Timed(q, o) => \E i \in 1..Len(q) : q[i].object = o /\ Due(q, o) = q[i].at
         /\ \A o : Due(q, o) \in Nat /\ (Timed(q, o) <=> Due(q, o) # 0)
<1>1. \A i, j \in 1..Len(q) : q[i].object = q[j].object => i = j
  <2>1. Len(q) \in Nat
    BY DEF Ordered
  <2>2. \A i, j \in 1..Len(q) : i = j \/ i < j \/ j < i
    BY <2>1
  <2>3. QED
    BY <2>2 DEF Ordered
<1>2. ASSUME NEW i \in 1..Len(q)
      PROVE  Timed(q, q[i].object) /\ Due(q, q[i].object) = q[i].at
  <2>1. Timed(q, q[i].object)
    BY DEF Timed
  <2>2. (CHOOSE j \in 1..Len(q) : q[j].object = q[i].object) = i
    BY <1>1
  <2>3. QED
    BY <2>1, <2>2 DEF Due
<1>3. \A o : ~Timed(q, o) => Due(q, o) = 0
  BY DEF Due
<1>4. \A o : Timed(q, o) => \E i \in 1..Len(q) : q[i].object = o /\ Due(q, o) = q[i].at
  BY <1>2 DEF Timed
<1>5. \A i \in 1..Len(q) : q[i].at \in Nat \ {0}
  <2>1. q \in Seq(Entry)
    BY DEF Ordered
  <2>2. \A i \in 1..Len(q) : q[i] \in Entry
    BY <2>1
  <2>3. QED
    BY <2>2 DEF Entry
<1>6. QED
  <2>1. \A o : Timed(q, o) => Due(q, o) \in Nat \ {0}
    BY <1>4, <1>5
  <2>2. \A o : ~Timed(q, o) => Due(q, o) = 0
    BY <1>3
  <2>3. \A o : Due(q, o) \in Nat /\ (Timed(q, o) <=> Due(q, o) # 0)
    BY <2>1, <2>2
  <2>4. QED
    BY <1>2, <1>3, <1>4, <2>3

(* What nbClockSetTimer takes off the queue.                               *)
LEMMA CancelledIs ==
  ASSUME NEW q, Ordered(q), NEW o
  PROVE  \/ Cancelled(q, o) = q /\ ~Timed(q, o)
         \/ \E k \in 1..Len(q) :
              /\ q[k].object = o
              /\ Cancelled(q, o) \in Seq(Entry) /\ Len(Cancelled(q, o)) = Len(q) - 1
              /\ \A j \in 1..Len(q) - 1 : Cancelled(q, o)[j] = IF j < k THEN q[j] ELSE q[j + 1]
<1> DEFINE own == {i \in 1..Len(q) : q[i].object = o}
<1>1. CASE own = {}
  BY <1>1 DEF Cancelled, Timed
<1>2. CASE own # {}
  <2>1. own \in SUBSET Nat
    OBVIOUS
  <2>2. Min(own) \in own
    BY <1>2, <2>1, MinOfNaturals
  <2>3. PICK k \in 1..Len(q) : k = Min(own) /\ q[k].object = o
    BY <2>2
  <2>4. Cancelled(q, o) = RemoveAt(q, k)
    BY <1>2, <2>3 DEF Cancelled
  <2>5. q \in Seq(Entry)
    BY DEF Ordered
  <2>6. QED
    BY <2>3, <2>4, <2>5, RemoveAtProperties
<1>3. QED
  BY <1>1, <1>2

(* The rest of the queue stays as it is.                                   *)
LEMMA CancelledKeeps ==
  ASSUME NEW q, Ordered(q), NEW o
  PROVE  /\ Ordered(Cancelled(q, o)) /\ ~Timed(Cancelled(q, o), o)
         /\ \A p : p # o => Due(Cancelled(q, o), p) = Due(q, p)
         /\ AheadInSecond(Cancelled(q, o)) = {p \in AheadInSecond(q) : o \notin {p[1], p[2]}}
<1>1. CASE Cancelled(q, o) = q /\ ~Timed(q, o)
  <2>1. \A p \in AheadInSecond(q) : o \notin {p[1], p[2]}
    BY <1>1 DEF AheadInSecond, Timed
  <2>2. QED
    BY <1>1, <2>1
<1>2. ASSUME NEW k \in 1..Len(q), q[k].object = o,
             NEW c \in Seq(Entry), c = Cancelled(q, o), Len(c) = Len(q) - 1,
             \A j \in 1..Len(q) - 1 : c[j] = IF j < k THEN q[j] ELSE q[j + 1]
      PROVE  /\ Ordered(c) /\ ~Timed(c, o)
             /\ \A p : p # o => Due(c, p) = Due(q, p)
             /\ AheadInSecond(c) = {p \in AheadInSecond(q) : o \notin {p[1], p[2]}}
  <2> DEFINE Old(j) == IF j < k THEN j ELSE j + 1
             New(i) == IF i < k THEN i ELSE i - 1
  <2>1. /\ Len(q) \in Nat
        /\ \A i, j \in 1..Len(q) : i < j => q[i].at <= q[j].at
        /\ \A i, j \in 1..Len(q) : i < j => q[i].object # q[j].object
    BY DEF Ordered
  <2>2. \A j \in 1..Len(c) : Old(j) \in 1..Len(q) /\ Old(j) # k /\ c[j] = q[Old(j)]
    BY <1>2, <2>1
  <2>3. \A i, j \in 1..Len(c) : i < j => Old(i) < Old(j)
    BY <1>2, <2>1
  <2>4. \A i \in 1..Len(q) : i # k => New(i) \in 1..Len(c) /\ c[New(i)] = q[i]
    BY <1>2, <2>1
  <2>5. \A i, j \in 1..Len(q) : i # k /\ j # k /\ i < j => New(i) < New(j)
    BY <2>1
  <2>6. \A i \in 1..Len(q) : i # k => q[i].object # o
    BY <1>2, <2>1
  <2> HIDE DEF Old, New
  <2>7. Ordered(c)
    <3>1. ASSUME NEW i \in 1..Len(c), NEW j \in 1..Len(c), i < j
          PROVE  c[i].at <= c[j].at /\ c[i].object # c[j].object
      <4>1. /\ Old(i) \in 1..Len(q) /\ Old(j) \in 1..Len(q) /\ Old(i) < Old(j)
            /\ c[i] = q[Old(i)] /\ c[j] = q[Old(j)]
        BY <2>2, <2>3, <3>1
      <4>2. QED
        BY <2>1, <4>1
    <3>2. QED
      BY <3>1 DEF Ordered
  <2>8. ~Timed(c, o)
    BY <2>2, <2>6 DEF Timed
  <2>9. ASSUME NEW p, p # o
        PROVE  Due(c, p) = Due(q, p)
    <3>1. CASE Timed(q, p)
      <4>1. PICK i \in 1..Len(q) : q[i].object = p /\ Due(q, p) = q[i].at
        BY <3>1, DueIs
      <4>2. i # k
        BY <1>2, <2>9, <4>1
      <4>3. New(i) \in 1..Len(c) /\ c[New(i)] = q[i]
        BY <2>4, <4>2
      <4>4. Due(c, c[New(i)].object) = c[New(i)].at
        BY <2>7, <4>3, DueIs
      <4>5. QED
        BY <4>1, <4>3, <4>4
    <3>2. CASE ~Timed(q, p)
      <4>1. ~Timed(c, p)
        BY <2>2, <3>2 DEF Timed
      <4>2. QED
        BY <2>7, <3>2, <4>1, DueIs
    <3>3. QED
      BY <3>1, <3>2
  <2>10. ASSUME NEW a \in Object, NEW b \in Object
         PROVE  <<a, b>> \in AheadInSecond(c) <=> <<a, b>> \in AheadInSecond(q) /\ o # a /\ o # b
    <3>1. ASSUME <<a, b>> \in AheadInSecond(c)
          PROVE  <<a, b>> \in AheadInSecond(q) /\ o # a /\ o # b
      <4>1. PICK i, j \in 1..Len(c) : i < j /\ c[i].at = c[j].at /\ c[i].object = a /\ c[j].object = b
        BY <3>1 DEF AheadInSecond
      <4>2. /\ Old(i) \in 1..Len(q) /\ Old(j) \in 1..Len(q) /\ Old(i) < Old(j)
            /\ c[i] = q[Old(i)] /\ c[j] = q[Old(j)] /\ Old(i) # k /\ Old(j) # k
        BY <2>2, <2>3, <4>1
      <4>3. <<a, b>> \in AheadInSecond(q)
        BY <4>1, <4>2 DEF AheadInSecond
      <4>4. QED
        BY <2>6, <4>1, <4>2, <4>3
    <3>2. ASSUME <<a, b>> \in AheadInSecond(q), o # a, o # b
          PROVE  <<a, b>> \in AheadInSecond(c)
      <4>1. PICK i, j \in 1..Len(q) : i < j /\ q[i].at = q[j].at /\ q[i].object = a /\ q[j].object = b
        BY <3>2 DEF AheadInSecond
      <4>2. i # k /\ j # k
        BY <1>2, <3>2, <4>1
      <4>3. /\ New(i) \in 1..Len(c) /\ New(j) \in 1..Len(c) /\ New(i) < New(j)
            /\ c[New(i)] = q[i] /\ c[New(j)] = q[j]
        BY <2>4, <2>5, <4>1, <4>2
      <4>4. QED
        BY <4>1, <4>3 DEF AheadInSecond
    <3>3. QED
      BY <3>1, <3>2
  <2>11. AheadInSecond(c) \subseteq Object \X Object /\ AheadInSecond(q) \subseteq Object \X Object
    BY DEF AheadInSecond
  <2>12. AheadInSecond(c) = {p \in AheadInSecond(q) : o \notin {p[1], p[2]}}
    BY <2>10, <2>11
  <2>13. QED
    BY <2>7, <2>8, <2>9, <2>12
<1>3. QED
  BY <1>1, <1>2, CancelledIs
(* What nbClockSetTimer puts into the queue.                               *)
LEMMA InsertedIs ==
  ASSUME NEW q, Ordered(q), NEW e \in Entry
  PROVE  \E m \in 1..Len(q) + 1 :
           /\ Inserted(q, e) \in Seq(Entry) /\ Len(Inserted(q, e)) = Len(q) + 1
           /\ \A j \in 1..Len(q) + 1 :
                Inserted(q, e)[j] = IF j < m THEN q[j] ELSE IF j = m THEN e ELSE q[j - 1]
           /\ \A i \in 1..Len(q) : IF i < m THEN q[i].at <= e.at ELSE q[i].at > e.at
<1> DEFINE later == {i \in 1..Len(q) : q[i].at > e.at} \cup {Len(q) + 1}
<1>1. q \in Seq(Entry) /\ Len(q) \in Nat
  BY DEF Ordered
<1>2. later \in SUBSET Nat /\ later # {} /\ later \subseteq 1..Len(q) + 1
  BY <1>1
<1>3. Min(later) \in later /\ \A y \in later : Min(later) <= y
  BY <1>2, MinOfNaturals
<1>4. PICK m \in 1..Len(q) + 1 : m = Min(later)
  BY <1>2, <1>3
<1>5. m \in later /\ \A y \in later : m <= y
  BY <1>3, <1>4
<1>6. Inserted(q, e) = InsertAt(q, m, e)
  BY <1>4 DEF Inserted
<1>7. ASSUME NEW i \in 1..Len(q)
      PROVE  IF i < m THEN q[i].at <= e.at ELSE q[i].at > e.at
  <2>1. q[i] \in Entry
    BY <1>1
  <2>2. q[i].at \in Nat /\ e.at \in Nat
    BY <2>1 DEF Entry
  <2>3. CASE i < m
    <3>1. i \notin later
      BY <1>5, <2>3
    <3>2. QED
      BY <2>2, <2>3, <3>1
  <2>4. CASE ~(i < m)
    <3>1. m \in 1..Len(q) /\ q[m].at > e.at
      BY <1>1, <1>5, <2>4
    <3>2. m = i \/ m < i
      BY <2>4, <3>1
    <3>3. q[m].at <= q[i].at
      BY <2>2, <3>1, <3>2 DEF Ordered
    <3>4. q[m] \in Entry
      BY <1>1, <3>1
    <3>5. q[m].at \in Nat
      BY <3>4 DEF Entry
    <3>6. QED
      BY <2>2, <2>4, <3>1, <3>3, <3>5
  <2>5. QED
    BY <2>3, <2>4
<1>8. /\ InsertAt(q, m, e) \in Seq(Entry)
      /\ Len(InsertAt(q, m, e)) = Len(q) + 1
      /\ \A j \in 1..Len(q) + 1 :
           InsertAt(q, m, e)[j] = IF j < m THEN q[j] ELSE IF j = m THEN e ELSE q[j - 1]
  <2>1. q \in Seq(Entry)
    BY <1>1
  <2> HIDE DEF later
  <2>2. SUFFICES ASSUME NEW S, S = Entry
                 PROVE  /\ InsertAt(q, m, e) \in Seq(S)
                        /\ Len(InsertAt(q, m, e)) = Len(q) + 1
                        /\ \A j \in 1..Len(q) + 1 :
                             InsertAt(q, m, e)[j] = IF j < m THEN q[j] ELSE IF j = m THEN e ELSE q[j - 1]
    OBVIOUS
  <2>3. q \in Seq(S) /\ e \in S /\ m \in 1..Len(q) + 1
    BY <2>1, <2>2
  <2>4. InsertAt(q, m, e) \in Seq(S) /\ Len(InsertAt(q, m, e)) = Len(q) + 1
    BY <2>3, InsertAtProperties
  <2>5. ASSUME NEW j \in 1..Len(q) + 1
        PROVE  InsertAt(q, m, e)[j] = IF j < m THEN q[j] ELSE IF j = m THEN e ELSE q[j - 1]
    BY <2>3, InsertAtProperties
  <2>6. QED
    BY <2>4, <2>5
<1>9. \A i \in 1..Len(q) : IF i < m THEN q[i].at <= e.at ELSE q[i].at > e.at
  BY <1>7
<1>10. QED
  BY <1>6, <1>8, <1>9

(* It is lined up behind the timers of its second.                         *)
LEMMA InsertedKeeps ==
  ASSUME NEW q, Ordered(q), NEW e \in Entry, ~Timed(q, e.object)
  PROVE  /\ Ordered(Inserted(q, e))
         /\ Due(Inserted(q, e), e.object) = e.at
         /\ \A p : p # e.object => Due(Inserted(q, e), p) = Due(q, p)
         /\ AheadInSecond(Inserted(q, e)) = AheadInSecond(q) \cup
              {<<p, e.object>> : p \in {p \in Object \ {e.object} : Due(q, p) = e.at}}
<1>1. PICK m \in 1..Len(q) + 1, n \in Seq(Entry) :
        /\ n = Inserted(q, e) /\ Len(n) = Len(q) + 1
        /\ \A j \in 1..Len(q) + 1 : n[j] = IF j < m THEN q[j] ELSE IF j = m THEN e ELSE q[j - 1]
        /\ \A i \in 1..Len(q) : IF i < m THEN q[i].at <= e.at ELSE q[i].at > e.at
  BY InsertedIs
<1> DEFINE Old(j) == IF j < m THEN j ELSE j - 1
           New(i) == IF i < m THEN i ELSE i + 1
<1>2. /\ Len(q) \in Nat /\ Len(n) = Len(q) + 1
      /\ \A i, j \in 1..Len(q) : i < j => q[i].at <= q[j].at
      /\ \A i, j \in 1..Len(q) : i < j => q[i].object # q[j].object
  BY <1>1 DEF Ordered
<1>3. \A j \in 1..Len(n) : j # m => Old(j) \in 1..Len(q) /\ n[j] = q[Old(j)]
  BY <1>1, <1>2
<1>4. \A i, j \in 1..Len(n) : i < j /\ i # m /\ j # m => Old(i) < Old(j)
  BY <1>1, <1>2
<1>5. \A i \in 1..Len(q) : New(i) \in 1..Len(n) /\ New(i) # m /\ n[New(i)] = q[i]
  BY <1>1, <1>2
<1>6. \A i, j \in 1..Len(q) : i < j => New(i) < New(j)
  BY <1>2
<1>7. m \in 1..Len(n) /\ n[m] = e
  BY <1>1, <1>2
<1>8. \A j \in 1..Len(n) : j # m => IF j < m THEN n[j].at <= e.at ELSE n[j].at > e.at
  <2>1. \A i \in 1..Len(q) : IF i < m THEN q[i].at <= e.at ELSE q[i].at > e.at
    BY <1>1
  <2>2. \A j \in 1..Len(n) : j # m => (Old(j) < m <=> j < m)
    BY <1>1, <1>2
  <2> HIDE DEF Old
  <2>3. QED
    BY <1>3, <2>1, <2>2
<1>9. \A i \in 1..Len(q) : IF q[i].at <= e.at THEN New(i) < m ELSE m < New(i)
  <2>1. \A i \in 1..Len(q) : q[i].at \in Nat /\ e.at \in Nat
    <3>1. q \in Seq(Entry)
      BY DEF Ordered
    <3>2. \A i \in 1..Len(q) : q[i] \in Entry
      BY <3>1
    <3>3. QED
      BY <3>2 DEF Entry
  <2>2. \A i \in 1..Len(q) : IF i < m THEN q[i].at <= e.at ELSE q[i].at > e.at
    BY <1>1
  <2>3. \A i \in 1..Len(q) : q[i].at <= e.at => i < m
    BY <2>1, <2>2
  <2>4. \A i \in 1..Len(q) : ~(q[i].at <= e.at) => ~(i < m)
    BY <2>1, <2>2
  <2>5. QED
    BY <1>1, <1>2, <2>3, <2>4
<1>10. \A i \in 1..Len(q) : q[i].object # e.object
  BY DEF Timed
<1> HIDE DEF Old, New
<1>11. Ordered(n)
  <2>1. ASSUME NEW i \in 1..Len(n), NEW j \in 1..Len(n), i < j
        PROVE  n[i].at <= n[j].at /\ n[i].object # n[j].object
    <3>1. CASE i # m /\ j # m
      <4>1. /\ Old(i) \in 1..Len(q) /\ Old(j) \in 1..Len(q) /\ Old(i) < Old(j)
            /\ n[i] = q[Old(i)] /\ n[j] = q[Old(j)]
        BY <1>3, <1>4, <2>1, <3>1
      <4>2. QED
        BY <1>2, <4>1
    <3>2. CASE i = m
      <4>1. j # m /\ ~(j < m)
        BY <2>1, <3>2
      <4>2. n[j].at > e.at /\ n[i] = e
        BY <1>7, <1>8, <3>2, <4>1
      <4>3. n[j] \in Entry
        BY <1>1
      <4>4. n[j].at \in Nat /\ e.at \in Nat
        BY <4>3 DEF Entry
      <4>5. n[j].object # e.object
        BY <1>3, <1>10, <4>1
      <4>6. QED
        BY <4>2, <4>4, <4>5
    <3>3. CASE j = m
      <4>1. i # m /\ i < m
        BY <2>1, <3>3
      <4>2. n[i].at <= e.at /\ n[j] = e
        BY <1>7, <1>8, <3>3, <4>1
      <4>3. n[i].object # e.object
        BY <1>3, <1>10, <4>1
      <4>4. QED
        BY <4>2, <4>3
    <3>4. QED
      BY <3>1, <3>2, <3>3
  <2>2. QED
    BY <1>1, <2>1 DEF Ordered
<1>12. Due(n, e.object) = e.at
  BY <1>7, <1>11, DueIs
<1>13. ASSUME NEW p, p # e.object
       PROVE  Due(n, p) = Due(q, p)
  <2>1. CASE Timed(q, p)
    <3>1. PICK i \in 1..Len(q) : q[i].object = p /\ Due(q, p) = q[i].at
      BY <2>1, DueIs
    <3>2. New(i) \in 1..Len(n) /\ n[New(i)] = q[i]
      BY <1>5
    <3>3. Due(n, n[New(i)].object) = n[New(i)].at
      BY <1>11, <3>2, DueIs
    <3>4. QED
      BY <3>1, <3>2, <3>3
  <2>2. CASE ~Timed(q, p)
    <3>1. ~Timed(n, p)
      BY <1>3, <1>7, <1>13, <2>2 DEF Timed
    <3>2. QED
      BY <1>11, <2>2, <3>1, DueIs
  <2>3. QED
    BY <2>1, <2>2
<1>14. ASSUME NEW a \in Object, NEW b \in Object
       PROVE  <<a, b>> \in AheadInSecond(n) <=>
                <<a, b>> \in AheadInSecond(q) \/ (b = e.object /\ a # e.object /\ Due(q, a) = e.at)
  <2>1. ASSUME <<a, b>> \in AheadInSecond(n)
        PROVE  <<a, b>> \in AheadInSecond(q) \/ (b = e.object /\ a # e.object /\ Due(q, a) = e.at)
    <3>1. PICK i, j \in 1..Len(n) : i < j /\ n[i].at = n[j].at /\ n[i].object = a /\ n[j].object = b
      BY <2>1 DEF AheadInSecond
    <3>2. CASE i # m /\ j # m
      <4>1. /\ Old(i) \in 1..Len(q) /\ Old(j) \in 1..Len(q) /\ Old(i) < Old(j)
            /\ n[i] = q[Old(i)] /\ n[j] = q[Old(j)]
        BY <1>3, <1>4, <3>1, <3>2
      <4>2. QED
        BY <3>1, <4>1 DEF AheadInSecond
    <3>3. CASE i = m
      <4>1. j # m /\ ~(j < m)
        BY <3>1, <3>3
      <4>2. n[j].at > e.at /\ n[i] = e
        BY <1>7, <1>8, <3>3, <4>1
      <4>3. e.at \in Nat
        BY DEF Entry
      <4>4. QED
        BY <3>1, <4>2, <4>3
    <3>4. CASE j = m /\ i # m
      <4>1. Old(i) \in 1..Len(q) /\ n[i] = q[Old(i)]
        BY <1>3, <3>4
      <4>2. b = e.object /\ a # e.object /\ n[i].at = e.at
        BY <1>7, <1>10, <3>1, <3>4, <4>1
      <4>3. Due(q, q[Old(i)].object) = q[Old(i)].at
        BY <4>1, DueIs
      <4>4. QED
        BY <3>1, <4>1, <4>2, <4>3
    <3>5. QED
      BY <3>2, <3>3, <3>4
  <2>2. ASSUME <<a, b>> \in AheadInSecond(q)
        PROVE  <<a, b>> \in AheadInSecond(n)
    <3>1. PICK i, j \in 1..Len(q) : i < j /\ q[i].at = q[j].at /\ q[i].object = a /\ q[j].object = b
      BY <2>2 DEF AheadInSecond
    <3>2. /\ New(i) \in 1..Len(n) /\ New(j) \in 1..Len(n) /\ New(i) < New(j)
          /\ n[New(i)] = q[i] /\ n[New(j)] = q[j]
      BY <1>5, <1>6, <3>1
    <3>3. QED
      BY <3>1, <3>2 DEF AheadInSecond
  <2>3. ASSUME b = e.object, a # e.object, Due(q, a) = e.at
        PROVE  <<a, b>> \in AheadInSecond(n)
    <3>1. e.at \in Nat \ {0}
      BY DEF Entry
    <3>2. Timed(q, a)
      BY <2>3, <3>1, DueIs
    <3>3. PICK i \in 1..Len(q) : q[i].object = a /\ e.at = q[i].at
      <4>1. PICK i \in 1..Len(q) : q[i].object = a /\ Due(q, a) = q[i].at
        BY <3>2, DueIs
      <4>2. QED
        BY <2>3, <4>1
    <3>4. New(i) \in 1..Len(n) /\ New(i) < m /\ n[New(i)] = q[i]
      BY <1>5, <1>9, <3>1, <3>3
    <3>5. QED
      BY <1>7, <2>3, <3>3, <3>4 DEF AheadInSecond
  <2>4. QED
    BY <2>1, <2>2, <2>3
<1>15. AheadInSecond(n) = AheadInSecond(q) \cup
         {<<p, e.object>> : p \in {p \in Object \ {e.object} : Due(q, p) = e.at}}
  <2>1. e.object \in Object
    BY DEF Entry
  <2>2. AheadInSecond(n) \subseteq Object \X Object /\ AheadInSecond(q) \subseteq Object \X Object
    BY DEF AheadInSecond
  <2>3. QED
    BY <1>14, <2>1, <2>2
<1>16. QED
  BY <1>1, <1>11, <1>12, <1>13, <1>15

(* nbClockSetTimer as a whole.                                             *)
LEMMA SetTimerSets ==
  ASSUME NEW q, Ordered(q), NEW o \in Object, NEW t \in Nat
  PROVE  /\ Ordered(SetTimer(q, t, o))
         /\ Due(SetTimer(q, t, o), o) = t
         /\ \A p : p # o => Due(SetTimer(q, t, o), p) = Due(q, p)
         /\ AheadInSecond(SetTimer(q, t, o)) = {p \in AheadInSecond(q) : o \notin {p[1], p[2]}} \cup
              {<<p, o>> : p \in {p \in Object \ {o} : Due(q, p) # 0 /\ Due(q, p) = t}}
<1>1. PICK c : c = Cancelled(q, o)
  OBVIOUS
<1>2. /\ Ordered(c) /\ ~Timed(c, o)
      /\ \A p : p # o => Due(c, p) = Due(q, p)
      /\ AheadInSecond(c) = {p \in AheadInSecond(q) : o \notin {p[1], p[2]}}
  BY <1>1, CancelledKeeps
<1>3. CASE t = 0
  <2>1. SetTimer(q, t, o) = c
    BY <1>1, <1>3 DEF SetTimer
  <2>2. Due(c, o) = 0
    BY <1>2, DueIs
  <2>3. {<<p, o>> : p \in {p \in Object \ {o} : Due(q, p) # 0 /\ Due(q, p) = t}} = {}
    BY <1>3
  <2>4. QED
    BY <1>2, <1>3, <2>1, <2>2, <2>3
<1>4. CASE t # 0
  <2>1. PICK e \in Entry : e = [object |-> o, at |-> t]
    BY <1>4 DEF Entry
  <2>2. e.object = o /\ e.at = t
    BY <2>1
  <2>3. PICK n : n = Inserted(c, e)
    OBVIOUS
  <2>4. SetTimer(q, t, o) = n
    BY <1>1, <1>4, <2>1, <2>3 DEF SetTimer
  <2>5. /\ Ordered(n) /\ Due(n, o) = t
        /\ \A p : p # o => Due(n, p) = Due(c, p)
        /\ AheadInSecond(n) = AheadInSecond(c) \cup
             {<<p, o>> : p \in {p \in Object \ {o} : Due(c, p) = t}}
    BY <1>2, <2>2, <2>3, InsertedKeeps
  <2>6. {p \in Object \ {o} : Due(c, p) = t} = {p \in Object \ {o} : Due(q, p) # 0 /\ Due(q, p) = t}
    BY <1>2, <1>4
  <2>7. QED
    BY <1>2, <2>4, <2>5, <2>6
<1>5. QED
  BY <1>3, <1>4

(* The first timer is the next to ring, and is taken off.                  *)
LEMMA HeadIsNext ==
  ASSUME NEW q, Ordered(q), q # <<>>
  PROVE  /\ Head(q).object \in Object /\ Head(q).at \in Nat \ {0}
         /\ Due(q, Head(q).object) = Head(q).at
         /\ \A p : Due(q, p) # 0 => Head(q).at <= Due(q, p)
         /\ \A p : <<p, Head(q).object>> \notin AheadInSecond(q)
         /\ Tail(q) = SetTimer(q, 0, Head(q).object)
<1>1. /\ q \in Seq(Entry) /\ Len(q) \in Nat \ {0} /\ Head(q) = q[1] /\ 1 \in 1..Len(q)
      /\ \A i, j \in 1..Len(q) : i < j => q[i].at <= q[j].at
      /\ \A i, j \in 1..Len(q) : i < j => q[i].object # q[j].object
  BY DEF Ordered
<1>2. \A i \in 1..Len(q) : q[i].object \in Object /\ q[i].at \in Nat \ {0}
  <2>1. \A i \in 1..Len(q) : q[i] \in Entry
    BY <1>1
  <2>2. QED
    BY <2>1 DEF Entry
<1>3. \A i \in 1..Len(q) : q[1].at <= q[i].at /\ (i # 1 => q[i].object # q[1].object)
  <2>1. \A i \in 1..Len(q) : i = 1 \/ 1 < i
    BY <1>1
  <2>2. QED
    BY <1>1, <1>2, <2>1
<1>4. Due(q, q[1].object) = q[1].at
  BY <1>1, DueIs
<1>5. ASSUME NEW p, Due(q, p) # 0
      PROVE  q[1].at <= Due(q, p)
  <2>1. Timed(q, p)
    BY <1>5, DueIs
  <2>2. PICK i \in 1..Len(q) : q[i].object = p /\ Due(q, p) = q[i].at
    BY <2>1, DueIs
  <2>3. QED
    BY <1>3, <2>2
<1>6. ASSUME NEW p, <<p, q[1].object>> \in AheadInSecond(q)
      PROVE  FALSE
  <2>1. PICK i, j \in 1..Len(q) : i < j /\ q[j].object = q[1].object
    BY <1>6 DEF AheadInSecond
  <2>2. j # 1
    BY <2>1
  <2>3. QED
    BY <1>3, <2>1, <2>2
<1>7. Tail(q) = SetTimer(q, 0, q[1].object)
  <2> DEFINE own == {i \in 1..Len(q) : q[i].object = q[1].object}
  <2>1. own = {1}
    BY <1>1, <1>3
  <2>2. Min(own) = 1
    <3>1. own \in SUBSET Nat /\ own # {}
      BY <2>1
    <3>2. Min(own) \in own
      BY <3>1, MinOfNaturals
    <3>3. QED
      BY <2>1, <3>2
  <2>3. SetTimer(q, 0, q[1].object) = RemoveAt(q, 1)
    BY <2>1, <2>2 DEF SetTimer, Cancelled
  <2>4. /\ RemoveAt(q, 1) \in Seq(Entry) /\ Len(RemoveAt(q, 1)) = Len(q) - 1
        /\ \A j \in 1..Len(q) - 1 : RemoveAt(q, 1)[j] = IF j < 1 THEN q[j] ELSE q[j + 1]
    BY <1>1, RemoveAtProperties
  <2>5. \A j \in 1..Len(q) - 1 : RemoveAt(q, 1)[j] = q[j + 1]
    BY <1>1, <2>4
  <2>6. /\ Tail(q) \in Seq(Entry) /\ Len(Tail(q)) = Len(q) - 1
        /\ \A j \in 1..Len(q) - 1 : Tail(q)[j] = q[j + 1]
    BY <1>1, HeadTailProperties
  <2>7. Tail(q) = RemoveAt(q, 1)
    BY <2>4, <2>5, <2>6, SeqEqual
  <2>8. QED
    BY <2>3, <2>7
<1>8. QED
  BY <1>1, <1>2, <1>4, <1>5, <1>6, <1>7

----------------------------------------------------------------------------
(* The list of timer elements of the cache.                                *)
Element == [row : Row, at : Nat \ {0}]

(* In order of time, none later than h.                                    *)
Listed(l, h) ==
  /\ l \in Seq(Element)
  /\ \A i, j \in 1..Len(l) : i < j => l[i].at <= l[j].at
  /\ \A i \in 1..Len(l) : l[i].at <= h

(* Elements that are freed do not bring the first forward.                 *)
LEMMA SelectedListed ==
  ASSUME NEW l, NEW h, Listed(l, h), NEW I \in SUBSET (DOMAIN l)
  PROVE  /\ Listed(Selected(l, I), h)
         /\ Selected(l, I) # <<>> => l # <<>> /\ Head(l).at <= Head(Selected(l, I)).at
<1>1. l \in Seq(Element) /\ Len(l) \in Nat /\ I \in SUBSET (1..Len(l))
  BY DEF Listed
<1>2. PICK t : t = Selected(l, I)
  OBVIOUS
<1>3. I \in SUBSET Nat /\ IsFiniteSet(I)
  <2>1. IsFiniteSet(1..Len(l))
    BY <1>1, FS_Interval
  <2>2. QED
    BY <1>1, <2>1, FS_Subset
<1>4. PICK f \in [1..Cardinality(I) -> I] :
        /\ f = [n \in 1..Cardinality(I) |-> CHOOSE i \in I : Cardinality({j \in I : j < i}) = n - 1]
        /\ \A m, n \in 1..Cardinality(I) : m < n => f[m] < f[n]
  BY <1>3, PlacesInOrder
<1>5. /\ t \in Seq(Element) /\ Len(t) = Cardinality(I)
      /\ \A n \in 1..Len(t) : f[n] \in 1..Len(l) /\ t[n] = l[f[n]]
  <2>1. PICK u : u = [n \in 1..Cardinality(I) |-> l[f[n]]]
    OBVIOUS
  <2>2. Cardinality(I) \in Nat
    BY <1>3, PlacesInOrder
  <2>3. \A n \in 1..Cardinality(I) : f[n] \in 1..Len(l) /\ l[f[n]] \in Element
    BY <1>1
  <2>4. /\ u \in Seq(Element) /\ Len(u) = Cardinality(I)
        /\ \A n \in 1..Len(u) : f[n] \in 1..Len(l) /\ u[n] = l[f[n]]
    BY <2>1, <2>2, <2>3
  <2>5. t = u
    BY <1>2, <1>4, <2>1 DEF Selected
  <2>6. QED
    BY <2>4, <2>5
<1>6. ASSUME NEW m \in 1..Len(t), NEW n \in 1..Len(t), m < n
      PROVE  t[m].at <= t[n].at
  <2>1. f[m] < f[n]
    <3>1. \A a, b \in 1..Cardinality(I) : a < b => f[a] < f[b]
      BY <1>4
    <3>2. QED
      BY <1>5, <1>6, <3>1
  <2>2. QED
    BY <1>5, <2>1 DEF Listed
<1>7. \A n \in 1..Len(t) : t[n].at <= h
  BY <1>5 DEF Listed
<1>8. Listed(t, h)
  BY <1>5, <1>6, <1>7 DEF Listed
<1>9. ASSUME t # <<>>
      PROVE  l # <<>> /\ Head(l).at <= Head(t).at
  <2>1. 1 \in 1..Len(t) /\ Head(t) = t[1]
    BY <1>9
  <2>2. f[1] \in 1..Len(l) /\ t[1] = l[f[1]]
    BY <1>5, <2>1
  <2>3. l # <<>> /\ Head(l) = l[1] /\ 1 \in 1..Len(l) /\ (f[1] = 1 \/ 1 < f[1])
    BY <1>1, <2>2
  <2>4. l[1] \in Element
    BY <1>1, <2>3
  <2>5. l[1].at \in Nat
    BY <2>4 DEF Element
  <2>6. l[1].at <= l[f[1]].at
    BY <2>2, <2>3, <2>5 DEF Listed
  <2>7. QED
    BY <2>1, <2>2, <2>3, <2>6
<1>10. QED
  BY <1>2, <1>8, <1>9

(* A new element goes to the end.                                          *)
LEMMA AppendListed ==
  ASSUME NEW l, NEW h \in Nat, Listed(l, h), NEW r \in Row, h # 0
  PROVE  /\ Listed(Append(l, [row |-> r, at |-> h]), h)
         /\ Append(l, [row |-> r, at |-> h]) # <<>>
         /\ Head(Append(l, [row |-> r, at |-> h])).at = IF l = <<>> THEN h ELSE Head(l).at
<1>1. PICK e \in Element : e = [row |-> r, at |-> h]
  BY DEF Element
<1>2. e.at = h
  BY <1>1
<1>3. PICK t \in Seq(Element) : t = Append(l, e)
  <2>1. l \in Seq(Element)
    BY DEF Listed
  <2>2. Append(l, e) \in Seq(Element)
    BY <2>1
  <2>3. QED
    BY <2>2
<1>4. /\ l \in Seq(Element) /\ Len(l) \in Nat /\ Len(t) = Len(l) + 1
      /\ \A i \in 1..Len(t) : t[i] = IF i <= Len(l) THEN l[i] ELSE e
  BY <1>3 DEF Listed
<1>5. ASSUME NEW i \in 1..Len(t)
      PROVE  t[i].at <= h
  BY <1>2, <1>4 DEF Listed
<1>6. ASSUME NEW i \in 1..Len(t), NEW j \in 1..Len(t), i < j
      PROVE  t[i].at <= t[j].at
  <2>1. CASE j <= Len(l)
    BY <1>4, <1>6, <2>1 DEF Listed
  <2>2. CASE ~(j <= Len(l))
    BY <1>2, <1>4, <1>5, <2>2
  <2>3. QED
    BY <2>1, <2>2
<1>7. Listed(t, h)
  BY <1>5, <1>6 DEF Listed
<1>8. t # <<>> /\ Head(t) = t[1] /\ 1 \in 1..Len(t)
  BY <1>4
<1>9. Head(t).at = IF l = <<>> THEN h ELSE Head(l).at
  <2>1. CASE l = <<>>
    BY <1>2, <1>4, <1>8, <2>1
  <2>2. CASE l # <<>>
    BY <1>4, <1>8, <2>2
  <2>3. QED
    BY <2>1, <2>2
<1>10. QED
  BY <1>1, <1>3, <1>7, <1>8, <1>9

(* The first element is the first to expire.                               *)
LEMMA HeadListed ==
  ASSUME NEW l, NEW h, Listed(l, h), l # <<>>
  PROVE  /\ Head(l) \in Element /\ Head(l).at \in Nat \ {0} /\ Head(l).at <= h
         /\ Listed(Tail(l), h)
         /\ Tail(l) # <<>> => Head(l).at <= Head(Tail(l)).at
<1>1. l \in Seq(Element) /\ Len(l) \in Nat \ {0} /\ Head(l) = l[1] /\ 1 \in 1..Len(l)
  BY DEF Listed
<1>2. l[1] \in Element
  BY <1>1
<1>3. l[1].at \in Nat \ {0} /\ l[1].at <= h
  BY <1>1, <1>2 DEF Element, Listed
<1>4. PICK t \in Seq(Element) : t = Tail(l)
  <2>1. Tail(l) \in Seq(Element)
    BY <1>1
  <2>2. QED
    BY <2>1
<1>5. Len(t) = Len(l) - 1 /\ \A i \in 1..Len(t) : t[i] = l[i + 1]
  BY <1>1, <1>4, HeadTailProperties
<1>6. \A i, j \in 1..Len(t) : i < j => t[i].at <= t[j].at
  <2>1. \A i \in 1..Len(t) : i + 1 \in 1..Len(l) /\ t[i] = l[i + 1]
    BY <1>1, <1>5
  <2>2. \A i, j \in 1..Len(t) : i < j => i + 1 < j + 1
    OBVIOUS
  <2>3. \A i, j \in 1..Len(l) : i < j => l[i].at <= l[j].at
    BY DEF Listed
  <2>4. QED
    BY <2>1, <2>2, <2>3
<1>7. \A i \in 1..Len(t) : t[i].at <= h
  <2>1. \A i \in 1..Len(t) : i + 1 \in 1..Len(l) /\ t[i] = l[i + 1]
    BY <1>1, <1>5
  <2>2. QED
    BY <2>1 DEF Listed
<1>8. Listed(t, h)
  BY <1>6, <1>7 DEF Listed
<1>9. ASSUME t # <<>>
      PROVE  l[1].at <= Head(t).at
  <2>1. 1 \in 1..Len(t) /\ Head(t) = t[1] /\ 2 \in 1..Len(l) /\ t[1] = l[2]
    BY <1>1, <1>5, <1>9
  <2>2. QED
    BY <1>1, <2>1 DEF Listed
<1>10. QED
  BY <1>1, <1>2, <1>3, <1>4, <1>8, <1>9

----------------------------------------------------------------------------
(* The invariant.                                                          *)
ClockSound ==
  /\ now \in 1..MaxTime /\ clock \in 1..now
  /\ Ordered(timers)
  /\ alarm \in [at : {"idle", "second", "cache", "rules", "react"}, second : Nat]
  /\ alarm.second <= clock
  /\ rung.object \in Object \cup {"none"} /\ rung.count \in Nat

(* The cell c of the delay d, which has a timer for t, or none when t = 0: *)
(* operand, since, listed, stale and deaf are v, u, L, S and D.            *)
Settled(d, c, t, v, u, L, S, D) ==
  /\ c.flag <=> t # 0
  /\ d \in L => c.heard
  /\ c.heard /\ d \notin L => IF t = 0 THEN c.value = v ELSE v \in Delayed[d]
  /\ c.value # Disabled \/ c.used => c.heard \/ d \in D
  /\ c.heard /\ d \notin L /\ d \notin S /\ t # 0 => t >= u + Duration[d]

DelaySound ==
  /\ DelayTypeOK
  /\ \A d \in Delay : Settled(d, delay[d], Due(timers, d), operand, since, listed, stale, deaf)

(* A cache whose list is l, with the flag f and a timer for t; k is the    *)
(* limit of cacheAlarm, and inside tells whether it runs.                  *)
Awaited(l, f, t, k, inside) ==
  /\ f <=> t # 0
  /\ f => l # <<>> /\ t <= Head(l).at
  /\ inside /\ f => Head(l).at > k
  /\ ~inside /\ l # <<>> => f

Fields == {"options", "nodes", "list", "state", "number", "index"}

CacheWaits ==
  /\ DOMAIN cache = Fields
  /\ Listed(cache.list, now + Interval)
  /\ limit \in 0..now
  /\ Awaited(cache.list, "alarm" \in cache.state, Due(timers, Node), limit,
             alarm.at \in {"cache", "rules"})

Inv == ClockSound /\ DelaySound /\ CacheWaits

DelayCells == [value : State \cup {Disabled}, flag : BOOLEAN, heard : BOOLEAN, used : BOOLEAN]

(* The cell of a delay that is enabled.                                    *)
Enabled(c) == [c EXCEPT !.used = TRUE, !.heard = TRUE]

LEMMA EnabledCell ==
  ASSUME NEW c \in DelayCells
  PROVE  /\ Enabled(c) \in DelayCells /\ Enabled(c).flag = c.flag /\ Enabled(c).value = c.value
         /\ Enabled(c).heard /\ Enabled(c).used
<1>1. [c EXCEPT !.used = TRUE] \in DelayCells /\ [c EXCEPT !.used = TRUE].flag = c.flag
  BY DEF DelayCells
<1>2. PICK b \in DelayCells : b = [c EXCEPT !.used = TRUE]
  BY <1>1
<1>3. b.used /\ b.flag = c.flag /\ b.value = c.value
  BY <1>2 DEF DelayCells
<1>4. [b EXCEPT !.heard = TRUE] \in DelayCells
  BY DEF DelayCells
<1>5. PICK e \in DelayCells : e = [b EXCEPT !.heard = TRUE]
  BY <1>4
<1>6. e.used = b.used /\ e.flag = b.flag /\ e.value = b.value /\ e.heard
  BY <1>5 DEF DelayCells
<1>7. e = [c EXCEPT !.used = TRUE, !.heard = TRUE]
  BY <1>2, <1>5
<1>8. e = Enabled(c)
  BY <1>7 DEF Enabled
<1>9. QED
  BY <1>3, <1>6, <1>8

(* An evaluation settles the delay d, and leaves the other timers.         *)
LEMMA EvalDelaySettles ==
  ASSUME ClockSound, DelayTypeOK, NEW d \in Delay, NEW c \in DelayCells, NEW L, NEW D,
         c.flag <=> Due(timers, d) # 0, c.heard, EvalDelay(d, c)
  PROVE  /\ \E t \in Nat : timers' = SetTimer(timers, t, d) \/ timers' = timers
         /\ delay' \in [Delay -> DelayCells] /\ stale' \subseteq Delay
         /\ \A e \in Delay \ {d} : delay'[e] = delay[e] /\ (e \in stale' <=> e \in stale)
         /\ Settled(d, delay'[d], Due(timers', d), operand, since, L, stale', D)
<1>1. /\ now \in Nat /\ clock \in Nat \ {0} /\ since \in 1..now /\ Ordered(timers) /\ operand \in State
      /\ delay \in [Delay -> DelayCells] /\ stale \subseteq Delay
      /\ Duration[d] \in Nat /\ d \in Object
  BY ClockAssumption, DelayAssumption DEF ClockSound, DelayTypeOK, DelayCells, Object
<1>2. CASE /\ operand \in Delayed[d]
           /\ timers' = SetTimer(timers, clock + Duration[d], d)
           /\ delay' = [delay EXCEPT ![d] = [c EXCEPT !.flag = TRUE]]
           /\ stale' = IF clock = now THEN stale \ {d} ELSE stale \cup {d}
  <2>1. PICK b \in DelayCells : b = [c EXCEPT !.flag = TRUE]
    BY DEF DelayCells
  <2>2. b.flag = TRUE /\ b.heard = c.heard
    BY <2>1 DEF DelayCells
  <2>3. delay' = [delay EXCEPT ![d] = b]
    BY <1>2, <2>1
  <2>4. PICK t \in Nat : t = clock + Duration[d] /\ t # 0
    BY <1>1
  <2>5. timers' = SetTimer(timers, t, d)
    BY <1>2, <2>4
  <2>6. Due(timers', d) = t
    BY <1>1, <2>5, SetTimerSets
  <2>7. clock = now => t >= since + Duration[d]
    BY <1>1, <2>4
  <2>8. d \notin stale' => clock = now
    BY <1>2
  <2>9. stale' \subseteq Delay /\ \A e \in Delay \ {d} : e \in stale' <=> e \in stale
    BY <1>1, <1>2
  <2>10. delay'[d] = b
    BY <1>1, <2>3
  <2>11. Settled(d, b, t, operand, since, L, stale', D)
    BY <1>2, <2>2, <2>4, <2>7, <2>8 DEF Settled
  <2>12. QED
    BY <1>1, <2>3, <2>5, <2>6, <2>9, <2>10, <2>11
<1>3. CASE /\ operand \notin Delayed[d]
           /\ timers' = IF c.flag THEN SetTimer(timers, 0, d) ELSE timers
           /\ delay' = [delay EXCEPT ![d] = [c EXCEPT !.flag = FALSE, !.value = operand]]
           /\ stale' = stale \ {d}
  <2>1. PICK b \in DelayCells : b = [c EXCEPT !.flag = FALSE, !.value = operand]
    <3>1. PICK a \in DelayCells : a = [c EXCEPT !.flag = FALSE]
      BY DEF DelayCells
    <3>2. [a EXCEPT !.value = operand] \in DelayCells
      BY <1>1 DEF DelayCells
    <3>3. [a EXCEPT !.value = operand] = [c EXCEPT !.flag = FALSE, !.value = operand]
      BY <3>1
    <3>4. QED
      BY <3>2, <3>3
  <2>2. b.flag = FALSE /\ b.heard = c.heard /\ b.value = operand
    BY <2>1 DEF DelayCells
  <2>3. delay' = [delay EXCEPT ![d] = b]
    BY <1>3, <2>1
  <2>4. timers' = SetTimer(timers, 0, d) \/ timers' = timers
    BY <1>3
  <2>5. Due(timers', d) = 0
    <3>1. CASE c.flag
      <4>1. timers' = SetTimer(timers, 0, d)
        BY <1>3, <3>1
      <4>2. QED
        BY <1>1, <4>1, SetTimerSets
    <3>2. CASE ~c.flag
      BY <1>3, <3>2
    <3>3. QED
      BY <3>1, <3>2
  <2>6. stale' \subseteq Delay /\ \A e \in Delay \ {d} : e \in stale' <=> e \in stale
    BY <1>1, <1>3
  <2>7. delay'[d] = b
    BY <1>1, <2>3
  <2>8. Settled(d, b, 0, operand, since, L, stale', D)
    BY <2>2 DEF Settled
  <2>9. QED
    BY <1>1, <2>3, <2>4, <2>5, <2>6, <2>7, <2>8
<1>4. QED
  BY <1>2, <1>3 DEF EvalDelay

(* What a step does to the queue: nothing, or it sets or cancels one       *)
(* timer, or takes the first.                                              *)
QueueStep ==
  \/ timers' = timers /\ rung' = rung /\ (now' = now \/ (now' = now + 1 /\ now < MaxTime))
  \/ \E o \in Object, t \in Nat : timers' = SetTimer(timers, t, o) /\ rung' = rung /\ now' = now
  \/ \E o \in Object : Take(o) /\ timers' = SetTimer(timers, 0, o)

LEMMA TakeIs ==
  ASSUME ClockSound, NEW o, Take(o)
  PROVE  /\ o \in Object /\ Due(timers, o) = alarm.second /\ alarm.second # 0
         /\ alarm.at = "second"
         /\ \A p : Due(timers, p) # 0 => Due(timers, o) <= Due(timers, p)
         /\ \A p : <<p, o>> \notin AheadInSecond(timers)
         /\ Tail(timers) = SetTimer(timers, 0, o)
<1>1. /\ Ordered(timers) /\ timers # <<>> /\ Head(timers).object = o
      /\ Head(timers).at = alarm.second /\ alarm.at = "second"
  BY DEF ClockSound, Take, InSecond
<1>2. QED
  BY <1>1, HeadIsNext

LEMMA ListedFacts ==
  ASSUME ClockSound, CacheWaits
  PROVE  /\ now \in Nat \ {0} /\ now + Interval \in Nat \ {0}
         /\ cache.list \in Seq(Element)
         /\ cache.list # <<>> => Head(cache.list).at \in Nat \ {0}
<1>1. now \in Nat \ {0}
  BY ClockAssumption DEF ClockSound
<1>2. Interval \in Nat \ {0}
  BY CacheAssumption
<1>3. cache.list # <<>> => Head(cache.list).at \in Nat \ {0}
  BY HeadListed DEF CacheWaits
<1>4. QED
  BY <1>1, <1>2, <1>3 DEF CacheWaits, Listed

LEMMA QueueSteps ==
  ASSUME Inv, [Next]_vars
  PROVE  QueueStep
<1> USE DEF Inv
<1>1. ASSUME NEW d \in Delay, NEW c \in DelayCells, c.flag <=> Due(timers, d) # 0, c.heard,
             EvalDelay(d, c), rung' = rung, now' = now
      PROVE  QueueStep
  <2>1. \E t \in Nat : timers' = SetTimer(timers, t, d) \/ timers' = timers
    BY <1>1, EvalDelaySettles DEF DelaySound
  <2>2. d \in Object
    BY DEF Object
  <2>3. QED
    BY <1>1, <2>1, <2>2 DEF QueueStep
<1>2. Node \in Object /\ 0 \in Nat
  BY DEF Object
<1>3. \A d \in Delay : delay[d] \in DelayCells /\ (delay[d].flag <=> Due(timers, d) # 0)
  BY DEF DelaySound, DelayTypeOK, DelayCells, Settled
<1>4. CASE Command
  <2>1. rung' = rung /\ now' = now
    BY <1>4 DEF Command
  <2>2. CASE DelayCommand
    <3>1. ASSUME NEW v, AssignOperand(v)
          PROVE  QueueStep
      BY <2>1, <3>1 DEF AssignOperand, QueueStep
    <3>2. ASSUME NEW d \in Delay, EnableDelay(d)
          PROVE  QueueStep
      <4>1. CASE delay[d].value # Disabled
        BY <2>1, <3>2, <4>1 DEF EnableDelay, QueueStep
      <4>2. CASE delay[d].value = Disabled
        <5>1. EvalDelay(d, Enabled(delay[d]))
          BY <3>2, <4>2 DEF EnableDelay, Enabled
        <5>2. /\ Enabled(delay[d]) \in DelayCells /\ Enabled(delay[d]).heard
              /\ (Enabled(delay[d]).flag <=> Due(timers, d) # 0)
          BY <1>3, EnabledCell
        <5>3. QED
          BY <1>1, <2>1, <5>1, <5>2
      <4>3. QED
        BY <4>1, <4>2
    <3>3. ASSUME NEW d \in Delay, DisableDelay(d)
          PROVE  QueueStep
      BY <2>1, <3>3 DEF DisableDelay, QueueStep
    <3>4. QED
      BY <2>2, <3>1, <3>2, <3>3 DEF DelayCommand
  <2>3. CASE CacheCommand
    <3>1. ASSUME NEW r \in Row, AssertRow(r)
          PROVE  QueueStep
      BY <1>2, <2>1, <3>1, ListedFacts DEF AssertRow, QueueStep
    <3>2. ASSUME NEW p, RetractRow(p)
          PROVE  QueueStep
      BY <1>2, <2>1, <3>2 DEF RetractRow, QueueStep
    <3>3. CASE EmptyCache
      BY <1>2, <2>1, <3>3 DEF EmptyCache, QueueStep
    <3>4. QED
      BY <2>3, <3>1, <3>2, <3>3 DEF CacheCommand
  <2>4. QED
    BY <1>4, <2>2, <2>3 DEF Command
<1>5. CASE React
  <2>1. PICK d \in Delay : ReactDelay(d)
    BY <1>5 DEF React
  <2>2. rung' = rung /\ now' = now
    BY <1>5 DEF React
  <2>3. d \in listed /\ EvalDelay(d, delay[d])
    BY <2>1 DEF ReactDelay
  <2>4. delay[d].heard
    BY <2>3 DEF DelaySound, Settled
  <2>5. QED
    BY <1>1, <1>3, <2>2, <2>3, <2>4
<1>6. CASE Alert
  <2>1. CASE AlertStep
    BY <2>1 DEF AlertStep, ClockAlert, SecondEnd, ReactEnd, QueueStep
  <2>2. ASSUME NEW d \in Delay, AlarmDelay(d)
        PROVE  QueueStep
    BY <2>2, TakeIs DEF AlarmDelay, QueueStep
  <2>3. CASE CacheAlarm
    BY <2>3, TakeIs DEF CacheAlarm, QueueStep
  <2>4. CASE CacheAlarmStep
    <3>1. CASE ExpireRow \/ RulesEnd
      BY <3>1 DEF ExpireRow, RulesEnd, QueueStep
    <3>2. CASE CacheAlarmEnd
      BY <1>2, <3>2, ListedFacts DEF CacheAlarmEnd, QueueStep
    <3>3. QED
      BY <2>4, <3>1, <3>2 DEF CacheAlarmStep
  <2>5. QED
    BY <1>6, <2>1, <2>2, <2>3, <2>4 DEF Alert
<1>7. CASE Time
  BY <1>7 DEF Time, Tick, ClockToBuffer, QueueStep
<1>8. CASE UNCHANGED vars
  BY <1>8 DEF vars, clockVars, QueueStep
<1>9. QED
  BY <1>4, <1>5, <1>6, <1>7, <1>8 DEF Next

(* The queue stays in order, and the second that is served is past.        *)
LEMMA ClockSteps ==
  ASSUME Inv, [Next]_vars
  PROVE  ClockSound'
<1>1. /\ ClockSound /\ Ordered(timers)
      /\ now \in 1..MaxTime /\ clock \in 1..now /\ MaxTime \in Nat \ {0}
      /\ alarm \in [at : {"idle", "second", "cache", "rules", "react"}, second : Nat]
      /\ alarm.second <= clock
      /\ rung.object \in Object \cup {"none"} /\ rung.count \in Nat
  BY ClockAssumption DEF Inv, ClockSound
<1>2. Ordered(timers')
  <2>1. \A o \in Object, t \in Nat : Ordered(SetTimer(timers, t, o))
    BY <1>1, SetTimerSets
  <2>2. QueueStep
    BY QueueSteps
  <2>3. QED
    BY <1>1, <2>1, <2>2 DEF QueueStep
<1> DEFINE Rest == /\ now' \in 1..MaxTime /\ clock' \in 1..now'
                   /\ alarm' \in [at : {"idle", "second", "cache", "rules", "react"}, second : Nat]
                   /\ alarm'.second <= clock'
                   /\ rung'.object \in Object \cup {"none"} /\ rung'.count \in Nat
<1>3. SUFFICES Rest
  BY <1>2 DEF ClockSound
<1>4. CASE UNCHANGED <<now, clock, alarm, rung>>
  BY <1>1, <1>4
<1>5. ASSUME NEW t \in Nat, Looked(t), clock' = t, t \in 1..now, now' = now, rung' = rung
      PROVE  Rest
  <2>1. CASE timers # <<>> /\ Head(timers).at <= t
    <3>1. Head(timers).at \in Nat
      BY <1>1, <2>1, HeadIsNext
    <3>2. alarm' = [at |-> "second", second |-> Head(timers).at]
      BY <1>5, <2>1 DEF Looked
    <3>3. QED
      BY <1>1, <1>5, <2>1, <3>1, <3>2
  <2>2. CASE ~(timers # <<>> /\ Head(timers).at <= t)
    <3>1. alarm' = [at |-> "idle", second |-> 0]
      BY <1>5, <2>2 DEF Looked
    <3>2. QED
      BY <1>1, <1>5, <3>1
  <2>3. QED
    BY <2>1, <2>2
<1>6. ASSUME NEW a \in {"second", "cache", "rules", "react"}, alarm' = [alarm EXCEPT !.at = a],
             now' = now, clock' \in {clock, now},
             rung'.object \in Object \cup {"none"} /\ rung'.count \in Nat
      PROVE  Rest
  <2>1. alarm' \in [at : {"idle", "second", "cache", "rules", "react"}, second : Nat]
        /\ alarm'.second = alarm.second
    BY <1>1, <1>6
  <2>2. QED
    BY <1>1, <1>6, <2>1
<1>7. ASSUME NEW o, Take(o)
      PROVE  rung'.object \in Object \cup {"none"} /\ rung'.count \in Nat /\ now' = now /\ clock' = clock
  <2>1. o \in Object
    BY <1>1, <1>7, TakeIs
  <2>2. QED
    BY <1>1, <1>7, <2>1 DEF Take
<1>8. CASE Command
  BY <1>4, <1>8 DEF Command
<1>9. CASE React
  BY <1>4, <1>9 DEF React
<1>10. CASE Alert
  <2>1. CASE ClockAlert
    BY <1>1, <1>5, <2>1 DEF ClockAlert
  <2>2. CASE SecondEnd
    BY <1>1, <1>6, <2>2 DEF SecondEnd
  <2>3. CASE ReactEnd
    BY <1>1, <1>5, <2>3 DEF ReactEnd
  <2>4. ASSUME NEW d \in Delay, AlarmDelay(d)
        PROVE  Rest
    BY <1>1, <1>7, <2>4 DEF AlarmDelay
  <2>5. CASE CacheAlarm
    BY SMTT(60), <1>6, <1>7, <2>5 DEF CacheAlarm
  <2>6. CASE ExpireRow
    BY <1>1, <1>6, <2>6 DEF ExpireRow
  <2>7. CASE RulesEnd
    BY <1>1, <1>6, <2>7 DEF RulesEnd
  <2>8. CASE CacheAlarmEnd
    BY <1>1, <1>6, <2>8 DEF CacheAlarmEnd
  <2>9. QED
    BY <1>10, <2>1, <2>2, <2>3, <2>4, <2>5, <2>6, <2>7, <2>8 DEF Alert, AlertStep, CacheAlarmStep
<1>11. CASE Time
  BY <1>1, <1>11 DEF Time, Tick, ClockToBuffer
<1>12. CASE UNCHANGED vars
  BY <1>4, <1>12 DEF vars, clockVars
<1>13. QED
  BY <1>8, <1>9, <1>10, <1>11, <1>12 DEF Next

(* The cache has one timer.                                                *)
LEMMA CacheSetsOwnTimer ==
  ASSUME Inv, CacheCommand \/ CacheAlarm \/ CacheAlarmStep
  PROVE  \A d \in Delay : Due(timers', d) = Due(timers, d)
<1>1. Ordered(timers) /\ Node \in Object /\ 0 \in Nat /\ Node \notin Delay
  BY ClockAssumption DEF Inv, ClockSound, Object
<1>2. timers' = timers \/ \E t \in Nat : timers' = SetTimer(timers, t, Node)
  <2>1. ASSUME NEW r, AssertRow(r)
        PROVE  timers' = timers \/ \E t \in Nat : timers' = SetTimer(timers, t, Node)
    BY <2>1, ListedFacts DEF AssertRow, Inv
  <2>2. ASSUME NEW p, RetractRow(p)
        PROVE  timers' = timers \/ \E t \in Nat : timers' = SetTimer(timers, t, Node)
    BY <1>1, <2>2 DEF RetractRow
  <2>3. CASE EmptyCache
    BY <1>1, <2>3 DEF EmptyCache
  <2>4. CASE CacheAlarm
    BY <1>1, <2>4, TakeIs DEF CacheAlarm, Inv
  <2>5. CASE ExpireRow \/ RulesEnd
    BY <2>5 DEF ExpireRow, RulesEnd
  <2>6. CASE CacheAlarmEnd
    BY <2>6, ListedFacts DEF CacheAlarmEnd, Inv
  <2>7. QED
    BY <2>1, <2>2, <2>3, <2>4, <2>5, <2>6 DEF CacheCommand, CacheAlarmStep
<1>3. QED
  BY <1>1, <1>2, SetTimerSets

(* A step that leaves the delays and their timers alone.                   *)
LEMMA DelaysKept ==
  ASSUME Inv, UNCHANGED delayVars, now' = now \/ now' = now + 1,
         \A d \in Delay : Due(timers', d) = Due(timers, d)
  PROVE  DelaySound'
<1>1. UNCHANGED <<operand, delay, listed, since, stale, deaf>>
  BY DEF delayVars
<1>2. since' \in 1..now'
  BY <1>1 DEF Inv, ClockSound, DelaySound, DelayTypeOK
<1>3. DelayTypeOK'
  BY <1>1, <1>2 DEF Inv, DelaySound, DelayTypeOK
<1>4. \A d \in Delay : Settled(d, delay'[d], Due(timers', d), operand', since', listed', stale', deaf')
  BY <1>1 DEF Inv, DelaySound
<1>5. QED
  BY <1>3, <1>4 DEF DelaySound

(* A step that changes one delay, and settles it.                          *)
LEMMA DelayChanged ==
  ASSUME Inv, NEW d \in Delay, delay' \in [Delay -> DelayCells], stale' \subseteq Delay,
         deaf' \subseteq Delay, listed' \subseteq Delay, UNCHANGED <<operand, since, now>>,
         \A e \in Delay \ {d} :
           /\ delay'[e] = delay[e] /\ (e \in stale' <=> e \in stale) /\ (e \in deaf' <=> e \in deaf)
           /\ (e \in listed' <=> e \in listed),
         timers' = timers \/ \E t \in Nat : timers' = SetTimer(timers, t, d),
         Settled(d, delay'[d], Due(timers', d), operand, since, listed', stale', deaf')
  PROVE  DelaySound'
<1>1. Ordered(timers) /\ d \in Object
  BY DEF Inv, ClockSound, Object
<1>2. \A e \in Delay \ {d} : Due(timers', e) = Due(timers, e)
  BY <1>1, SetTimerSets
<1>3. \A e \in Delay : Settled(e, delay[e], Due(timers, e), operand, since, listed, stale, deaf)
  BY DEF Inv, DelaySound
<1>4. ASSUME NEW e \in Delay
      PROVE  Settled(e, delay'[e], Due(timers', e), operand', since', listed', stale', deaf')
  <2>1. CASE e = d
    BY <2>1
  <2>2. CASE e # d
    BY <1>2, <1>3, <2>2 DEF Settled
  <2>3. QED
    BY <2>1, <2>2
<1>5. DelayTypeOK'
  BY DEF Inv, DelaySound, DelayTypeOK, DelayCells
<1>6. QED
  BY <1>4, <1>5 DEF DelaySound

(* Every step leaves the delays settled.                                   *)
LEMMA DelaySteps ==
  ASSUME Inv, [Next]_vars
  PROVE  DelaySound'
<1>1. /\ ClockSound /\ DelayTypeOK /\ Ordered(timers) /\ now \in Nat /\ since \in 1..now /\ operand \in State
      /\ delay \in [Delay -> DelayCells] /\ stale \subseteq Delay /\ deaf \subseteq Delay /\ listed \subseteq Delay
      /\ \A d \in Delay : Settled(d, delay[d], Due(timers, d), operand, since, listed, stale, deaf)
  BY DEF Inv, ClockSound, DelaySound, DelayTypeOK, DelayCells
<1>2. \A d \in Delay : delay[d] \in DelayCells /\ (delay[d].flag <=> Due(timers, d) # 0)
  BY <1>1 DEF Settled
<1>3. ASSUME NEW v \in State, AssignOperand(v), now' = now
      PROVE  DelaySound'
  <2>1. /\ operand' = v /\ since' = now /\ listed' = {d \in Delay : delay[d].heard}
        /\ timers' = timers /\ delay' = delay /\ stale' = stale /\ deaf' = deaf
    BY <1>3 DEF AssignOperand
  <2>2. now \in 1..now
    BY <1>1
  <2>3. DelayTypeOK'
    BY <1>1, <1>3, <2>1, <2>2 DEF DelayTypeOK, DelayCells
  <2>4. ASSUME NEW d \in Delay
        PROVE  Settled(d, delay'[d], Due(timers', d), operand', since', listed', stale', deaf')
    <3>1. d \in listed' <=> delay[d].heard
      BY <2>1
    <3>2. Settled(d, delay[d], Due(timers, d), operand, since, listed, stale, deaf)
      BY <1>1
    <3>3. QED
      BY <2>1, <3>1, <3>2 DEF Settled
  <2>5. QED
    BY <2>3, <2>4 DEF DelaySound
<1>4. ASSUME NEW d \in Delay, NEW c \in DelayCells, c.flag <=> Due(timers, d) # 0, c.heard,
             EvalDelay(d, c), UNCHANGED <<operand, since, now, deaf>>,
             listed' = listed \/ listed' = listed \ {d}
      PROVE  DelaySound'
  <2>1. /\ \E t \in Nat : timers' = SetTimer(timers, t, d) \/ timers' = timers
        /\ delay' \in [Delay -> DelayCells] /\ stale' \subseteq Delay
        /\ \A e \in Delay \ {d} : delay'[e] = delay[e] /\ (e \in stale' <=> e \in stale)
        /\ Settled(d, delay'[d], Due(timers', d), operand, since, listed', stale', deaf')
    BY <1>1, <1>4, EvalDelaySettles
  <2>2. deaf' \subseteq Delay /\ listed' \subseteq Delay
    BY <1>1, <1>4
  <2>3. \A e \in Delay \ {d} : (e \in deaf' <=> e \in deaf) /\ (e \in listed' <=> e \in listed)
    BY <1>4
  <2>4. QED
    BY <1>4, <2>1, <2>2, <2>3, DelayChanged
<1>5. ASSUME NEW d \in Delay, NEW c \in DelayCells, delay' = [delay EXCEPT ![d] = c],
             stale' = stale, deaf' = deaf, listed' = listed, timers' = timers,
             UNCHANGED <<operand, since, now>>,
             Settled(d, c, Due(timers, d), operand, since, listed, stale, deaf)
      PROVE  DelaySound'
  <2>1. delay' \in [Delay -> DelayCells] /\ delay'[d] = c /\ \A e \in Delay \ {d} : delay'[e] = delay[e]
    BY <1>1, <1>5
  <2>2. QED
    BY <1>1, <1>5, <2>1, DelayChanged
<1>6. ASSUME NEW d \in Delay, EnableDelay(d), now' = now
      PROVE  DelaySound'
  <2>1. CASE delay[d].value # Disabled
    <3>1. PICK c \in DelayCells : c = [delay[d] EXCEPT !.used = TRUE]
      <4>1. [delay[d] EXCEPT !.used = TRUE] \in DelayCells
        BY <1>2 DEF DelayCells
      <4>2. QED
        BY <4>1
    <3>2. c.flag = delay[d].flag /\ c.value = delay[d].value /\ c.heard = delay[d].heard
      BY <1>2, <3>1 DEF DelayCells
    <3>3. delay' = [delay EXCEPT ![d] = c] /\ UNCHANGED <<timers, stale, operand, listed, since, deaf>>
      BY <1>6, <2>1, <3>1 DEF EnableDelay
    <3>4. Settled(d, c, Due(timers, d), operand, since, listed, stale, deaf)
      BY <1>1, <2>1, <3>2 DEF Settled
    <3>5. QED
      BY <1>5, <1>6, <3>3, <3>4
  <2>2. CASE delay[d].value = Disabled
    <3>1. EvalDelay(d, Enabled(delay[d])) /\ UNCHANGED <<operand, listed, since, deaf>>
      BY <1>6, <2>2 DEF EnableDelay, Enabled
    <3>2. /\ Enabled(delay[d]) \in DelayCells /\ Enabled(delay[d]).heard
          /\ (Enabled(delay[d]).flag <=> Due(timers, d) # 0)
      BY <1>2, EnabledCell
    <3>3. QED
      BY <1>4, <1>6, <3>1, <3>2
  <2>3. QED
    BY <2>1, <2>2
<1>7. ASSUME NEW d \in Delay, DisableDelay(d), now' = now, listed = {}
      PROVE  DelaySound'
  <2>1. CASE delay[d].value = Disabled
    <3>1. PICK c \in DelayCells : c = [delay[d] EXCEPT !.used = FALSE]
      <4>1. [delay[d] EXCEPT !.used = FALSE] \in DelayCells
        BY <1>2 DEF DelayCells
      <4>2. QED
        BY <4>1
    <3>2. c.flag = delay[d].flag /\ c.value = delay[d].value /\ c.heard = delay[d].heard /\ ~c.used
      BY <1>2, <3>1 DEF DelayCells
    <3>3. delay' = [delay EXCEPT ![d] = c] /\ UNCHANGED <<timers, stale, operand, listed, since, deaf>>
      BY <1>7, <2>1, <3>1 DEF DisableDelay
    <3>4. Settled(d, c, Due(timers, d), operand, since, listed, stale, deaf)
      BY <1>1, <2>1, <3>2 DEF Settled
    <3>5. QED
      BY <1>5, <1>7, <3>3, <3>4
  <2>2. CASE delay[d].value # Disabled
    <3>1. PICK c \in DelayCells : /\ c.flag = delay[d].flag /\ c.value = Disabled /\ ~c.heard /\ ~c.used
                                 /\ delay' = [delay EXCEPT ![d] = c]
      <4>1. PICK c : c = [value |-> Disabled, flag |-> delay[d].flag, heard |-> FALSE, used |-> FALSE]
        OBVIOUS
      <4>2. c \in DelayCells
        BY <1>2, <4>1 DEF DelayCells
      <4>3. /\ c.flag = delay[d].flag /\ c.value = Disabled /\ ~c.heard /\ ~c.used
        BY <4>1
      <4>4. delay' = [delay EXCEPT ![d].used = FALSE, ![d].heard = FALSE, ![d].value = Disabled]
        BY <1>7, <2>2 DEF DisableDelay
      <4>5. delay'[d] = [delay[d] EXCEPT !.used = FALSE, !.heard = FALSE, !.value = Disabled]
        BY <1>1, <4>4
      <4>6. delay'[d] = c
        BY <1>2, <4>1, <4>5 DEF DelayCells
      <4>7. \A e \in Delay : e # d => delay'[e] = delay[e]
        BY <1>1, <4>4
      <4>8. delay' = [e \in Delay |-> delay'[e]] /\ delay = [e \in Delay |-> delay[e]]
        BY <1>1, <4>4
      <4>9. delay' = [delay EXCEPT ![d] = c]
        BY <4>6, <4>7, <4>8
      <4>10. QED
        BY <4>2, <4>3, <4>9
    <3>2. UNCHANGED <<timers, stale, operand, listed, since, deaf>>
      BY <1>7 DEF DisableDelay
    <3>3. Settled(d, c, Due(timers, d), operand, since, listed, stale, deaf)
      BY <1>1, <1>7, <3>1 DEF Settled
    <3>4. QED
      BY <1>5, <1>7, <3>1, <3>2, <3>3
  <2>3. QED
    BY <2>1, <2>2
<1>8. ASSUME NEW d \in Delay, AlarmDelay(d), listed = {}
      PROVE  DelaySound'
  <2>1. /\ Take(d) /\ timers' = Tail(timers)
        /\ delay' = [delay EXCEPT ![d].value = operand, ![d].flag = FALSE]
        /\ deaf' = IF delay[d].heard THEN deaf ELSE deaf \cup {d}
        /\ UNCHANGED <<operand, listed, since, stale>>
    BY <1>8 DEF AlarmDelay
  <2>2. d \in Object /\ timers' = SetTimer(timers, 0, d) /\ now' = now
    BY <1>1, <2>1, TakeIs DEF Take
  <2>3. Due(timers', d) = 0
    BY <1>1, <2>2, SetTimerSets
  <2>4. PICK c : c = [delay[d] EXCEPT !.value = operand, !.flag = FALSE]
    OBVIOUS
  <2>5. c \in DelayCells /\ c.value = operand /\ c.flag = FALSE /\ c.heard = delay[d].heard /\ c.used = delay[d].used
    <3>1. PICK b : b = [delay[d] EXCEPT !.value = operand]
      OBVIOUS
    <3>2. b \in DelayCells /\ b.value = operand /\ b.heard = delay[d].heard /\ b.used = delay[d].used
      BY <1>1, <1>2, <3>1 DEF DelayCells
    <3>3. c = [b EXCEPT !.flag = FALSE]
      BY <2>4, <3>1
    <3>4. QED
      BY <3>2, <3>3 DEF DelayCells
  <2>6. delay'[d] = c /\ delay' \in [Delay -> DelayCells] /\ \A e \in Delay \ {d} : delay'[e] = delay[e]
    <3>1. delay'[d] = c
      BY <1>1, <2>1, <2>4
    <3>2. \A e \in Delay \ {d} : delay'[e] = delay[e]
      BY <1>1, <2>1
    <3>3. delay' = [e \in Delay |-> delay'[e]]
      BY <1>1, <2>1
    <3>4. \A e \in Delay : delay'[e] \in DelayCells
      BY <1>2, <2>5, <3>1, <3>2
    <3>5. QED
      BY <3>1, <3>2, <3>3, <3>4
  <2>7. /\ deaf' \subseteq Delay /\ \A e \in Delay \ {d} : e \in deaf' <=> e \in deaf
        /\ c.heard \/ d \in deaf'
    BY <1>1, <2>1, <2>5
  <2>8. Settled(d, c, 0, operand, since, listed', stale', deaf')
    BY <1>8, <2>1, <2>5, <2>7 DEF Settled
  <2>9. 0 \in Nat
    OBVIOUS
  <2>10. QED
    BY <1>1, <2>1, <2>2, <2>3, <2>6, <2>7, <2>8, <2>9, DelayChanged
<1>9. CASE Command
  <2>1. now' = now /\ listed = {}
    BY <1>9 DEF Command
  <2>2. CASE DelayCommand
    BY <1>3, <1>6, <1>7, <2>1, <2>2 DEF DelayCommand
  <2>3. CASE CacheCommand /\ UNCHANGED delayVars
    BY <2>1, <2>3, CacheSetsOwnTimer, DelaysKept
  <2>4. QED
    BY <1>9, <2>2, <2>3 DEF Command
<1>10. CASE React
  <2>1. PICK d \in Delay : ReactDelay(d)
    BY <1>10 DEF React
  <2>2. /\ d \in listed /\ EvalDelay(d, delay[d]) /\ listed' = listed \ {d}
        /\ UNCHANGED <<operand, since, deaf, now>>
    BY <1>10, <2>1 DEF ReactDelay, React
  <2>3. delay[d].heard
    BY <1>1, <2>2 DEF Settled
  <2>4. QED
    BY <1>2, <1>4, <2>2, <2>3
<1>11. CASE Alert
  <2>1. listed = {}
    BY <1>11 DEF Alert
  <2>2. CASE AlertStep /\ UNCHANGED delayVars
    <3>1. timers' = timers /\ now' = now
      BY <2>2 DEF AlertStep, ClockAlert, SecondEnd, ReactEnd
    <3>2. QED
      BY <2>2, <3>1, DelaysKept
  <2>3. ASSUME NEW d \in Delay, AlarmDelay(d)
        PROVE  DelaySound'
    BY <1>8, <2>1, <2>3
  <2>4. CASE (CacheAlarm \/ CacheAlarmStep) /\ UNCHANGED delayVars
    <3>1. now' = now
      BY <2>4 DEF CacheAlarm, Take, CacheAlarmStep, ExpireRow, RulesEnd, CacheAlarmEnd
    <3>2. QED
      BY <2>4, <3>1, CacheSetsOwnTimer, DelaysKept
  <2>5. QED
    BY <1>11, <2>2, <2>3, <2>4 DEF Alert
<1>12. CASE Time
  <2>1. timers' = timers /\ (now' = now \/ now' = now + 1) /\ UNCHANGED delayVars
    BY <1>12 DEF Time, Tick, ClockToBuffer
  <2>2. QED
    BY <2>1, DelaysKept
<1>13. CASE UNCHANGED vars
  <2>1. timers' = timers /\ now' = now /\ UNCHANGED delayVars
    BY <1>13 DEF vars, clockVars
  <2>2. QED
    BY <2>1, DelaysKept
<1>14. QED
  BY <1>9, <1>10, <1>11, <1>12, <1>13 DEF Next

(* c is a cache with the list of elements of cache, and its flag.          *)
Alike(c) ==
  /\ DOMAIN c = Fields /\ c.list = cache.list
  /\ ("alarm" \in c.state) <=> ("alarm" \in cache.state)

LEMMA ResetAlike ==
  ASSUME NEW c, Alike(c)
  PROVE  Alike(Reset(c))
BY DEF Alike, Reset, Fields

(* Counters, thresholds and rows are no part of it.                        *)
LEMMA CountedAlike ==
  ASSUME DOMAIN cache = Fields, NEW r
  PROVE  Alike(Counted(r))
BY DEF Counted, Alike, Fields

LEMMA RemoveNodeAlike ==
  ASSUME DOMAIN cache = Fields, NEW e
  PROVE  Alike(RemoveNode(e))
<1>1. Alike(Without(e))
  BY DEF Without, Alike, Fields
<1>2. PICK c : c = Reset(Without(e))
  OBVIOUS
<1>3. Alike(c)
  BY <1>1, <1>2, ResetAlike
<1>4. PICK x : x = [k \in Kind |-> [p \in Branches |->
                      IF p \in Under(Topmost(e)) THEN 1 ELSE c.index[k][p]]]
  OBVIOUS
<1>5. RemoveNode(e) = [c EXCEPT !.index = x]
  BY <1>2, <1>4 DEF RemoveNode
<1>6. QED
  BY <1>3, <1>5 DEF Alike, Fields

LEMMA DecNodeAlike ==
  ASSUME DOMAIN cache = Fields, NEW r
  PROVE  Alike(DecNode(r))
BY ResetAlike, RemoveNodeAlike DEF DecNode, Alike, Fields

LEMMA ListedLater ==
  ASSUME NEW l, NEW h \in Nat, Listed(l, h), NEW k \in Nat, h <= k
  PROVE  Listed(l, k)
<1>1. \A i \in 1..Len(l) : l[i].at \in Nat
  <2>1. l \in Seq(Element)
    BY DEF Listed
  <2>2. \A i \in 1..Len(l) : l[i] \in Element
    BY <2>1
  <2>3. QED
    BY <2>2 DEF Element
<1>2. QED
  BY <1>1 DEF Listed

(* Elements that come behind or go do not make the alarm late.             *)
LEMMA AwaitedLater ==
  ASSUME NEW l, NEW m, NEW f, NEW t \in Nat, NEW k \in Nat, NEW inside, Awaited(l, f, t, k, inside),
         l # <<>>, m # <<>>, Head(l).at \in Nat, Head(m).at \in Nat, Head(l).at <= Head(m).at
  PROVE  Awaited(m, f, t, k, inside)
BY DEF Awaited

Inside == alarm.at \in {"cache", "rules"}

(* A step that leaves the cache and its timer alone.                       *)
LEMMA CacheKept ==
  ASSUME Inv, UNCHANGED cacheVars, now' = now \/ now' = now + 1, Inside' = Inside,
         Due(timers', Node) = Due(timers, Node)
  PROVE  CacheWaits'
<1>1. cache' = cache /\ limit' = limit
  BY DEF cacheVars
<1>2. now \in Nat /\ Interval \in Nat
  BY CacheAssumption DEF Inv, ClockSound
<1>3. Listed(cache.list, now' + Interval)
  <2>1. now + Interval \in Nat /\ now' + Interval \in Nat /\ now + Interval <= now' + Interval
    BY <1>2
  <2>2. QED
    BY <2>1, ListedLater DEF Inv, CacheWaits
<1>4. limit' \in 0..now'
  BY <1>1, <1>2 DEF Inv, CacheWaits
<1>5. Awaited(cache'.list, "alarm" \in cache'.state, Due(timers', Node), limit',
              alarm'.at \in {"cache", "rules"})
  BY <1>1 DEF Inv, CacheWaits, Inside
<1>6. QED
  BY <1>1, <1>3, <1>4, <1>5 DEF Inv, CacheWaits

(* A delay has a timer of its own.                                         *)
LEMMA DelaySetsOwnTimer ==
  ASSUME Inv, NEW d \in Delay,
         timers' = timers \/ \E t \in Nat : timers' = SetTimer(timers, t, d)
  PROVE  Due(timers', Node) = Due(timers, Node)
<1>1. Ordered(timers) /\ d \in Object /\ Node # d
  BY ClockAssumption DEF Inv, ClockSound, Object
<1>2. QED
  BY <1>1, SetTimerSets

(* An assertion: the row's element goes to the end of the list.            *)
LEMMA AssertRowWaits ==
  ASSUME Inv, NEW r \in Row, AssertRow(r), UNCHANGED <<now, alarm>>
  PROVE  CacheWaits'
<1>1. /\ DOMAIN cache = Fields /\ Listed(cache.list, now + Interval) /\ limit \in 0..now
      /\ Awaited(cache.list, "alarm" \in cache.state, Due(timers, Node), limit, Inside)
      /\ Ordered(timers) /\ Node \in Object
  BY DEF Inv, CacheWaits, ClockSound, Inside, Object
<1>2. PICK h \in Nat : h = now + Interval /\ h # 0 /\ now \in Nat /\ h > now
  <2>1. now \in Nat /\ Interval \in Nat \ {0}
    BY CacheAssumption DEF Inv, ClockSound
  <2>2. QED
    BY <2>1
<1>3. PICK c : c = Counted(r) /\ Alike(c)
  BY <1>1, CountedAlike
<1>4. PICK m : m = IF Single THEN Selected(cache.list, {i \in DOMAIN cache.list : cache.list[i].row # r})
                   ELSE cache.list
  OBVIOUS
<1>5. Listed(m, h) /\ (m # <<>> => cache.list # <<>> /\ Head(cache.list).at <= Head(m).at)
  <2>1. Listed(cache.list, h)
    BY <1>1, <1>2
  <2>2. cache.list # <<>> => Head(cache.list).at \in Nat
    BY <2>1, HeadListed
  <2>3. PICK I : I = {i \in DOMAIN cache.list : cache.list[i].row # r}
    OBVIOUS
  <2>4. I \in SUBSET (DOMAIN cache.list)
    BY <2>3
  <2>5. CASE Single
    BY <1>4, <2>1, <2>3, <2>4, <2>5, SelectedListed
  <2>6. CASE ~Single
    BY <1>4, <2>1, <2>2, <2>6
  <2>7. QED
    BY <2>5, <2>6
<1>6. PICK l : l = Append(m, [row |-> r, at |-> h])
  OBVIOUS
<1>7. Listed(l, h) /\ l # <<>> /\ Head(l).at = IF m = <<>> THEN h ELSE Head(m).at
  BY <1>2, <1>5, <1>6, AppendListed
<1>8. /\ DOMAIN cache' = Fields /\ cache'.list = l
      /\ "alarm" \in cache'.state <=> "alarm" \in cache.state \/ cache.list = <<>>
  <2>1. cache' = NewTimerElement(c, r)
    BY <1>3 DEF AssertRow
  <2>2. c.list = cache.list /\ DOMAIN c = Fields
    BY <1>3 DEF Alike
  <2>3. cache' = [c EXCEPT !.list = l, !.state = @ \cup (IF c.list = <<>> THEN {"alarm"} ELSE {})]
    BY <1>2, <1>4, <1>6, <2>1, <2>2 DEF NewTimerElement
  <2>4. PICK b : b = [c EXCEPT !.list = l]
    OBVIOUS
  <2>5. DOMAIN b = Fields /\ b.list = l /\ b.state = c.state
    BY <2>2, <2>4 DEF Fields
  <2>6. cache' = [b EXCEPT !.state = c.state \cup (IF cache.list = <<>> THEN {"alarm"} ELSE {})]
    BY <2>2, <2>3, <2>4, <2>5
  <2>7. QED
    BY <1>3, <2>5, <2>6 DEF Fields, Alike
<1>9. limit' = limit /\ Inside' = Inside /\ now' = now
  BY DEF AssertRow, Inside
<1>10. Awaited(l, "alarm" \in cache'.state, Due(timers', Node), limit, Inside)
  <2>1. CASE cache.list = <<>>
    <3>1. timers' = SetTimer(timers, h, Node)
      BY <1>2, <2>1 DEF AssertRow
    <3>2. Due(timers', Node) = h
      BY <1>1, <3>1, SetTimerSets
    <3>3. Head(l).at = h /\ "alarm" \in cache'.state
      BY <1>5, <1>7, <1>8, <2>1
    <3>4. h > limit
      BY <1>1, <1>2
    <3>5. QED
      BY <1>2, <1>7, <3>2, <3>3, <3>4 DEF Awaited
  <2>2. CASE cache.list # <<>>
    <3>1. timers' = timers
      BY <2>2 DEF AssertRow
    <3>2. ("alarm" \in cache'.state) <=> ("alarm" \in cache.state)
      BY <1>8, <2>2
    <3>3. Due(timers, Node) \in Nat /\ limit \in Nat
      BY <1>1, DueIs
    <3>4. Head(cache.list).at \in Nat /\ Head(cache.list).at <= h
      BY <1>1, <1>2, <2>2, HeadListed
    <3>5. Head(l).at \in Nat
      BY <1>7, HeadListed
    <3>6. Head(cache.list).at <= Head(l).at
      BY <1>5, <1>7, <3>4
    <3>7. Awaited(l, "alarm" \in cache.state, Due(timers, Node), limit, Inside)
      BY <1>1, <1>7, <2>2, <3>3, <3>4, <3>5, <3>6, AwaitedLater
    <3>8. QED
      BY <3>1, <3>2, <3>7 DEF Awaited
  <2>3. QED
    BY <2>1, <2>2
<1>11. QED
  BY <1>1, <1>2, <1>7, <1>8, <1>9, <1>10 DEF CacheWaits, Inside

(* A retraction: elements are taken out of the list.                       *)
LEMMA RetractRowWaits ==
  ASSUME Inv, NEW p, RetractRow(p), UNCHANGED <<now, alarm>>
  PROVE  CacheWaits'
<1>1. /\ DOMAIN cache = Fields /\ Listed(cache.list, now + Interval) /\ limit \in 0..now
      /\ Awaited(cache.list, "alarm" \in cache.state, Due(timers, Node), limit, Inside)
      /\ Ordered(timers) /\ Node \in Object /\ 0 \in Nat
  BY DEF Inv, CacheWaits, ClockSound, Inside, Object
<1>2. PICK c : c = RemoveNode(p) /\ Alike(c)
  BY <1>1, RemoveNodeAlike
<1>3. PICK I : I = {i \in DOMAIN cache.list : cache.list[i].row \in c.nodes}
  OBVIOUS
<1>4. PICK l : l = Selected(cache.list, I)
  OBVIOUS
<1>5. Listed(l, now + Interval) /\ (l # <<>> => cache.list # <<>> /\ Head(cache.list).at <= Head(l).at)
  <2>1. I \in SUBSET (DOMAIN cache.list)
    BY <1>3
  <2>2. QED
    BY <1>1, <1>4, <2>1, SelectedListed
<1>6. /\ cache' = [c EXCEPT !.list = l, !.state = IF l = <<>> THEN @ \ {"alarm"} ELSE @]
      /\ timers' = IF l = <<>> THEN SetTimer(timers, 0, Node) ELSE timers
      /\ limit' = limit
  BY <1>2, <1>3, <1>4 DEF RetractRow
<1>7. /\ DOMAIN cache' = Fields /\ cache'.list = l
      /\ "alarm" \in cache'.state <=> "alarm" \in cache.state /\ l # <<>>
  <2>1. PICK b : b = [c EXCEPT !.list = l]
    OBVIOUS
  <2>2. DOMAIN b = Fields /\ b.list = l /\ b.state = c.state
    BY <1>2, <2>1 DEF Fields, Alike
  <2>3. cache' = [b EXCEPT !.state = IF l = <<>> THEN c.state \ {"alarm"} ELSE c.state]
    BY <1>6, <2>1, <2>2
  <2>4. QED
    BY <1>2, <2>2, <2>3 DEF Fields, Alike
<1>8. Awaited(l, "alarm" \in cache'.state, Due(timers', Node), limit, Inside)
  <2>1. CASE l = <<>>
    <3>1. timers' = SetTimer(timers, 0, Node)
      BY <1>6, <2>1
    <3>2. Due(timers', Node) = 0
      BY <1>1, <3>1, SetTimerSets
    <3>3. QED
      BY <1>7, <2>1, <3>2 DEF Awaited
  <2>2. CASE l # <<>>
    <3>1. timers' = timers /\ (("alarm" \in cache'.state) <=> ("alarm" \in cache.state))
      BY <1>6, <1>7, <2>2
    <3>2. Due(timers, Node) \in Nat /\ limit \in Nat
      BY <1>1, DueIs
    <3>3. Head(cache.list).at \in Nat /\ Head(l).at \in Nat
      BY <1>1, <1>5, <2>2, HeadListed
    <3>4. Awaited(l, "alarm" \in cache.state, Due(timers, Node), limit, Inside)
      BY <1>1, <1>5, <2>2, <3>2, <3>3, AwaitedLater
    <3>5. QED
      BY <3>1, <3>4 DEF Awaited
  <2>3. QED
    BY <2>1, <2>2
<1>9. Inside' = Inside /\ now' = now
  BY DEF Inside
<1>10. QED
  BY <1>1, <1>5, <1>6, <1>7, <1>8, <1>9 DEF CacheWaits, Inside

LEMMA EmptyListed == \A h : Listed(<<>>, h)
BY DEF Listed

(* The cache is emptied, and its alarm cancelled.                          *)
LEMMA EmptyCacheWaits ==
  ASSUME Inv, EmptyCache, UNCHANGED <<now, alarm>>
  PROVE  CacheWaits'
<1>1. /\ DOMAIN cache = Fields /\ limit \in 0..now
      /\ Awaited(cache.list, "alarm" \in cache.state, Due(timers, Node), limit, Inside)
      /\ Ordered(timers) /\ Node \in Object /\ 0 \in Nat
  BY DEF Inv, CacheWaits, ClockSound, Inside, Object
<1>2. DOMAIN cache' = Fields /\ cache'.list = <<>> /\ "alarm" \notin cache'.state /\ limit' = limit
  BY <1>1 DEF EmptyCache, Fields
<1>3. Due(timers', Node) = 0
  <2>1. CASE "alarm" \in cache.state
    <3>1. timers' = SetTimer(timers, 0, Node)
      BY <2>1 DEF EmptyCache
    <3>2. QED
      BY <1>1, <3>1, SetTimerSets
  <2>2. CASE "alarm" \notin cache.state
    BY <1>1, <2>2 DEF EmptyCache, Awaited
  <2>3. QED
    BY <2>1, <2>2
<1>4. Awaited(<<>>, FALSE, 0, limit, Inside)
  BY DEF Awaited
<1>5. Inside' = Inside /\ now' = now
  BY DEF Inside
<1>6. Awaited(cache'.list, "alarm" \in cache'.state, Due(timers', Node), limit', Inside')
  BY <1>2, <1>3, <1>4, <1>5 DEF Awaited
<1>7. QED
  BY <1>1, <1>2, <1>5, <1>6, EmptyListed DEF CacheWaits, Inside

(* The timer has rung, and rows wait for cacheAlarm.                       *)
LEMMA CacheAlarmWaits ==
  ASSUME Inv, CacheAlarm
  PROVE  CacheWaits'
<1>1. /\ DOMAIN cache = Fields /\ Listed(cache.list, now + Interval) /\ now \in Nat
      /\ Ordered(timers) /\ Node \in Object /\ 0 \in Nat
  BY DEF Inv, CacheWaits, ClockSound, Object
<1>2. /\ DOMAIN cache' = Fields /\ cache'.list = cache.list /\ "alarm" \notin cache'.state
      /\ limit' = now /\ now' = now /\ timers' = SetTimer(timers, 0, Node)
  <2>1. Tail(timers) = SetTimer(timers, 0, Node) /\ now' = now
    BY TakeIs DEF Inv, CacheAlarm, Take
  <2>2. QED
    BY <1>1, <2>1 DEF CacheAlarm, Fields
<1>3. Due(timers', Node) = 0
  BY <1>1, <1>2, SetTimerSets
<1>4. Inside'
  <2>1. alarm'.at = "cache"
    BY DEF CacheAlarm, Inv, ClockSound
  <2>2. QED
    BY <2>1 DEF Inside
<1>5. Awaited(cache'.list, "alarm" \in cache'.state, Due(timers', Node), limit', Inside')
  BY <1>2, <1>3, <1>4 DEF Awaited
<1>6. QED
  BY <1>1, <1>2, <1>5 DEF CacheWaits, Inside

(* An expired row goes: rules have not set the alarm in this case, because *)
(* what they assert expires later.                                         *)
LEMMA ExpireRowWaits ==
  ASSUME Inv, ExpireRow
  PROVE  CacheWaits'
<1>1. /\ DOMAIN cache = Fields /\ Listed(cache.list, now + Interval) /\ now \in Nat /\ limit \in 0..now
      /\ Awaited(cache.list, "alarm" \in cache.state, Due(timers, Node), limit, Inside)
  BY DEF Inv, CacheWaits, ClockSound, Inside
<1>2. cache.list # <<>> /\ Head(cache.list).at <= limit /\ Inside
  BY DEF ExpireRow, Expired, Inside
<1>3. Head(cache.list).at \in Nat /\ Listed(Tail(cache.list), now + Interval)
  BY <1>1, <1>2, HeadListed
<1>4. "alarm" \notin cache.state /\ Due(timers, Node) = 0
  BY <1>1, <1>2, <1>3 DEF Awaited
<1>5. PICK c : c = DecNode(Head(cache.list).row) /\ Alike(c)
  BY <1>1, DecNodeAlike
<1>6. cache' = [c EXCEPT !.list = Tail(@)]
  BY <1>5 DEF ExpireRow
<1>7. DOMAIN cache' = Fields /\ cache'.list = Tail(cache.list) /\ "alarm" \notin cache'.state
  BY <1>4, <1>5, <1>6 DEF Alike, Fields
<1>8. timers' = timers /\ limit' = limit /\ now' = now
  BY DEF ExpireRow
<1>9. Inside'
  <2>1. alarm'.at \in {"cache", "rules"}
    BY DEF ExpireRow, Inv, ClockSound
  <2>2. QED
    BY <2>1 DEF Inside
<1>10. Awaited(cache'.list, "alarm" \in cache'.state, Due(timers', Node), limit', Inside')
  BY <1>4, <1>7, <1>8, <1>9 DEF Awaited
<1>11. QED
  BY <1>1, <1>3, <1>7, <1>8, <1>10 DEF CacheWaits, Inside

(* cacheAlarm returns, and sets the alarm for the rows that are left.      *)
LEMMA CacheAlarmEndWaits ==
  ASSUME Inv, CacheAlarmEnd
  PROVE  CacheWaits'
<1>1. /\ DOMAIN cache = Fields /\ Listed(cache.list, now + Interval) /\ now \in Nat /\ limit \in 0..now
      /\ Awaited(cache.list, "alarm" \in cache.state, Due(timers, Node), limit, Inside)
      /\ Ordered(timers) /\ Node \in Object /\ 0 \in Nat
  BY DEF Inv, CacheWaits, ClockSound, Inside, Object
<1>2. limit' = 0 /\ now' = now /\ ~Inside'
  <2>1. alarm'.at = "second"
    BY DEF CacheAlarmEnd, Inv, ClockSound
  <2>2. QED
    BY <2>1 DEF CacheAlarmEnd, Inside
<1>3. CASE cache.list # <<>> /\ cache.state # {"alarm"}
  <2>1. PICK t \in Nat : t = Head(cache.list).at /\ t # 0
    BY <1>1, <1>3, HeadListed
  <2>2. timers' = SetTimer(timers, t, Node)
    BY <1>3, <2>1 DEF CacheAlarmEnd
  <2>3. Due(timers', Node) = t
    BY <1>1, <2>2, SetTimerSets
  <2>4. DOMAIN cache' = Fields /\ cache'.list = cache.list /\ "alarm" \in cache'.state
    BY <1>1, <1>3 DEF CacheAlarmEnd, Fields
  <2>5. Awaited(cache'.list, "alarm" \in cache'.state, Due(timers', Node), limit', Inside')
    BY <1>2, <1>3, <2>1, <2>3, <2>4 DEF Awaited
  <2>6. QED
    BY <1>1, <1>2, <2>4, <2>5 DEF CacheWaits, Inside
<1>4. CASE ~(cache.list # <<>> /\ cache.state # {"alarm"})
  <2>1. timers' = timers /\ cache' = cache
    BY <1>4 DEF CacheAlarmEnd
  <2>2. cache.list # <<>> => "alarm" \in cache.state
    BY <1>4
  <2>3. Awaited(cache.list, "alarm" \in cache.state, Due(timers, Node), limit', Inside')
    BY <1>1, <1>2, <2>2 DEF Awaited
  <2>4. QED
    BY <1>1, <1>2, <2>1, <2>3 DEF CacheWaits, Inside
<1>5. QED
  BY <1>3, <1>4

(* Every step leaves the cache waiting for its timer.                      *)
LEMMA CacheSteps ==
  ASSUME Inv, [Next]_vars
  PROVE  CacheWaits'
<1>1. ClockSound /\ DelayTypeOK /\ Ordered(timers)
  BY DEF Inv, ClockSound, DelaySound
<1>2. \A d \in Delay : delay[d] \in DelayCells /\ (delay[d].flag <=> Due(timers, d) # 0)
                     /\ (d \in listed => delay[d].heard)
  BY DEF Inv, DelaySound, DelayTypeOK, DelayCells, Settled
<1>3. ASSUME NEW d \in Delay, NEW c \in DelayCells, c.flag <=> Due(timers, d) # 0, c.heard, EvalDelay(d, c)
      PROVE  timers' = timers \/ \E t \in Nat : timers' = SetTimer(timers, t, d)
  BY <1>1, <1>3, EvalDelaySettles
<1>4. CASE Command
  <2>1. UNCHANGED <<now, alarm>> /\ Inside' = Inside
    BY <1>4 DEF Command, Inside
  <2>2. CASE DelayCommand /\ UNCHANGED cacheVars
    <3>1. ASSUME NEW v \in State, AssignOperand(v)
          PROVE  timers' = timers
      BY <3>1 DEF AssignOperand
    <3>2. ASSUME NEW d \in Delay, EnableDelay(d)
          PROVE  timers' = timers \/ \E t \in Nat : timers' = SetTimer(timers, t, d)
      <4>1. CASE delay[d].value # Disabled
        BY <3>2, <4>1 DEF EnableDelay
      <4>2. CASE delay[d].value = Disabled
        <5>1. EvalDelay(d, Enabled(delay[d]))
          BY <3>2, <4>2 DEF EnableDelay, Enabled
        <5>2. /\ Enabled(delay[d]) \in DelayCells /\ Enabled(delay[d]).heard
              /\ (Enabled(delay[d]).flag <=> Due(timers, d) # 0)
          BY <1>2, EnabledCell
        <5>3. QED
          BY <1>3, <5>1, <5>2
      <4>3. QED
        BY <4>1, <4>2
    <3>3. ASSUME NEW d \in Delay, DisableDelay(d)
          PROVE  timers' = timers
      BY <3>3 DEF DisableDelay
    <3>4. Due(timers', Node) = Due(timers, Node)
      BY <2>2, <3>1, <3>2, <3>3, DelaySetsOwnTimer DEF DelayCommand
    <3>5. QED
      BY <2>1, <2>2, <3>4, CacheKept
  <2>3. CASE CacheCommand
    BY <2>1, <2>3, AssertRowWaits, RetractRowWaits, EmptyCacheWaits DEF CacheCommand
  <2>4. QED
    BY <1>4, <2>2, <2>3 DEF Command
<1>5. CASE React
  <2>1. PICK d \in Delay : ReactDelay(d)
    BY <1>5 DEF React
  <2>2. d \in listed /\ EvalDelay(d, delay[d])
    BY <2>1 DEF ReactDelay
  <2>3. timers' = timers \/ \E t \in Nat : timers' = SetTimer(timers, t, d)
    BY <1>2, <1>3, <2>2
  <2>4. UNCHANGED <<now, alarm, cacheVars>> /\ Inside' = Inside
    BY <1>5 DEF React, Inside
  <2>5. QED
    BY <2>3, <2>4, DelaySetsOwnTimer, CacheKept
<1>6. CASE Alert
  <2>1. CASE AlertStep /\ UNCHANGED cacheVars
    <3>1. timers' = timers /\ now' = now
      BY <2>1 DEF AlertStep, ClockAlert, SecondEnd, ReactEnd
    <3>2. Inside' = Inside
      <4>1. alarm.at \notin {"cache", "rules"}
        BY <2>1 DEF AlertStep, ClockAlert, SecondEnd, ReactEnd
      <4>2. alarm'.at \notin {"cache", "rules"}
        BY <1>1, <2>1 DEF AlertStep, ClockAlert, SecondEnd, ReactEnd, Looked, ClockSound
      <4>3. QED
        BY <4>1, <4>2 DEF Inside
    <3>3. QED
      BY <2>1, <3>1, <3>2, CacheKept
  <2>2. ASSUME NEW d \in Delay, AlarmDelay(d), UNCHANGED cacheVars
        PROVE  CacheWaits'
    <3>1. Take(d) /\ timers' = Tail(timers) /\ alarm' = alarm
      BY <2>2 DEF AlarmDelay
    <3>2. now' = now /\ Inside' = Inside
      BY <3>1 DEF Take, Inside
    <3>3. timers' = SetTimer(timers, 0, d) /\ 0 \in Nat
      BY <1>1, <3>1, TakeIs
    <3>4. QED
      BY <2>2, <3>2, <3>3, DelaySetsOwnTimer, CacheKept
  <2>3. CASE RulesEnd
    <3>1. UNCHANGED <<timers, now, cacheVars>>
      BY <2>3 DEF RulesEnd, cacheVars
    <3>2. Inside' = Inside
      BY <1>1, <2>3 DEF RulesEnd, Inside, ClockSound
    <3>3. QED
      BY <3>1, <3>2, CacheKept
  <2>4. QED
    BY <1>6, <2>1, <2>2, <2>3, CacheAlarmWaits, ExpireRowWaits, CacheAlarmEndWaits DEF Alert, CacheAlarmStep
<1>7. CASE Time
  <2>1. UNCHANGED <<timers, alarm, cacheVars>> /\ (now' = now \/ now' = now + 1)
    BY <1>7 DEF Time, Tick, ClockToBuffer
  <2>2. QED
    BY <2>1, CacheKept DEF Inside
<1>8. CASE UNCHANGED vars
  <2>1. UNCHANGED <<timers, alarm, now, cacheVars>>
    BY <1>8 DEF vars, clockVars
  <2>2. QED
    BY <2>1, CacheKept DEF Inside
<1>9. QED
  BY <1>4, <1>5, <1>6, <1>7, <1>8 DEF Next

----------------------------------------------------------------------------
LEMMA EmptyQueue ==
  /\ Ordered(<<>>) /\ AheadInSecond(<<>>) = {}
  /\ \A o : Due(<<>>, o) = 0 /\ ~Timed(<<>>, o)
<1>1. Len(<<>>) = 0 /\ 1..0 = {}
  OBVIOUS
<1>2. Ordered(<<>>)
  BY <1>1 DEF Ordered
<1>3. QED
  BY <1>1, <1>2 DEF AheadInSecond, Timed, Due

LEMMA InitInv == Init => Inv
<1> SUFFICES ASSUME Init
             PROVE  Inv
  OBVIOUS
<1>1. MaxTime \in Nat \ {0} /\ Interval \in Nat \ {0}
  BY ClockAssumption, CacheAssumption
<1>2. ClockSound
  <2>1. /\ now = 1 /\ clock = 1 /\ timers = <<>> /\ alarm = [at |-> "idle", second |-> 0]
        /\ rung = [object |-> "none", at |-> 0, count |-> 0]
    BY DEF Init, ClockInit
  <2>2. now \in 1..MaxTime /\ clock \in 1..now
    BY <1>1, <2>1
  <2>3. alarm.second <= clock /\ rung.object = "none" /\ rung.count \in Nat
        /\ alarm \in [at : {"idle", "second", "cache", "rules", "react"}, second : Nat]
    BY <2>1
  <2>4. QED
    BY <2>1, <2>2, <2>3, EmptyQueue DEF ClockSound
<1>3. DelaySound
  <2>1. PICK used \in BOOLEAN :
          /\ operand = IF used THEN "F" ELSE "T"
          /\ delay = [d \in Delay |-> [value |-> IF used THEN operand ELSE Disabled,
                                      flag |-> FALSE, heard |-> used, used |-> used]]
    BY DEF Init, DelayInit
  <2>2. listed = {} /\ since = 1 /\ stale = {} /\ deaf = {} /\ timers = <<>> /\ now = 1
    BY DEF Init, DelayInit, ClockInit
  <2>3. operand \in State
    BY <2>1 DEF State
  <2>4. DelayTypeOK
    BY <2>1, <2>2, <2>3 DEF DelayTypeOK
  <2>5. ASSUME NEW d \in Delay
        PROVE  Settled(d, delay[d], 0, operand, since, listed, stale, deaf)
    BY <2>1, <2>2 DEF Settled
  <2>6. QED
    BY <2>2, <2>4, <2>5, EmptyQueue DEF DelaySound
<1>4. CacheWaits
  <2>1. DOMAIN cache = Fields /\ cache.list = <<>> /\ cache.state = {} /\ limit = 0
    BY DEF Init, CacheInit, Fields
  <2>2. now = 1 /\ timers = <<>>
    BY DEF Init, ClockInit
  <2>3. Due(timers, Node) = 0
    BY <2>2, EmptyQueue
  <2>4. Awaited(<<>>, FALSE, 0, 0, alarm.at \in {"cache", "rules"})
    BY DEF Awaited
  <2>5. Awaited(cache.list, "alarm" \in cache.state, Due(timers, Node), limit,
               alarm.at \in {"cache", "rules"})
    BY <2>1, <2>3, <2>4 DEF Awaited
  <2>6. limit \in 0..now
    BY <2>1, <2>2
  <2>7. QED
    BY <2>1, <2>5, <2>6, EmptyListed DEF CacheWaits
<1>5. QED
  BY <1>2, <1>3, <1>4 DEF Inv

LEMMA NextInv == Inv /\ [Next]_vars => Inv'
BY ClockSteps, DelaySteps, CacheSteps DEF Inv

LEMMA InvHolds == Spec => []Inv
BY InitInv, NextInv, PTL DEF Spec

(* Whatever happened to the operand, the subscriptions and the rows, also  *)
(* from inside the alarm loops, a delay condition that has no timer has    *)
(* the value of its operand, and the cache node is alarmed no later than   *)
(* its first row expires: nothing waits for an alarm that nobody set.      *)
THEOREM WaitersAreAlarmed == Spec => [](ClockTypeOK /\ DelayTypeOK /\ WaitsAlarmed)
<1>1. Inv => ClockTypeOK
  BY DEF Inv, ClockSound, ClockTypeOK, Ordered, Entry
<1>2. Inv => DelayTypeOK
  BY DEF Inv, DelaySound
<1>3. Inv => DelaySettled
  <2> SUFFICES ASSUME Inv, NEW d \in Delay
               PROVE  /\ delay[d].flag = Timed(timers, d)
                      /\ delay[d].heard /\ d \notin listed =>
                           \/ delay[d].value = operand /\ (operand \notin Delayed[d] => ~Timed(timers, d))
                           \/ operand \in Delayed[d] /\ Timed(timers, d)
                      /\ delay[d].used => delay[d].heard \/ d \in deaf
    BY DEF DelaySettled
  <2>1. Settled(d, delay[d], Due(timers, d), operand, since, listed, stale, deaf)
    BY DEF Inv, DelaySound
  <2>2. Timed(timers, d) <=> Due(timers, d) # 0
    BY DueIs DEF Inv, ClockSound
  <2>3. delay[d].flag \in BOOLEAN /\ Timed(timers, d) \in BOOLEAN
    BY DEF Inv, DelaySound, DelayTypeOK, Timed
  <2>4. delay[d].flag = Timed(timers, d)
    BY <2>1, <2>2, <2>3 DEF Settled
  <2>5. QED
    BY <2>1, <2>2, <2>4 DEF Settled
<1>4. Inv => CacheAlarmed
  <2> SUFFICES ASSUME Inv, alarm.at \notin {"cache", "rules"}
               PROVE  /\ ("alarm" \in cache.state) = (cache.list # <<>>)
                      /\ Timed(timers, Node) = (cache.list # <<>>)
                      /\ \A i \in DOMAIN timers : timers[i].object = Node => timers[i].at <= Head(cache.list).at
    BY DEF CacheAlarmed
  <2>1. Awaited(cache.list, "alarm" \in cache.state, Due(timers, Node), limit, FALSE)
    BY DEF Inv, CacheWaits, Awaited
  <2>2. Ordered(timers) /\ DOMAIN timers = 1..Len(timers)
    BY DEF Inv, ClockSound, Ordered
  <2>3. Timed(timers, Node) <=> Due(timers, Node) # 0
    BY <2>2, DueIs
  <2>4. ASSUME NEW i \in DOMAIN timers, timers[i].object = Node
        PROVE  timers[i].at <= Head(cache.list).at
    <3>1. Due(timers, Node) = timers[i].at /\ Timed(timers, Node)
      BY <2>2, <2>4, DueIs
    <3>2. QED
      BY <2>1, <2>3, <3>1 DEF Awaited
  <2>5. ("alarm" \in cache.state) = (cache.list # <<>>)
    BY <2>1 DEF Awaited
  <2>6. Timed(timers, Node) = (cache.list # <<>>)
    BY <2>1, <2>3 DEF Awaited, Timed
  <2>7. QED
    BY <2>4, <2>5, <2>6
<1>5. QED
  BY <1>1, <1>2, <1>3, <1>4, InvHolds, PTL DEF WaitsAlarmed

(* A timer rings while nothing waits for evaluation.                       *)
LEMMA RingsAlone ==
  ASSUME [Next]_vars, rung' # rung
  PROVE  listed = {}
BY DEF Next, Command, React, Alert, Time, Tick, ClockToBuffer, vars, clockVars

(* A delay condition's timer rings only after its operand has been in the  *)
(* delayed state, without a change, for the whole duration, however often  *)
(* the timer was set anew or cancelled, and whatever else was served late. *)
THEOREM DelaysHold == Spec => DelayHolds
<1>1. ASSUME Inv, [Next]_vars, rung' # rung, NEW d \in Delay, rung'.object = d,
             delay[d].heard, d \notin stale
      PROVE  operand \in Delayed[d] /\ now - since >= Duration[d]
  <2>1. listed = {}
    BY <1>1, RingsAlone
  <2>2. PICK o \in Object : Take(o)
    BY <1>1, QueueSteps DEF QueueStep
  <2>3. o = d
    BY <1>1, <2>2 DEF Take
  <2>4. ClockSound /\ Settled(d, delay[d], Due(timers, d), operand, since, listed, stale, deaf)
    BY <1>1 DEF Inv, DelaySound
  <2>5. Due(timers, d) = alarm.second /\ alarm.second # 0
    BY <2>2, <2>3, <2>4, TakeIs
  <2>6. operand \in Delayed[d] /\ alarm.second >= since + Duration[d]
    BY <1>1, <2>1, <2>4, <2>5 DEF Settled
  <2>7. alarm.second \in Nat /\ alarm.second <= clock /\ clock \in 1..now /\ now \in Nat
    BY <2>4 DEF ClockSound
  <2>8. since \in 1..now /\ Duration[d] \in Nat
    BY <1>1, DelayAssumption DEF Inv, DelaySound, DelayTypeOK
  <2>9. QED
    BY <2>6, <2>7, <2>8
<1>2. Inv /\ [Next]_vars =>
        [\A d \in Delay : rung'.object = d /\ rung' # rung /\ delay[d].heard /\ d \notin stale =>
            operand \in Delayed[d] /\ now - since >= Duration[d]]_rung
  BY <1>1
<1>3. QED
  BY <1>2, InvHolds, PTL DEF Spec, DelayHolds

(* A step of the queue is one of the alarm clock.                          *)
LEMMA QueueStepIsClockStep ==
  ASSUME Inv, [Next]_vars
  PROVE  [Clock!Next]_(Clock!alarmVars)
<1>1. /\ ClockSound /\ Ordered(timers) /\ now \in Nat /\ clock \in 1..now /\ alarm.second <= clock
      /\ alarm.second \in Nat
  BY DEF Inv, ClockSound
<1>2. PICK q : q = timers
  OBVIOUS
<1>3. PICK n : n = timers'
  OBVIOUS
<1>4. CASE timers' = timers /\ rung' = rung /\ now' = now
  BY <1>4 DEF Clock!alarmVars
<1>5. CASE timers' = timers /\ rung' = rung /\ now' = now + 1
  BY <1>5 DEF Clock!Next, Clock!Tick
<1>6. ASSUME NEW o \in Object, NEW t \in Nat, n = SetTimer(q, t, o),
             NEW due, NEW later, due = [p \in Object |-> Due(q, p)], later = [p \in Object |-> Due(n, p)]
      PROVE  /\ later[o] = t /\ later = [due EXCEPT ![o] = t]
             /\ AheadInSecond(n) = {p \in AheadInSecond(q) : o \notin {p[1], p[2]}} \cup
                  {<<p, o>> : p \in {p \in Object \ {o} : due[p] # 0 /\ due[p] = t}}
  <2>1. /\ Due(n, o) = t
        /\ \A p : p # o => Due(n, p) = Due(q, p)
        /\ AheadInSecond(n) = {p \in AheadInSecond(q) : o \notin {p[1], p[2]}} \cup
             {<<p, o>> : p \in {p \in Object \ {o} : Due(q, p) # 0 /\ Due(q, p) = t}}
    BY <1>1, <1>2, <1>6, SetTimerSets
  <2>2. \A p \in Object : due[p] = Due(q, p) /\ later[p] = Due(n, p)
    BY <1>6
  <2>3. {p \in Object \ {o} : Due(q, p) # 0 /\ Due(q, p) = t} = {p \in Object \ {o} : due[p] # 0 /\ due[p] = t}
    BY <2>2
  <2>4. later = [due EXCEPT ![o] = t]
    BY <1>6, <2>1, <2>2
  <2>5. QED
    BY <2>1, <2>2, <2>3, <2>4
<1>7. PICK due, later :
        /\ due = [p \in Object |-> Due(timers, p)]
        /\ later = [p \in Object |-> Due(timers, p)]'
  OBVIOUS
<1>8. due = [p \in Object |-> Due(q, p)] /\ later = [p \in Object |-> Due(n, p)]
  BY <1>2, <1>3, <1>7
<1>9. AheadInSecond(timers) = AheadInSecond(q) /\ AheadInSecond(timers)' = AheadInSecond(n)
  BY <1>2, <1>3
<1>10. ASSUME NEW o \in Object, NEW t \in Nat, timers' = SetTimer(timers, t, o), rung' = rung, now' = now
       PROVE  Clock!Set(o)
  <2>1. n = SetTimer(q, t, o)
    BY <1>2, <1>3, <1>10
  <2>2. /\ later[o] = t /\ later = [due EXCEPT ![o] = t]
        /\ AheadInSecond(n) = {p \in AheadInSecond(q) : o \notin {p[1], p[2]}} \cup
             {<<p, o>> : p \in {p \in Object \ {o} : due[p] # 0 /\ due[p] = t}}
    BY <1>6, <1>8, <2>1
  <2>3. /\ later[o] \in Nat /\ later = [due EXCEPT ![o] = later[o]]
        /\ AheadInSecond(timers)' = {p \in AheadInSecond(timers) : o \notin {p[1], p[2]}} \cup
             {<<p, o>> : p \in {p \in Object \ {o} : due[p] # 0 /\ due[p] = later[o]}}
    BY <1>9, <2>2
  <2>4. QED
    BY <1>7, <1>10, <2>3 DEF Clock!Set
<1>11. ASSUME NEW o \in Object, Take(o), timers' = SetTimer(timers, 0, o)
       PROVE  Clock!Ring(o)
  <2>1. /\ Due(timers, o) = alarm.second /\ alarm.second # 0
        /\ \A p : Due(timers, p) # 0 => Due(timers, o) <= Due(timers, p)
        /\ \A p : <<p, o>> \notin AheadInSecond(timers)
    BY <1>1, <1>11, TakeIs
  <2>2. alarm.second <= now
    BY <1>1
  <2>3. Clock!IsNext(o)
    BY <2>1, <2>2 DEF Clock!IsNext
  <2>4. rung' = [object |-> o, at |-> due[o], count |-> rung.count + 1] /\ now' = now
    BY <1>7, <1>11, <2>1 DEF Take
  <2>5. n = SetTimer(q, 0, o) /\ 0 \in Nat
    BY <1>2, <1>3, <1>11
  <2>6. /\ later[o] = 0 /\ later = [due EXCEPT ![o] = 0]
        /\ AheadInSecond(n) = {p \in AheadInSecond(q) : o \notin {p[1], p[2]}} \cup
             {<<p, o>> : p \in {p \in Object \ {o} : due[p] # 0 /\ due[p] = 0}}
    BY <1>6, <1>8, <2>5
  <2>7. AheadInSecond(timers)' = {p \in AheadInSecond(timers) : o \notin {p[1], p[2]}}
    <3>1. {<<p, o>> : p \in {p \in Object \ {o} : due[p] # 0 /\ due[p] = 0}} = {}
      OBVIOUS
    <3>2. QED
      BY <1>9, <2>6, <3>1
  <2>8. QED
    BY <1>7, <2>3, <2>4, <2>6, <2>7 DEF Clock!Ring
<1>12. QED
  BY <1>4, <1>5, <1>10, <1>11, QueueSteps DEF QueueStep, Clock!Next

(* The timer queue and the loops of nbClockAlert are an alarm clock, with  *)
(* any number of objects whose alarm methods and rules set and cancel      *)
(* alarms while a second is served: every object has one alarm at most,    *)
(* it rings when its second has come, earlier ones first and those of one  *)
(* second in the order in which they were set.                             *)
THEOREM QueueImplementsAlarmClock == Spec => ImplementsAlarmClock
<1>1. Init => Clock!Init
  <2> SUFFICES ASSUME Init
               PROVE  Clock!Init
    OBVIOUS
  <2>1. now = 1 /\ timers = <<>> /\ rung = [object |-> "none", at |-> 0, count |-> 0]
    BY DEF Init, ClockInit
  <2>2. QED
    BY <2>1, EmptyQueue DEF Clock!Init
<1>2. Inv /\ [Next]_vars => [Clock!Next]_(Clock!alarmVars)
  BY QueueStepIsClockStep
<1>3. QED
  BY <1>1, <1>2, InvHolds, PTL DEF Spec, ImplementsAlarmClock, Clock!Spec

----------------------------------------------------------------------------
(* The tree of rows: a branch is a sequence of the values in rows.         *)
Values == UNION {{r[i] : i \in DOMAIN r} : r \in Row}
Depth == Len(CHOOSE r \in Row : TRUE)

(* A row is a sequence of them, and as long as any other.                  *)
LEMMA RowIs ==
  /\ Depth \in Nat \ {0} /\ Row # {}
  /\ \A r \in Row : r \in Seq(Values) /\ Len(r) = Depth
<1>1. PICK s \in Row : Depth = Len(s)
  BY CacheAssumption DEF Depth
<1>2. ASSUME NEW r \in Row
      PROVE  r \in Seq(Values)
  <2>1. PICK S : S = {r[i] : i \in DOMAIN r}
    OBVIOUS
  <2>2. r \in Seq(S) /\ S \subseteq Values
    BY <2>1, CacheAssumption DEF Values
  <2>3. \A i \in 1..Len(r) : r[i] \in Values
    BY <2>2
  <2>4. QED
    BY <2>2, <2>3
<1>3. Depth \in Nat \ {0}
  BY <1>1, <1>2, CacheAssumption
<1>4. QED
  BY <1>1, <1>2, <1>3, CacheAssumption

(* What lies on the path of p.                                             *)
LEMMA PathIs ==
  ASSUME NEW p \in Seq(Values), NEW q \in Seq(Values)
  PROVE  q \in Path(p) <=> Len(q) <= Len(p) /\ \A i \in 1..Len(q) : q[i] = p[i]
<1>1. Len(p) \in Nat /\ Len(q) \in Nat
  OBVIOUS
<1>2. ASSUME NEW k \in 0..Len(p)
      PROVE  /\ SubSeq(p, 1, k) \in Seq(Values) /\ Len(SubSeq(p, 1, k)) = k
             /\ \A i \in 1..k : SubSeq(p, 1, k)[i] = p[i]
  BY <1>1, SubSeqIsSeq
<1>3. ASSUME q \in Path(p)
      PROVE  Len(q) <= Len(p) /\ \A i \in 1..Len(q) : q[i] = p[i]
  <2>1. PICK k \in 0..Len(p) : q = SubSeq(p, 1, k)
    BY SMTT(60), <1>3 DEF Path
  <2>2. QED
    BY <1>1, <1>2, <2>1
<1>4. ASSUME Len(q) <= Len(p), \A i \in 1..Len(q) : q[i] = p[i]
      PROVE  q \in Path(p)
  <2>1. Len(q) \in 0..Len(p)
    BY <1>1, <1>4
  <2>2. q = SubSeq(p, 1, Len(q))
    BY <1>2, <1>4, <2>1
  <2>3. QED
    BY <2>1, <2>2 DEF Path
<1>5. QED
  BY <1>3, <1>4

(* The branches are what lies on the paths of rows.                        *)
LEMMA BranchIs ==
  ASSUME NEW p
  PROVE  /\ p \in Branches <=> \E r \in Row : p \in Path(r)
         /\ p \in Branches => p \in Seq(Values) /\ Len(p) \in 0..Depth
<1>1. p \in Branches <=> \E r \in Row : p \in Path(r)
  <2>1. \A r \in Row : Len(r) = Depth
    BY RowIs
  <2>2. Branches = {SubSeq(r, 1, k) : r \in Row, k \in 0..Depth}
    BY DEF Branches, Depth
  <2>3. p \in Branches <=> \E r \in Row, k \in 0..Depth : p = SubSeq(r, 1, k)
    BY <2>2
  <2>4. \A r \in Row : p \in Path(r) <=> \E k \in 0..Depth : p = SubSeq(r, 1, k)
    BY <2>1 DEF Path
  <2>5. QED
    BY <2>3, <2>4
<1>2. ASSUME NEW r \in Row, NEW k \in 0..Len(r)
      PROVE  SubSeq(r, 1, k) \in Seq(Values) /\ Len(SubSeq(r, 1, k)) \in 0..Depth
  <2>1. r \in Seq(Values) /\ Len(r) = Depth /\ Depth \in Nat
    BY RowIs
  <2>2. QED
    BY <2>1, SubSeqIsSeq
<1>3. ASSUME p \in Branches
      PROVE  p \in Seq(Values) /\ Len(p) \in 0..Depth
  <2>1. PICK r \in Row : p \in Path(r)
    BY <1>1, <1>3
  <2>2. PICK k \in 0..Len(r) : p = SubSeq(r, 1, k)
    BY <2>1 DEF Path
  <2>3. QED
    BY <1>2, <2>2
<1>4. QED
  BY <1>1, <1>3

(* Of p, the path and what lies under it.                                  *)
LEMMA PathsIn ==
  ASSUME NEW p \in Branches
  PROVE  /\ p \in Path(p) /\ <<>> \in Path(p) /\ <<>> \in Branches
         /\ Path(p) \in SUBSET Branches /\ IsFiniteSet(Path(p))
         /\ Under(p) = {q \in Branches : p \in Path(q)}
<1>1. p \in Seq(Values) /\ Len(p) \in Nat /\ <<>> \in Seq(Values) /\ Len(<<>>) = 0
  BY BranchIs
<1>2. p \in Path(p) /\ <<>> \in Path(p)
  <2>1. p \in Path(p)
    BY <1>1, PathIs
  <2>2. PICK q \in Seq(Values) : q = <<>>
    BY <1>1
  <2>3. Len(q) <= Len(p) /\ \A i \in 1..Len(q) : q[i] = p[i]
    BY <1>1, <2>2
  <2>4. q \in Path(p)
    BY <1>1, <2>3, PathIs
  <2>5. QED
    BY <2>1, <2>2, <2>4
<1>3. PICK r \in Row : p \in Path(r)
  BY BranchIs
<1>4. r \in Seq(Values) /\ Len(r) \in Nat
  BY RowIs
<1>5. ASSUME NEW q \in Path(p)
      PROVE  q \in Branches
  <2>1. q \in Seq(Values)
    <3>1. PICK k \in 0..Len(p) : q = SubSeq(p, 1, k)
      BY DEF Path
    <3>2. QED
      BY <1>1, <3>1, SubSeqIsSeq
  <2>2. Len(q) \in Nat /\ Len(q) <= Len(p) /\ Len(p) <= Len(r)
    BY <1>1, <1>3, <1>4, <2>1, PathIs
  <2>3. ASSUME NEW i \in 1..Len(q)
        PROVE  q[i] = r[i]
    <3>1. i \in 1..Len(p)
      BY <1>1, <2>2
    <3>2. QED
      BY <1>1, <1>3, <1>4, <2>1, <3>1, PathIs
  <2>4. q \in Path(r)
    BY <1>4, <2>1, <2>2, <2>3, PathIs
  <2>5. QED
    BY <2>4, BranchIs
<1>6. IsFiniteSet(Path(p))
  <2>1. PICK f \in [0..Len(p) -> Path(p)] : f = [k \in 0..Len(p) |-> SubSeq(p, 1, k)]
    BY DEF Path
  <2>2. f \in Surjection(0..Len(p), Path(p))
    BY <2>1 DEF Surjection, Path
  <2>3. IsFiniteSet(0..Len(p))
    BY <1>1, FS_Interval
  <2>4. QED
    BY <2>2, <2>3, FS_Surjection
<1>7. QED
  BY <1>2, <1>5, <1>6 DEF Under

(* The branches are a tree.                                                *)
LEMMA PathsNest ==
  ASSUME NEW p \in Branches, NEW q \in Branches, NEW r \in Branches
  PROVE  /\ p \in Path(q) /\ q \in Path(r) => p \in Path(r)
         /\ p \in Path(q) /\ q \in Path(p) => p = q
         /\ p \in Path(r) /\ q \in Path(r) => p \in Path(q) \/ q \in Path(p)
<1>1. /\ p \in Seq(Values) /\ q \in Seq(Values) /\ r \in Seq(Values)
      /\ Len(p) \in Nat /\ Len(q) \in Nat /\ Len(r) \in Nat
  BY BranchIs
<1>2. /\ p \in Path(q) <=> Len(p) <= Len(q) /\ \A i \in 1..Len(p) : p[i] = q[i]
      /\ q \in Path(p) <=> Len(q) <= Len(p) /\ \A i \in 1..Len(q) : q[i] = p[i]
      /\ p \in Path(r) <=> Len(p) <= Len(r) /\ \A i \in 1..Len(p) : p[i] = r[i]
      /\ q \in Path(r) <=> Len(q) <= Len(r) /\ \A i \in 1..Len(q) : q[i] = r[i]
  BY <1>1, PathIs
<1>3. ASSUME p \in Path(q), q \in Path(r)
      PROVE  p \in Path(r)
  <2>1. ASSUME NEW i \in 1..Len(p)
        PROVE  p[i] = r[i]
    <3>1. i \in 1..Len(q) /\ p[i] = q[i]
      BY <1>1, <1>2, <1>3
    <3>2. QED
      BY <1>2, <1>3, <3>1
  <2>2. QED
    BY <1>1, <1>2, <1>3, <2>1
<1>4. ASSUME p \in Path(q), q \in Path(p)
      PROVE  p = q
  BY <1>1, <1>2, <1>4
<1>5. ASSUME p \in Path(r), q \in Path(r)
      PROVE  p \in Path(q) \/ q \in Path(p)
  <2>1. CASE Len(p) <= Len(q)
    BY <1>1, <1>2, <1>5, <2>1
  <2>2. CASE ~(Len(p) <= Len(q))
    BY <1>1, <1>2, <1>5, <2>2
  <2>3. QED
    BY <2>1, <2>2
<1>6. QED
  BY <1>3, <1>4, <1>5

(* The parent of a branch.                                                 *)
LEMMA ParentIs ==
  ASSUME NEW p \in Branches, p # <<>>
  PROVE  /\ Parent(p) \in Branches /\ Parent(p) \in Path(p) /\ Parent(p) # p
         /\ Len(Parent(p)) = Len(p) - 1 /\ Len(p) \in 1..Depth
         /\ \A q \in Path(p) : q = p \/ q \in Path(Parent(p))
         /\ p \notin Path(Parent(p))
<1>1. p \in Seq(Values) /\ Len(p) \in 1..Depth /\ Depth \in Nat
  BY BranchIs, RowIs
<1>2. /\ Parent(p) \in Seq(Values) /\ Len(Parent(p)) = Len(p) - 1
      /\ \A i \in 1..Len(p) - 1 : Parent(p)[i] = p[i]
  <2>1. Len(p) - 1 \in 0..Len(p) /\ 1 \in 1..Len(p) + 1 /\ Len(p) - 1 = (Len(p) - 1) - 1 + 1
    BY SMTT(60), <1>1
  <2>2. PICK k \in 0..Len(p) : k = Len(p) - 1
    BY <2>1
  <2>3. /\ SubSeq(p, 1, k) \in Seq(Values) /\ Len(SubSeq(p, 1, k)) = k
        /\ \A i \in 1..k : SubSeq(p, 1, k)[i] = p[i]
    BY <1>1, <2>1, SubSeqIsSeq
  <2>4. QED
    BY <2>2, <2>3 DEF Parent
<1>3. Parent(p) \in Path(p) /\ p \notin Path(Parent(p))
  BY <1>1, <1>2, PathIs
<1>4. ASSUME NEW q \in Path(p), q # p
      PROVE  q \in Path(Parent(p))
  <2>1. q \in Branches
    BY PathsIn
  <2>2. q \in Seq(Values) /\ Len(q) \in Nat
    BY <2>1, BranchIs
  <2>3. Len(q) <= Len(p) /\ \A i \in 1..Len(q) : q[i] = p[i]
    BY <1>1, <2>2, PathIs
  <2>4. Len(q) # Len(p)
    BY <1>1, <1>4, <2>2, <2>3
  <2>5. QED
    BY <1>1, <1>2, <2>2, <2>3, <2>4, PathIs
<1>5. Parent(p) \in Branches /\ Parent(p) # p
  BY <1>1, <1>2, <1>3, PathsIn
<1>6. QED
  BY <1>1, <1>2, <1>3, <1>4, <1>5

(* A row has nothing under it.                                             *)
LEMMA RowsAreLeaves ==
  ASSUME NEW r \in Row
  PROVE  /\ r \in Branches /\ r # <<>>
         /\ \A p \in Branches : r \in Path(p) => p = r
<1>1. r \in Seq(Values) /\ Len(r) = Depth /\ Depth \in Nat \ {0}
  BY RowIs
<1>2. r \in Path(r)
  BY <1>1, PathIs
<1>3. r \in Branches
  BY <1>2, BranchIs
<1>4. ASSUME NEW p \in Branches, r \in Path(p)
      PROVE  p = r
  <2>1. p \in Seq(Values) /\ Len(p) \in 0..Depth
    BY BranchIs
  <2>2. Len(r) <= Len(p) /\ \A i \in 1..Len(r) : r[i] = p[i]
    BY <1>1, <1>4, <2>1, PathIs
  <2>3. QED
    BY <1>1, <2>1, <2>2
<1>5. QED
  BY <1>1, <1>3, <1>4

(* Where the path of e leaves that of a row r, the row goes on with        *)
(* another branch.                                                         *)
LEMMA PathsPart ==
  ASSUME NEW e \in Branches, NEW r \in Row, e \notin Path(r)
  PROVE  \E u \in Path(e), v \in Path(r) :
           u # v /\ u # <<>> /\ v # <<>> /\ Parent(u) = Parent(v) /\ u \notin Path(r)
<1>1. /\ e \in Seq(Values) /\ r \in Seq(Values) /\ Len(r) = Depth /\ Depth \in Nat
      /\ Len(e) \in 0..Depth /\ Len(e) <= Len(r) /\ Len(e) \in Nat
  BY BranchIs, RowIs
<1>2. PICK I : I = {i \in 1..Len(e) : e[i] # r[i]} /\ I \in SUBSET Nat
  <2>1. \A i \in {i \in 1..Len(e) : e[i] # r[i]} : i \in Nat
    BY <1>1
  <2>2. QED
    BY <2>1
<1>3. I # {}
  BY <1>1, <1>2, PathIs
<1>4. PICK k \in I : \A i \in I : k <= i
  BY <1>2, <1>3, MinOfNaturals
<1>5. /\ k \in 1..Len(e) /\ k \in 1..Len(r) /\ e[k] # r[k]
      /\ \A i \in 1..k - 1 : e[i] = r[i]
  BY <1>1, <1>2, <1>4
<1>6. PICK u, v : u = SubSeq(e, 1, k) /\ v = SubSeq(r, 1, k)
  OBVIOUS
<1>7. /\ u \in Seq(Values) /\ Len(u) = k /\ \A i \in 1..k : u[i] = e[i]
      /\ v \in Seq(Values) /\ Len(v) = k /\ \A i \in 1..k : v[i] = r[i]
  BY <1>1, <1>5, <1>6, SubSeqIsSeq
<1>8. u \in Path(e) /\ v \in Path(r) /\ u # <<>> /\ v # <<>>
  <2>1. k \in 0..Len(e) /\ k \in 0..Len(r) /\ k # 0
    BY <1>1, <1>5
  <2>2. QED
    BY <1>6, <1>7, <2>1 DEF Path
<1>9. u # v /\ u \notin Path(r)
  <2>1. u[k] # v[k] /\ u[k] # r[k] /\ k \in 1..Len(u)
    BY <1>1, <1>5, <1>7
  <2>2. QED
    BY <1>1, <1>7, <2>1, PathIs
<1>10. Parent(u) = Parent(v)
  <2>1. PICK a, b : a = SubSeq(u, 1, k - 1) /\ b = SubSeq(v, 1, k - 1)
    OBVIOUS
  <2>2. /\ a \in Seq(Values) /\ Len(a) = k - 1 /\ \A i \in 1..k - 1 : a[i] = u[i]
        /\ b \in Seq(Values) /\ Len(b) = k - 1 /\ \A i \in 1..k - 1 : b[i] = v[i]
    <3>1. PICK j \in 0..k : j = k - 1 /\ k \in Nat
      BY <1>1, <1>5
    <3>2. /\ SubSeq(u, 1, j) \in Seq(Values) /\ Len(SubSeq(u, 1, j)) = j
          /\ \A i \in 1..j : SubSeq(u, 1, j)[i] = u[i]
      BY <1>7, <3>1, SubSeqIsSeq
    <3>3. /\ SubSeq(v, 1, j) \in Seq(Values) /\ Len(SubSeq(v, 1, j)) = j
          /\ \A i \in 1..j : SubSeq(v, 1, j)[i] = v[i]
      BY <1>7, <3>1, SubSeqIsSeq
    <3>4. QED
      BY <2>1, <3>1, <3>2, <3>3
  <2>3. \A i \in 1..k - 1 : a[i] = b[i]
    BY <1>1, <1>5, <1>7, <2>2
  <2>4. a = b
    BY SMTT(60), <1>5, <2>2, <2>3
  <2>5. QED
    BY <1>7, <2>1, <2>4 DEF Parent
<1>11. QED
  BY <1>8, <1>9, <1>10

(* The nodes N of the cache: with a node there is its path, and a row      *)
(* under it.                                                               *)
Below(N, p) == Under(p) \cap N \cap Row
Kids(N, p) == {q \in N : Parent(q) = p}
Tree(N) ==
  /\ N \in SUBSET (Branches \ {<<>>}) /\ IsFiniteSet(N)
  /\ \A p \in N : Path(p) \ {<<>>} \subseteq N /\ Below(N, p) # {}

(* There are finitely many.                                                *)
LEMMA TreeFinite ==
  ASSUME NEW N, Tree(N), NEW p
  PROVE  /\ IsFiniteSet(Below(N, p)) /\ Cardinality(Below(N, p)) \in Nat
         /\ IsFiniteSet(Kids(N, p)) /\ Cardinality(Kids(N, p)) \in Nat
<1>1. IsFiniteSet(N) /\ Below(N, p) \in SUBSET N /\ Kids(N, p) \in SUBSET N
  BY DEF Tree, Below, Kids
<1>2. IsFiniteSet(Below(N, p)) /\ IsFiniteSet(Kids(N, p))
  BY <1>1, FS_Subset
<1>3. QED
  BY <1>2, FS_CardinalityType

(* Sets that are put together, or taken from each other.                   *)
LEMMA CardinalityAdds ==
  ASSUME NEW S, NEW T, IsFiniteSet(S), IsFiniteSet(T), S \cap T = {}
  PROVE  /\ Cardinality(S \cup T) = Cardinality(S) + Cardinality(T) /\ IsFiniteSet(S \cup T)
         /\ Cardinality(S) \in Nat /\ Cardinality(T) \in Nat
<1>1. Cardinality(S \cap T) = 0 /\ Cardinality(S) \in Nat /\ Cardinality(T) \in Nat
  BY FS_EmptySet, FS_CardinalityType
<1>2. IsFiniteSet(S \cup T) /\ Cardinality(S \cup T) = Cardinality(S) + Cardinality(T) - Cardinality(S \cap T)
  BY FS_Union
<1>3. QED
  BY <1>1, <1>2

(* An assertion of the row r adds what is missing of its path.             *)
Grown(N, new, r) ==
  /\ Tree(N \cup new) /\ IsFiniteSet(new)
  /\ \A p \in Branches :
       /\ Cardinality(Below(N \cup new, p)) =
            Cardinality(Below(N, p)) + (IF p \in Path(r) /\ r \in new THEN 1 ELSE 0)
       /\ Cardinality(Kids(N \cup new, p)) = Cardinality(Kids(N, p)) + Cardinality(Kids(new, p))
       /\ Cardinality(Kids(new, p)) = IF p \in {Parent(q) : q \in new} THEN 1 ELSE 0

(* An assertion leaves a tree.                                             *)
LEMMA TreeGrows ==
  ASSUME NEW N, Tree(N), NEW r \in Row, NEW new, new = Path(r) \ (N \cup {<<>>})
  PROVE  Grown(N, new, r)
<1>1. r \in Branches /\ r # <<>> /\ r \in Path(r) /\ IsFiniteSet(Path(r)) /\ Path(r) \in SUBSET Branches
  BY RowsAreLeaves, PathsIn
<1>2. IsFiniteSet(new) /\ new \in SUBSET (Branches \ {<<>>}) /\ N \cap new = {} /\ new \in SUBSET Path(r)
  BY <1>1, FS_Subset
<1>3. PICK M : M = N \cup new
  OBVIOUS
<1>4. M \in SUBSET (Branches \ {<<>>}) /\ IsFiniteSet(M) /\ Path(r) \ {<<>>} \subseteq M /\ r \in M
  BY <1>1, <1>2, <1>3, FS_Union DEF Tree
<1>5. ASSUME NEW p \in M
      PROVE  Path(p) \ {<<>>} \subseteq M /\ Below(M, p) # {}
  <2>1. CASE p \in N
    BY <1>3, <2>1 DEF Tree, Below
  <2>2. CASE p \in Path(r)
    <3>1. p \in Branches
      BY <1>4
    <3>2. ASSUME NEW q \in Path(p)
          PROVE  q \in Path(r)
      <4>1. q \in Branches
        BY <3>1, PathsIn
      <4>2. QED
        BY <1>1, <2>2, <3>1, <4>1, PathsNest
    <3>3. r \in Below(M, p)
      BY <1>1, <1>4, <2>2 DEF Below, Under
    <3>4. QED
      BY <1>4, <3>2, <3>3
  <2>3. QED
    BY <1>2, <1>3, <2>1, <2>2
<1>6. Tree(M)
  BY <1>4, <1>5 DEF Tree
<1>7. ASSUME NEW p \in Branches
      PROVE  Cardinality(Below(M, p)) = Cardinality(Below(N, p)) + (IF p \in Path(r) /\ r \in new THEN 1 ELSE 0)
  <2>1. \A q \in new : q \in Row => q = r
    BY <1>1, <1>2, RowsAreLeaves
  <2>2. IsFiniteSet(Below(N, p)) /\ Cardinality(Below(N, p)) \in Nat
    BY TreeFinite
  <2>3. CASE p \in Path(r) /\ r \in new
    <3>1. Below(M, p) = Below(N, p) \cup {r}
      BY <1>1, <1>3, <2>1, <2>3 DEF Below, Under
    <3>2. r \notin Below(N, p)
      BY <1>2, <2>3 DEF Below
    <3>3. QED
      BY <2>2, <2>3, <3>1, <3>2, FS_AddElement
  <2>4. CASE ~(p \in Path(r) /\ r \in new)
    <3>1. Below(M, p) = Below(N, p)
      BY <1>3, <2>1, <2>4 DEF Below, Under
    <3>2. QED
      BY <2>2, <2>4, <3>1
  <2>5. QED
    BY <2>3, <2>4
<1>8. ASSUME NEW p \in Branches
      PROVE  Cardinality(Kids(M, p)) = Cardinality(Kids(N, p)) + Cardinality(Kids(new, p))
  <2>1. Kids(M, p) = Kids(N, p) \cup Kids(new, p) /\ Kids(N, p) \cap Kids(new, p) = {}
    BY <1>2, <1>3 DEF Kids
  <2>2. Kids(new, p) \in SUBSET new
    BY DEF Kids
  <2>3. IsFiniteSet(Kids(N, p)) /\ IsFiniteSet(Kids(new, p))
    BY <1>2, <2>2, TreeFinite, FS_Subset
  <2>4. QED
    BY <2>1, <2>3, CardinalityAdds
<1>9. ASSUME NEW p \in Branches
      PROVE  Cardinality(Kids(new, p)) = IF p \in {Parent(q) : q \in new} THEN 1 ELSE 0
  <2>1. CASE p \in {Parent(q) : q \in new}
    <3>1. PICK q \in new : p = Parent(q)
      BY <2>1
    <3>2. ASSUME NEW u \in new, Parent(u) = p
          PROVE  u = q
      <4>1. /\ u \in Branches /\ q \in Branches /\ u # <<>> /\ q # <<>>
            /\ u \in Path(r) /\ q \in Path(r)
        BY <1>2
      <4>2. u \in Path(q) \/ q \in Path(u)
        BY <1>1, <4>1, PathsNest
      <4>3. u = q \/ u \in Path(p) \/ q \in Path(p)
        BY <3>1, <3>2, <4>1, <4>2, ParentIs
      <4>4. u \notin Path(p) /\ q \notin Path(p)
        BY <3>1, <3>2, <4>1, ParentIs
      <4>5. QED
        BY <4>3, <4>4
    <3>3. Kids(new, p) = {q}
      BY <3>1, <3>2 DEF Kids
    <3>4. QED
      BY <2>1, <3>3, FS_Singleton
  <2>2. CASE p \notin {Parent(q) : q \in new}
    <3>1. Kids(new, p) = {}
      BY <2>2 DEF Kids
    <3>2. QED
      BY <2>2, <3>1, FS_EmptySet
  <2>3. QED
    BY <2>1, <2>2
<1>10. QED
  BY <1>2, <1>3, <1>6, <1>7, <1>8, <1>9 DEF Grown

(* A branch whose parent has other kids, or is the root, is cut off.       *)
Pruned(N, t, M) ==
  /\ Tree(M) /\ Under(t) \cap Path(Parent(t)) = {}
  /\ \A p \in Under(t) : Below(M, p) = {} /\ Kids(M, p) = {}
  /\ \A p \in Path(Parent(t)) :
       Cardinality(Below(M, p)) = Cardinality(Below(N, p)) - Cardinality(Below(N, t))
  /\ \A p \in Branches \ (Under(t) \cup Path(Parent(t))) : Below(M, p) = Below(N, p)
  /\ Cardinality(Kids(M, Parent(t))) = Cardinality(Kids(N, Parent(t))) - 1
  /\ \A p \in Branches \ (Under(t) \cup {Parent(t)}) : Kids(M, p) = Kids(N, p)

(* What is left is a tree.                                                 *)
LEMMA TreePruned ==
  ASSUME NEW N, Tree(N), NEW t \in N, Parent(t) = <<>> \/ Cardinality(Kids(N, Parent(t))) > 1,
         NEW M, M = N \ Under(t)
  PROVE  Pruned(N, t, M)
<1>1. t \in Branches /\ t # <<>> /\ N \in SUBSET (Branches \ {<<>>}) /\ IsFiniteSet(N)
  BY DEF Tree
<1>2. PICK a \in Branches : a = Parent(t)
  BY <1>1, ParentIs
<1>3. a \in Path(t) /\ a # t /\ t \notin Path(a) /\ \A q \in Path(t) : q = t \/ q \in Path(a)
  BY <1>1, <1>2, ParentIs
<1>4. \A p \in Branches : p \in Under(t) <=> t \in Path(p)
  BY <1>1, PathsIn
<1>5. Path(a) \in SUBSET Branches /\ Under(t) \in SUBSET Branches /\ t \in Under(t) /\ a \in Path(a)
  BY <1>1, <1>2, <1>4, PathsIn
<1>6. ASSUME NEW p \in Under(t)
      PROVE  p \notin Path(a)
  BY <1>1, <1>2, <1>3, <1>4, <1>5, PathsNest
<1>7. ASSUME NEW p \in Under(t), NEW q \in Branches, p \in Path(q)
      PROVE  q \in Under(t)
  BY <1>1, <1>4, <1>5, <1>7, PathsNest
<1>8. ASSUME NEW p \in Branches, NEW q \in Under(t), p \in Path(q)
      PROVE  p \in Under(t) \/ p \in Path(a)
  <2>1. p \in Path(t) \/ t \in Path(p)
    BY <1>1, <1>4, <1>5, <1>8, PathsNest
  <2>2. QED
    BY <1>3, <1>4, <1>5, <2>1
<1>9. ASSUME NEW p \in Under(t)
      PROVE  Below(M, p) = {} /\ Kids(M, p) = {}
  <2>1. Below(M, p) = {}
    BY <1>7 DEF Below, Under
  <2>2. ASSUME NEW q \in M, Parent(q) = p
        PROVE  FALSE
    <3>1. q \in Branches /\ q # <<>>
      BY <1>1
    <3>2. q \in Under(t)
      BY <1>7, <2>2, <3>1, ParentIs
    <3>3. QED
      BY <3>2
  <2>3. QED
    BY <2>1, <2>2 DEF Kids
<1>10. ASSUME NEW p \in Branches, p \notin Under(t), p \notin Path(a)
       PROVE  Below(M, p) = Below(N, p)
  BY <1>8, <1>10 DEF Below, Under
<1>11. ASSUME NEW p \in Path(a)
       PROVE  /\ Below(N, t) \in SUBSET Below(N, p) /\ Below(M, p) = Below(N, p) \ Below(N, t)
              /\ Cardinality(Below(M, p)) = Cardinality(Below(N, p)) - Cardinality(Below(N, t))
  <2>1. p \in Branches /\ p \in Path(t)
    BY <1>1, <1>2, <1>3, <1>5, PathsNest
  <2>2. \A q \in Under(t) : p \in Path(q)
    BY <1>1, <1>4, <1>5, <2>1, PathsNest
  <2>3. Below(N, t) \in SUBSET Below(N, p) /\ Below(M, p) = Below(N, p) \ Below(N, t)
    BY <2>1, <2>2 DEF Below, Under
  <2>4. PICK S, T : S = Below(M, p) /\ T = Below(N, t)
    OBVIOUS
  <2>5. S \cap T = {} /\ S \cup T = Below(N, p) /\ S \in SUBSET Below(N, p)
    BY <2>3, <2>4
  <2>6. IsFiniteSet(S) /\ IsFiniteSet(T)
    BY <2>4, <2>5, TreeFinite, FS_Subset
  <2>7. Cardinality(S \cup T) = Cardinality(S) + Cardinality(T) /\ Cardinality(S) \in Nat /\ Cardinality(T) \in Nat
    BY <2>5, <2>6, CardinalityAdds
  <2>8. QED
    <3>1. PICK m, n, k : m = Cardinality(S) /\ n = Cardinality(T) /\ k = Cardinality(S \cup T)
      OBVIOUS
    <3>2. m \in Nat /\ n \in Nat /\ k = m + n
      BY <2>7, <3>1
    <3>3. m = k - n
      BY <3>2
    <3>4. Cardinality(Below(M, p)) = m /\ Cardinality(Below(N, t)) = n /\ Cardinality(Below(N, p)) = k
      BY <2>4, <2>5, <3>1
    <3>5. QED
      BY <2>3, <3>3, <3>4
<1>12. ASSUME NEW p \in Branches, p \notin Under(t), p # a
       PROVE  Kids(M, p) = Kids(N, p)
  <2>1. ASSUME NEW q \in N, q \in Under(t), Parent(q) = p
        PROVE  FALSE
    <3>1. q \in Branches /\ q # <<>> /\ t \in Path(q)
      BY <1>1, <1>4, <2>1
    <3>2. t = q \/ t \in Path(p)
      BY <2>1, <3>1, ParentIs
    <3>3. QED
      BY <1>2, <1>4, <1>12, <2>1, <3>2
  <2>2. QED
    BY <2>1 DEF Kids
<1>13. Kids(M, a) = Kids(N, a) \ {t} /\ t \in Kids(N, a)
  <2>1. ASSUME NEW q \in N, q \in Under(t), Parent(q) = a
        PROVE  q = t
    <3>1. q \in Branches /\ q # <<>> /\ t \in Path(q)
      BY <1>1, <1>4, <2>1
    <3>2. t = q \/ t \in Path(a)
      BY <2>1, <3>1, ParentIs
    <3>3. QED
      BY <1>3, <3>2
  <2>2. QED
    BY <1>2, <1>5, <2>1 DEF Kids
<1>14. Cardinality(Kids(M, a)) = Cardinality(Kids(N, a)) - 1
  BY <1>13, TreeFinite, FS_RemoveElement
<1>15. M \in SUBSET (Branches \ {<<>>}) /\ IsFiniteSet(M) /\ M \in SUBSET N
  BY <1>1, FS_Subset
<1>16. ASSUME NEW p \in M
       PROVE  Path(p) \ {<<>>} \subseteq M /\ Below(M, p) # {}
  <2>1. p \in Branches /\ p \in N /\ p \notin Under(t) /\ p # <<>>
    BY <1>15
  <2>2. ASSUME NEW q \in Path(p), q # <<>>
        PROVE  q \in M
    <3>1. q \in N
      BY <2>1, <2>2 DEF Tree
    <3>2. q \notin Under(t)
      BY <1>7, <2>1
    <3>3. QED
      BY <3>1, <3>2
  <2>3. CASE p \notin Path(a)
    <3>1. Below(M, p) = Below(N, p) /\ Below(N, p) # {}
      BY <1>10, <2>1, <2>3 DEF Tree
    <3>2. QED
      BY <2>2, <3>1
  <2>4. CASE p \in Path(a)
    <3>1. a # <<>>
      <4>1. ASSUME a = <<>> PROVE FALSE
        <5>1. <<>> \in Path(p)
          BY <2>1, PathsIn
        <5>2. QED
          BY <1>2, <2>1, <2>4, <4>1, <5>1, PathsNest
      <4>2. QED
        BY <4>1
    <3>2. Cardinality(Kids(N, a)) > 1
      BY <1>2, <3>1
    <3>3. Kids(N, a) # {t}
      <4>1. Cardinality({t}) = 1
        BY FS_Singleton
      <4>2. ASSUME Kids(N, a) = {t} PROVE Cardinality(Kids(N, a)) = 1
        BY <4>1, <4>2
      <4>3. QED
        BY <3>2, <4>2
    <3>4. PICK u \in N : Parent(u) = a /\ u # t
      BY <1>13, <3>3 DEF Kids
    <3>5. PICK r : r \in Below(N, u)
      BY DEF Tree
    <3>6. u \in Branches /\ r \in Branches /\ r \in N /\ r \in Row /\ u \in Path(r) /\ u # <<>>
      BY <1>1, <3>5 DEF Below, Under
    <3>7. r \notin Under(t)
      <4>1. ASSUME t \in Path(r) PROVE FALSE
        <5>1. u \in Path(t) \/ t \in Path(u)
          BY <1>1, <3>6, <4>1, PathsNest
        <5>2. u \in Path(a) \/ t \in Path(a)
          BY <1>3, <3>4, <3>6, <5>1, ParentIs
        <5>3. QED
          BY <1>3, <3>4, <3>6, <5>2, ParentIs
      <4>2. QED
        BY <1>4, <3>6, <4>1
    <3>8. p \in Path(r)
      <4>1. a \in Path(u)
        BY <3>4, <3>6, ParentIs
      <4>2. p \in Path(u)
        BY <1>2, <2>1, <2>4, <3>6, <4>1, PathsNest
      <4>3. QED
        BY <2>1, <3>6, <4>2, PathsNest
    <3>9. r \in Below(M, p)
      BY <3>6, <3>7, <3>8 DEF Below, Under
    <3>10. QED
      BY <2>2, <3>9
  <2>5. QED
    BY <2>2, <2>3, <2>4
<1>17. Tree(M)
  BY <1>15, <1>16 DEF Tree
<1>18. QED
  BY <1>2, <1>6, <1>9, <1>10, <1>11, <1>12, <1>14, <1>17 DEF Pruned

(* The branches on the path of e.                                          *)
LEMMA PathStep ==
  ASSUME NEW e \in Branches, NEW k \in 1..Len(e), NEW u, u = SubSeq(e, 1, k)
  PROVE  u \in Path(e) /\ u \in Branches /\ Len(u) = k /\ u # <<>> /\ Parent(u) = SubSeq(e, 1, k - 1)
<1>1. e \in Seq(Values) /\ Len(e) \in Nat /\ k \in 0..Len(e)
  BY BranchIs
<1>2. u \in Seq(Values) /\ Len(u) = k /\ \A i \in 1..k : u[i] = e[i]
  BY <1>1, SubSeqIsSeq
<1>3. u \in Path(e) /\ u \in Branches /\ u # <<>>
  <2>1. u \in Path(e)
    BY <1>1 DEF Path
  <2>2. QED
    BY <1>2, <2>1, PathsIn
<1>4. PICK j \in 0..k : j = k - 1 /\ k \in Nat /\ j \in 0..Len(e)
  BY <1>1
<1>5. /\ SubSeq(u, 1, j) \in Seq(Values) /\ Len(SubSeq(u, 1, j)) = j
      /\ \A i \in 1..j : SubSeq(u, 1, j)[i] = u[i]
  BY <1>2, <1>4, SubSeqIsSeq
<1>6. /\ SubSeq(e, 1, j) \in Seq(Values) /\ Len(SubSeq(e, 1, j)) = j
      /\ \A i \in 1..j : SubSeq(e, 1, j)[i] = e[i]
  BY <1>1, <1>4, SubSeqIsSeq
<1>7. PICK a, b : a = SubSeq(u, 1, j) /\ b = SubSeq(e, 1, j)
  OBVIOUS
<1>8. \A i \in 1..j : a[i] = b[i]
  <2>1. \A i \in 1..j : i \in 1..k
    BY <1>4
  <2>2. QED
    BY <1>2, <1>5, <1>6, <1>7, <2>1
<1>9. a = b
  BY <1>4, <1>5, <1>6, <1>7, <1>8
<1>10. QED
  BY <1>2, <1>3, <1>4, <1>7, <1>9 DEF Parent

(* Where only one branch leads from t to e, all rows under t are under e.  *)
LEMMA OnlyBranch ==
  ASSUME NEW N, Tree(N), NEW e \in N, NEW t \in Path(e),
         \A u \in Path(e) \ Path(t) : Cardinality(Kids(N, Parent(u))) = 1
  PROVE  Below(N, t) = Below(N, e)
<1>1. e \in Branches /\ e # <<>> /\ t \in Branches
  <2>1. e \in Branches /\ e # <<>>
    BY DEF Tree
  <2>2. QED
    BY <2>1, PathsIn
<1>2. ASSUME NEW r \in Below(N, e)
      PROVE  r \in Below(N, t)
  <2>1. r \in Branches /\ e \in Path(r)
    BY DEF Below, Under
  <2>2. t \in Path(r)
    BY <1>1, <2>1, PathsNest
  <2>3. QED
    BY <2>1, <2>2 DEF Below, Under
<1>3. ASSUME NEW r \in Below(N, t), e \notin Path(r)
      PROVE  FALSE
  <2>1. r \in Branches /\ t \in Path(r) /\ r \in N /\ r \in Row
    BY DEF Below, Under
  <2>2. PICK u \in Path(e), v \in Path(r) :
           u # v /\ u # <<>> /\ v # <<>> /\ Parent(u) = Parent(v) /\ u \notin Path(r)
    BY <1>1, <1>3, <2>1, PathsPart
  <2>3. u \notin Path(t)
    <3>1. u \in Branches
      BY <1>1, PathsIn
    <3>2. QED
      BY <1>1, <2>1, <2>2, <3>1, PathsNest
  <2>4. u \in N /\ v \in N
    BY <2>1, <2>2 DEF Tree
  <2>5. Cardinality(Kids(N, Parent(u))) = 1 /\ IsFiniteSet(Kids(N, Parent(u)))
    BY <2>3, TreeFinite
  <2>6. PICK x : Kids(N, Parent(u)) = {x}
    BY <2>5, FS_Singleton
  <2>7. u \in Kids(N, Parent(u)) /\ v \in Kids(N, Parent(u))
    BY <2>2, <2>4 DEF Kids
  <2>8. QED
    BY <2>2, <2>6, <2>7
<1>4. ASSUME NEW r \in Below(N, t)
      PROVE  r \in Below(N, e)
  BY <1>3 DEF Below, Under
<1>5. QED
  BY <1>2, <1>4

(* What goes when e goes: a branch that nothing else needs.                *)
LEMMA TopmostIs ==
  ASSUME NEW N, N = cache.nodes, Tree(N), NEW e \in N, NEW t, t = Topmost(e),
         \A p \in Branches : cache.number["kids"][p] = Cardinality(Kids(N, p))
  PROVE  /\ t \in N /\ e \in Under(t) /\ Below(N, t) = Below(N, e)
         /\ Parent(t) = <<>> \/ Cardinality(Kids(N, Parent(t))) > 1
<1>1. e \in Branches /\ e # <<>> /\ Len(e) \in Nat /\ Len(e) # 0 /\ e \in Seq(Values)
  <2>1. e \in Branches /\ e # <<>>
    BY DEF Tree
  <2>2. QED
    BY <2>1, BranchIs
<1>2. \A u \in Path(e) \ {<<>>} : u \in Branches /\ u \in N /\ Parent(u) \in Branches
  <2>1. Path(e) \in SUBSET Branches /\ Path(e) \ {<<>>} \subseteq N
    BY <1>1, PathsIn DEF Tree
  <2>2. QED
    BY <2>1, ParentIs
<1> DEFINE Fork(k) == k = 1 \/ Cardinality(Kids(N, SubSeq(e, 1, k - 1))) > 1
<1>3. PICK I : I = {Len(e) - k : k \in {k \in 1..Len(e) : Fork(k)}}
  OBVIOUS
<1>4. I \in SUBSET Nat /\ I # {}
  <2>1. 1 \in {k \in 1..Len(e) : Fork(k)}
    BY <1>1
  <2>2. \A k \in 1..Len(e) : Len(e) - k \in Nat
    BY <1>1
  <2>3. QED
    BY <1>3, <2>1, <2>2
<1>5. PICK m \in I : \A i \in I : m <= i
  BY <1>4, MinOfNaturals
<1>6. PICK k \in 1..Len(e) : Fork(k) /\ m = Len(e) - k
  BY <1>3
<1>7. ASSUME NEW j \in 1..Len(e), j > k
      PROVE  ~Fork(j)
  <2>1. Len(e) - j < m
    BY <1>1, <1>6, <1>7
  <2>2. Len(e) - j \notin I
    BY <1>1, <1>4, <1>5, <2>1
  <2>3. QED
    BY <1>3, <2>2
<1>8. PICK s : s = SubSeq(e, 1, k)
  OBVIOUS
<1>9. s \in Path(e) /\ s \in Branches /\ Len(s) = k /\ s # <<>> /\ Parent(s) = SubSeq(e, 1, k - 1)
  BY <1>1, <1>8, PathStep
<1>10. Parent(s) = <<>> \/ Cardinality(Kids(N, Parent(s))) > 1
  <2>1. CASE k = 1
    <3>1. Len(Parent(s)) = Len(s) - 1 /\ Parent(s) \in Branches
      BY <1>9, ParentIs
    <3>2. Len(Parent(s)) = 0 /\ Parent(s) \in Seq(Values)
      BY <1>9, <2>1, <3>1, BranchIs
    <3>3. QED
      BY <3>2
  <2>2. CASE k # 1
    BY <1>6, <1>9, <2>2
  <2>3. QED
    BY <2>1, <2>2
<1>11. ASSUME NEW u \in Path(e) \ Path(s)
       PROVE  u # <<>> /\ Cardinality(Kids(N, Parent(u))) = 1
  <2>1. u # <<>>
    BY <1>9, PathsIn
  <2>2. PICK j \in 0..Len(e) : u = SubSeq(e, 1, j)
    BY DEF Path
  <2>3. j # 0
    <3>1. ASSUME j = 0 PROVE u = <<>>
      BY <2>2, <3>1, SubSeqEmpty
    <3>2. QED
      BY <2>1, <3>1
  <2>4. j \in 1..Len(e) /\ u \in Branches /\ u \in N
    <3>1. j \in 1..Len(e)
      BY <1>1, <2>2, <2>3
    <3>2. u \in Path(e) \ {<<>>}
      BY <2>1
    <3>3. QED
      BY <1>2, <3>1, <3>2
  <2>5. Len(u) = j /\ Parent(u) = SubSeq(e, 1, j - 1)
    BY <1>1, <2>2, <2>4, PathStep
  <2>6. j > k
    <3>1. ASSUME j <= k PROVE u \in Path(s)
      <4>1. u \in Path(s) \/ s \in Path(u)
        BY <1>1, <1>9, <2>4, PathsNest
      <4>2. ASSUME s \in Path(u) PROVE u = s
        <5>1. s \in Seq(Values) /\ u \in Seq(Values) /\ Len(s) \in Nat /\ Len(u) \in Nat
          BY <1>9, <2>4, BranchIs
        <5>2. Len(s) <= Len(u) /\ \A i \in 1..Len(s) : s[i] = u[i]
          BY <4>2, <5>1, PathIs
        <5>3. Len(s) = Len(u)
          BY <1>9, <2>5, <3>1, <5>1, <5>2
        <5>4. QED
          BY <5>1, <5>2, <5>3
      <4>3. QED
        BY <1>9, <4>1, <4>2, PathsIn
    <3>2. QED
      BY <3>1, <1>6, <2>4
  <2>7. ~(Cardinality(Kids(N, Parent(u))) > 1)
    BY <1>7, <2>4, <2>5, <2>6
  <2>8. Cardinality(Kids(N, Parent(u))) \in Nat /\ Cardinality(Kids(N, Parent(u))) # 0
    <3>1. IsFiniteSet(Kids(N, Parent(u))) /\ Cardinality(Kids(N, Parent(u))) \in Nat
      BY TreeFinite
    <3>2. u \in Kids(N, Parent(u))
      BY <2>4 DEF Kids
    <3>3. QED
      BY <3>1, <3>2, FS_EmptySet
  <2>9. QED
    BY <2>1, <2>7, <2>8
<1> DEFINE Top(x) == /\ Parent(x) = <<>> \/ cache.number["kids"][Parent(x)] > 1
                     /\ \A u \in Path(e) \ Path(x) : cache.number["kids"][Parent(u)] = 1
<1>12. s \in Path(e) \ {<<>>} /\ Top(s)
  <2>1. Parent(s) \in Branches /\ \A u \in Path(e) \ Path(s) : Parent(u) \in Branches
    BY <1>2, <1>9, <1>11
  <2>2. QED
    BY <1>9, <1>10, <1>11, <2>1
<1>13. t \in Path(e) \ {<<>>} /\ Top(t)
  BY <1>12 DEF Topmost
<1>14. t \in N /\ t \in Branches /\ t \in Path(e) /\ Parent(t) \in Branches
  BY <1>2, <1>13
<1>15. \A u \in Path(e) \ Path(t) : Cardinality(Kids(N, Parent(u))) = 1
  <2>1. ASSUME NEW u \in Path(e) \ Path(t)
        PROVE  u # <<>>
    BY <1>14, PathsIn
  <2>2. QED
    BY <1>2, <1>13, <2>1
<1>16. Below(N, t) = Below(N, e)
  BY <1>14, <1>15, OnlyBranch
<1>17. QED
  BY <1>1, <1>13, <1>14, <1>16 DEF Under

----------------------------------------------------------------------------
(* The places of the elements of the list l for rows in Q.                 *)
Places(l, Q) == {i \in DOMAIN l : l[i].row \in Q}

(* There are finitely many.                                                *)
LEMMA PlacesFinite ==
  ASSUME NEW l \in Seq(Element), NEW Q
  PROVE  /\ IsFiniteSet(Places(l, Q)) /\ Cardinality(Places(l, Q)) \in Nat
         /\ Places(l, Q) \in SUBSET (1..Len(l)) /\ Cardinality(Places(<<>>, Q)) = 0
<1>1. Places(l, Q) \in SUBSET (1..Len(l)) /\ Len(l) \in Nat
  BY DEF Places
<1>2. IsFiniteSet(Places(l, Q))
  <2>1. IsFiniteSet(1..Len(l))
    BY <1>1, FS_Interval
  <2>2. QED
    BY <1>1, <2>1, FS_Subset
<1>3. Places(<<>>, Q) = {}
  BY DEF Places
<1>4. QED
  BY <1>1, <1>2, <1>3, FS_CardinalityType, FS_EmptySet

(* As many as f tells.                                                     *)
LEMMA SameNumber ==
  ASSUME NEW S, NEW T, IsFiniteSet(S), NEW f \in [S -> T],
         \A i, j \in S : i # j => f[i] # f[j], \A k \in T : \E i \in S : f[i] = k
  PROVE  IsFiniteSet(T) /\ Cardinality(T) = Cardinality(S)
<1>1. f \in Injection(S, T)
  BY DEF Injection, IsInjective
<1>2. f \in Surjection(S, T)
  BY DEF Surjection
<1>3. ExistsBijection(S, T)
  BY <1>1, <1>2 DEF ExistsBijection, Bijection
<1>4. QED
  BY <1>3, FS_Bijection

LEMMA PlacesAppend ==
  ASSUME NEW l \in Seq(Element), NEW e \in Element, NEW Q
  PROVE  Cardinality(Places(Append(l, e), Q)) =
           Cardinality(Places(l, Q)) + (IF e.row \in Q THEN 1 ELSE 0)
<1>1. PICK t \in Seq(Element) : t = Append(l, e)
  <2>1. Append(l, e) \in Seq(Element)
    OBVIOUS
  <2>2. QED
    BY <2>1
<1>2. /\ Len(l) \in Nat /\ Len(t) = Len(l) + 1 /\ t[Len(l) + 1] = e
      /\ \A i \in 1..Len(l) : t[i] = l[i]
  BY <1>1
<1>3. PICK k \in Nat : k = Len(l) + 1
  BY <1>2
<1>4. /\ DOMAIN t = 1..Len(l) \cup {k} /\ DOMAIN l = 1..Len(l) /\ k \notin 1..Len(l) /\ t[k] = e
  BY <1>2, <1>3
<1>5. Places(t, Q) = IF e.row \in Q THEN Places(l, Q) \cup {k} ELSE Places(l, Q)
  BY <1>2, <1>4 DEF Places
<1>6. /\ IsFiniteSet(Places(l, Q)) /\ Cardinality(Places(l, Q)) \in Nat
      /\ k \notin Places(l, Q)
  BY <1>4, PlacesFinite
<1>7. CASE e.row \in Q
  <2>1. Cardinality(Places(l, Q) \cup {k}) = Cardinality(Places(l, Q)) + 1
    BY <1>6, FS_AddElement
  <2>2. QED
    BY <1>1, <1>5, <1>7, <2>1
<1>8. CASE e.row \notin Q
  BY <1>1, <1>5, <1>6, <1>8
<1>9. QED
  BY <1>7, <1>8

LEMMA PlacesTail ==
  ASSUME NEW l \in Seq(Element), l # <<>>, NEW Q
  PROVE  Cardinality(Places(Tail(l), Q)) =
           Cardinality(Places(l, Q)) - (IF Head(l).row \in Q THEN 1 ELSE 0)
<1>1. PICK t \in Seq(Element) : t = Tail(l)
  BY HeadTailProperties
<1>2. /\ Len(l) \in Nat \ {0} /\ Len(t) = Len(l) - 1 /\ Head(l) = l[1]
      /\ \A i \in 1..Len(t) : t[i] = l[i + 1]
  BY <1>1, HeadTailProperties
<1>3. PICK S, T : S = Places(t, Q) /\ T = Places(l, Q) \ {1}
  OBVIOUS
<1>4. /\ \A i \in S : i \in Nat /\ i + 1 \in T
      /\ \A k \in T : k \in Nat /\ k - 1 \in S
  BY <1>2, <1>3 DEF Places
<1>5. IsFiniteSet(S)
  BY <1>3, PlacesFinite
<1>6. PICK f \in [S -> T] : f = [i \in S |-> i + 1]
  BY <1>4
<1>7. Cardinality(T) = Cardinality(S)
  <2>1. \A i, j \in S : i # j => f[i] # f[j]
    BY <1>4, <1>6
  <2>2. \A k \in T : \E i \in S : f[i] = k
    <3>1. ASSUME NEW k \in T
          PROVE  k - 1 \in S /\ f[k - 1] = k
      BY <1>4, <1>6
    <3>2. QED
      BY <3>1
  <2>3. QED
    BY <1>5, <2>1, <2>2, SameNumber
<1>8. Cardinality(T) = IF 1 \in Places(l, Q) THEN Cardinality(Places(l, Q)) - 1 ELSE Cardinality(Places(l, Q))
  BY <1>3, PlacesFinite, FS_RemoveElement
<1>9. 1 \in Places(l, Q) <=> Head(l).row \in Q
  BY <1>2 DEF Places
<1>10. Cardinality(Places(l, Q)) \in Nat
  BY PlacesFinite
<1>11. QED
  BY <1>1, <1>3, <1>7, <1>8, <1>9, <1>10

(* Elements for rows in R are kept.                                        *)
LEMMA PlacesSelected ==
  ASSUME NEW l \in Seq(Element), NEW R, NEW t, t = Selected(l, Places(l, R))
  PROVE  /\ \A Q : Cardinality(Places(t, Q)) = Cardinality(Places(l, Q \cap R))
         /\ t \in Seq(Element) /\ \A i \in 1..Len(t) : t[i].row \in R
<1>1. PICK I : I = Places(l, R) /\ I \in SUBSET Nat /\ IsFiniteSet(I) /\ I \in SUBSET (1..Len(l))
  <2>1. Places(l, R) \in SUBSET (1..Len(l)) /\ IsFiniteSet(Places(l, R))
    BY PlacesFinite
  <2>2. 1..Len(l) \subseteq Nat
    OBVIOUS
  <2>3. QED
    BY <2>1, <2>2
<1>2. Cardinality(I) \in Nat
  BY <1>1, PlacesInOrder
<1>3. PICK f \in [1..Cardinality(I) -> I] :
        /\ f = [n \in 1..Cardinality(I) |-> CHOOSE i \in I : Cardinality({j \in I : j < i}) = n - 1]
        /\ \A m, n \in 1..Cardinality(I) : m < n => f[m] < f[n]
        /\ \A i \in I : \E n \in 1..Cardinality(I) : f[n] = i
  BY <1>1, PlacesInOrder
<1>4. PICK u : u = [n \in 1..Cardinality(I) |-> l[f[n]]]
  OBVIOUS
<1>5. \A n \in 1..Cardinality(I) : f[n] \in I /\ f[n] \in 1..Len(l) /\ l[f[n]] \in Element
  BY <1>1
<1>6. u \in Seq(Element) /\ Len(u) = Cardinality(I) /\ u = t
  <2>1. u \in Seq(Element) /\ Len(u) = Cardinality(I)
    BY <1>2, <1>4, <1>5
  <2>2. u = t
    BY <1>1, <1>3, <1>4 DEF Selected
  <2>3. QED
    BY <2>1, <2>2
<1>7. \A m, n \in 1..Cardinality(I) : m # n => f[m] # f[n]
  <2>1. ASSUME NEW m \in 1..Cardinality(I), NEW n \in 1..Cardinality(I), m # n
        PROVE  f[m] # f[n]
    <3>1. f[m] \in Nat /\ f[n] \in Nat
      BY <1>1
    <3>2. m < n \/ n < m
      BY <1>2, <2>1
    <3>3. f[m] < f[n] \/ f[n] < f[m]
      BY <1>3, <3>2
    <3>4. QED
      BY <3>1, <3>3
  <2>2. QED
    BY <2>1
<1>8. \A k \in I : \E n \in 1..Cardinality(I) : f[n] = k
  BY <1>3
<1>9. ASSUME NEW Q
      PROVE  Cardinality(Places(t, Q)) = Cardinality(Places(l, Q \cap R))
  <2>1. PICK S, T : S = Places(t, Q) /\ T = Places(l, Q \cap R)
    OBVIOUS
  <2>2. /\ \A n \in S : n \in 1..Cardinality(I) /\ f[n] \in T
        /\ \A n \in 1..Cardinality(I) : f[n] \in T => n \in S
        /\ T \subseteq I
    <3>1. DOMAIN t = 1..Cardinality(I) /\ DOMAIN l = 1..Len(l)
      BY <1>4, <1>6
    <3>2. \A n \in 1..Cardinality(I) : t[n] = l[f[n]] /\ l[f[n]].row \in R
      BY <1>1, <1>4, <1>5, <1>6 DEF Places
    <3>3. QED
      BY <1>1, <1>5, <2>1, <3>1, <3>2 DEF Places
  <2>3. PICK g \in [S -> T] : g = [n \in S |-> f[n]]
    BY <2>2
  <2>4. \A m, n \in S : m # n => g[m] # g[n]
    BY <1>7, <2>2, <2>3
  <2>5. \A k \in T : \E n \in S : g[n] = k
    BY <1>8, <2>2, <2>3
  <2>6. IsFiniteSet(S)
    BY <1>6, <2>1, PlacesFinite
  <2>7. Cardinality(T) = Cardinality(S)
    BY <2>4, <2>5, <2>6, SameNumber
  <2>8. QED
    BY <2>1, <2>7
<1>10. \A i \in 1..Len(t) : t[i].row \in R
  <2>1. ASSUME NEW i \in 1..Len(t)
        PROVE  t[i].row \in R
    <3>1. i \in 1..Cardinality(I) /\ t[i] = l[f[i]]
      BY <1>4, <1>6
    <3>2. f[i] \in Places(l, R)
      BY <1>1, <1>5, <3>1
    <3>3. QED
      BY <3>1, <3>2 DEF Places
  <2>2. QED
    BY <2>1
<1>11. QED
  BY <1>6, <1>9, <1>10

----------------------------------------------------------------------------
(* What a definition has to be for the rows, counters and thresholds to    *)
(* agree.  Where hits are counted, neither expirations nor rows are        *)
(* reported: otherwise cacheNewTimerElement keeps one element for all hits *)
(* of a row.  Thresholds are positive and ascend from the reset threshold: *)
(* cacheParseThreshold takes them as they are written.                     *)
CountsAlone == \A o \in OptionSets : "count" \in o => o = {"count"}
Ascends(l) ==
  /\ l \in Seq(Nat) /\ l # <<>>
  /\ \A i \in 2..Len(l) : l[i] > 0 /\ l[1] <= l[i]
  /\ \A i, j \in 2..Len(l) : i < j => l[i] < l[j]
ThresholdsAscend == \A k \in Kind, p \in Branches : Ascends(Limits(k, p))

(* The counters m of the nodes N, whose rows have the elements l; b tells  *)
(* whether hits are counted.                                               *)
Counts(N, l, m, b) ==
  /\ m \in [Kind -> [Branches -> Nat]]
  /\ \A p \in Branches :
       /\ m["rows"][p] = Cardinality(Below(N, p))
       /\ m["kids"][p] = Cardinality(Kids(N, p))
       /\ b => m["hits"][p] = Cardinality(Places(l, Under(p)))
       /\ ~b => m["hits"][p] \in {0, 1}
(* The elements: one for each row, unless hits are counted.                *)
Held(N, l, b) ==
  /\ l \in Seq(Element) /\ \A i \in 1..Len(l) : l[i].row \in N
  /\ ~b => \A r \in N \cap Row : Cardinality(Places(l, {r})) = 1
(* The threshold x that a counter n comes to next; s tells whether it is   *)
(* looked at.                                                              *)
Marked(l, n, x, s) ==
  /\ x \in Nat \ {0}
  /\ x > 1 => n >= l[1]
  /\ s => \A i \in 2..Len(l) : n >= l[i] => x >= i
(* Which counters are: the hits only where they are counted, and the rows  *)
(* not on a row itself.                                                    *)
Examined(k, p, b) == (k = "hits" => b) /\ ~(k = "rows" /\ p \in Row)
Marks(m, x, b) ==
  /\ x \in [Kind -> [Branches -> Nat \ {0}]]
  /\ \A k \in Kind, p \in Branches : Marked(Limits(k, p), m[k][p], x[k][p], Examined(k, p, b))

(* All of it, for the cache c.                                             *)
Holds(c) ==
  /\ DOMAIN c = Fields
  /\ c.options \in OptionSets /\ c.state \in SUBSET {"publish", "alert", "alarm"}
  /\ Tree(c.nodes)
  /\ Held(c.nodes, c.list, "count" \in c.options)
  /\ Counts(c.nodes, c.list, c.number, "count" \in c.options)
  /\ Marks(c.number, c.index, "count" \in c.options)

(* A counter that rises by one passes one threshold at most.               *)
LEMMA MarkRises ==
  ASSUME NEW l, Ascends(l), NEW n \in Nat, NEW x, NEW s, Marked(l, n, x, s), NEW j \in Nat, j >= n,
         NEW c, s => (c /\ j = n + 1) \/ j = n,
         NEW y, y = IF c /\ x + 1 <= Len(l) /\ j >= l[x + 1] THEN x + 1 ELSE x
  PROVE  Marked(l, j, y, s)
<1>1. x \in Nat \ {0} /\ Len(l) \in Nat \ {0} /\ \A i \in 1..Len(l) : l[i] \in Nat
  BY DEF Marked, Ascends
<1>2. y \in Nat \ {0}
  BY <1>1
<1>3. ASSUME y > 1
      PROVE  j >= l[1]
  <2>1. CASE x > 1
    BY <1>1, <2>1 DEF Marked
  <2>2. CASE ~(x > 1)
    <3>1. x + 1 \in 2..Len(l) /\ j >= l[x + 1]
      BY <1>1, <1>3, <2>2
    <3>2. l[1] <= l[x + 1] /\ l[1] \in Nat /\ l[x + 1] \in Nat
      BY <1>1, <3>1 DEF Ascends
    <3>3. QED
      BY <3>1, <3>2
  <2>3. QED
    BY <2>1, <2>2
<1>4. ASSUME s, NEW i \in 2..Len(l), j >= l[i]
      PROVE  y >= i
  <2>1. l[i] \in Nat /\ i \in Nat
    BY <1>1
  <2>2. CASE n >= l[i]
    BY <1>1, <1>4, <2>1, <2>2 DEF Marked
  <2>3. CASE ~(n >= l[i])
    <3>1. c /\ j = n + 1 /\ l[i] = n + 1
      BY <1>4, <2>1, <2>3
    <3>2. x >= i - 1
      <4>1. CASE i = 2
        BY <1>1, <4>1
      <4>2. CASE i # 2
        <5>1. i - 1 \in 2..Len(l) /\ l[i - 1] < l[i] /\ l[i - 1] \in Nat
          BY <1>1, <2>1, <4>2 DEF Ascends
        <5>2. n >= l[i - 1]
          BY <3>1, <5>1
        <5>3. QED
          BY <1>4, <5>1, <5>2 DEF Marked
      <4>3. QED
        BY <4>1, <4>2
    <3>3. CASE x = i - 1
      <4>1. x + 1 = i /\ x + 1 <= Len(l)
        BY <1>1, <2>1, <3>3
      <4>2. y = x + 1
        BY <1>4, <3>1, <4>1
      <4>3. QED
        BY <2>1, <4>1, <4>2
    <3>4. CASE x # i - 1
      BY <1>1, <2>1, <3>2, <3>4
    <3>5. QED
      BY <3>3, <3>4
  <2>4. QED
    BY <2>2, <2>3
<1>5. QED
  BY <1>2, <1>3, <1>4 DEF Marked

(* One that falls below the reset threshold starts again.                  *)
LEMMA MarkFalls ==
  ASSUME NEW l, Ascends(l), NEW n \in Nat, NEW x, NEW s, Marked(l, n, x, s), NEW j \in Nat, j <= n,
         NEW y, y = IF j < n /\ j < l[1] THEN 1 ELSE x
  PROVE  Marked(l, j, y, s) /\ Marked(l, 0, 1, s)
<1>1. x \in Nat \ {0} /\ Len(l) \in Nat \ {0} /\ \A i \in 1..Len(l) : l[i] \in Nat
  BY DEF Marked, Ascends
<1>2. l[1] \in Nat /\ \A i \in 2..Len(l) : l[i] \in Nat /\ l[1] <= l[i] /\ l[i] > 0
  BY <1>1 DEF Ascends
<1>3. y \in Nat \ {0} /\ (y > 1 => j >= l[1])
  BY <1>1, <1>2 DEF Marked
<1>4. ASSUME s, NEW i \in 2..Len(l), j >= l[i]
      PROVE  y >= i
  <2>1. n >= l[i] /\ j >= l[1] /\ i \in Nat
    BY <1>2, <1>4
  <2>2. y = x
    BY <1>2, <2>1
  <2>3. QED
    BY <1>4, <2>1, <2>2 DEF Marked
<1>5. Marked(l, 0, 1, s)
  BY <1>2 DEF Marked
<1>6. QED
  BY <1>3, <1>4, <1>5 DEF Marked

----------------------------------------------------------------------------
(* The counters when the row r is asserted, new being the nodes that are   *)
(* added, and those whose thresholds are looked at.                        *)
Rises(r, new, k, p) ==
  CASE k = "hits" -> IF p \in Path(r) THEN IF Counting THEN cache.number["hits"][p] + 1 ELSE 1
                     ELSE cache.number["hits"][p]
    [] k = "rows" -> cache.number["rows"][p] + (IF p \in Path(r) /\ r \in new THEN 1 ELSE 0)
    [] k = "kids" -> cache.number["kids"][p] + Cardinality(Kids(new, p))
Touched(r, new, k, p) ==
  CASE k = "hits" -> Counting /\ p \in Path(r)
    [] k = "rows" -> r \in new /\ p \in Path(r) /\ p # r
    [] k = "kids" -> p \in {Parent(q) : q \in new}

(* A number for each kind and branch.                                      *)
Numbers(m) == m = [k \in Kind |-> [p \in Branches |-> m[k][p]]]
(* What an assertion makes of the cache.                                   *)
CountsUp(c, r, new) ==
  /\ DOMAIN c = Fields /\ c.options = cache.options /\ c.list = cache.list
  /\ c.nodes = cache.nodes \cup new
  /\ c.state \in SUBSET (cache.state \cup {"publish", "alert"})
  /\ Numbers(c.number) /\ Numbers(c.index)
  /\ \A k \in Kind, p \in Branches :
       /\ c.number[k][p] = Rises(r, new, k, p)
       /\ c.index[k][p] = IF Touched(r, new, k, p) /\ Crossed(k, p, c.number[k][p])
                          THEN cache.index[k][p] + 1 ELSE cache.index[k][p]

(* So Counted does.                                                        *)
LEMMA CountedIs ==
  ASSUME DOMAIN cache = Fields, NEW r, NEW new, new = Path(r) \ (cache.nodes \cup {<<>>}),
         NEW c, c = Counted(r),
         cache.index \in [Kind -> [Branches -> Nat \ {0}]]
  PROVE  CountsUp(c, r, new)
<1> DEFINE after == [hits |-> [p \in Branches |->
                       IF p \notin Path(r) THEN cache.number["hits"][p]
                       ELSE IF Counting THEN cache.number["hits"][p] + 1 ELSE 1],
                     rows |-> [p \in Branches |-> cache.number["rows"][p] +
                                 (IF p \in Path(r) /\ r \in new THEN 1 ELSE 0)],
                     kids |-> [p \in Branches |-> cache.number["kids"][p] +
                                 Cardinality({q \in new : Parent(q) = p})]]
           looked == [hits |-> IF Counting THEN Path(r) ELSE {},
                      rows |-> IF r \in new THEN Path(r) \ {r} ELSE {},
                      kids |-> {Parent(q) : q \in new}]
<1>1. PICK a, v : a = after /\ v = looked
  OBVIOUS
<1>2. a = [k \in Kind |-> [p \in Branches |-> a[k][p]]]
  <2>1. a = [k \in Kind |-> a[k]]
    BY <1>1 DEF Kind
  <2>2. /\ a["hits"] = [p \in Branches |-> a["hits"][p]]
        /\ a["rows"] = [p \in Branches |-> a["rows"][p]]
        /\ a["kids"] = [p \in Branches |-> a["kids"][p]]
    BY <1>1
  <2>3. \A k \in Kind : a[k] = [p \in Branches |-> a[k][p]]
    BY <2>2 DEF Kind
  <2>4. QED
    BY <2>1, <2>3
<1>3. ASSUME NEW k \in Kind, NEW p \in Branches
      PROVE  a[k][p] = Rises(r, new, k, p) /\ (p \in v[k] <=> Touched(r, new, k, p))
  <2>1. CASE k = "hits"
    BY <1>1, <2>1 DEF Rises, Touched
  <2>2. CASE k = "rows"
    BY <1>1, <2>2 DEF Rises, Touched
  <2>3. CASE k = "kids"
    <3>1. {q \in new : Parent(q) = p} = Kids(new, p)
      BY DEF Kids
    <3>2. QED
      BY <1>1, <2>3, <3>1 DEF Rises, Touched
  <2>4. QED
    BY <2>1, <2>2, <2>3 DEF Kind
<1> DEFINE y == [k \in Kind |-> [p \in Branches |->
                  IF p \in {q \in looked[k] : Crossed(k, q, after[k][q])}
                  THEN cache.index[k][p] + 1 ELSE cache.index[k][p]]]
           s == cache.state \cup (IF new = {} THEN {} ELSE {"publish"})
                  \cup (IF \E k \in Kind : {p \in looked[k] : Crossed(k, p, after[k][p])} # {}
                        THEN {"alert"} ELSE {})
<1>4. c = [cache EXCEPT !.nodes = @ \cup new, !.number = after, !.index = y, !.state = s]
  BY DEF Counted
<1>5. PICK z, u : z = y /\ u = s
  OBVIOUS
<1>6. c = [cache EXCEPT !.nodes = @ \cup new, !.number = a, !.index = z, !.state = u]
  BY <1>1, <1>4, <1>5
<1>7. /\ DOMAIN c = Fields /\ c.options = cache.options /\ c.list = cache.list
      /\ c.nodes = cache.nodes \cup new /\ c.number = a /\ c.index = z /\ c.state = u
  BY <1>6 DEF Fields
<1>8. z = [k \in Kind |-> [p \in Branches |-> z[k][p]]]
  <2>1. \A k \in Kind : z[k] = [p \in Branches |-> z[k][p]]
    BY <1>5
  <2>2. z = [k \in Kind |-> z[k]]
    BY SMTT(60), <1>5
  <2>3. QED
    BY <2>1, <2>2
<1>9. ASSUME NEW k \in Kind, NEW p \in Branches
      PROVE  z[k][p] = IF Touched(r, new, k, p) /\ Crossed(k, p, a[k][p])
                       THEN cache.index[k][p] + 1 ELSE cache.index[k][p]
  <2>1. z[k][p] = IF p \in {q \in looked[k] : Crossed(k, q, after[k][q])}
                  THEN cache.index[k][p] + 1 ELSE cache.index[k][p]
    BY <1>5
  <2>2. p \in {q \in looked[k] : Crossed(k, q, after[k][q])} <=> p \in looked[k] /\ Crossed(k, p, after[k][p])
    OBVIOUS
  <2>3. p \in looked[k] <=> Touched(r, new, k, p)
    BY <1>1, <1>3
  <2>4. Crossed(k, p, after[k][p]) <=> Crossed(k, p, a[k][p])
    BY <1>1
  <2>5. QED
    BY <2>1, <2>2, <2>3, <2>4
<1>10. u \in SUBSET (cache.state \cup {"publish", "alert"})
  BY <1>5
<1>11. Numbers(a) /\ Numbers(z)
  BY <1>2, <1>8 DEF Numbers
<1>12. QED
  BY <1>3, <1>7, <1>9, <1>10, <1>11 DEF CountsUp

(* The list when the row r is asserted.                                    *)
Added(l, t, r) ==
  \A Q : Cardinality(Places(t, Q)) = Cardinality(Places(l, Q)) + (IF r \in Q THEN 1 ELSE 0)

(* The list when the row r is asserted.                                    *)
LEMMA HeldGrows ==
  ASSUME NEW N, NEW l, NEW b, Held(N, l, b), NEW r \in Row, NEW e \in Element, e.row = r,
         NEW M, N \subseteq M, r \in M, M \cap Row \subseteq N \cup {r},
         NEW o, b => o = l, ~b => o = Selected(l, Places(l, Row \ {r})),
         NEW t, t = Append(o, e)
  PROVE  Held(M, t, b) /\ (b => Added(l, t, r))
<1>1. l \in Seq(Element) /\ \A i \in 1..Len(l) : l[i].row \in N
  BY DEF Held
<1>3. PICK s : s = Selected(l, Places(l, Row \ {r}))
  OBVIOUS
<1>4. s \in Seq(Element) /\ \A Q : Cardinality(Places(s, Q)) = Cardinality(Places(l, Q \cap (Row \ {r})))
  <2>1. PICK R : R = Row \ {r}
    OBVIOUS
  <2>2. s = Selected(l, Places(l, R))
    BY <1>3, <2>1
  <2>3. s \in Seq(Element) /\ \A Q : Cardinality(Places(s, Q)) = Cardinality(Places(l, Q \cap R))
    BY <1>1, <2>2, PlacesSelected
  <2>4. QED
    BY <2>1, <2>3
<1>5. o \in Seq(Element)
  BY <1>1, <1>3, <1>4
<1>6. t \in Seq(Element) /\ Len(t) = Len(o) + 1 /\ Len(o) \in Nat
  BY <1>5
<1>7. \A Q : Cardinality(Places(t, Q)) = Cardinality(Places(o, Q)) + (IF r \in Q THEN 1 ELSE 0)
  BY <1>5, PlacesAppend
<1>8. ASSUME NEW i \in 1..Len(t)
      PROVE  t[i].row \in M
  <2>1. CASE i \in 1..Len(o)
    <3>1. t[i] = o[i]
      BY <1>5, <1>6, <2>1
    <3>2. CASE b
      BY <1>1, <2>1, <3>1, <3>2
    <3>3. CASE ~b
      <4>1. o = s
        BY <1>3, <3>3
      <4>2. s[i].row \in N
        <5>1. PICK R : R = {l[j].row : j \in 1..Len(l)} \cap (Row \ {r})
          OBVIOUS
        <5>2. Places(l, Row \ {r}) = Places(l, R)
          BY <1>1, <5>1 DEF Places
        <5>3. s[i].row \in R
          BY <1>1, <1>3, <2>1, <4>1, <5>2, PlacesSelected
        <5>4. QED
          BY <1>1, <5>1, <5>3
      <4>3. QED
        BY <3>1, <4>1, <4>2
    <3>4. QED
      BY <3>2, <3>3
  <2>2. CASE i = Len(o) + 1
    BY <1>5, <1>6, <2>2
  <2>3. QED
    BY <1>6, <2>1, <2>2
<1>9. ASSUME ~b, NEW q \in M \cap Row
      PROVE  Cardinality(Places(t, {q})) = 1
  <2>1. o = s
    BY <1>3, <1>9
  <2>2. CASE q = r
    <3>1. {r} \cap (Row \ {r}) = {} /\ Places(l, {}) = {}
      BY DEF Places
    <3>2. Cardinality(Places(s, {r})) = 0
      BY <1>4, <3>1, FS_EmptySet
    <3>3. Cardinality(Places(t, {r})) = Cardinality(Places(s, {r})) + 1
      BY <1>7, <2>1
    <3>4. QED
      BY <2>2, <3>2, <3>3
  <2>3. CASE q # r
    <3>1. {q} \cap (Row \ {r}) = {q} /\ q \in N \cap Row
      BY <1>9, <2>3
    <3>2. Cardinality(Places(s, {q})) = 1
      BY <1>4, <1>9, <3>1 DEF Held
    <3>3. Cardinality(Places(t, {q})) = Cardinality(Places(s, {q})) + 0
      <4>1. r \notin {q}
        BY <2>3
      <4>2. QED
        BY <1>7, <2>1, <4>1
    <3>4. QED
      BY <3>2, <3>3
  <2>4. QED
    BY <2>2, <2>3
<1>10. ASSUME b
       PROVE  Added(l, t, r)
  <2>1. o = l
    BY <1>10
  <2>2. QED
    BY <1>7, <2>1 DEF Added
<1>11. Held(M, t, b)
  BY <1>6, <1>8, <1>9 DEF Held
<1>12. QED
  BY <1>10, <1>11

(* The parts of the cache, as the lemmas below take them.                  *)
LEMMA HoldsIs ==
  ASSUME NEW c, Holds(c)
  PROVE  /\ DOMAIN c = Fields /\ Tree(c.nodes) /\ c.list \in Seq(Element)
         /\ \A i \in 1..Len(c.list) : c.list[i].row \in c.nodes
         /\ c.number \in [Kind -> [Branches -> Nat]]
         /\ c.index \in [Kind -> [Branches -> Nat \ {0}]]
         /\ \A k \in Kind, p \in Branches : c.number[k][p] \in Nat /\ c.index[k][p] \in Nat \ {0}
BY DEF Holds, Held, Counts, Marks

(* The counters rise as the rows and elements do.                          *)
LEMMA CountedHolds ==
  ASSUME ThresholdsAscend, Holds(cache), NEW r \in Row, NEW new, new = Path(r) \ (cache.nodes \cup {<<>>}),
         NEW c, c = Counted(r), NEW t,
         Counting => Added(cache.list, t, r)
  PROVE  Counts(c.nodes, t, c.number, Counting) /\ Marks(c.number, c.index, Counting)
<1>1. PICK N, m, x : N = cache.nodes /\ m = cache.number /\ x = cache.index
  OBVIOUS
<1>2. /\ Tree(N) /\ Counts(N, cache.list, m, Counting) /\ Marks(m, x, Counting)
      /\ \A k \in Kind, p \in Branches : m[k][p] \in Nat /\ x[k][p] \in Nat \ {0}
  BY <1>1, HoldsIs DEF Holds, Counting
<1>3. /\ c.nodes = N \cup new /\ Numbers(c.number) /\ Numbers(c.index)
      /\ \A k \in Kind, p \in Branches :
           /\ c.number[k][p] = Rises(r, new, k, p)
           /\ c.index[k][p] = IF Touched(r, new, k, p) /\ Crossed(k, p, c.number[k][p])
                              THEN x[k][p] + 1 ELSE x[k][p]
  <2>1. DOMAIN cache = Fields /\ cache.index \in [Kind -> [Branches -> Nat \ {0}]]
    BY HoldsIs
  <2>2. CountsUp(c, r, new)
    BY <2>1, CountedIs
  <2>3. QED
    BY <1>1, <2>2 DEF CountsUp
<1>4. PICK j, y : j = c.number /\ y = c.index
  OBVIOUS
<1>5. \A p \in Branches :
        /\ Cardinality(Below(N \cup new, p)) =
             Cardinality(Below(N, p)) + (IF p \in Path(r) /\ r \in new THEN 1 ELSE 0)
        /\ Cardinality(Kids(N \cup new, p)) = Cardinality(Kids(N, p)) + Cardinality(Kids(new, p))
        /\ Cardinality(Kids(new, p)) = IF p \in {Parent(q) : q \in new} THEN 1 ELSE 0
  <2>1. new = Path(r) \ (N \cup {<<>>})
    BY <1>1
  <2>2. Grown(N, new, r)
    BY <1>2, <2>1, TreeGrows
  <2>3. QED
    BY <2>2 DEF Grown
<1>6. r \in Branches /\ \A p \in Branches : p \in Path(r) <=> r \in Under(p)
  BY RowsAreLeaves DEF Under
<1>7. ASSUME NEW p \in Branches
      PROVE  /\ j["rows"][p] = Cardinality(Below(N \cup new, p)) /\ j["rows"][p] \in Nat
             /\ j["rows"][p] = m["rows"][p] \/ (j["rows"][p] = m["rows"][p] + 1 /\ r \in new /\ p \in Path(r))
  <2>1. j["rows"][p] = m["rows"][p] + (IF p \in Path(r) /\ r \in new THEN 1 ELSE 0)
    BY <1>1, <1>3, <1>4 DEF Rises, Kind
  <2>2. m["rows"][p] = Cardinality(Below(N, p)) /\ m["rows"][p] \in Nat
    BY <1>2 DEF Counts, Kind
  <2>3. Cardinality(Below(N \cup new, p)) =
          Cardinality(Below(N, p)) + (IF p \in Path(r) /\ r \in new THEN 1 ELSE 0)
    BY <1>5
  <2>4. CASE p \in Path(r) /\ r \in new
    BY <2>1, <2>2, <2>3, <2>4
  <2>5. CASE ~(p \in Path(r) /\ r \in new)
    BY <2>1, <2>2, <2>3, <2>5
  <2>6. QED
    BY <2>4, <2>5
<1>8. ASSUME NEW p \in Branches
      PROVE  /\ j["kids"][p] = Cardinality(Kids(N \cup new, p)) /\ j["kids"][p] \in Nat
             /\ \/ j["kids"][p] = m["kids"][p]
                \/ j["kids"][p] = m["kids"][p] + 1 /\ p \in {Parent(q) : q \in new}
  <2>1. j["kids"][p] = m["kids"][p] + Cardinality(Kids(new, p))
    BY <1>1, <1>3, <1>4 DEF Rises, Kind
  <2>2. m["kids"][p] = Cardinality(Kids(N, p)) /\ m["kids"][p] \in Nat
    BY <1>2 DEF Counts, Kind
  <2>3. /\ Cardinality(Kids(N \cup new, p)) = Cardinality(Kids(N, p)) + Cardinality(Kids(new, p))
        /\ Cardinality(Kids(new, p)) = IF p \in {Parent(q) : q \in new} THEN 1 ELSE 0
    BY <1>5
  <2>4. CASE p \in {Parent(q) : q \in new}
    BY <2>1, <2>2, <2>3, <2>4
  <2>5. CASE p \notin {Parent(q) : q \in new}
    BY <2>1, <2>2, <2>3, <2>5
  <2>6. QED
    BY <2>4, <2>5
<1>9. ASSUME NEW p \in Branches
      PROVE  /\ Counting => j["hits"][p] = Cardinality(Places(t, Under(p)))
             /\ ~Counting => j["hits"][p] \in {0, 1}
             /\ j["hits"][p] \in Nat /\ j["hits"][p] >= m["hits"][p]
             /\ Counting => \/ j["hits"][p] = m["hits"][p]
                            \/ j["hits"][p] = m["hits"][p] + 1 /\ p \in Path(r)
  <2>1. j["hits"][p] = IF p \in Path(r) THEN IF Counting THEN m["hits"][p] + 1 ELSE 1 ELSE m["hits"][p]
    BY <1>1, <1>3, <1>4 DEF Rises, Kind
  <2>2. m["hits"][p] \in Nat
    BY <1>2 DEF Kind
  <2>3. CASE Counting
    <3>1. m["hits"][p] = Cardinality(Places(cache.list, Under(p)))
      BY <1>2, <2>3 DEF Counts
    <3>2. Cardinality(Places(t, Under(p))) = m["hits"][p] + (IF p \in Path(r) THEN 1 ELSE 0)
      BY <1>6, <2>3, <3>1 DEF Added
    <3>3. QED
      BY <2>1, <2>2, <2>3, <3>2
  <2>4. CASE ~Counting
    <3>1. m["hits"][p] \in {0, 1}
      BY <1>2, <2>4 DEF Counts
    <3>2. QED
      BY <2>1, <2>4, <3>1
  <2>5. QED
    BY <2>3, <2>4
<1>10. Counts(N \cup new, t, j, Counting)
  <2>1. \A k \in Kind, p \in Branches : j[k][p] \in Nat
    BY <1>7, <1>8, <1>9 DEF Kind
  <2>2. Numbers(j)
    BY <1>3, <1>4
  <2>3. j \in [Kind -> [Branches -> Nat]]
    BY <2>1, <2>2 DEF Numbers
  <2>4. QED
    BY <1>7, <1>8, <1>9, <2>3 DEF Counts
<1>11. ASSUME NEW k \in Kind, NEW p \in Branches
       PROVE  Marked(Limits(k, p), j[k][p], y[k][p], Examined(k, p, Counting))
  <2>1. PICK l, n, i, s : l = Limits(k, p) /\ n = m[k][p] /\ i = x[k][p] /\ s = Examined(k, p, Counting)
    OBVIOUS
  <2>2. Ascends(l) /\ n \in Nat /\ i \in Nat \ {0} /\ Marked(l, n, i, s)
    BY <1>2, <2>1 DEF ThresholdsAscend, Marks
  <2>3. PICK h, d, g : h = j[k][p] /\ d = Touched(r, new, k, p) /\ g = y[k][p]
    OBVIOUS
  <2>4. h \in Nat /\ h >= n /\ (s => (d /\ h = n + 1) \/ h = n)
    <3>1. CASE k = "hits"
      <4>1. s => Counting
        BY <2>1, <3>1 DEF Examined
      <4>2. d <=> Counting /\ p \in Path(r)
        BY <2>3, <3>1 DEF Touched
      <4>3. QED
        BY <1>9, <2>1, <2>2, <2>3, <3>1, <4>1, <4>2
    <3>2. CASE k = "rows"
      <4>1. s => p # r
        BY <2>1, <3>2 DEF Examined
      <4>2. d <=> r \in new /\ p \in Path(r) /\ p # r
        BY <2>3, <3>2 DEF Touched
      <4>3. QED
        BY <1>7, <2>1, <2>2, <2>3, <3>2, <4>1, <4>2
    <3>3. CASE k = "kids"
      <4>1. d <=> p \in {Parent(q) : q \in new}
        BY <2>3, <3>3 DEF Touched
      <4>2. QED
        BY <1>8, <2>1, <2>2, <2>3, <3>3, <4>1
    <3>4. QED
      BY <3>1, <3>2, <3>3 DEF Kind
  <2>5. g = IF d /\ i + 1 <= Len(l) /\ h >= l[i + 1] THEN i + 1 ELSE i
    <3>1. Crossed(k, p, h) <=> i + 1 <= Len(l) /\ h >= l[i + 1]
      BY <1>1, <2>1 DEF Crossed
    <3>2. g = IF d /\ Crossed(k, p, h) THEN i + 1 ELSE i
      BY <1>3, <1>4, <2>1, <2>3
    <3>3. QED
      BY <3>1, <3>2
  <2>6. Marked(l, h, g, s)
    BY <2>2, <2>4, <2>5, MarkRises
  <2>7. QED
    BY <2>1, <2>3, <2>6
<1>12. Marks(j, y, Counting)
  <2>1. \A k \in Kind, p \in Branches : y[k][p] \in Nat \ {0}
    BY <1>11 DEF Marked
  <2>2. Numbers(y)
    BY <1>3, <1>4
  <2>3. y \in [Kind -> [Branches -> Nat \ {0}]]
    BY <2>1, <2>2 DEF Numbers
  <2>4. QED
    BY <1>11, <2>3 DEF Marks
<1>13. QED
  BY <1>3, <1>4, <1>10, <1>12

(* Where hits are counted, every hit has its element.                      *)
LEMMA SingleIs ==
  ASSUME CountsAlone, Holds(cache)
  PROVE  Single <=> ~Counting
<1>1. cache.options \in OptionSets
  BY DEF Holds
<1>2. CASE Counting
  <2>1. cache.options = {"count"}
    BY <1>1, <1>2 DEF CountsAlone, Counting
  <2>2. QED
    BY <1>2, <2>1 DEF Single
<1>3. CASE ~Counting
  <2>1. "count" \notin cache.options
    BY <1>3 DEF Counting
  <2>2. cache.options # {"count"}
    BY <2>1
  <2>3. QED
    BY <1>3, <2>2 DEF Single
<1>4. QED
  BY <1>2, <1>3

(* An assertion keeps the rows, counters and elements in agreement.        *)
LEMMA AssertHolds ==
  ASSUME CountsAlone, ThresholdsAscend, Holds(cache), NEW r \in Row, now \in Nat,
         NEW d, d = NewTimerElement(Counted(r), r)
  PROVE  Holds(d)
<1>1. PICK new, c : new = Path(r) \ (cache.nodes \cup {<<>>}) /\ c = Counted(r)
  OBVIOUS
<1>2. CountsUp(c, r, new)
  BY <1>1, HoldsIs, CountedIs
<1>3. PICK N, l, b : N = cache.nodes /\ l = cache.list /\ b = Counting
  OBVIOUS
<1>4. PICK h : h = now + Interval
  OBVIOUS
<1>5. h \in Nat \ {0}
  BY <1>4, CacheAssumption
<1>6. PICK o : o = IF b THEN l ELSE Selected(l, Places(l, Row \ {r}))
  OBVIOUS
<1>7. PICK e : e = [row |-> r, at |-> h]
  OBVIOUS
<1>8. PICK t : t = Append(o, e)
  OBVIOUS
<1>9. /\ DOMAIN c = Fields /\ c.options = cache.options /\ c.list = l /\ c.nodes = N \cup new
      /\ c.state \in SUBSET (cache.state \cup {"publish", "alert"})
  BY <1>2, <1>3 DEF CountsUp
<1>10. l \in Seq(Element) /\ Held(N, l, b) /\ Tree(N) /\ cache.state \in SUBSET {"publish", "alert", "alarm"}
      /\ cache.options \in OptionSets
  BY <1>3, HoldsIs DEF Holds, Counting
<1>11. {i \in DOMAIN l : l[i].row # r} = Places(l, Row \ {r})
  <2>1. ASSUME NEW i \in DOMAIN l
        PROVE  l[i].row \in Row
    <3>1. l[i] \in Element
      BY <1>10
    <3>2. QED
      BY <3>1 DEF Element
  <2>2. QED
    BY <2>1 DEF Places
<1>12. d = [c EXCEPT !.list = t, !.state = @ \cup (IF l = <<>> THEN {"alarm"} ELSE {})]
  <2>1. Single <=> ~b
    BY <1>3, SingleIs
  <2>2. o = IF Single THEN Selected(c.list, {i \in DOMAIN c.list : c.list[i].row # r}) ELSE c.list
    BY <1>6, <1>9, <1>11, <2>1
  <2>3. QED
    BY <1>1, <1>4, <1>7, <1>9, <1>8, <2>2 DEF NewTimerElement
<1>13. /\ DOMAIN d = Fields /\ d.options = c.options /\ d.nodes = c.nodes /\ d.number = c.number
       /\ d.index = c.index /\ d.list = t /\ d.state \in SUBSET {"publish", "alert", "alarm"}
  BY <1>9, <1>10, <1>12 DEF Fields
<1>14. PICK M : M = N \cup new
  OBVIOUS
<1>15. N \subseteq M /\ r \in M /\ M \cap Row \subseteq N \cup {r}
  <2>1. r \in Branches /\ r # <<>> /\ r \in Path(r)
    BY RowsAreLeaves, PathsIn
  <2>2. Path(r) \in SUBSET Branches
    BY <2>1, PathsIn
  <2>3. ASSUME NEW q \in new, q \in Row
        PROVE  q = r
    <3>1. q \in Path(r) /\ q \in Branches
      BY <1>1, <2>2
    <3>2. r = q
      BY <2>1, <2>3, <3>1, RowsAreLeaves
    <3>3. QED
      BY <3>2
  <2>4. QED
    BY <1>1, <1>3, <1>14, <2>1, <2>3
<1>16. Held(M, t, b) /\ (b => Added(l, t, r))
  <2>1. e \in Element /\ e.row = r
    BY <1>5, <1>7 DEF Element
  <2>2. b => o = l
    BY <1>6
  <2>3. ~b => o = Selected(l, Places(l, Row \ {r}))
    BY <1>6
  <2>4. QED
    BY <1>10, <1>15, <1>8, <2>1, <2>2, <2>3, HeldGrows
<1>17. Counts(c.nodes, t, c.number, Counting) /\ Marks(c.number, c.index, Counting)
  <2>1. Counting => Added(cache.list, t, r)
    BY <1>3, <1>16
  <2>2. QED
    BY <1>1, <2>1, CountedHolds
<1>18. Tree(M)
  <2>1. new = Path(r) \ (N \cup {<<>>})
    BY <1>1, <1>3
  <2>2. Grown(N, new, r)
    BY <1>10, <2>1, TreeGrows
  <2>3. QED
    BY <1>14, <2>2 DEF Grown
<1>19. /\ d.nodes = M /\ d.options = cache.options /\ d.list = t
       /\ Counting <=> "count" \in d.options
  BY <1>9, <1>13, <1>14 DEF Counting
<1>20. Held(d.nodes, d.list, "count" \in d.options)
  BY <1>3, <1>16, <1>19
<1>21. Counts(d.nodes, d.list, d.number, "count" \in d.options) /\ Marks(d.number, d.index, "count" \in d.options)
  <2>1. Counts(d.nodes, d.list, d.number, Counting) /\ Marks(d.number, d.index, Counting)
    BY <1>13, <1>17
  <2>2. Counting = ("count" \in d.options)
    BY <1>19 DEF Counting
  <2>3. QED
    BY <2>1, <2>2
<1>22. QED
  BY <1>10, <1>13, <1>18, <1>19, <1>20, <1>21 DEF Holds

----------------------------------------------------------------------------
(* What the counters lose when t, the topmost node that e takes with it,   *)
(* goes, and where the thresholds are after it.                            *)
Dropped(e, t, k, p) ==
  CASE p \in Under(t)                          -> cache.number[k][p]
    [] p \in Path(Parent(t)) /\ k = "rows"     -> cache.number["rows"][e]
    [] p \in Path(Parent(t)) /\ k = "hits"     -> IF Counting THEN cache.number["hits"][e] ELSE 0
    [] p = Parent(t) /\ k = "kids"             -> 1
    [] OTHER                                   -> 0
Falls(k, p, j) == j < cache.number[k][p] /\ j < Limits(k, p)[1]
CountsDown(c, e, t) ==
  /\ DOMAIN c = Fields /\ c.options = cache.options /\ c.list = cache.list
  /\ c.nodes = cache.nodes \ Under(t)
  /\ c.state = cache.state \cup {"publish"}
  /\ Numbers(c.number) /\ Numbers(c.index)
  /\ \A k \in Kind, p \in Branches :
       /\ c.number[k][p] = cache.number[k][p] - Dropped(e, t, k, p)
       /\ c.index[k][p] = IF p \in Under(t) \/ Falls(k, p, c.number[k][p])
                          THEN 1 ELSE cache.index[k][p]
Restarted(c, d) ==
  /\ DOMAIN d = Fields /\ d.options = c.options /\ d.list = c.list /\ d.nodes = c.nodes
  /\ d.state = c.state /\ d.number = c.number /\ Numbers(d.index)
  /\ \A k \in Kind, p \in Branches :
       d.index[k][p] = IF Falls(k, p, c.number[k][p]) THEN 1 ELSE cache.index[k][p]

(* So Reset does.                                                          *)
LEMMA ResetIs ==
  ASSUME NEW c, DOMAIN c = Fields, cache.index \in [Kind -> [Branches -> Nat \ {0}]], c.index = cache.index,
         NEW d, d = Reset(c)
  PROVE  Restarted(c, d)
<1> DEFINE y == [k \in Kind |-> [p \in Branches |->
                  IF c.number[k][p] < cache.number[k][p] /\ c.number[k][p] < Limits(k, p)[1]
                  THEN 1 ELSE c.index[k][p]]]
<1>1. d = [c EXCEPT !.index = y]
  BY DEF Reset
<1>2. PICK z : z = y
  OBVIOUS
<1>3. d = [c EXCEPT !.index = z]
  BY <1>1, <1>2
<1>4. /\ DOMAIN d = Fields /\ d.options = c.options /\ d.list = c.list /\ d.nodes = c.nodes
      /\ d.state = c.state /\ d.number = c.number /\ d.index = z
  BY <1>3 DEF Fields
<1>5. z = [k \in Kind |-> [p \in Branches |-> z[k][p]]]
  <2>1. \A k \in Kind : z[k] = [p \in Branches |-> z[k][p]]
    BY <1>2
  <2>2. z = [k \in Kind |-> z[k]]
    BY <1>2
  <2>3. QED
    BY <2>1, <2>2
<1>6. \A k \in Kind, p \in Branches :
        z[k][p] = IF Falls(k, p, c.number[k][p]) THEN 1 ELSE cache.index[k][p]
  BY <1>2 DEF Falls
<1>7. Numbers(z)
  BY <1>5 DEF Numbers
<1>8. QED
  BY <1>4, <1>6, <1>7 DEF Restarted

(* So RemoveNode does.                                                     *)
LEMMA RemovedIs ==
  ASSUME Holds(cache), NEW e, NEW t, t = Topmost(e), NEW c, c = RemoveNode(e)
  PROVE  CountsDown(c, e, t)
<1> DEFINE drop(k, p) == CASE p \in Under(t)                      -> cache.number[k][p]
                           [] p \in Path(Parent(t)) /\ k = "rows" -> cache.number["rows"][e]
                           [] p \in Path(Parent(t)) /\ k = "hits" -> IF Counting THEN cache.number["hits"][e] ELSE 0
                           [] p = Parent(t) /\ k = "kids"         -> 1
                           [] OTHER                               -> 0
           m == [k \in Kind |-> [p \in Branches |-> cache.number[k][p] - drop(k, p)]]
<1>1. Without(e) = [cache EXCEPT !.nodes = @ \ Under(t), !.state = @ \cup {"publish"}, !.number = m]
  BY DEF Without
<1>2. PICK j : j = m
  OBVIOUS
<1>3. PICK w : w = Without(e)
  OBVIOUS
<1>4. w = [cache EXCEPT !.nodes = @ \ Under(t), !.state = @ \cup {"publish"}, !.number = j]
  BY <1>1, <1>2, <1>3
<1>5. DOMAIN cache = Fields /\ cache.index \in [Kind -> [Branches -> Nat \ {0}]]
  BY HoldsIs
<1>6. /\ DOMAIN w = Fields /\ w.options = cache.options /\ w.list = cache.list
      /\ w.nodes = cache.nodes \ Under(t) /\ w.state = cache.state \cup {"publish"}
      /\ w.number = j /\ w.index = cache.index
  BY <1>4, <1>5 DEF Fields
<1>7. \A k \in Kind, p \in Branches : j[k][p] = cache.number[k][p] - Dropped(e, t, k, p)
  <2>1. ASSUME NEW k \in Kind, NEW p \in Branches
        PROVE  j[k][p] = cache.number[k][p] - Dropped(e, t, k, p)
    <3>1. j[k][p] = cache.number[k][p] - drop(k, p)
      BY <1>2
    <3>2. drop(k, p) = Dropped(e, t, k, p)
      BY DEF Dropped
    <3>3. QED
      BY <3>1, <3>2
  <2>2. QED
    BY <2>1
<1>8. Numbers(j)
  <2>1. \A k \in Kind : j[k] = [p \in Branches |-> j[k][p]]
    BY <1>2
  <2>2. j = [k \in Kind |-> j[k]]
    BY <1>2
  <2>3. QED
    BY <2>1, <2>2 DEF Numbers
<1>9. PICK d : d = Reset(w)
  OBVIOUS
<1>10. /\ DOMAIN d = Fields /\ d.options = w.options /\ d.list = w.list /\ d.nodes = w.nodes
       /\ d.state = w.state /\ d.number = w.number /\ Numbers(d.index)
       /\ \A k \in Kind, p \in Branches :
            d.index[k][p] = IF Falls(k, p, w.number[k][p]) THEN 1 ELSE cache.index[k][p]
  BY <1>5, <1>6, <1>9, ResetIs DEF Restarted
<1> DEFINE y == [k \in Kind |-> [p \in Branches |-> IF p \in Under(t) THEN 1 ELSE d.index[k][p]]]
<1>11. c = [d EXCEPT !.index = y]
  BY <1>3, <1>9 DEF RemoveNode
<1>12. PICK z : z = y
  OBVIOUS
<1>13. c = [d EXCEPT !.index = z]
  BY <1>11, <1>12
<1>14. /\ DOMAIN c = Fields /\ c.options = d.options /\ c.list = d.list /\ c.nodes = d.nodes
       /\ c.state = d.state /\ c.number = d.number /\ c.index = z
  BY <1>10, <1>13 DEF Fields
<1>15. Numbers(z)
  <2>1. \A k \in Kind : z[k] = [p \in Branches |-> z[k][p]]
    BY <1>12
  <2>2. z = [k \in Kind |-> z[k]]
    BY <1>12
  <2>3. QED
    BY <2>1, <2>2 DEF Numbers
<1>16. \A k \in Kind, p \in Branches :
         z[k][p] = IF p \in Under(t) \/ Falls(k, p, j[k][p]) THEN 1 ELSE cache.index[k][p]
  BY <1>6, <1>10, <1>12
<1>17. /\ DOMAIN c = Fields /\ c.options = cache.options /\ c.list = cache.list
       /\ c.nodes = cache.nodes \ Under(t) /\ c.state = cache.state \cup {"publish"}
       /\ c.number = j /\ c.index = z
  BY <1>6, <1>10, <1>14
<1>18. QED
  BY <1>7, <1>8, <1>15, <1>16, <1>17 DEF CountsDown

(* The elements of what lies under p are those of the rows there.          *)
LEMMA RowOf ==
  ASSUME NEW l \in Seq(Element)
  PROVE  \A i \in DOMAIN l : l[i].row \in Row
<1>1. ASSUME NEW i \in DOMAIN l
      PROVE  l[i].row \in Row
  <2>1. l[i] \in Element
    OBVIOUS
  <2>2. QED
    BY <2>1 DEF Element
<1>2. QED
  BY <1>1

(* The list t of what remains of l for the nodes M.                        *)
Remains(l, M, t) ==
  /\ t \in Seq(Element) /\ \A i \in 1..Len(t) : t[i].row \in M
  /\ \A Q : Cardinality(Places(t, Q)) = Cardinality(Places(l, Q \cap M))

(* What goes with the topmost node t that e takes with it.                 *)
LEMMA DroppedIs ==
  ASSUME Holds(cache), NEW e \in cache.nodes, NEW t, t = Topmost(e),
         NEW M, M = cache.nodes \ Under(t), NEW s, Remains(cache.list, M, s),
         NEW k \in Kind, NEW p \in Branches, NEW j, j = cache.number[k][p] - Dropped(e, t, k, p)
  PROVE  /\ k = "rows" => j = Cardinality(Below(M, p))
         /\ k = "kids" => j = Cardinality(Kids(M, p))
         /\ k = "hits" /\ Counting => j = Cardinality(Places(s, Under(p)))
         /\ k = "hits" /\ ~Counting => j \in {0, 1}
         /\ j \in Nat /\ j <= cache.number[k][p] /\ (p \in Under(t) => j = 0)
         /\ Tree(M)
<1>1. PICK N, l, m : N = cache.nodes /\ l = cache.list /\ m = cache.number
  OBVIOUS
<1>2. /\ Tree(N) /\ l \in Seq(Element) /\ \A i \in 1..Len(l) : l[i].row \in N
      /\ m \in [Kind -> [Branches -> Nat]] /\ Counts(N, l, m, Counting)
  BY <1>1, HoldsIs DEF Holds, Counting
<1>3. N \in SUBSET Branches /\ e \in N /\ e \in Branches
  BY <1>1, <1>2 DEF Tree
<1>4. t \in N /\ e \in Under(t) /\ Below(N, t) = Below(N, e)
      /\ (Parent(t) = <<>> \/ Cardinality(Kids(N, Parent(t))) > 1)
  <2>1. \A q \in Branches : cache.number["kids"][q] = Cardinality(Kids(N, q))
    BY <1>1, <1>2 DEF Counts
  <2>2. QED
    BY <1>1, <1>2, <1>3, <2>1, TopmostIs
<1>5. t \in Branches /\ t # <<>> /\ M = N \ Under(t)
  BY <1>1, <1>2, <1>4 DEF Tree
<1>6. /\ Tree(M) /\ Under(t) \cap Path(Parent(t)) = {}
      /\ \A q \in Under(t) : Below(M, q) = {} /\ Kids(M, q) = {}
      /\ \A q \in Path(Parent(t)) :
           Cardinality(Below(M, q)) = Cardinality(Below(N, q)) - Cardinality(Below(N, t))
      /\ \A q \in Branches \ (Under(t) \cup Path(Parent(t))) : Below(M, q) = Below(N, q)
      /\ Cardinality(Kids(M, Parent(t))) = Cardinality(Kids(N, Parent(t))) - 1
      /\ \A q \in Branches \ (Under(t) \cup {Parent(t)}) : Kids(M, q) = Kids(N, q)
  <2>1. Pruned(N, t, M)
    BY <1>2, <1>4, <1>5, TreePruned
  <2>2. QED
    BY <2>1 DEF Pruned
<1>7. /\ m["rows"][p] = Cardinality(Below(N, p)) /\ m["kids"][p] = Cardinality(Kids(N, p))
      /\ m["rows"][e] = Cardinality(Below(N, e)) /\ m["hits"][p] \in Nat /\ m["hits"][e] \in Nat
      /\ m["rows"][p] \in Nat /\ m["kids"][p] \in Nat /\ m["rows"][e] \in Nat
      /\ Counting => m["hits"][p] = Cardinality(Places(l, Under(p))) /\ m["hits"][e] = Cardinality(Places(l, Under(e)))
      /\ ~Counting => m["hits"][p] \in {0, 1}
  BY <1>2, <1>3 DEF Counts, Kind
<1>8. Parent(t) \in Branches /\ Parent(t) \in Path(Parent(t)) /\ Path(Parent(t)) \in SUBSET Branches
  BY <1>5, ParentIs, PathsIn
<1>9. Cardinality(Below(M, p)) \in Nat /\ Cardinality(Kids(M, p)) \in Nat
  BY <1>6, TreeFinite
<1>10. ASSUME k = "rows"
       PROVE  j = Cardinality(Below(M, p)) /\ j <= m["rows"][p] /\ (p \in Under(t) => j = 0)
  <2>1. CASE p \in Under(t)
    <3>1. Dropped(e, t, k, p) = m["rows"][p] /\ Below(M, p) = {}
      BY <1>1, <1>6, <1>8, <1>10, <2>1 DEF Dropped
    <3>2. Cardinality(Below(M, p)) = 0
      BY <3>1, FS_EmptySet
    <3>3. QED
      BY <1>1, <1>7, <1>10, <3>1, <3>2
  <2>2. CASE p \in Path(Parent(t))
    <3>1. p \notin Under(t)
      BY <1>6, <2>2
    <3>2. Dropped(e, t, k, p) = m["rows"][e]
      BY <1>1, <1>10, <2>2, <3>1 DEF Dropped
    <3>3. Cardinality(Below(M, p)) = m["rows"][p] - m["rows"][e]
      BY <1>4, <1>6, <1>7, <2>2
    <3>4. QED
      BY <1>1, <1>7, <1>9, <1>10, <3>1, <3>2, <3>3
  <2>3. CASE p \notin Under(t) /\ p \notin Path(Parent(t))
    <3>1. Dropped(e, t, k, p) = 0
      BY <1>10, <2>3 DEF Dropped
    <3>2. Below(M, p) = Below(N, p)
      BY <1>6, <2>3
    <3>3. QED
      BY <1>1, <1>7, <1>10, <2>3, <3>1, <3>2
  <2>4. QED
    BY <2>1, <2>2, <2>3
<1>11. ASSUME k = "kids"
       PROVE  j = Cardinality(Kids(M, p)) /\ j <= m["kids"][p] /\ (p \in Under(t) => j = 0)
  <2>1. CASE p \in Under(t)
    <3>1. Dropped(e, t, k, p) = m["kids"][p] /\ Kids(M, p) = {}
      BY <1>1, <1>6, <1>8, <1>11, <2>1 DEF Dropped
    <3>2. Cardinality(Kids(M, p)) = 0
      BY <3>1, FS_EmptySet
    <3>3. QED
      BY <1>1, <1>7, <1>11, <3>1, <3>2
  <2>2. CASE p = Parent(t)
    <3>1. p \notin Under(t)
      BY <1>6, <1>8, <2>2
    <3>2. Dropped(e, t, k, p) = 1
      BY <1>11, <2>2, <3>1 DEF Dropped
    <3>3. Cardinality(Kids(M, p)) = m["kids"][p] - 1
      BY <1>6, <1>7, <2>2
    <3>4. QED
      BY <1>1, <1>7, <1>9, <1>11, <3>1, <3>2, <3>3
  <2>3. CASE p \notin Under(t) /\ p # Parent(t)
    <3>1. Dropped(e, t, k, p) = 0
      BY <1>11, <2>3 DEF Dropped
    <3>2. Kids(M, p) = Kids(N, p)
      BY <1>6, <2>3
    <3>3. QED
      BY <1>1, <1>7, <1>11, <2>3, <3>1, <3>2
  <2>4. QED
    BY <2>1, <2>2, <2>3
<1>12. ASSUME k = "hits", Counting
       PROVE  j = Cardinality(Places(s, Under(p))) /\ j \in Nat /\ j <= m["hits"][p] /\ (p \in Under(t) => j = 0)
  <2>1. \A q : Places(l, Under(q)) = Places(l, Below(N, q))
    <3>1. \A i \in DOMAIN l : l[i].row \in Row /\ l[i].row \in N
      BY <1>2, RowOf
    <3>2. QED
      BY <3>1 DEF Places, Below
  <2>2. Cardinality(Places(s, Under(p))) = Cardinality(Places(l, Below(M, p)))
    <3>1. Cardinality(Places(s, Under(p))) = Cardinality(Places(l, Under(p) \cap M))
      BY <1>1 DEF Remains
    <3>2. Places(l, Under(p) \cap M) = Places(l, Below(M, p))
      <4>1. \A i \in DOMAIN l : l[i].row \in Row
        BY <1>2, RowOf
      <4>2. QED
        BY <4>1 DEF Places, Below
    <3>3. QED
      BY <3>1, <3>2
  <2>3. CASE p \in Under(t)
    <3>1. Dropped(e, t, k, p) = m["hits"][p] /\ Below(M, p) = {}
      BY <1>1, <1>6, <1>12, <2>3 DEF Dropped
    <3>2. Places(l, Below(M, p)) = {}
      BY <3>1 DEF Places
    <3>3. Cardinality(Places(l, Below(M, p))) = 0
      BY <3>2, FS_EmptySet
    <3>4. QED
      BY <1>1, <1>7, <1>12, <2>2, <3>1, <3>3
  <2>4. CASE p \in Path(Parent(t))
    <3>1. p \notin Under(t)
      BY <1>6, <2>4
    <3>2. Dropped(e, t, k, p) = m["hits"][e]
      BY <1>1, <1>12, <2>4, <3>1 DEF Dropped
    <3>3. Under(t) \subseteq Under(p)
      <4>1. p \in Path(t)
        BY <1>5, <1>8, <2>4, ParentIs, PathsNest
      <4>2. \A q \in Branches : t \in Path(q) => p \in Path(q)
        BY <1>5, <4>1, PathsNest
      <4>3. QED
        BY <4>2 DEF Under
    <3>4. Below(N, p) = Below(M, p) \cup Below(N, t) /\ Below(M, p) \cap Below(N, t) = {}
      BY <1>5, <3>3 DEF Below
    <3>5. PICK A, B : A = Places(l, Below(M, p)) /\ B = Places(l, Below(N, t))
      OBVIOUS
    <3>6. Places(l, Below(N, p)) = A \cup B /\ A \cap B = {}
      BY <3>4, <3>5 DEF Places
    <3>7. IsFiniteSet(A) /\ IsFiniteSet(B)
      BY <1>2, <3>5, PlacesFinite
    <3>8. /\ Cardinality(Places(l, Below(N, p))) = Cardinality(A) + Cardinality(B)
          /\ Cardinality(A) \in Nat /\ Cardinality(B) \in Nat
      BY <3>6, <3>7, CardinalityAdds
    <3>9. m["hits"][p] = Cardinality(A) + Cardinality(B)
      BY <1>7, <1>12, <2>1, <3>8
    <3>10. m["hits"][e] = Cardinality(B)
      BY <1>4, <1>7, <1>12, <2>1, <3>5
    <3>11. j = Cardinality(A)
      BY <1>1, <1>12, <3>2, <3>8, <3>9, <3>10
    <3>12. QED
      BY <1>1, <1>7, <1>12, <2>2, <3>1, <3>5, <3>8, <3>9, <3>11
  <2>5. CASE p \notin Under(t) /\ p \notin Path(Parent(t))
    <3>1. Dropped(e, t, k, p) = 0
      BY <1>12, <2>5 DEF Dropped
    <3>2. Below(M, p) = Below(N, p)
      BY <1>6, <2>5
    <3>3. Cardinality(Places(s, Under(p))) = m["hits"][p]
      BY <1>7, <1>12, <2>1, <2>2, <3>2
    <3>4. QED
      BY <1>1, <1>7, <1>12, <2>5, <3>1, <3>3
  <2>6. QED
    BY <2>3, <2>4, <2>5
<1>13. ASSUME k = "hits", ~Counting
       PROVE  j \in {0, 1} /\ j <= m["hits"][p] /\ (p \in Under(t) => j = 0)
  <2>1. CASE p \in Under(t)
    <3>1. Dropped(e, t, k, p) = m["hits"][p]
      BY <1>1, <1>6, <1>8, <1>13, <2>1 DEF Dropped
    <3>2. QED
      BY <1>1, <1>7, <1>13, <3>1
  <2>2. CASE p \notin Under(t)
    <3>1. Dropped(e, t, k, p) = 0
      <4>1. CASE p \in Path(Parent(t))
        BY <1>13, <2>2, <4>1 DEF Dropped
      <4>2. CASE p \notin Path(Parent(t))
        BY <1>13, <2>2, <4>2 DEF Dropped
      <4>3. QED
        BY <4>1, <4>2
    <3>2. QED
      BY <1>1, <1>7, <1>13, <2>2, <3>1
  <2>3. QED
    BY <2>1, <2>2
<1>14. QED
  <2>1. CASE k = "rows"
    BY <1>1, <1>6, <1>9, <1>10, <2>1
  <2>2. CASE k = "kids"
    BY <1>1, <1>6, <1>9, <1>11, <2>2
  <2>3. CASE k = "hits"
    BY <1>1, <1>6, <1>12, <1>13, <2>3
  <2>4. QED
    BY <2>1, <2>2, <2>3 DEF Kind

(* A node that goes, with its part of the counters and the elements of the *)
(* rows that go with it.                                                   *)
LEMMA RemoveHolds ==
  ASSUME ThresholdsAscend, Holds(cache), NEW e \in cache.nodes, NEW c, c = RemoveNode(e),
         NEW d, DOMAIN d = Fields, d.options = c.options, d.nodes = c.nodes, d.number = c.number,
         d.index = c.index, d.state \in SUBSET {"publish", "alert", "alarm"},
         Remains(cache.list, c.nodes, d.list)
  PROVE  Holds(d)
<1>1. PICK t : t = Topmost(e)
  OBVIOUS
<1>2. CountsDown(c, e, t)
  BY <1>1, RemovedIs
<1>3. PICK M, s, j, y, b : M = c.nodes /\ s = d.list /\ j = c.number /\ y = c.index /\ b = Counting
  OBVIOUS
<1>4. /\ M = cache.nodes \ Under(t) /\ Remains(cache.list, M, s) /\ Numbers(j) /\ Numbers(y)
      /\ \A k \in Kind, p \in Branches :
           /\ j[k][p] = cache.number[k][p] - Dropped(e, t, k, p)
           /\ y[k][p] = IF p \in Under(t) \/ Falls(k, p, j[k][p]) THEN 1 ELSE cache.index[k][p]
  BY <1>2, <1>3 DEF CountsDown
<1>5. ASSUME NEW k \in Kind, NEW p \in Branches
      PROVE  /\ k = "rows" => j[k][p] = Cardinality(Below(M, p))
             /\ k = "kids" => j[k][p] = Cardinality(Kids(M, p))
             /\ k = "hits" /\ Counting => j[k][p] = Cardinality(Places(s, Under(p)))
             /\ k = "hits" /\ ~Counting => j[k][p] \in {0, 1}
             /\ j[k][p] \in Nat /\ j[k][p] <= cache.number[k][p] /\ (p \in Under(t) => j[k][p] = 0)
             /\ Tree(M)
  <2>1. PICK n : n = cache.number[k][p] - Dropped(e, t, k, p)
    OBVIOUS
  <2>2. j[k][p] = n
    BY <1>4, <2>1
  <2>3. /\ k = "rows" => n = Cardinality(Below(M, p))
        /\ k = "kids" => n = Cardinality(Kids(M, p))
        /\ k = "hits" /\ Counting => n = Cardinality(Places(s, Under(p)))
        /\ k = "hits" /\ ~Counting => n \in {0, 1}
        /\ n \in Nat /\ n <= cache.number[k][p] /\ (p \in Under(t) => n = 0)
        /\ Tree(M)
    BY <1>1, <1>4, <2>1, DroppedIs
  <2>4. QED
    BY <2>2, <2>3
<1>6. Tree(M)
  BY <1>5, PathsIn, RowsAreLeaves, RowIs DEF Kind
<1>7. Counts(M, s, j, b)
  <2>1. j \in [Kind -> [Branches -> Nat]]
    BY <1>4, <1>5 DEF Numbers
  <2>2. QED
    BY <1>3, <1>5, <2>1 DEF Counts, Kind
<1>8. ASSUME NEW k \in Kind, NEW p \in Branches
      PROVE  Marked(Limits(k, p), j[k][p], y[k][p], Examined(k, p, b))
  <2>1. PICK l, n, x, z : l = Limits(k, p) /\ n = cache.number[k][p] /\ x = cache.index[k][p] /\ z = Examined(k, p, b)
    OBVIOUS
  <2>2. PICK h, g : h = j[k][p] /\ g = IF h < n /\ h < l[1] THEN 1 ELSE x
    OBVIOUS
  <2>3. Ascends(l) /\ n \in Nat /\ h \in Nat /\ h <= n
    BY <1>5, <2>1, <2>2, HoldsIs DEF ThresholdsAscend
  <2>4. Marked(l, n, x, z)
    BY <1>3, <2>1 DEF Holds, Marks, Counting
  <2>5. Marked(l, h, g, z) /\ Marked(l, 0, 1, z)
    BY <2>2, <2>3, <2>4, MarkFalls
  <2>6. CASE p \in Under(t)
    <3>1. h = 0 /\ y[k][p] = 1
      BY <1>4, <1>5, <2>2, <2>6
    <3>2. QED
      BY <2>1, <2>2, <2>5, <3>1
  <2>7. CASE p \notin Under(t)
    <3>1. y[k][p] = g
      BY <1>4, <2>1, <2>2, <2>7 DEF Falls
    <3>2. QED
      BY <2>1, <2>2, <2>5, <3>1
  <2>8. QED
    BY <2>6, <2>7
<1>9. Marks(j, y, b)
  <2>1. \A k \in Kind, p \in Branches : y[k][p] \in Nat \ {0}
    BY <1>8 DEF Marked
  <2>2. y \in [Kind -> [Branches -> Nat \ {0}]]
    BY <1>4, <2>1 DEF Numbers
  <2>3. QED
    BY <1>8, <2>2 DEF Marks
<1>10. Held(M, s, b)
  <2>1. s \in Seq(Element) /\ \A i \in 1..Len(s) : s[i].row \in M
    BY <1>4 DEF Remains
  <2>2. ASSUME ~b, NEW r \in M \cap Row
        PROVE  Cardinality(Places(s, {r})) = 1
    <3>1. {r} \cap M = {r} /\ r \in cache.nodes \cap Row
      BY <1>4
    <3>2. Cardinality(Places(s, {r})) = Cardinality(Places(cache.list, {r} \cap M))
      BY <1>4 DEF Remains
    <3>3. Cardinality(Places(cache.list, {r})) = 1
      BY <1>3, <2>2, <3>1 DEF Holds, Held, Counting
    <3>4. QED
      BY <3>1, <3>2, <3>3
  <2>3. QED
    BY <2>1, <2>2 DEF Held
<1>11. d.options = cache.options /\ cache.options \in OptionSets /\ Counting = ("count" \in d.options)
  BY <1>2 DEF CountsDown, Holds, Counting
<1>12. QED
  <2>1. /\ Tree(d.nodes) /\ Held(d.nodes, d.list, Counting)
        /\ Counts(d.nodes, d.list, d.number, Counting) /\ Marks(d.number, d.index, Counting)
    BY <1>3, <1>6, <1>7, <1>9, <1>10
  <2>2. QED
    BY <1>11, <2>1 DEF Holds

(* A row, or a branch of them, is retracted.                               *)
LEMMA RetractHolds ==
  ASSUME ThresholdsAscend, Holds(cache), NEW p, RetractRow(p)
  PROVE  Holds(cache')
<1>1. p \in cache.nodes
  BY DEF RetractRow
<1>2. PICK c : c = RemoveNode(p)
  OBVIOUS
<1>3. CountsDown(c, p, Topmost(p))
  BY <1>2, RemovedIs
<1>4. PICK R, s : R = c.nodes /\ s = Selected(cache.list, {i \in DOMAIN cache.list : cache.list[i].row \in R})
  OBVIOUS
<1>5. PICK d : d = cache'
  OBVIOUS
<1>6. d = [c EXCEPT !.list = s, !.state = IF s = <<>> THEN @ \ {"alarm"} ELSE @]
  BY <1>2, <1>4, <1>5 DEF RetractRow
<1>7. DOMAIN c = Fields /\ c.state \in SUBSET {"publish", "alert", "alarm"}
  BY <1>3 DEF CountsDown, Holds
<1>8. /\ DOMAIN d = Fields /\ d.options = c.options /\ d.nodes = c.nodes /\ d.number = c.number
      /\ d.index = c.index /\ d.list = s /\ d.state \in SUBSET {"publish", "alert", "alarm"}
  BY <1>6, <1>7 DEF Fields
<1>9. Remains(cache.list, c.nodes, d.list)
  <2>1. PICK l : l = cache.list
    OBVIOUS
  <2>2. l \in Seq(Element)
    BY <2>1, HoldsIs
  <2>3. s = Selected(l, Places(l, R))
    BY <1>4, <2>1 DEF Places
  <2>4. /\ \A Q : Cardinality(Places(s, Q)) = Cardinality(Places(l, Q \cap R))
        /\ s \in Seq(Element) /\ \A i \in 1..Len(s) : s[i].row \in R
    BY <2>2, <2>3, PlacesSelected
  <2>5. QED
    BY <1>4, <1>8, <2>1, <2>4 DEF Remains
<1>10. Holds(d)
  BY <1>1, <1>2, <1>8, <1>9, RemoveHolds
<1>11. QED
  BY <1>5, <1>10

(* The last hit of a row expires: its only element is the first.           *)
LEMMA LastRemains ==
  ASSUME Holds(cache), NEW l, l = cache.list, l # <<>>, NEW r, r = Head(l).row,
         cache.number["hits"][r] < 2, NEW M, M = cache.nodes \ Under(Topmost(r))
  PROVE  Remains(l, M, Tail(l)) /\ r \in cache.nodes
<1>1. PICK N, m, t : N = cache.nodes /\ m = cache.number /\ t = Topmost(r)
  OBVIOUS
<1>2. /\ Tree(N) /\ l \in Seq(Element) /\ \A i \in 1..Len(l) : l[i].row \in N
      /\ m \in [Kind -> [Branches -> Nat]] /\ Counts(N, l, m, Counting) /\ Held(N, l, Counting)
  BY <1>1, HoldsIs DEF Holds, Counting
<1>3. /\ \A i \in DOMAIN l : l[i].row \in Row /\ l[i].row \in N
      /\ 1 \in DOMAIN l /\ r = l[1].row /\ DOMAIN l = 1..Len(l)
  BY <1>2, RowOf
<1>4. r \in Row /\ r \in N /\ r \in Branches
  BY <1>3, RowsAreLeaves
<1>5. Under(r) = {r}
  BY <1>4, RowsAreLeaves, PathsIn DEF Under
<1>6. t \in N /\ r \in Under(t) /\ Below(N, t) = Below(N, r)
  <2>1. \A q \in Branches : cache.number["kids"][q] = Cardinality(Kids(N, q))
    BY <1>1, <1>2 DEF Counts
  <2>2. QED
    BY <1>1, <1>2, <1>4, <2>1, TopmostIs
<1>7. Below(N, t) = {r}
  BY <1>4, <1>5, <1>6 DEF Below
<1>8. Cardinality(Places(l, {r})) = 1
  <2>1. CASE ~Counting
    BY <1>2, <1>4, <2>1 DEF Held
  <2>2. CASE Counting
    <3>1. m["hits"][r] = Cardinality(Places(l, Under(r)))
      BY <1>2, <1>4, <2>2 DEF Counts
    <3>2. Cardinality(Places(l, {r})) < 2
      BY <1>1, <1>5, <3>1
    <3>3. Cardinality(Places(l, {r})) \in Nat /\ IsFiniteSet(Places(l, {r}))
      BY <1>2, PlacesFinite
    <3>4. Places(l, {r}) # {}
      BY <1>3 DEF Places
    <3>5. Cardinality(Places(l, {r})) # 0
      BY <3>3, <3>4, FS_EmptySet
    <3>6. QED
      BY <3>2, <3>3, <3>5
  <2>3. QED
    BY <2>1, <2>2
<1>9. \A i \in DOMAIN l : l[i].row \in M <=> l[i].row # r
  <2>1. \A q \in N \cap Row : q \in Under(t) <=> q = r
    BY <1>7 DEF Below
  <2>2. QED
    BY <1>1, <1>3, <2>1
<1>10. PICK s : s = Tail(l)
  OBVIOUS
<1>11. s \in Seq(Element) /\ Len(s) \in Nat /\ Len(s) = Len(l) - 1 /\ \A i \in 1..Len(s) : s[i] = l[i + 1] /\ i + 1 \in DOMAIN l
  BY <1>2, <1>10
<1>12. \A Q : Cardinality(Places(s, Q)) = Cardinality(Places(l, Q)) - (IF r \in Q THEN 1 ELSE 0)
  BY <1>2, <1>10, PlacesTail
<1>13. ASSUME NEW Q
       PROVE  Cardinality(Places(s, Q)) = Cardinality(Places(l, Q \cap M))
  <2>1. CASE r \notin Q
    <3>1. Places(l, Q) = Places(l, Q \cap M)
      BY <1>9, <2>1 DEF Places
    <3>2. Cardinality(Places(l, Q)) \in Nat
      BY <1>2, PlacesFinite
    <3>3. Cardinality(Places(s, Q)) = Cardinality(Places(l, Q)) - 0
      BY <1>12, <2>1
    <3>4. QED
      BY <3>1, <3>2, <3>3
  <2>2. CASE r \in Q
    <3>1. PICK A, B : A = Places(l, Q \cap M) /\ B = Places(l, {r})
      OBVIOUS
    <3>2. Places(l, Q) = A \cup B /\ A \cap B = {}
      BY <1>9, <2>2, <3>1 DEF Places
    <3>3. IsFiniteSet(A) /\ IsFiniteSet(B)
      BY <1>2, <3>1, PlacesFinite
    <3>4. Cardinality(Places(l, Q)) = Cardinality(A) + Cardinality(B) /\ Cardinality(A) \in Nat
      BY <3>2, <3>3, CardinalityAdds
    <3>5. Cardinality(Places(s, Q)) = Cardinality(Places(l, Q)) - 1
      BY <1>12, <2>2
    <3>6. Cardinality(B) = 1
      BY <1>8, <3>1
    <3>7. Cardinality(Places(s, Q)) = Cardinality(A)
      BY <3>4, <3>5, <3>6
    <3>8. QED
      BY <3>1, <3>7
  <2>3. QED
    BY <2>1, <2>2
<1>14. ASSUME NEW i \in 1..Len(s)
       PROVE  s[i].row \in M
  <2>1. Cardinality(Places(s, {r})) = 0
    <3>1. Cardinality(Places(s, {r})) = Cardinality(Places(l, {r})) - 1
      BY <1>12
    <3>2. QED
      BY <1>8, <3>1
  <2>2. Places(s, {r}) = {}
    BY <1>11, <2>1, PlacesFinite, FS_EmptySet
  <2>3. s[i].row # r
    BY <1>11, <2>2 DEF Places
  <2>4. QED
    BY <1>9, <1>11, <2>3
<1>15. QED
  BY <1>1, <1>4, <1>10, <1>11, <1>13, <1>14 DEF Remains

(* A hit that is not the last of its row expires.                          *)
HitGone(r) ==
  [cache EXCEPT !.number["hits"] = [p \in Branches |-> IF p \in Path(r) THEN @[p] - 1 ELSE @[p]]]

(* The counters follow the list.                                           *)
LEMMA HitHolds ==
  ASSUME ThresholdsAscend, Holds(cache), Counting, NEW l, l = cache.list, l # <<>>, NEW r, r = Head(l).row,
         NEW w, w = HitGone(r),
         NEW c, c = Reset(w), NEW s, s = Tail(l),
         NEW d, DOMAIN d = Fields, d.options = c.options, d.list = s, d.nodes = c.nodes,
         d.state = c.state, d.number = c.number, d.index = c.index
  PROVE  Holds(d)
<1>1. PICK N, m, x : N = cache.nodes /\ m = cache.number /\ x = cache.index
  OBVIOUS
<1>2. /\ Tree(N) /\ l \in Seq(Element) /\ \A i \in 1..Len(l) : l[i].row \in N
      /\ m \in [Kind -> [Branches -> Nat]] /\ Counts(N, l, m, Counting) /\ DOMAIN cache = Fields
      /\ x \in [Kind -> [Branches -> Nat \ {0}]] /\ Marks(m, x, Counting)
  BY <1>1, HoldsIs DEF Holds, Counting
<1>3. PICK h : h = [p \in Branches |-> IF p \in Path(r) THEN m["hits"][p] - 1 ELSE m["hits"][p]]
  OBVIOUS
<1>4. PICK j : j = [m EXCEPT !["hits"] = h]
  OBVIOUS
<1>5. w = [cache EXCEPT !.number = j]
  BY <1>1, <1>2, <1>3, <1>4 DEF Fields, Kind, HitGone
<1>6. /\ DOMAIN w = Fields /\ w.options = cache.options /\ w.list = l /\ w.nodes = N
      /\ w.state = cache.state /\ w.number = j /\ w.index = x
  BY SMTT(60), <1>1, <1>2, <1>5 DEF Fields
<1>7. /\ DOMAIN c = Fields /\ c.options = w.options /\ c.list = w.list /\ c.nodes = w.nodes
      /\ c.state = w.state /\ c.number = w.number /\ Numbers(c.index)
      /\ \A k \in Kind, p \in Branches :
           c.index[k][p] = IF Falls(k, p, w.number[k][p]) THEN 1 ELSE cache.index[k][p]
  <2>1. w.index = cache.index /\ cache.index \in [Kind -> [Branches -> Nat \ {0}]]
    BY <1>1, <1>2, <1>6
  <2>2. QED
    <3>1. Restarted(w, c)
      BY <1>6, <2>1, ResetIs
    <3>2. QED
      BY <3>1 DEF Restarted
<1>8. PICK y : y = c.index
  BY SMTT(60)
<1>9. /\ DOMAIN d = Fields /\ d.options = cache.options /\ d.list = s /\ d.nodes = N
      /\ d.state = cache.state /\ d.number = j /\ d.index = y
  BY <1>1, <1>6, <1>7, <1>8 DEF Fields
<1>10. r \in Row /\ r \in N /\ \A p \in Branches : p \in Path(r) <=> r \in Under(p)
  <2>1. 1 \in DOMAIN l /\ l[1].row = r
    BY <1>2
  <2>2. r \in Row /\ r \in N
    <3>1. \A i \in DOMAIN l : l[i].row \in Row
      BY <1>2, RowOf
    <3>2. 1 \in 1..Len(l)
      BY <1>2
    <3>3. QED
      BY <1>2, <2>1, <3>1, <3>2
  <2>3. r \in Branches
    BY <2>2, RowsAreLeaves
  <2>4. QED
    BY <2>2, <2>3 DEF Under
<1>11. ASSUME NEW p \in Branches
       PROVE  /\ j["hits"][p] = Cardinality(Places(s, Under(p)))
              /\ j["hits"][p] \in Nat /\ j["hits"][p] <= m["hits"][p]
  <2>1. m["hits"][p] = Cardinality(Places(l, Under(p))) /\ m["hits"][p] \in Nat
    BY <1>2 DEF Counts, Kind
  <2>2. Cardinality(Places(s, Under(p))) =
          Cardinality(Places(l, Under(p))) - (IF r \in Under(p) THEN 1 ELSE 0)
    BY <1>1, <1>2, PlacesTail
  <2>3. Cardinality(Places(s, Under(p))) \in Nat
    <3>1. s \in Seq(Element)
      BY <1>1, <1>2
    <3>2. QED
      BY <3>1, PlacesFinite
  <2>4. j["hits"][p] = IF p \in Path(r) THEN m["hits"][p] - 1 ELSE m["hits"][p]
    BY <1>2, <1>3, <1>4 DEF Kind
  <2>5. CASE p \in Path(r)
    BY <1>10, <2>1, <2>2, <2>3, <2>4, <2>5
  <2>6. CASE p \notin Path(r)
    BY <1>10, <2>1, <2>2, <2>3, <2>4, <2>6
  <2>7. QED
    BY <2>5, <2>6
<1>12. j["rows"] = m["rows"] /\ j["kids"] = m["kids"] /\ DOMAIN j = Kind /\ j["hits"] = h
  BY <1>2, <1>4 DEF Kind
<1>13. j \in [Kind -> [Branches -> Nat]]
  <2>1. h \in [Branches -> Nat]
    <3>1. \A p \in Branches : h[p] \in Nat
      BY <1>11, <1>12
    <3>2. QED
      BY <1>3, <3>1
  <2>2. QED
    BY <1>2, <1>4, <2>1
<1>14. Counts(N, s, j, Counting)
  BY <1>2, <1>11, <1>12, <1>13 DEF Counts
<1>15. ASSUME NEW k \in Kind, NEW p \in Branches
       PROVE  Marked(Limits(k, p), j[k][p], y[k][p], Examined(k, p, Counting))
  <2>1. PICK a, n, i, z : a = Limits(k, p) /\ n = m[k][p] /\ i = x[k][p] /\ z = Examined(k, p, Counting)
    OBVIOUS
  <2>2. PICK e, g : e = j[k][p] /\ g = IF e < n /\ e < a[1] THEN 1 ELSE i
    OBVIOUS
  <2>3. Ascends(a) /\ n \in Nat /\ e \in Nat
    BY <1>2, <1>13, <2>1, <2>2 DEF ThresholdsAscend
  <2>4. e <= n
    BY <1>11, <1>12, <2>1, <2>2, <2>3 DEF Kind
  <2>5. Marked(a, n, i, z)
    BY <1>2, <2>1 DEF Marks
  <2>6. Marked(a, e, g, z)
    BY SMTT(60), <2>2, <2>3, <2>4, <2>5, MarkFalls
  <2>7. y[k][p] = g
    BY ZenonT(40), <1>1, <1>6, <1>7, <1>8, <2>1, <2>2 DEF Falls
  <2>8. QED
    BY <2>1, <2>2, <2>6, <2>7
<1>16. Marks(j, y, Counting)
  <2>1. \A k \in Kind, p \in Branches : y[k][p] \in Nat \ {0}
    BY <1>15 DEF Marked
  <2>2. Numbers(y)
    BY <1>7, <1>8
  <2>3. y \in [Kind -> [Branches -> Nat \ {0}]]
    BY <2>1, <2>2 DEF Numbers
  <2>4. QED
    BY <1>15, <2>3 DEF Marks
<1>17. Held(N, s, Counting)
  <2>1. s \in Seq(Element) /\ \A i \in 1..Len(s) : s[i] = l[i + 1] /\ i + 1 \in 1..Len(l)
    BY <1>1, <1>2
  <2>2. QED
    BY <1>2, <2>1 DEF Held
<1>18. Counting = ("count" \in d.options) /\ cache.options \in OptionSets /\ cache.state \in SUBSET {"publish", "alert", "alarm"}
  BY <1>9 DEF Holds, Counting
<1>19. QED
  BY <1>2, <1>9, <1>14, <1>16, <1>17, <1>18 DEF Holds

----------------------------------------------------------------------------
(* Only the flags change.                                                  *)
LEMMA FlagsHold ==
  ASSUME Holds(cache), NEW s \in SUBSET {"publish", "alert", "alarm"},
         NEW d, d = [cache EXCEPT !.state = s]
  PROVE  Holds(d)
<1>1. /\ DOMAIN d = Fields /\ d.options = cache.options /\ d.nodes = cache.nodes /\ d.state = s
      /\ d.list = cache.list /\ d.number = cache.number /\ d.index = cache.index
  BY DEF Holds, Fields
<1>2. QED
  BY <1>1 DEF Holds

(* Without rows there is nothing to count.                                 *)
LEMMA EmptyHolds ==
  ASSUME ThresholdsAscend, NEW c, DOMAIN c = Fields, c.options \in OptionSets, c.nodes = {}, c.list = <<>>,
         c.state \in SUBSET {"publish", "alert", "alarm"},
         c.number = [k \in Kind |-> [p \in Branches |-> 0]],
         c.index = [k \in Kind |-> [p \in Branches |-> 1]]
  PROVE  Holds(c)
<1>1. PICK b : b = ("count" \in c.options)
  OBVIOUS
<1>2. Tree(c.nodes)
  BY FS_EmptySet DEF Tree
<1>3. <<>> \in Seq(Element)
  OBVIOUS
<1>4. Held(c.nodes, c.list, b)
  BY <1>3 DEF Held
<1>5. \A k \in Kind, p \in Branches : c.number[k][p] = 0 /\ c.index[k][p] = 1
  OBVIOUS
<1>6. c.number \in [Kind -> [Branches -> Nat]] /\ c.index \in [Kind -> [Branches -> Nat \ {0}]]
  OBVIOUS
<1>7. \A p : Below({}, p) = {} /\ Kids({}, p) = {}
  BY DEF Below, Kids
<1>8. Cardinality({}) = 0 /\ \A Q : Cardinality(Places(<<>>, Q)) = 0
  BY ZenonT(40), <1>3, FS_EmptySet, PlacesFinite
<1>9. Counts(c.nodes, c.list, c.number, b)
  BY <1>5, <1>6, <1>7, <1>8 DEF Counts, Kind
<1>10. ASSUME NEW k \in Kind, NEW p \in Branches
       PROVE  Marked(Limits(k, p), c.number[k][p], c.index[k][p], Examined(k, p, b))
  <2>1. Ascends(Limits(k, p))
    BY DEF ThresholdsAscend
  <2>2. \A i \in 2..Len(Limits(k, p)) : Limits(k, p)[i] \in Nat /\ ~(0 >= Limits(k, p)[i])
    BY <2>1 DEF Ascends
  <2>3. QED
    BY <1>5, <2>2 DEF Marked
<1>11. Marks(c.number, c.index, b)
  BY <1>6, <1>10 DEF Marks
<1>12. QED
  BY <1>1, <1>2, <1>4, <1>9, <1>11 DEF Holds

(* A turn of cacheAlarm's loop.                                            *)
LEMMA ExpireHolds ==
  ASSUME ThresholdsAscend, Holds(cache), ExpireRow
  PROVE  Holds(cache')
<1>1. PICK l, r, d : l = cache.list /\ r = Head(l).row /\ d = cache'
  OBVIOUS
<1>2. l # <<>> /\ d = [DecNode(r) EXCEPT !.list = Tail(@)]
  BY <1>1 DEF ExpireRow, Expired
<1>3. CASE cache.number["hits"][r] < 2
  <2>1. PICK c : c = RemoveNode(r)
    OBVIOUS
  <2>2. CountsDown(c, r, Topmost(r))
    BY <2>1, RemovedIs
  <2>3. /\ DOMAIN c = Fields /\ c.list = l /\ c.nodes = cache.nodes \ Under(Topmost(r))
        /\ c.state \in SUBSET {"publish", "alert", "alarm"}
    BY <1>1, <2>2 DEF CountsDown, Holds
  <2>4. d = [c EXCEPT !.list = Tail(@)]
    BY <1>2, <1>3, <2>1 DEF DecNode
  <2>5. /\ DOMAIN d = Fields /\ d.options = c.options /\ d.nodes = c.nodes /\ d.number = c.number
        /\ d.index = c.index /\ d.list = Tail(l) /\ d.state \in SUBSET {"publish", "alert", "alarm"}
    BY <2>3, <2>4 DEF Fields
  <2>6. Remains(l, c.nodes, Tail(l)) /\ r \in cache.nodes
    BY <1>1, <1>2, <1>3, <2>3, LastRemains
  <2>7. Remains(cache.list, c.nodes, d.list)
    BY <1>1, <2>5, <2>6
  <2>8. Holds(d)
    BY <2>1, <2>5, <2>6, <2>7, RemoveHolds
  <2>9. QED
    BY <1>1, <2>8
<1>4. CASE ~(cache.number["hits"][r] < 2)
  <2>1. Counting
    <3>1. 1 \in DOMAIN l /\ l[1].row = r /\ l \in Seq(Element)
      BY <1>1, <1>2, HoldsIs
    <3>2. r \in Row
      BY <3>1, RowOf
    <3>3. r \in Branches
      BY <3>2, RowsAreLeaves
    <3>4. ~Counting => cache.number["hits"][r] \in {0, 1}
      BY <3>3 DEF Holds, Counts, Counting
    <3>5. QED
      BY <1>4, <3>4
  <2>2. PICK w : w = HitGone(r)
    OBVIOUS
  <2>3. PICK c : c = Reset(w)
    OBVIOUS
  <2>4. PICK s : s = Tail(l)
    OBVIOUS
  <2>5. d = [c EXCEPT !.list = s]
    <3>1. d = [c EXCEPT !.list = Tail(@)]
      BY <1>2, <1>4, <2>1, <2>2, <2>3 DEF DecNode, HitGone
    <3>2. c.list = l
      BY <1>1, <2>2, <2>3 DEF Reset, HitGone, Holds, Fields
    <3>3. QED
      BY <2>4, <3>1, <3>2
  <2>6. Holds(d)
    <3>1. /\ DOMAIN d = Fields /\ d.options = c.options /\ d.list = s /\ d.nodes = c.nodes
          /\ d.state = c.state /\ d.number = c.number /\ d.index = c.index
      BY <2>2, <2>3, <2>5 DEF Reset, HitGone, Holds, Fields
    <3>2. QED
      <4>1. l = cache.list /\ l # <<>> /\ r = Head(l).row
        BY <1>1, <1>2
      <4>2. QED
        BY <2>1, <2>2, <2>3, <2>4, <3>1, <4>1, HitHolds
  <2>7. QED
    BY <1>1, <2>6
<1>5. QED
  BY <1>3, <1>4

(* Every step of the cache.                                                *)
LEMMA CacheStepHolds ==
  ASSUME CountsAlone, ThresholdsAscend, Holds(cache), now \in Nat, [Next]_vars
  PROVE  Holds(cache')
<1>1. CASE cache' = cache
  BY <1>1
<1>2. ASSUME NEW r \in Row, AssertRow(r)
      PROVE  Holds(cache')
  <2>1. PICK d : d = cache'
    OBVIOUS
  <2>2. d = NewTimerElement(Counted(r), r)
    BY <1>2, <2>1 DEF AssertRow
  <2>3. QED
    BY <2>1, <2>2, AssertHolds
<1>3. CASE EmptyCache
  <2>1. PICK d : d = cache'
    OBVIOUS
  <2>2. DOMAIN cache = Fields /\ cache.options \in OptionSets /\ cache.state \in SUBSET {"publish", "alert", "alarm"}
    BY DEF Holds
  <2>3. PICK m, x, s : /\ m = [k \in Kind |-> [p \in Branches |-> 0]]
                       /\ x = [k \in Kind |-> [p \in Branches |-> 1]]
                       /\ s = (cache.state \ {"alarm"}) \cup {"publish"}
    OBVIOUS
  <2>4. d = [cache EXCEPT !.nodes = {}, !.list = <<>>, !.state = s, !.number = m, !.index = x]
    BY <1>3, <2>1, <2>3 DEF EmptyCache
  <2>5. /\ DOMAIN d = Fields /\ d.options = cache.options /\ d.nodes = {} /\ d.list = <<>>
        /\ d.state = s /\ d.number = m /\ d.index = x
    BY <2>2, <2>4 DEF Fields
  <2>6. Holds(d)
    BY <2>2, <2>3, <2>5, EmptyHolds
  <2>7. QED
    BY <2>1, <2>6
<1>4. ASSUME NEW s \in SUBSET {"publish", "alert", "alarm"}, cache' = [cache EXCEPT !.state = s]
      PROVE  Holds(cache')
  <2>1. PICK d : d = cache'
    OBVIOUS
  <2>2. Holds(d)
    BY <1>4, <2>1, FlagsHold
  <2>3. QED
    BY <2>1, <2>2
<1>5. cache.state \in SUBSET {"publish", "alert", "alarm"}
  BY DEF Holds
<1>6. CASE CacheAlarm
  <2>1. cache' = [cache EXCEPT !.state = cache.state \ {"alarm"}]
    BY <1>6 DEF CacheAlarm
  <2>2. QED
    BY <1>4, <1>5, <2>1
<1>7. CASE CacheAlarmEnd
  <2>1. cache' = cache \/ cache' = [cache EXCEPT !.state = cache.state \cup {"alarm"}]
    BY <1>7 DEF CacheAlarmEnd
  <2>2. QED
    BY <1>1, <1>4, <1>5, <2>1
<1>8. cache' = cache \/ (\E r \in Row : AssertRow(r)) \/ (\E p : RetractRow(p)) \/ EmptyCache
      \/ CacheAlarm \/ ExpireRow \/ CacheAlarmEnd
  BY DEF Next, Command, CacheCommand, React, Alert, CacheAlarmStep, RulesEnd, Time, vars, cacheVars
<1>9. QED
  BY <1>1, <1>2, <1>3, <1>6, <1>7, <1>8, RetractHolds, ExpireHolds

(* What Holds says is what the rows, counters and thresholds promise.      *)
LEMMA HoldsSound ==
  ASSUME Holds(cache)
  PROVE  CacheSound /\ (limit \in 0..MaxTime => CacheTypeOK)
<1>1. PICK N, l, m, x : N = cache.nodes /\ l = cache.list /\ m = cache.number /\ x = cache.index
  OBVIOUS
<1>2. /\ Tree(N) /\ l \in Seq(Element) /\ \A i \in 1..Len(l) : l[i].row \in N
      /\ Counts(N, l, m, Counting) /\ Held(N, l, Counting) /\ Marks(m, x, Counting)
  BY <1>1, HoldsIs DEF Holds, Counting
<1>3. \A i \in DOMAIN l : l[i].row \in Row /\ l[i].row \in N
  BY <1>2, RowOf
<1>4. <<>> \in Branches /\ N \cup {<<>>} \in SUBSET Branches
  BY <1>2, RowIs, RowsAreLeaves, PathsIn DEF Tree
<1>5. ASSUME NEW p \in N \cup {<<>>}, NEW below, below = Under(p) \cap cache.nodes \cap Row
      PROVE  /\ cache.number["rows"][p] = Cardinality(below)
             /\ cache.number["kids"][p] = Cardinality({q \in cache.nodes : Parent(q) = p})
             /\ p # <<>> => below # {}
             /\ Counting => cache.number["hits"][p] = Cardinality(UNION {Elements(r) : r \in below})
  <2>1. below = Below(N, p) /\ Kids(N, p) = {q \in cache.nodes : Parent(q) = p}
    BY <1>1, <1>5 DEF Below, Kids
  <2>2. /\ m["rows"][p] = Cardinality(Below(N, p)) /\ m["kids"][p] = Cardinality(Kids(N, p))
        /\ Counting => m["hits"][p] = Cardinality(Places(l, Under(p)))
    BY <1>2, <1>4 DEF Counts
  <2>3. p # <<>> => below # {}
    BY <1>2, <2>1 DEF Tree
  <2>4. UNION {Elements(r) : r \in below} = Places(l, Under(p))
    <3>1. \A i \in DOMAIN l : l[i].row \in below <=> l[i].row \in Under(p)
      BY <1>1, <1>3, <1>5
    <3>2. UNION {Elements(r) : r \in below} = {i \in DOMAIN l : l[i].row \in below}
      BY <1>1 DEF Elements
    <3>3. QED
      BY <3>1, <3>2 DEF Places
  <2>5. QED
    BY <1>1, <2>1, <2>2, <2>3, <2>4
<1>6. ASSUME NEW r \in Row \cap N
      PROVE  Cardinality(Elements(r)) = IF Counting THEN cache.number["hits"][r] ELSE 1
  <2>1. r \in Branches /\ Under(r) = {r}
    BY RowsAreLeaves, PathsIn DEF Under
  <2>2. Elements(r) = Places(l, {r})
    BY <1>1 DEF Elements, Places
  <2>3. CASE Counting
    <3>1. m["hits"][r] = Cardinality(Places(l, Under(r)))
      BY <1>2, <2>1, <2>3 DEF Counts
    <3>2. QED
      BY <1>1, <2>1, <2>2, <2>3, <3>1
  <2>4. CASE ~Counting
    BY <1>2, <2>2, <2>4 DEF Held
  <2>5. QED
    BY <2>3, <2>4
<1>7. CacheAgrees
  <2>1. \A i \in DOMAIN cache.list : cache.list[i].row \in cache.nodes
    BY <1>1, <1>3
  <2>2. \A p \in cache.nodes \cup {<<>>} :
          LET below == Under(p) \cap cache.nodes \cap Row
          IN  /\ cache.number["rows"][p] = Cardinality(below)
              /\ cache.number["kids"][p] = Cardinality({q \in cache.nodes : Parent(q) = p})
              /\ p # <<>> => below # {}
              /\ Counting => cache.number["hits"][p] = Cardinality(UNION {Elements(r) : r \in below})
    BY <1>1, <1>5
  <2>3. \A r \in Row \cap cache.nodes :
          Cardinality(Elements(r)) = IF Counting THEN cache.number["hits"][r] ELSE 1
    BY <1>1, <1>6
  <2>4. QED
    BY <2>1, <2>2, <2>3 DEF CacheAgrees
<1>8. ThresholdsReported
  <2>1. ASSUME NEW k \in Kind, NEW p \in cache.nodes \cup {<<>>}
        PROVE  /\ cache.index[k][p] > 1 => cache.number[k][p] >= Limits(k, p)[1]
               /\ (k = "hits" => Counting) /\ ~(k = "rows" /\ p \in Row) =>
                    \A i \in 2..Len(Limits(k, p)) : cache.number[k][p] >= Limits(k, p)[i] => cache.index[k][p] >= i
    <3>1. p \in Branches
      BY <1>1, <1>4
    <3>2. Marked(Limits(k, p), m[k][p], x[k][p], Examined(k, p, Counting))
      BY <1>2, <3>1 DEF Marks
    <3>3. QED
      BY <1>1, <3>2 DEF Marked, Examined
  <2>2. QED
    BY <2>1 DEF ThresholdsReported
<1>9. limit \in 0..MaxTime => CacheTypeOK
  <2>1. l \in Seq([row : Row, at : Nat])
    <3>1. Element \subseteq [row : Row, at : Nat]
      BY DEF Element
    <3>2. l \in Seq([row : Row, at : Nat])
      BY <1>2, <3>1, SeqMonotonic
    <3>3. QED
      BY <3>2
  <2>2. /\ cache.options \in OptionSets /\ N \subseteq Branches \ {<<>>}
        /\ m \in [Kind -> [Branches -> Nat]] /\ x \in [Kind -> [Branches -> Nat \ {0}]]
        /\ cache.state \subseteq {"publish", "alert", "alarm"}
    BY <1>2 DEF Holds, Tree, Counts, Marks
  <2>3. QED
    BY <1>1, <2>1, <2>2 DEF CacheTypeOK
<1>10. QED
  BY <1>7, <1>8, <1>9 DEF CacheSound

(* Init and every step keep the rows, counters and elements in agreement.  *)
LEMMA RowsInvariant == CountsAlone /\ ThresholdsAscend => (Spec => []Holds(cache))
<1>1. ASSUME ThresholdsAscend, Init
      PROVE  Holds(cache)
  <2>1. PICK o \in OptionSets : cache = [options |-> o, nodes |-> {}, list |-> <<>>, state |-> {},
                                         number |-> [k \in Kind |-> [p \in Branches |-> 0]],
                                         index  |-> [k \in Kind |-> [p \in Branches |-> 1]]]
    BY <1>1 DEF Init, CacheInit
  <2>2. /\ DOMAIN cache = Fields /\ cache.options \in OptionSets /\ cache.nodes = {} /\ cache.list = <<>>
        /\ cache.state \in SUBSET {"publish", "alert", "alarm"}
        /\ cache.number = [k \in Kind |-> [p \in Branches |-> 0]]
        /\ cache.index = [k \in Kind |-> [p \in Branches |-> 1]]
    BY <2>1 DEF Fields
  <2>3. QED
    BY <1>1, <2>2, EmptyHolds
<1>2. ASSUME CountsAlone, ThresholdsAscend, Inv, Holds(cache), [Next]_vars
      PROVE  Holds(cache')
  BY <1>2, CacheStepHolds DEF Inv, ClockSound
<1>3. ASSUME CountsAlone, ThresholdsAscend
      PROVE  Spec => []Holds(cache)
  <2>1. Init => Holds(cache)
    BY <1>1, <1>3
  <2>2. Inv /\ Holds(cache) /\ [Next]_vars => Holds(cache)'
    BY <1>2, <1>3
  <2>3. QED
    BY <2>1, <2>2, InvHolds, PTL DEF Spec
<1>4. QED
  BY <1>3

(* The number of commands is bounded.                                      *)
LEMMA CommandsCounted == Spec => [](commands \in 0..MaxCommands)
<1>1. Init => commands \in 0..MaxCommands
  BY CommandsAssumption DEF Init
<1>2. commands \in 0..MaxCommands /\ [Next]_vars => (commands \in 0..MaxCommands)'
  BY CommandsAssumption DEF Next, Command, React, Alert, Time, vars
<1>3. QED
  BY <1>1, <1>2, PTL DEF Spec

(* TimersSound: whatever rules do to the cache while cacheAlarm walks its  *)
(* list, every node counts the rows, kids and hits under it, every row has *)
(* its timer elements, none is left of a row that is gone, and no          *)
(* threshold is passed unreported or reported again before its counter     *)
(* fell below the reset threshold.                                         *)
THEOREM TimersAreSound == CountsAlone /\ ThresholdsAscend => (Spec => []TimersSound)
<1>1. Inv => limit \in 0..MaxTime
  <2>1. Inv => now \in 1..MaxTime /\ limit \in 0..now /\ MaxTime \in Nat
    BY ClockAssumption DEF Inv, CacheWaits, ClockSound
  <2>2. QED
    BY <2>1
<1>2. ASSUME Inv, Holds(cache)
      PROVE  CacheSound /\ CacheTypeOK
  BY <1>1, <1>2, HoldsSound
<1>3. ASSUME CountsAlone, ThresholdsAscend
      PROVE  Spec => []TimersSound
  <2>1. ClockTypeOK /\ DelayTypeOK /\ WaitsAlarmed /\ CacheSound /\ CacheTypeOK
        /\ commands \in 0..MaxCommands => TimersSound
    BY DEF TimersSound, TypeOK
  <2>2. Spec => []Holds(cache)
    BY <1>3, RowsInvariant
  <2>3. Inv /\ Holds(cache) => CacheSound /\ CacheTypeOK
    BY <1>2
  <2>4. QED
    BY <2>1, <2>2, <2>3, InvHolds, WaitersAreAlarmed, CommandsCounted, PTL
<1>4. QED
  BY <1>3

=============================================================================
