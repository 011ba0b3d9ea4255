-------------------------- MODULE PeerQueueProofs --------------------------
(***************************************************************************)
(* What the fence of a queue directory is worth, for any number of         *)
(* producers and commands, any size of the files, any clock that is not    *)
(* behind the header when a file is put, and any number of stops:          *)
(* FilesSound and PerformedInOrder.                                        *)
(***************************************************************************)
EXTENDS PeerQueue, SequenceTheorems, SequenceLemmas, TLAPS

Name == Nat \X Nat
AtMost(a, b) == a = b \/ Before(a, b)

(* The name of a file is a time and a count, and names are ordered.        *)
LEMMA BeforeIsOrder ==
  /\ \A a, b, c \in Name : Before(a, b) /\ Before(b, c) => Before(a, c)
  /\ \A a, b \in Name : a = b \/ Before(a, b) \/ Before(b, a)
  /\ \A a, b \in Name : ~(Before(a, b) /\ Before(b, a))
  /\ \A a \in Name : ~Before(a, a)
  /\ \A a \in Name : AtMost(<<0, 0>>, a)
BY DEF Name, Before, AtMost

(* A part of an order may be left out.                                     *)
LEMMA AtMostIsOrder ==
  /\ \A a, b, c \in Name : AtMost(a, b) /\ AtMost(b, c) => AtMost(a, c)
  /\ \A a, b, c \in Name : Before(a, b) /\ AtMost(b, c) => Before(a, c)
  /\ \A a, b, c \in Name : AtMost(a, b) /\ Before(b, c) => Before(a, c)
  /\ \A a, b \in Name : AtMost(a, b) => ~Before(b, a)
  /\ \A a, b \in Name : ~Before(a, b) => AtMost(b, a)
BY BeforeIsOrder DEF AtMost

(* The name of the shared file is not below the header, ...                *)
LEMMA IntervalNameIs ==
  ASSUME NEW now \in Time, header \in Name
  PROVE  IntervalName(now) \in Name /\ AtMost(header, IntervalName(now))
<1>1. QSec \in Nat \ {0} /\ now \in Nat
  BY QueueAssumption DEF Time
<1>2. now \div QSec \in Nat
  BY <1>1
<1>3. Interval(now) \in Nat
  BY <1>1, <1>2 DEF Interval
<1>4. PICK i \in Nat : i = Interval(now)
  BY <1>3
<1>5. QED
  BY <1>4 DEF IntervalName, Name, AtMost, Before

(* ... and rises with a next name.  The name itself is above the old one,  *)
(* unless the clock is behind.                                             *)
LEMMA NextNameIs ==
  ASSUME NEW now \in Time, header \in Name
  PROVE  /\ NextName(now) \in Name /\ HeaderAfter(NextName(now)) \in Name
         /\ Before(header, HeaderAfter(NextName(now)))
         /\ AtMost(NextName(now), HeaderAfter(NextName(now)))
         /\ ~Behind(now) => /\ Before(header, NextName(now))
                            /\ HeaderAfter(AfterUnique(NextName(now))) \in Name
                            /\ Before(NextName(now), HeaderAfter(AfterUnique(NextName(now))))
<1>1. now \in Nat
  BY QueueAssumption DEF Time
<1>2. PICK t \in Nat, k \in Nat : header = <<t, k>>
  BY DEF Name
<1>3. header[1] = t /\ header[2] = k
  BY <1>2
<1>4. CASE now > t
  <2>1. NextName(now) = <<now, 0>> /\ ~Before(<<now, 0>>, header) /\ ~Before(<<now, 1>>, header)
    BY <1>1, <1>3, <1>4 DEF NextName, Before
  <2>2. HeaderAfter(<<now, 0>>) = <<now, 0>> /\ HeaderAfter(<<now, 1>>) = <<now, 1>>
        /\ AfterUnique(<<now, 0>>) = <<now, 1>>
    BY <2>1 DEF HeaderAfter, AfterUnique
  <2>3. QED
    BY <1>1, <1>2, <1>4, <2>1, <2>2 DEF Name, Before, AtMost
<1>5. CASE now = t
  <2>1. /\ NextName(now) = <<t, k + 1>>
        /\ ~Before(<<t, k + 1>>, header) /\ ~Before(<<t, k + 2>>, header)
    BY <1>1, <1>2, <1>3, <1>5 DEF NextName, Before
  <2>2. HeaderAfter(<<t, k + 1>>) = <<t, k + 1>> /\ HeaderAfter(<<t, k + 2>>) = <<t, k + 2>>
        /\ AfterUnique(<<t, k + 1>>) = <<t, k + 2>>
    BY <1>2, <2>1 DEF HeaderAfter, AfterUnique
  <2>3. QED
    BY <1>1, <1>2, <1>5, <2>1, <2>2 DEF Name, Before, AtMost
<1>6. CASE now < t
  <2>1. NextName(now) = <<now, k + 1>> /\ Before(<<now, k + 1>>, header) /\ Behind(now)
    BY <1>1, <1>2, <1>3, <1>6 DEF NextName, Before, Behind
  <2>2. HeaderAfter(<<now, k + 1>>) = <<t, k + 1>>
    BY <1>3, <2>1 DEF HeaderAfter
  <2>3. QED
    BY <1>1, <1>2, <1>6, <2>1, <2>2 DEF Name, Before, AtMost
<1>7. QED
  BY <1>1, <1>4, <1>5, <1>6

-----------------------------------------------------------------------------
(* The types.                                                              *)

Entry == [command : Producers \X Nat, mark : BOOLEAN]
Holder == Producers \cup {NoOne, "consumer"}
FileType == [name : Name, linked : BOOLEAN, data : Seq(Entry), lock : Holder, taken : BOOLEAN]
ProdType(C) == [pc : {"idle", "named", "opened", "locked", "putting"}, begun : Nat,
                name : Name, file : C \cup {Nothing}, fenced : BOOLEAN]
ConsType(C) == [pc : {"idle", "listing", "next", "read", "mark", "truncate", "remove", "empty"},
                fence : Name, list : SUBSET Name, file : C \cup {Nothing}, eof : Nat, pos : Nat]
FateType == [command : Producers \X Nat, taken : BOOLEAN, fenced : BOOLEAN]

-----------------------------------------------------------------------------
(* The inductive invariant, of the values of the variables: the header h,  *)
(* the files f, the producers r, the consumer c, the histories w (waiting),*)
(* d (done) and a (again).                                                 *)

In(f, i) == i \in DOMAIN f /\ f[i].linked
Lies(f, i, j, p, k) ==
  i \in DOMAIN f /\ j \in 1..Len(f[i].data) /\ f[i].data[j].command = <<p, k>>
Unmarked(f, i, j, p, k) == Lies(f, i, j, p, k) /\ ~f[i].data[j].mark

Active(r, p) == p \in Producers /\ r[p].pc # "idle"
Naming(r, p) == p \in Producers /\ r[p].pc \in {"named", "putting"}
Holding(r, p) == p \in Producers /\ r[p].pc \in {"opened", "locked"}
Holds(r, p, i) == Holding(r, p) /\ r[p].file = i
Target(f, r, p) == IF Holding(r, p) THEN f[r[p].file].name ELSE r[p].name
(* The command k of p has been stored, or refused; has no file yet.        *)
Stored(r, p, k) ==
  /\ p \in Producers /\ k \in Nat
  /\ k < r[p].begun \/ (k = r[p].begun /\ r[p].pc = "idle")
Later(r, p, k) ==
  /\ p \in Producers /\ k \in Nat
  /\ k > r[p].begun \/ (k = r[p].begun /\ Naming(r, p))

Reading(c) == c.pc \in {"read", "mark", "truncate", "remove", "empty"}
(* The entry j has been appended since the consumer looked.                *)
Beyond(c, j) == c.pc \in {"remove", "empty"} \/ j > c.eof
(* The entry j of the file i is being marked.                              *)
AtMark(c, i, j) == c.pc = "mark" /\ c.file = i /\ c.pos = j

Values(h, f, r, c, w, d, a) ==
  /\ h \in Name
  /\ f \in [DOMAIN f -> FileType] /\ DOMAIN f \subseteq Producers \X Nat
  /\ r \in [Producers -> ProdType(DOMAIN f)] /\ c \in ConsType(DOMAIN f)
  /\ d \in [Producers -> Seq(Nat)] /\ w \in SUBSET FateType /\ a \in SUBSET (Producers \X Nat)
  /\ \A p \in Producers : /\ Active(r, p) => <<p, r[p].begun>> \in DOMAIN f
                          /\ Holding(r, p) => r[p].file \in DOMAIN f
  /\ Reading(c) => c.file \in DOMAIN f

(* A name is given to one file; a file is made for one command.            *)
Directory(h, f, r) ==
  /\ \A i : In(f, i) => AtMost(f[i].name, h)
  /\ \A i, i2 : In(f, i) /\ In(f, i2) /\ f[i].name = f[i2].name => i = i2
  /\ \A p : Active(r, p) => AtMost(Target(f, r, p), h)
  /\ \A p : Active(r, p) /\ r[p].pc = "putting" =>
       /\ Before(r[p].name, h)
       /\ \A i : In(f, i) => f[i].name # r[p].name
       /\ \A q : Naming(r, q) /\ q # p => r[q].name # r[p].name
  /\ \A p, k : Later(r, p, k) => ~In(f, <<p, k>>) /\ \A q : ~Holds(r, q, <<p, k>>)

(* Who got a name since the fence rose got one that is not below it, and   *)
(* has no file that the consumer has opened.                               *)
Fence(h, f, r, c) ==
  /\ \A i : In(f, i) /\ f[i].taken => Before(f[i].name, h)
  /\ \A n \in c.list : Before(n, h)
  /\ c.pc = "listing" => AtMost(c.fence, h)
  /\ \A p, i : Holds(r, p, i) /\ ~In(f, i) => f[i].taken /\ r[p].fenced
  /\ \A p : Active(r, p) /\ ~r[p].fenced =>
       /\ \A n \in c.list : Before(n, Target(f, r, p))
       /\ c.pc = "listing" => AtMost(c.fence, Target(f, r, p))
       /\ \A i : In(f, i) /\ f[i].taken => Before(f[i].name, Target(f, r, p))

(* The file being read is the first of the list, and what it has before    *)
(* the position is marked.                                                 *)
Position(f, c) ==
  Reading(c) =>
    /\ In(f, c.file) /\ f[c.file].taken
    /\ f[c.file].name \in c.list
    /\ \A n \in c.list : n # f[c.file].name => Before(f[c.file].name, n)
    /\ \A j, p, k : Unmarked(f, c.file, j, p, k) =>
         /\ c.pc = "read" => j > c.pos
         /\ c.pc = "mark" => j >= c.pos
         /\ c.pc = "truncate" => j > c.eof
    /\ c.pc \in {"read", "mark", "truncate"} => c.eof <= Len(f[c.file].data)
    /\ c.pc \in {"read", "mark"} => c.pos <= c.eof
    /\ c.pc = "mark" => c.pos >= 1

(* What is in a file, is waiting or has been done has been stored.         *)
Known(f, r, w, d) ==
  /\ \A i, j, p, k : Lies(f, i, j, p, k) => Stored(r, p, k)
  /\ \A x \in w : Stored(r, x.command[1], x.command[2])
  /\ \A p \in Producers : \A m \in 1..Len(d[p]) : Stored(r, p, d[p][m])

(* What waits is in a file, or was appended to one the consumer had.       *)
Waiting(f, c, w) ==
  \A x \in w :
    /\ x.taken => x.fenced
    /\ x.taken \/ \E i, j : In(f, i) /\ Unmarked(f, i, j, x.command[1], x.command[2])
    /\ Reading(c) => \A j : Unmarked(f, c.file, j, x.command[1], x.command[2]) =>
         (Beyond(c, j) => x.taken) /\ ~AtMark(c, c.file, j)

(* The commands of a process lie in its files in the order it stored them; *)
(* what the pass of the consumer leaves out is later than what it reads.   *)
Sequence(f, r, c) ==
  /\ \A i, j, j2, p, k, k2 : Lies(f, i, j, p, k) /\ Lies(f, i, j2, p, k2) /\ j < j2 => k < k2
  /\ \A i, i2, j, j2, p, k, k2 :
       /\ In(f, i) /\ Lies(f, i, j, p, k) /\ In(f, i2) /\ Lies(f, i2, j2, p, k2)
       /\ Before(f[i].name, f[i2].name) \/ (f[i].name \in c.list /\ f[i2].name \notin c.list)
       => k < k2
  /\ \A i, j, p, k : In(f, i) /\ Lies(f, i, j, p, k) /\ Active(r, p) =>
       /\ AtMost(f[i].name, Target(f, r, p))
       /\ Target(f, r, p) \in c.list => f[i].name \in c.list

(* What is still to be done comes after what has been, or is done again.   *)
Order(f, c, d, a) ==
  /\ \A i, j, p, k : In(f, i) /\ Unmarked(f, i, j, p, k) => \A m \in 1..Len(d[p]) :
       \/ d[p][m] < k
       \/ d[p][m] = k /\ (<<p, k>> \in a \/ AtMark(c, i, j))
  /\ \A p \in Producers : \A m \in 1..(Len(d[p]) - 1) :
       d[p][m] < d[p][m + 1] \/ <<p, d[p][m + 1]>> \in a

Queue(h, f, r, c, w, d, a) ==
  /\ Values(h, f, r, c, w, d, a)
  /\ Directory(h, f, r) /\ Fence(h, f, r, c)
  /\ Position(f, c) /\ Known(f, r, w, d) /\ Waiting(f, c, w)
  /\ Sequence(f, r, c) /\ Order(f, c, d, a)

QueueInv ==
  /\ load \in Loads /\ DOMAIN files = Commands
  /\ Queue(header, files, prod, cons, waiting, done, again)

-----------------------------------------------------------------------------
(* What the changes of a file, of a producer and of the consumer amount to *)
(* in these terms.                                                         *)

(* An entry of a file is a command.                                        *)
LEMMA LiesIs ==
  ASSUME NEW f, f \in [DOMAIN f -> FileType], NEW i, NEW j, NEW p, NEW k, Lies(f, i, j, p, k)
  PROVE  i \in DOMAIN f /\ j \in Nat /\ j >= 1 /\ p \in Producers /\ k \in Nat
<1>1. i \in DOMAIN f /\ f[i].data \in Seq(Entry) /\ j \in 1..Len(f[i].data)
  BY DEF Lies, FileType
<1>2. f[i].data[j] \in Entry /\ Len(f[i].data) \in Nat
  BY <1>1
<1>3. <<p, k>> \in Producers \X Nat
  BY <1>2 DEF Lies, Entry
<1>4. QED
  BY <1>1, <1>2, <1>3

(* Two sets of files that differ in who holds the locks.                   *)
SameView(f, g) ==
  /\ DOMAIN g = DOMAIN f /\ g \in [DOMAIN f -> FileType]
  /\ \A i \in DOMAIN f : /\ g[i].name = f[i].name /\ g[i].linked = f[i].linked
                         /\ g[i].data = f[i].data /\ g[i].taken = f[i].taken

(* Locks do not matter to the invariant.                                   *)
LEMMA ViewKept ==
  ASSUME NEW h, NEW f, NEW r, NEW c, NEW w, NEW d, NEW a, Queue(h, f, r, c, w, d, a),
         NEW g, SameView(f, g)
  PROVE  Queue(h, g, r, c, w, d, a)
<1>1. \A i : In(g, i) <=> In(f, i)
  BY DEF SameView, In
<1>2. \A i, j, p, k : Lies(g, i, j, p, k) <=> Lies(f, i, j, p, k)
  BY DEF SameView, Lies
<1>3. \A i, j, p, k : Unmarked(g, i, j, p, k) <=> Unmarked(f, i, j, p, k)
  BY <1>2 DEF SameView, Lies, Unmarked
<1>4. \A i : In(f, i) => g[i].name = f[i].name /\ g[i].taken = f[i].taken
  BY DEF SameView, In
<1>5. \A p : Active(r, p) => Target(g, r, p) = Target(f, r, p)
  BY DEF SameView, Target, Queue, Values, Holding, Active
<1>6. \A p, i : Holds(r, p, i) => g[i].taken = f[i].taken
  BY DEF SameView, Holds, Holding, Queue, Values
<1>7. Values(h, g, r, c, w, d, a)
  BY DEF Queue, Values, SameView
<1>8. Directory(h, g, r)
  BY <1>1, <1>4, <1>5 DEF Queue, Directory
<1>9. Fence(h, g, r, c)
  BY <1>1, <1>4, <1>5, <1>6 DEF Queue, Fence
<1>10. Position(g, c)
  <2>1. Reading(c) => g[c.file].name = f[c.file].name /\ g[c.file].taken = f[c.file].taken
                      /\ g[c.file].data = f[c.file].data
    BY DEF Queue, Values, SameView
  <2>2. QED
    BY <1>1, <1>3, <2>1 DEF Queue, Position
<1>11. Known(g, r, w, d)
  BY <1>2 DEF Queue, Known
<1>12. Waiting(g, c, w)
  BY <1>1, <1>3 DEF Queue, Waiting
<1>13. Sequence(g, r, c)
  BY <1>1, <1>2, <1>4, <1>5 DEF Queue, Sequence
<1>14. Order(g, c, d, a)
  BY <1>1, <1>3 DEF Queue, Order
<1>15. QED
  BY <1>7, <1>8, <1>9, <1>10, <1>11, <1>12, <1>13, <1>14 DEF Queue

(* More commands that may be done again.                                   *)
LEMMA MoreAgain ==
  ASSUME NEW h, NEW f, NEW r, NEW c, NEW w, NEW d, NEW a, Queue(h, f, r, c, w, d, a),
         NEW b \in SUBSET (Producers \X Nat), a \subseteq b
  PROVE  Queue(h, f, r, c, w, d, b)
<1>1. Values(h, f, r, c, w, d, b)
  BY DEF Queue, Values
<1>2. Order(f, c, d, b)
  BY DEF Queue, Order
<1>3. QED
  BY <1>1, <1>2 DEF Queue

(* The consumer gives up its pass.                                         *)
LEMMA PassEnds ==
  ASSUME NEW h, NEW f, NEW r, NEW c, NEW w, NEW d, NEW a, Queue(h, f, r, c, w, d, a),
         \A p, k : c.pc = "mark" /\ Lies(f, c.file, c.pos, p, k) => <<p, k>> \in a
  PROVE  Queue(h, f, r, ConsIdle, w, d, a)
<1>1. ConsIdle.pc = "idle" /\ ConsIdle.list = {} /\ ~Reading(ConsIdle)
  BY DEF ConsIdle, Reading
<1>2. \A i, j : ~AtMark(ConsIdle, i, j)
  BY <1>1 DEF AtMark
<1>3. ConsIdle \in ConsType(DOMAIN f)
  BY DEF ConsIdle, ConsType, Name
<1>4. Values(h, f, r, ConsIdle, w, d, a)
  BY <1>1, <1>3 DEF Queue, Values
<1>5. Fence(h, f, r, ConsIdle)
  BY <1>1 DEF Queue, Fence
<1>6. Position(f, ConsIdle) /\ Waiting(f, ConsIdle, w)
  BY <1>1 DEF Queue, Position, Waiting
<1>7. Sequence(f, r, ConsIdle)
  BY <1>1 DEF Queue, Sequence
<1>8. Order(f, ConsIdle, d, a)
  BY <1>2 DEF Queue, Order, AtMark, Unmarked
<1>9. QED
  BY <1>4, <1>5, <1>6, <1>7, <1>8 DEF Queue

(* All names compared are names.                                           *)
LEMMA NamesAre ==
  ASSUME NEW h, NEW f, NEW r, NEW c, NEW w, NEW d, NEW a, Queue(h, f, r, c, w, d, a)
  PROVE  /\ h \in Name /\ c.fence \in Name /\ c.list \subseteq Name
         /\ \A i \in DOMAIN f : f[i].name \in Name
         /\ \A i : In(f, i) => i \in DOMAIN f /\ f[i].name \in Name
         /\ \A p \in Producers : r[p].name \in Name /\ Target(f, r, p) \in Name
<1>1. h \in Name /\ c.fence \in Name /\ c.list \subseteq Name
  BY DEF Queue, Values, ConsType
<1>2. \A i \in DOMAIN f : f[i].name \in Name
  BY DEF Queue, Values, FileType
<1>3. \A p \in Producers : r[p].name \in Name
  BY DEF Queue, Values, ProdType
<1>4. \A p \in Producers : Target(f, r, p) \in Name
  BY <1>2, <1>3 DEF Target, Holding, Queue, Values
<1>5. QED
  BY <1>1, <1>2, <1>3, <1>4 DEF In

(* The fence rises: all who have begun are known to it.                    *)
FenceRaised(e, r, s, c) ==
  /\ s \in [Producers -> [pc : {"idle", "named", "opened", "locked", "putting"}, begun : Nat,
                          name : Name, file : {r[p].file : p \in Producers}, fenced : BOOLEAN]]
  /\ \A p \in Producers : /\ s[p].pc = r[p].pc /\ s[p].begun = r[p].begun
                          /\ s[p].name = r[p].name /\ s[p].file = r[p].file
                          /\ r[p].pc # "idle" => s[p].fenced
  /\ c = [ConsIdle EXCEPT !.pc = "listing", !.fence = e]

(* OpenDir keeps the invariant.                                            *)
LEMMA RaisesFence ==
  ASSUME NEW h, NEW f, NEW r, NEW c, NEW w, NEW d, NEW a, Queue(h, f, r, c, w, d, a),
         c.pc = "idle", NEW e \in Name, Before(h, e), NEW t \in Name, AtMost(t, e),
         NEW s, NEW b, FenceRaised(t, r, s, b)
  PROVE  Queue(e, f, s, b, w, d, a)
<1>1. b.pc = "listing" /\ b.fence = t /\ b.list = {} /\ ~Reading(b)
  BY DEF FenceRaised, ConsIdle, Reading
<1>2. /\ \A p : Active(s, p) <=> Active(r, p)
      /\ \A p : Naming(s, p) <=> Naming(r, p)
      /\ \A p : Holding(s, p) <=> Holding(r, p)
      /\ \A p, i : Holds(s, p, i) <=> Holds(r, p, i)
      /\ \A p, k : Stored(s, p, k) <=> Stored(r, p, k)
      /\ \A p, k : Later(s, p, k) <=> Later(r, p, k)
  BY DEF FenceRaised, Active, Naming, Holding, Holds, Stored, Later
<1>3. \A p \in Producers : Target(f, s, p) = Target(f, r, p)
  BY <1>2 DEF FenceRaised, Target
<1>4. \A p : Active(s, p) => s[p].fenced /\ p \in Producers
  BY DEF FenceRaised, Active
<1>5. \A p : Holds(r, p, p) \/ Active(r, p) \/ Naming(r, p) => p \in Producers
  BY DEF Holds, Holding, Active, Naming
<1>6. Values(e, f, s, b, w, d, a)
  <2>1. b \in ConsType(DOMAIN f)
    BY DEF FenceRaised, ConsIdle, ConsType, Name
  <2>2. s \in [Producers -> ProdType(DOMAIN f)]
    BY DEF FenceRaised, ProdType, Queue, Values
  <2>3. \A p \in Producers : /\ Active(s, p) => <<p, s[p].begun>> \in DOMAIN f
                             /\ Holding(s, p) => s[p].file \in DOMAIN f
    BY <1>2 DEF FenceRaised, Queue, Values
  <2>4. QED
    BY <1>1, <2>1, <2>2, <2>3 DEF Queue, Values
<1>7. \A n \in Name : AtMost(n, h) => Before(n, e)
  BY NamesAre, AtMostIsOrder
<1>8. \A n \in Name : Before(n, h) => Before(n, e)
  BY NamesAre, BeforeIsOrder
<1>9. Directory(e, f, s)
  <2>1. \A i : In(f, i) => AtMost(f[i].name, e)
    BY <1>7, NamesAre DEF Queue, Directory, AtMost
  <2>2. \A p : Active(s, p) => AtMost(Target(f, s, p), e)
    BY <1>2, <1>3, <1>5, <1>7, NamesAre DEF Queue, Directory, AtMost
  <2>3. \A p : Active(s, p) /\ s[p].pc = "putting" =>
          /\ Before(s[p].name, e)
          /\ \A i : In(f, i) => f[i].name # s[p].name
          /\ \A q : Naming(s, q) /\ q # p => s[q].name # s[p].name
    BY <1>2, <1>5, <1>8, NamesAre DEF Queue, Directory, FenceRaised
  <2>4. QED
    BY <1>2, <2>1, <2>2, <2>3 DEF Queue, Directory
<1>10. Fence(e, f, s, b)
  <2>1. \A i : In(f, i) /\ f[i].taken => Before(f[i].name, e)
    BY <1>8, NamesAre DEF Queue, Fence
  <2>2. \A p, i : Holds(s, p, i) /\ ~In(f, i) => f[i].taken /\ s[p].fenced
    BY <1>2, <1>4 DEF Queue, Fence, Holds, Holding, Active
  <2>3. AtMost(b.fence, e)
    BY <1>1
  <2>4. QED
    BY <1>1, <1>4, <2>1, <2>2, <2>3 DEF Fence
<1>11. Position(f, b)
  BY <1>1 DEF Position
<1>12. Known(f, s, w, d)
  BY <1>2 DEF Queue, Known
<1>13. Waiting(f, b, w)
  BY <1>1 DEF Queue, Waiting
<1>14. Sequence(f, s, b)
  <2>1. \A i, j, p, k : In(f, i) /\ Lies(f, i, j, p, k) /\ Active(s, p) =>
          AtMost(f[i].name, Target(f, s, p))
    BY <1>2, <1>3, <1>5 DEF Queue, Sequence
  <2>2. QED
    BY <1>1, <2>1 DEF Queue, Sequence
<1>15. Order(f, b, d, a)
  BY <1>1 DEF Queue, Order, AtMark
<1>16. QED
  BY <1>6, <1>9, <1>10, <1>11, <1>12, <1>13, <1>14, <1>15 DEF Queue

(* ListFiles: the list has the names below the fence.                      *)
LEMMA Lists ==
  ASSUME NEW h, NEW f, NEW r, NEW c, NEW w, NEW d, NEW a, Queue(h, f, r, c, w, d, a),
         c.pc = "listing", NEW L,
         L = {n \in {f[i].name : i \in {j \in DOMAIN f : f[j].linked}} : Before(n, c.fence)},
         NEW b, b = Going(L)
  PROVE  Queue(h, f, r, b, w, d, a)
<1>1. /\ \A n \in L : n \in Name /\ Before(n, c.fence)
      /\ \A i : In(f, i) => (f[i].name \in L <=> Before(f[i].name, c.fence))
  BY NamesAre DEF In
<1>2. b.list = L /\ b.pc \in {"idle", "next"} /\ ~Reading(b)
  BY DEF Going, ConsIdle, Reading
<1>3. \A i, j : ~AtMark(b, i, j) /\ ~AtMark(c, i, j)
  BY <1>2 DEF AtMark
<1>4. AtMost(c.fence, h) /\ c.fence \in Name
  BY NamesAre DEF Queue, Fence
<1>5. b \in ConsType(DOMAIN f)
  BY <1>1 DEF Going, ConsIdle, ConsType, Name
<1>6. Values(h, f, r, b, w, d, a)
  BY <1>2, <1>5 DEF Queue, Values
<1>7. Fence(h, f, r, b)
  <2>1. \A n \in L : Before(n, h)
    BY <1>1, <1>4, NamesAre, AtMostIsOrder
  <2>2. ASSUME NEW p, Active(r, p), ~r[p].fenced
        PROVE  \A n \in L : Before(n, Target(f, r, p))
    <3>1. AtMost(c.fence, Target(f, r, p)) /\ p \in Producers
      BY SMTT(60), <2>2 DEF Queue, Fence, Active
    <3>2. QED
      BY <1>1, <1>4, <3>1, NamesAre, AtMostIsOrder
  <2>3. QED
    BY <1>2, <2>1, <2>2 DEF Queue, Fence
<1>8. Position(f, b) /\ Waiting(f, b, w)
  BY <1>2 DEF Queue, Position, Waiting
<1>9. Sequence(f, r, b)
  <2>1. \A i, i2 : In(f, i) /\ In(f, i2) /\ f[i].name \in L /\ f[i2].name \notin L =>
                     Before(f[i].name, f[i2].name)
    BY <1>1, <1>4, NamesAre, AtMostIsOrder
  <2>2. ASSUME NEW i, NEW j, NEW p, NEW k, In(f, i), Lies(f, i, j, p, k), Active(r, p),
               Target(f, r, p) \in L
        PROVE  f[i].name \in L
    <3>1. AtMost(f[i].name, Target(f, r, p)) /\ p \in Producers
      BY <2>2 DEF Queue, Sequence, Active
    <3>2. Before(Target(f, r, p), c.fence)
      BY <1>1, <2>2
    <3>3. QED
      BY <1>1, <1>4, <2>2, <3>1, <3>2, NamesAre, AtMostIsOrder
  <2>3. QED
    BY <1>2, <2>1, <2>2 DEF Queue, Sequence
<1>10. Order(f, b, d, a)
  BY ZenonT(40), <1>3 DEF Queue, Order
<1>11. QED
  BY <1>6, <1>7, <1>8, <1>9, <1>10 DEF Queue

(* Two sets of files that differ in the file i.                            *)
ButFor(f, g, i) ==
  /\ DOMAIN g = DOMAIN f /\ g \in [DOMAIN f -> FileType] /\ i \in DOMAIN f
  /\ \A i2 \in DOMAIN f : i2 # i => g[i2] = f[i2]

(* The other files are as they were.                                       *)
LEMMA OthersKept ==
  ASSUME NEW f, NEW g, NEW i, ButFor(f, g, i)
  PROVE  /\ \A i2 : i2 # i => (In(g, i2) <=> In(f, i2))
         /\ \A i2, j, p, k : i2 # i => (Lies(g, i2, j, p, k) <=> Lies(f, i2, j, p, k))
         /\ \A i2, j, p, k : i2 # i => (Unmarked(g, i2, j, p, k) <=> Unmarked(f, i2, j, p, k))
<1>1. \A i2, j, p, k : i2 # i => (Lies(g, i2, j, p, k) <=> Lies(f, i2, j, p, k))
  BY DEF ButFor, Lies
<1>2. \A i2, j, p, k : i2 # i => (Unmarked(g, i2, j, p, k) <=> Unmarked(f, i2, j, p, k))
  BY <1>1 DEF ButFor, Lies, Unmarked
<1>3. QED
  BY <1>1, <1>2 DEF ButFor, In

(* A file keeps its name and its place in the directory.                   *)
NameKept(f, g, i) == g[i].name = f[i].name /\ g[i].linked = f[i].linked

(* All files keep their names then.                                        *)
LEMMA NamesKept ==
  ASSUME NEW h, NEW f, NEW r, NEW c, NEW w, NEW d, NEW a, Queue(h, f, r, c, w, d, a),
         NEW g, NEW i, ButFor(f, g, i), NameKept(f, g, i)
  PROVE  /\ \A i2 : In(g, i2) <=> In(f, i2)
         /\ \A i2 \in DOMAIN f : g[i2].name = f[i2].name
         /\ \A i2 : In(f, i2) => g[i2].name = f[i2].name
         /\ \A p : Active(r, p) => Target(g, r, p) = Target(f, r, p)
         /\ Directory(h, g, r)
<1>1. \A i2 : In(g, i2) <=> In(f, i2)
  BY DEF ButFor, NameKept, In
<1>2. \A i2 \in DOMAIN f : g[i2].name = f[i2].name
  BY DEF ButFor, NameKept
<1>3. \A i2 : In(f, i2) => g[i2].name = f[i2].name
  BY <1>2 DEF In
<1>4. \A p : Active(r, p) => Target(g, r, p) = Target(f, r, p)
  BY <1>2 DEF Target, Queue, Values, Holding, Active
<1>5. Directory(h, g, r)
  BY <1>1, <1>3, <1>4 DEF Queue, Directory
<1>6. QED
  BY <1>1, <1>2, <1>3, <1>4, <1>5

(* OpenFile: the consumer opens the first file of its list.                *)
Opened(f, g, i, c, b) ==
  /\ ButFor(f, g, i) /\ NameKept(f, g, i)
  /\ g[i].data = f[i].data /\ g[i].taken
  /\ b \in ConsType(DOMAIN f) /\ b.pc = (IF f[i].data = <<>> THEN "empty" ELSE "read")
  /\ b.list = c.list /\ b.file = i /\ b.eof = Len(f[i].data) /\ b.pos = 0

(* OpenFile keeps the invariant.                                           *)
LEMMA OpensFile ==
  ASSUME NEW h, NEW f, NEW r, NEW c, NEW w, NEW d, NEW a, Queue(h, f, r, c, w, d, a),
         c.pc = "next", NEW g, NEW i, NEW b, Opened(f, g, i, c, b), In(f, i),
         f[i].name \in c.list, \A n \in c.list \ {f[i].name} : Before(f[i].name, n)
  PROVE  Queue(h, g, r, b, w, d, a)
<1>1. ButFor(f, g, i) /\ NameKept(f, g, i) /\ Directory(h, g, r)
  BY NamesKept DEF Opened
<1>2. /\ \A i2 : In(g, i2) <=> In(f, i2)
      /\ \A i2 : In(f, i2) => g[i2].name = f[i2].name
      /\ \A p : Active(r, p) => Target(g, r, p) = Target(f, r, p)
  BY <1>1, NamesKept
<1>3. /\ \A i2, j, p, k : Lies(g, i2, j, p, k) <=> Lies(f, i2, j, p, k)
      /\ \A i2, j, p, k : Unmarked(g, i2, j, p, k) <=> Unmarked(f, i2, j, p, k)
  <2>1. \A j, p, k : Lies(g, i, j, p, k) <=> Lies(f, i, j, p, k)
    BY <1>1 DEF Opened, Lies, ButFor
  <2>2. \A j, p, k : Unmarked(g, i, j, p, k) <=> Unmarked(f, i, j, p, k)
    BY <2>1 DEF Opened, Unmarked
  <2>3. QED
    BY <1>1, <2>1, <2>2, OthersKept
<1>4. \A i2, j : ~AtMark(c, i2, j) /\ ~AtMark(b, i2, j)
  BY DEF AtMark, Opened
<1>5. Values(h, g, r, b, w, d, a)
  BY <1>1 DEF Queue, Values, Opened, ButFor
<1>6. Fence(h, g, r, b)
  <2>1. \A i2 : In(g, i2) /\ g[i2].taken => (In(f, i2) /\ f[i2].taken) \/ i2 = i
    BY <1>1, <1>2 DEF ButFor, In
  <2>2. \A i2 : In(g, i2) /\ g[i2].taken => Before(g[i2].name, h)
    BY <1>2, <2>1 DEF Queue, Fence
  <2>3. \A p, i2 : Holds(r, p, i2) /\ ~In(g, i2) => g[i2].taken /\ r[p].fenced
    BY <1>1, <1>2 DEF Queue, Fence, ButFor, Holds, Holding, Values
  <2>4. ASSUME NEW p, Active(r, p), ~r[p].fenced
        PROVE  /\ \A n \in b.list : Before(n, Target(g, r, p))
               /\ \A i2 : In(g, i2) /\ g[i2].taken => Before(g[i2].name, Target(g, r, p))
    BY <1>2, <2>1, <2>4 DEF Queue, Fence, Opened
  <2>5. QED
    BY <2>2, <2>3, <2>4 DEF Queue, Fence, Opened
<1>7. Position(g, b)
  <2>1. In(g, i) /\ g[i].taken /\ g[i].name = f[i].name
    BY <1>2 DEF Opened
  <2>2. \A j, p, k : Unmarked(g, i, j, p, k) => j > 0
    BY <1>1, LiesIs DEF Unmarked, ButFor
  <2>3. QED
    BY <2>1, <2>2 DEF Opened, Position
<1>8. Known(g, r, w, d)
  BY <1>3 DEF Queue, Known
<1>9. Waiting(g, b, w)
  <2>1. \A j, p, k : Unmarked(g, i, j, p, k) => ~Beyond(b, j)
    BY DEF Unmarked, Lies, Opened, Beyond
  <2>2. \A x \in w : \/ x.taken
                     \/ \E i2, j : In(g, i2) /\ Unmarked(g, i2, j, x.command[1], x.command[2])
    BY <1>2, <1>3 DEF Queue, Waiting
  <2>3. QED
    BY <1>4, <2>1, <2>2 DEF Queue, Waiting, Opened
<1>10. Sequence(g, r, b)
  BY <1>2, <1>3 DEF Queue, Sequence, Opened
<1>11. Order(g, b, d, a)
  BY <1>2, <1>3, <1>4 DEF Queue, Order
<1>12. QED
  BY <1>1, <1>5, <1>6, <1>7, <1>8, <1>9, <1>10, <1>11 DEF Queue

(* The consumer goes on through the file, which stays as it is.            *)
Along(c, b) == b.list = c.list /\ b.file = c.file /\ b.fence = c.fence

(* ReadMore: the new end of the file, or the end of the file for good.     *)
LEMMA ReadsMore ==
  ASSUME NEW h, NEW f, NEW r, NEW c, NEW w, NEW d, NEW a, Queue(h, f, r, c, w, d, a),
         c.pc = "read", \A j, p, k : Unmarked(f, c.file, j, p, k) => j > c.eof,
         NEW b \in ConsType(DOMAIN f), Along(c, b),
         \/ b.pc = "read" /\ b.pos = c.eof /\ b.eof = Len(f[c.file].data) /\ b.eof > c.eof
         \/ b.pc = "truncate" /\ b.eof = c.eof
  PROVE  Queue(h, f, r, b, w, d, a)
<1>1. \A i, j : ~AtMark(c, i, j) /\ ~AtMark(b, i, j)
  BY DEF AtMark
<1>2. Reading(c) /\ Reading(b) /\ c.eof \in Nat /\ b.eof \in Nat /\ b.eof >= c.eof
  BY DEF Reading, Queue, Values, ConsType
<1>3. Values(h, f, r, b, w, d, a)
  BY <1>2 DEF Queue, Values, Along
<1>4. Fence(h, f, r, b)
  BY DEF Queue, Fence, Along
<1>5. Position(f, b)
  <2>1. c.file \in DOMAIN f /\ Len(f[c.file].data) \in Nat
    BY <1>2 DEF Queue, Values, FileType
  <2>2. QED
    BY <1>2, <2>1 DEF Queue, Position, Along
<1>6. Waiting(f, b, w)
  <2>1. \A j, p, k : Unmarked(f, c.file, j, p, k) => j \in Nat
    BY LiesIs DEF Unmarked, Queue, Values
  <2>2. \A j \in Nat : Beyond(b, j) => Beyond(c, j)
    BY <1>2 DEF Beyond
  <2>3. QED
    BY <1>1, <1>2, <2>1, <2>2 DEF Queue, Waiting, Along
<1>7. Sequence(f, r, b)
  BY DEF Queue, Sequence, Along
<1>8. Order(f, b, d, a)
  BY <1>1 DEF Queue, Order
<1>9. QED
  BY <1>3, <1>4, <1>5, <1>6, <1>7, <1>8 DEF Queue

(* What is left of the file after the position: the first command that is  *)
(* not marked is the next of its process.                                  *)
LEMMA NextInLine ==
  ASSUME NEW h, NEW f, NEW r, NEW c, NEW w, NEW d, NEW a, Queue(h, f, r, c, w, d, a),
         c.pc = "read", NEW j, NEW p, NEW k, Unmarked(f, c.file, j, p, k),
         \A j2, q, k2 : Unmarked(f, c.file, j2, q, k2) => j2 >= j
  PROVE  \A i2, j2, k2 : In(f, i2) /\ Unmarked(f, i2, j2, p, k2) =>
                           k < k2 \/ (i2 = c.file /\ j2 = j /\ k2 = k)
<1>1. Reading(c) /\ Position(f, c)
  BY DEF Reading, Queue
<1>2. In(f, c.file) /\ Lies(f, c.file, j, p, k) /\ f[c.file].name \in c.list
  BY <1>1 DEF Position, Unmarked
<1>3. ASSUME NEW i2, NEW j2, NEW k2, In(f, i2), Unmarked(f, i2, j2, p, k2)
      PROVE  k < k2 \/ (i2 = c.file /\ j2 = j /\ k2 = k)
  <2>1. Lies(f, i2, j2, p, k2)
    BY <1>3 DEF Unmarked
  <2>2. j \in Nat /\ j2 \in Nat
    BY <1>2, <2>1, LiesIs DEF Queue, Values
  <2>3. CASE i2 = c.file /\ j2 # j
    <3>1. j < j2
      BY <1>3, <2>2, <2>3
    <3>2. QED
      BY <1>2, <2>1, <2>3, <3>1 DEF Queue, Sequence
  <2>4. CASE i2 = c.file /\ j2 = j
    BY <1>2, <2>1, <2>4 DEF Lies
  <2>5. CASE i2 # c.file
    <3>1. f[i2].name # f[c.file].name
      BY <1>2, <1>3, <2>5 DEF Queue, Directory
    <3>2. f[i2].name \in c.list => Before(f[c.file].name, f[i2].name)
      BY <1>1, <3>1 DEF Position
    <3>3. QED
      BY <1>2, <1>3, <2>1, <3>2 DEF Queue, Sequence
  <2>6. QED
    BY <2>3, <2>4, <2>5
<1>4. QED
  BY <1>3

(* Perform: a command is done and waits no more.                           *)
Done(f, c, b, j, p, k, w, x, d, e) ==
  /\ b \in ConsType(DOMAIN f) /\ Along(c, b) /\ b.eof = c.eof /\ b.pc = "mark" /\ b.pos = j
  /\ x = {y \in w : y.command # <<p, k>>}
  /\ e = [d EXCEPT ![p] = Append(@, k)]

(* Perform keeps the invariant.                                            *)
LEMMA Performs ==
  ASSUME NEW h, NEW f, NEW r, NEW c, NEW w, NEW d, NEW a, Queue(h, f, r, c, w, d, a),
         c.pc = "read", NEW j \in 1..c.eof, NEW p, NEW k, Unmarked(f, c.file, j, p, k),
         \A j2, q, k2 : Unmarked(f, c.file, j2, q, k2) => j2 >= j,
         NEW b, NEW x, NEW e, Done(f, c, b, j, p, k, w, x, d, e)
  PROVE  Queue(h, f, r, b, x, e, a)
<1>1. /\ b.pc = "mark" /\ b.pos = j /\ b.eof = c.eof /\ b.file = c.file
      /\ b.list = c.list /\ b.fence = c.fence
      /\ Reading(c) /\ Reading(b)
  BY DEF Done, Along, Reading
<1>2. Lies(f, c.file, j, p, k) /\ p \in Producers /\ k \in Nat /\ j \in Nat
  BY LiesIs DEF Unmarked, Queue, Values
<1>3. /\ e \in [Producers -> Seq(Nat)]
      /\ \A q \in Producers \ {p} : e[q] = d[q]
      /\ Len(d[p]) \in Nat /\ Len(e[p]) = Len(d[p]) + 1
      /\ \A m \in 1..Len(d[p]) : e[p][m] = d[p][m]
      /\ e[p][Len(d[p]) + 1] = k
  <2>1. d \in [Producers -> Seq(Nat)] /\ d[p] \in Seq(Nat)
    BY <1>2 DEF Queue, Values
  <2>2. PICK z \in Seq(Nat) : z = Append(d[p], k)
    BY <1>2, <2>1, AppendProperties
  <2>3. /\ Len(z) = Len(d[p]) + 1 /\ Len(d[p]) \in Nat
        /\ \A m \in 1..Len(d[p]) : z[m] = d[p][m]
        /\ z[Len(d[p]) + 1] = k
    BY <1>2, <2>1, <2>2, AppendProperties
  <2>4. e = [d EXCEPT ![p] = z]
    BY <2>2 DEF Done
  <2>5. e[p] = z
    BY <1>2, <2>1, <2>4
  <2>6. QED
    BY <1>2, <2>1, <2>3, <2>4, <2>5
<1>4. \A i2, j2 : ~AtMark(c, i2, j2) /\ (AtMark(b, i2, j2) <=> i2 = c.file /\ j2 = j)
  BY <1>1 DEF AtMark
<1>5. x \in SUBSET w /\ \A y \in x : y.command # <<p, k>>
  BY DEF Done
<1>6. Values(h, f, r, b, x, e, a)
  BY <1>1, <1>3, <1>5 DEF Queue, Values, Done
<1>7. Fence(h, f, r, b)
  BY <1>1 DEF Queue, Fence
<1>8. Position(f, b)
  BY <1>1 DEF Queue, Position
<1>9. Known(f, r, x, e)
  <2>1. Stored(r, p, k)
    BY <1>2 DEF Queue, Known
  <2>2. ASSUME NEW q \in Producers, NEW m \in 1..Len(e[q])
        PROVE  Stored(r, q, e[q][m])
    <3>1. CASE q = p /\ m = Len(d[p]) + 1
      BY <1>3, <2>1, <3>1
    <3>2. CASE q = p /\ m # Len(d[p]) + 1
      <4>1. m \in 1..Len(d[p]) /\ e[p][m] = d[p][m]
        BY SMTT(60), <1>3, <2>2, <3>2
      <4>2. QED
        BY <1>2, <3>2, <4>1 DEF Queue, Known
    <3>3. CASE q # p
      BY <1>3, <2>2, <3>3 DEF Queue, Known
    <3>4. QED
      BY <3>1, <3>2, <3>3
  <2>3. QED
    BY <1>5, <2>2 DEF Queue, Known
<1>10. Waiting(f, b, x)
  <2>1. ASSUME NEW y \in x, NEW j2, Unmarked(f, c.file, j2, y.command[1], y.command[2])
        PROVE  ~AtMark(b, c.file, j2)
    <3>1. CASE j2 = j
      <4>1. Lies(f, c.file, j, y.command[1], y.command[2])
        BY <2>1, <3>1 DEF Unmarked
      <4>2. y \in FateType
        BY <1>5 DEF Queue, Values
      <4>3. y.command = <<y.command[1], y.command[2]>>
        BY <4>2 DEF FateType
      <4>4. y.command = <<p, k>>
        BY <1>2, <4>1, <4>3 DEF Lies
      <4>5. QED
        BY <1>5, <4>4
    <3>2. QED
      BY <1>4, <3>1
  <2>2. \A j2 : Beyond(b, j2) <=> Beyond(c, j2)
    BY <1>1 DEF Beyond
  <2>3. QED
    BY <1>1, <1>5, <2>1, <2>2 DEF Queue, Waiting
<1>11. Sequence(f, r, b)
  BY <1>1 DEF Queue, Sequence
<1>12. Order(f, b, e, a)
  <2>0. \A i2, j2, k2 : In(f, i2) /\ Unmarked(f, i2, j2, p, k2) =>
                           k < k2 \/ (i2 = c.file /\ j2 = j /\ k2 = k)
    BY ZenonT(40), NextInLine
  <2>1. ASSUME NEW i2, NEW j2, NEW q, NEW k2, In(f, i2), Unmarked(f, i2, j2, q, k2),
               NEW m \in 1..Len(e[q])
        PROVE  \/ e[q][m] < k2
               \/ e[q][m] = k2 /\ (<<q, k2>> \in a \/ AtMark(b, i2, j2))
    <3>1. q \in Producers
      BY <2>1, LiesIs DEF Unmarked, Queue, Values
    <3>2. CASE q = p /\ m = Len(d[p]) + 1
      <4>1. k < k2 \/ (i2 = c.file /\ j2 = j /\ k2 = k)
        BY <2>0, <2>1, <3>2
      <4>2. e[q][m] = k
        BY <1>3, <3>2
      <4>3. QED
        BY <1>4, <4>1, <4>2
    <3>3. CASE q = p /\ m # Len(d[p]) + 1
      <4>1. m \in 1..Len(d[p]) /\ e[p][m] = d[p][m]
        BY <1>3, <2>1, <3>3
      <4>2. QED
        BY <1>4, <2>1, <3>3, <4>1 DEF Queue, Order
    <3>4. CASE q # p
      <4>1. e[q] = d[q]
        BY <1>3, <3>1, <3>4
      <4>2. QED
        BY <1>4, <2>1, <4>1 DEF Queue, Order
    <3>5. QED
      BY <3>2, <3>3, <3>4
  <2>2. ASSUME NEW q \in Producers, NEW m \in 1..Len(e[q]) - 1
        PROVE  e[q][m] < e[q][m + 1] \/ <<q, e[q][m + 1]>> \in a
    <3> DEFINE l == Len(d[p])
    <3>0. /\ l \in Nat /\ (q = p => m \in 1..l)
          /\ \A n \in 1..l : e[p][n] = d[p][n]
          /\ e[p][l + 1] = k
      BY SMTT(60), <1>3, <2>2
    <3> HIDE DEF l
    <3>1. CASE q = p /\ m = l
      <4>1. m \in 1..l /\ e[p][m] = d[p][m] /\ e[p][m + 1] = k
        BY <3>0, <3>1
      <4>2. In(f, c.file)
        BY <1>1 DEF Queue, Position
      <4>3. \/ d[p][m] < k
            \/ d[p][m] = k /\ (<<p, k>> \in a \/ AtMark(c, c.file, j))
        BY <4>1, <4>2 DEF Queue, Order, l
      <4>4. QED
        BY <1>4, <3>1, <4>1, <4>3
    <3>2. CASE q = p /\ m # l
      <4>1. m \in 1..l - 1 /\ m + 1 \in 1..l
        BY <3>0, <3>2
      <4>2. e[p][m] = d[p][m] /\ e[p][m + 1] = d[p][m + 1]
        BY <3>0, <3>2, <4>1
      <4>3. QED
        BY <1>2, <3>2, <4>1, <4>2 DEF Queue, Order, l
    <3>3. CASE q # p
      BY <1>3, <2>2, <3>3 DEF Queue, Order
    <3>4. QED
      BY <3>1, <3>2, <3>3
  <2>3. QED
    BY <2>1, <2>2 DEF Order
<1>13. QED
  BY <1>6, <1>7, <1>8, <1>9, <1>10, <1>11, <1>12 DEF Queue

(* Nobody gets another name, and no file is opened by the consumer.        *)
LEMMA FenceKept ==
  ASSUME NEW h, NEW f, NEW r, NEW c, NEW w, NEW d, NEW a, Queue(h, f, r, c, w, d, a),
         NEW g, NEW i, ButFor(f, g, i), NameKept(f, g, i), g[i].taken = f[i].taken,
         NEW b, b.list \subseteq c.list, b.pc # "listing"
  PROVE  Fence(h, g, r, b)
<1>1. /\ \A i2 : In(g, i2) <=> In(f, i2)
      /\ \A i2 : In(f, i2) => g[i2].name = f[i2].name
      /\ \A p : Active(r, p) => Target(g, r, p) = Target(f, r, p)
  BY NamesKept
<1>2. \A i2 \in DOMAIN f : g[i2].taken = f[i2].taken
  BY DEF ButFor
<1>3. \A p, i2 : Holds(r, p, i2) => i2 \in DOMAIN f
  BY DEF Holds, Holding, Queue, Values
<1>4. \A i2 : In(f, i2) => i2 \in DOMAIN f
  BY DEF In
<1>5. QED
  BY <1>1, <1>2, <1>3, <1>4 DEF Queue, Fence

(* Mark: the command at the position has its mark.                         *)
Marks(f, g, c, b) ==
  /\ ButFor(f, g, c.file) /\ NameKept(f, g, c.file) /\ g[c.file].taken = f[c.file].taken
  /\ Len(g[c.file].data) = Len(f[c.file].data)
  /\ \A j \in 1..Len(f[c.file].data) :
       /\ g[c.file].data[j].command = f[c.file].data[j].command
       /\ g[c.file].data[j].mark <=> f[c.file].data[j].mark \/ j = c.pos
  /\ b \in ConsType(DOMAIN f) /\ Along(c, b) /\ b.eof = c.eof /\ b.pos = c.pos /\ b.pc = "read"

(* Mark keeps the invariant.                                               *)
LEMMA MarksCommand ==
  ASSUME NEW h, NEW f, NEW r, NEW c, NEW w, NEW d, NEW a, Queue(h, f, r, c, w, d, a),
         c.pc = "mark", NEW g, NEW b, Marks(f, g, c, b)
  PROVE  Queue(h, g, r, b, w, d, a)
<1>1. /\ b.pc = "read" /\ b.pos = c.pos /\ b.eof = c.eof /\ b.file = c.file
      /\ b.list = c.list /\ b.fence = c.fence
      /\ Reading(c) /\ Reading(b)
  BY DEF Marks, Along, Reading
<1>2. ButFor(f, g, c.file) /\ NameKept(f, g, c.file) /\ g[c.file].taken = f[c.file].taken
  BY DEF Marks
<1>3. /\ Directory(h, g, r) /\ Fence(h, g, r, b)
      /\ \A i : In(g, i) <=> In(f, i)
      /\ \A i : In(f, i) => g[i].name = f[i].name
      /\ \A p : Active(r, p) => Target(g, r, p) = Target(f, r, p)
  BY <1>1, <1>2, NamesKept, FenceKept
<1>4. \A i, j, p, k : Lies(g, i, j, p, k) <=> Lies(f, i, j, p, k)
  <2>1. \A j, p, k : Lies(g, c.file, j, p, k) <=> Lies(f, c.file, j, p, k)
    BY <1>2 DEF Marks, Lies, ButFor
  <2>2. QED
    BY <1>2, <2>1, OthersKept
<1>5. \A i, j, p, k : Unmarked(g, i, j, p, k) <=> Unmarked(f, i, j, p, k) /\ ~AtMark(c, i, j)
  <2>1. \A j, p, k : Unmarked(g, c.file, j, p, k)
                       <=> Unmarked(f, c.file, j, p, k) /\ j # c.pos
    <3>1. \A j, p, k : Lies(f, c.file, j, p, k) => j \in 1..Len(f[c.file].data)
      BY DEF Lies
    <3>2. QED
      BY <1>4, <3>1 DEF Marks, Unmarked
  <2>2. QED
    BY <1>2, <2>1, OthersKept DEF AtMark
<1>6. \A i, j : ~AtMark(b, i, j)
  BY <1>1 DEF AtMark
<1>7. Values(h, g, r, b, w, d, a)
  BY <1>1, <1>2 DEF Queue, Values, ButFor, Marks
<1>8. Position(g, b)
  <2>1. In(f, c.file) /\ f[c.file].taken
    BY <1>1 DEF Queue, Position
  <2>2. \A j, p, k : Unmarked(g, c.file, j, p, k) => j > c.pos
    <3>1. ASSUME NEW j, NEW p, NEW k, Unmarked(g, c.file, j, p, k)
          PROVE  j > c.pos
      <4>1. Unmarked(f, c.file, j, p, k) /\ j # c.pos
        BY <1>5, <3>1 DEF AtMark
      <4>2. j >= c.pos /\ c.pos \in Nat /\ j \in Nat
        BY <1>1, <4>1, LiesIs DEF Queue, Position, Unmarked, Values, ConsType
      <4>3. QED
        BY <4>1, <4>2
    <3>2. QED
      BY <3>1
  <2>3. QED
    BY <1>1, <1>2, <1>3, <2>1, <2>2 DEF Queue, Position, Marks
<1>9. Known(g, r, w, d)
  BY <1>4 DEF Queue, Known
<1>10. Waiting(g, b, w)
  <2>1. ASSUME NEW x \in w, ~x.taken
        PROVE  \E i, j : In(g, i) /\ Unmarked(g, i, j, x.command[1], x.command[2])
    <3>1. PICK i, j : In(f, i) /\ Unmarked(f, i, j, x.command[1], x.command[2])
      BY <2>1 DEF Queue, Waiting
    <3>2. ~AtMark(c, i, j)
      <4>1. CASE i = c.file
        BY <1>1, <3>1, <4>1 DEF Queue, Waiting
      <4>2. CASE i # c.file
        BY <4>2 DEF AtMark
      <4>3. QED
        BY <4>1, <4>2
    <3>3. QED
      BY <1>3, <1>5, <3>1, <3>2
  <2>2. \A j : Beyond(b, j) <=> Beyond(c, j)
    BY <1>1 DEF Beyond
  <2>3. QED
    BY <1>1, <1>5, <1>6, <2>1, <2>2 DEF Queue, Waiting
<1>11. Sequence(g, r, b)
  BY <1>1, <1>3, <1>4 DEF Queue, Sequence
<1>12. Order(g, b, d, a)
  BY <1>3, <1>5, <1>6 DEF Queue, Order
<1>13. QED
  BY <1>3, <1>7, <1>8, <1>9, <1>10, <1>11, <1>12 DEF Queue

(* Truncate: the file is empty.                                            *)
Emptied(f, g, c, b) ==
  /\ ButFor(f, g, c.file) /\ NameKept(f, g, c.file) /\ g[c.file].taken = f[c.file].taken
  /\ g[c.file].data = <<>>
  /\ b \in ConsType(DOMAIN f) /\ Along(c, b) /\ b.pc = "remove"

(* Truncate keeps the invariant.                                           *)
LEMMA Truncates ==
  ASSUME NEW h, NEW f, NEW r, NEW c, NEW w, NEW d, NEW a, Queue(h, f, r, c, w, d, a),
         c.pc = "truncate", NEW g, NEW b, Emptied(f, g, c, b)
  PROVE  Queue(h, g, r, b, w, d, a)
<1>1. /\ b.pc = "remove" /\ b.file = c.file /\ b.list = c.list /\ b.fence = c.fence
      /\ Reading(c) /\ Reading(b)
  BY DEF Emptied, Along, Reading
<1>2. ButFor(f, g, c.file) /\ NameKept(f, g, c.file) /\ g[c.file].taken = f[c.file].taken
  BY DEF Emptied
<1>3. /\ Directory(h, g, r) /\ Fence(h, g, r, b)
      /\ \A i : In(g, i) <=> In(f, i)
      /\ \A i : In(f, i) => g[i].name = f[i].name
      /\ \A p : Active(r, p) => Target(g, r, p) = Target(f, r, p)
  BY <1>1, <1>2, NamesKept, FenceKept
<1>4. \A j, p, k : ~Lies(g, c.file, j, p, k)
  BY DEF Emptied, Lies
<1>5. /\ \A i, j, p, k : Lies(g, i, j, p, k) <=> Lies(f, i, j, p, k) /\ i # c.file
      /\ \A i, j, p, k : Unmarked(g, i, j, p, k) <=> Unmarked(f, i, j, p, k) /\ i # c.file
  <2>1. \A j, p, k : ~Unmarked(g, c.file, j, p, k)
    BY <1>4 DEF Unmarked
  <2>2. QED
    BY <1>2, <1>4, <2>1, OthersKept
<1>6. \A i, j : ~AtMark(c, i, j) /\ ~AtMark(b, i, j)
  BY <1>1 DEF AtMark
<1>7. Values(h, g, r, b, w, d, a)
  BY <1>1, <1>2 DEF Queue, Values, ButFor, Emptied
<1>8. Position(g, b)
  BY <1>1, <1>2, <1>3, <1>5 DEF Queue, Position
<1>9. Known(g, r, w, d)
  BY <1>5 DEF Queue, Known
<1>10. Waiting(g, b, w)
  <2>1. ASSUME NEW x \in w, ~x.taken
        PROVE  \E i, j : In(g, i) /\ Unmarked(g, i, j, x.command[1], x.command[2])
    <3>1. PICK i, j : In(f, i) /\ Unmarked(f, i, j, x.command[1], x.command[2])
      BY <2>1 DEF Queue, Waiting
    <3>2. i # c.file
      <4>1. SUFFICES ASSUME i = c.file
                     PROVE  FALSE
        OBVIOUS
      <4>2. j > c.eof
        BY <1>1, <3>1, <4>1 DEF Queue, Position
      <4>3. Beyond(c, j)
        BY <4>2 DEF Beyond
      <4>4. QED
        BY <1>1, <2>1, <3>1, <4>1, <4>3 DEF Queue, Waiting
    <3>3. QED
      BY <1>3, <1>5, <3>1, <3>2
  <2>2. QED
    BY <1>1, <1>5, <2>1 DEF Queue, Waiting
<1>11. Sequence(g, r, b)
  BY <1>1, <1>3, <1>5 DEF Queue, Sequence
<1>12. Order(g, b, d, a)
  BY <1>3, <1>5, <1>6 DEF Queue, Order
<1>13. QED
  BY <1>3, <1>7, <1>8, <1>9, <1>10, <1>11, <1>12 DEF Queue

(* RemoveFile: the directory has the file no more, and nobody has it who   *)
(* did not open it.                                                        *)
Removed(f, g, r, c) ==
  /\ ButFor(f, g, c.file) /\ ~g[c.file].linked
  /\ \/ g[c.file].name = f[c.file].name /\ g[c.file].data = f[c.file].data /\ g[c.file].taken
     \/ g[c.file].data = <<>> /\ \A p : ~Holds(r, p, c.file)

(* RemoveFile keeps the invariant.                                         *)
LEMMA Removes ==
  ASSUME NEW h, NEW f, NEW r, NEW c, NEW w, NEW d, NEW a, Queue(h, f, r, c, w, d, a),
         c.pc \in {"remove", "empty"}, NEW g, Removed(f, g, r, c),
         NEW b, b = Going(c.list \ {f[c.file].name})
  PROVE  Queue(h, g, r, b, w, d, a)
<1>1. /\ b.list = c.list \ {f[c.file].name} /\ b.pc \in {"idle", "next"}
      /\ Reading(c) /\ ~Reading(b)
  BY DEF Going, ConsIdle, Reading
<1>2. ButFor(f, g, c.file) /\ In(f, c.file) /\ f[c.file].taken
  BY <1>1 DEF Removed, Queue, Position
<1>3. /\ \A i : In(g, i) <=> In(f, i) /\ i # c.file
      /\ \A i : In(g, i) => g[i] = f[i]
  BY <1>2, OthersKept DEF Removed, ButFor, In
<1>4. \A i : In(g, i) => f[i].name # f[c.file].name
  BY <1>2, <1>3 DEF Queue, Directory
<1>5. \A i, j, p, k : Lies(g, i, j, p, k) => Lies(f, i, j, p, k)
  <2>1. \A j, p, k : Lies(g, c.file, j, p, k) => Lies(f, c.file, j, p, k)
    BY <1>2 DEF Removed, Lies, ButFor
  <2>2. QED
    BY <1>2, <2>1, OthersKept
<1>6. /\ \A i, j, p, k : In(g, i) => (Lies(g, i, j, p, k) <=> Lies(f, i, j, p, k))
      /\ \A i, j, p, k : In(g, i) => (Unmarked(g, i, j, p, k) <=> Unmarked(f, i, j, p, k))
  BY <1>2, <1>3, OthersKept
<1>7. \A p, i : Holds(r, p, i) => g[i].name = f[i].name /\ (g[i].taken <=> f[i].taken)
  BY <1>2 DEF Removed, ButFor, Holds, Holding, Queue, Values
<1>8. \A p : Active(r, p) => Target(g, r, p) = Target(f, r, p)
  BY <1>7 DEF Target, Holds
<1>9. \A i, j : ~AtMark(c, i, j) /\ ~AtMark(b, i, j)
  BY <1>1 DEF AtMark
<1>10. Values(h, g, r, b, w, d, a)
  <2>1. b \in ConsType(DOMAIN f)
    BY NamesAre DEF Going, ConsIdle, ConsType, Name
  <2>2. QED
    BY <1>1, <1>2, <2>1 DEF Queue, Values, ButFor
<1>11. Directory(h, g, r)
  BY <1>3, <1>8 DEF Queue, Directory
<1>12. Fence(h, g, r, b)
  <2>1. ASSUME NEW p, NEW i, Holds(r, p, i), ~In(g, i)
        PROVE  g[i].taken /\ r[p].fenced
    <3>1. CASE ~In(f, i)
      BY <1>7, <2>1, <3>1 DEF Queue, Fence
    <3>2. CASE i = c.file
      <4>1. g[i].taken
        BY <1>2, <1>7, <2>1, <3>2
      <4>2. Target(f, r, p) = f[c.file].name /\ Active(r, p)
        BY <2>1, <3>2 DEF Target, Holds, Holding, Active
      <4>3. ~Before(f[c.file].name, f[c.file].name)
        BY <1>2, NamesAre, BeforeIsOrder
      <4>4. r[p].fenced
        BY SMTT(60), <1>2, <4>2, <4>3 DEF Queue, Fence
      <4>5. QED
        BY <4>1, <4>4
    <3>3. QED
      BY <1>3, <2>1, <3>1, <3>2
  <2>2. QED
    BY <1>1, <1>3, <1>8, <2>1 DEF Queue, Fence
<1>13. Position(g, b)
  BY <1>1 DEF Position
<1>14. Known(g, r, w, d)
  BY <1>5 DEF Queue, Known
<1>15. Waiting(g, b, w)
  <2>1. ASSUME NEW x \in w, ~x.taken
        PROVE  \E i, j : In(g, i) /\ Unmarked(g, i, j, x.command[1], x.command[2])
    <3>1. PICK i, j : In(f, i) /\ Unmarked(f, i, j, x.command[1], x.command[2])
      BY <2>1 DEF Queue, Waiting
    <3>2. Beyond(c, j)
      BY DEF Beyond
    <3>3. i # c.file
      BY <1>1, <2>1, <3>1, <3>2 DEF Queue, Waiting
    <3>4. QED
      BY <1>3, <1>6, <3>1, <3>3
  <2>2. QED
    BY <1>1, <2>1 DEF Queue, Waiting
<1>16. Sequence(g, r, b)
  <2>1. \A i, j, j2, p, k, k2 : Lies(g, i, j, p, k) /\ Lies(g, i, j2, p, k2) /\ j < j2 => k < k2
    BY <1>5 DEF Queue, Sequence
  <2>2. \A i : In(g, i) => g[i].name = f[i].name /\ (g[i].name \in b.list <=> f[i].name \in c.list)
    BY <1>1, <1>3, <1>4
  <2>3. \A i, i2, j, j2, p, k, k2 :
          /\ In(g, i) /\ Lies(g, i, j, p, k) /\ In(g, i2) /\ Lies(g, i2, j2, p, k2)
          /\ Before(g[i].name, g[i2].name) \/ (g[i].name \in b.list /\ g[i2].name \notin b.list)
          => k < k2
    <3>1. ASSUME NEW i, NEW i2, NEW j, NEW j2, NEW p, NEW k, NEW k2,
                 In(g, i), Lies(g, i, j, p, k), In(g, i2), Lies(g, i2, j2, p, k2),
                 Before(g[i].name, g[i2].name) \/ (g[i].name \in b.list /\ g[i2].name \notin b.list)
          PROVE  k < k2
      <4>1. /\ In(f, i) /\ Lies(f, i, j, p, k) /\ In(f, i2) /\ Lies(f, i2, j2, p, k2)
            /\ Before(f[i].name, f[i2].name) \/ (f[i].name \in c.list /\ f[i2].name \notin c.list)
        BY <1>3, <1>5, <2>2, <3>1
      <4>2. QED
        BY <4>1 DEF Queue, Sequence
    <3>2. QED
      BY <3>1
  <2>4. \A i, j, p, k : In(g, i) /\ Lies(g, i, j, p, k) /\ Active(r, p) =>
          /\ AtMost(g[i].name, Target(g, r, p))
          /\ Target(g, r, p) \in b.list => g[i].name \in b.list
    <3>1. ASSUME NEW i, NEW j, NEW p, NEW k, In(g, i), Lies(g, i, j, p, k), Active(r, p)
          PROVE  /\ AtMost(g[i].name, Target(g, r, p))
                 /\ Target(g, r, p) \in b.list => g[i].name \in b.list
      <4>1. In(f, i) /\ Lies(f, i, j, p, k) /\ g[i].name = f[i].name
        BY <1>3, <1>5, <2>2, <3>1
      <4>2. /\ AtMost(f[i].name, Target(f, r, p))
            /\ Target(f, r, p) \in c.list => f[i].name \in c.list
        BY <3>1, <4>1 DEF Queue, Sequence
      <4>3. Target(g, r, p) = Target(f, r, p) /\ (Target(f, r, p) \in b.list => Target(f, r, p) \in c.list)
        BY <1>1, <1>8, <3>1
      <4>4. QED
        BY <2>2, <3>1, <4>1, <4>2, <4>3
    <3>2. QED
      BY <3>1
  <2>5. QED
    BY <2>1, <2>3, <2>4 DEF Sequence
<1>17. Order(g, b, d, a)
  BY <1>3, <1>6, <1>9 DEF Queue, Order
<1>18. QED
  BY <1>10, <1>11, <1>12, <1>13, <1>14, <1>15, <1>16, <1>17 DEF Queue

(* The producers but p go on as they were.                                 *)
Only(r, s, p, C) ==
  /\ s \in [Producers -> ProdType(C)] /\ p \in Producers
  /\ \A q \in Producers : q # p => s[q] = r[q]

(* What does not change about the others.                                  *)
LEMMA OthersGoOn ==
  ASSUME NEW r, NEW s, NEW p, NEW C, Only(r, s, p, C)
  PROVE  \A q : q # p =>
           /\ Active(s, q) <=> Active(r, q)
           /\ Naming(s, q) <=> Naming(r, q)
           /\ Holding(s, q) <=> Holding(r, q)
           /\ \A i : Holds(s, q, i) <=> Holds(r, q, i)
           /\ \A k : Stored(s, q, k) <=> Stored(r, q, k)
           /\ \A k : Later(s, q, k) <=> Later(r, q, k)
           /\ \A f : Active(r, q) => Target(f, s, q) = Target(f, r, q)
<1>1. ASSUME NEW q, q # p
      PROVE  /\ Active(s, q) <=> Active(r, q)
             /\ Naming(s, q) <=> Naming(r, q)
             /\ Holding(s, q) <=> Holding(r, q)
             /\ \A i : Holds(s, q, i) <=> Holds(r, q, i)
             /\ \A k : Stored(s, q, k) <=> Stored(r, q, k)
             /\ \A k : Later(s, q, k) <=> Later(r, q, k)
             /\ \A f : Active(r, q) => Target(f, s, q) = Target(f, r, q)
  <2>1. CASE q \in Producers
    <3>1. s[q] = r[q]
      BY <1>1, <2>1 DEF Only
    <3>2. QED
      BY <3>1 DEF Active, Naming, Holding, Holds, Stored, Later, Target
  <2>2. CASE q \notin Producers
    BY <2>2 DEF Active, Naming, Holding, Holds, Stored, Later
  <2>3. QED
    BY <2>1, <2>2
<1>2. QED
  BY <1>1

(* A process gets a name: not below the header, or above it and to itself. *)
Named(h, e, n, f, r, s, p) ==
  /\ Only(r, s, p, DOMAIN f) /\ r[p].pc = "idle" /\ <<p, r[p].begun + 1>> \in DOMAIN f
  /\ s[p].pc \in {"named", "putting"} /\ s[p].begun = r[p].begun + 1 /\ s[p].name = n
  /\ n \in Name /\ e \in Name /\ AtMost(h, n) /\ AtMost(n, e)
  /\ s[p].pc = "putting" => Before(h, n) /\ Before(n, e)

(* StoreName and PutName keep the invariant.                               *)
LEMMA GetsName ==
  ASSUME NEW h, NEW f, NEW r, NEW c, NEW w, NEW d, NEW a, Queue(h, f, r, c, w, d, a),
         NEW e, NEW n, NEW s, NEW p, Named(h, e, n, f, r, s, p)
  PROVE  Queue(e, f, s, c, w, d, a)
<1>1. /\ p \in Producers /\ n \in Name /\ e \in Name /\ h \in Name
      /\ ~Active(r, p) /\ Active(s, p) /\ Naming(s, p) /\ ~Holding(s, p)
      /\ \A i : ~Holds(s, p, i)
      /\ Target(f, s, p) = n /\ s[p].name = n
  BY NamesAre DEF Named, Only, Active, Naming, Holding, Holds, Target
<1>2. Only(r, s, p, DOMAIN f)
  BY DEF Named
<1>3. r[p].begun \in Nat /\ s[p].begun = r[p].begun + 1 /\ r[p].pc = "idle" /\ s[p].pc # "idle"
  BY <1>1 DEF Named, Queue, Values, ProdType
<1>4. \A q, k : Stored(s, q, k) <=> Stored(r, q, k)
  <2>1. \A k : Stored(s, p, k) <=> Stored(r, p, k)
    BY <1>1, <1>3 DEF Stored
  <2>2. QED
    BY <1>2, <2>1, OthersGoOn
<1>5. \A q, k : Later(s, q, k) => Later(r, q, k)
  <2>1. \A k : Later(s, p, k) => Later(r, p, k)
    BY <1>1, <1>3 DEF Later
  <2>2. QED
    BY <1>2, <2>1, OthersGoOn
<1>6. /\ \A m \in Name : AtMost(m, h) => AtMost(m, n) /\ AtMost(m, e)
      /\ \A m \in Name : Before(m, h) => Before(m, n) /\ Before(m, e)
      /\ \A m \in Name : AtMost(m, h) /\ s[p].pc = "putting" => m # n
      /\ \A m \in Name : Before(m, h) => m # n
  <2>1. AtMost(h, n) /\ AtMost(n, e) /\ (s[p].pc = "putting" => Before(h, n))
    BY DEF Named
  <2>2. AtMost(h, e)
    BY <1>1, <2>1, AtMostIsOrder
  <2>3. \A m \in Name : AtMost(m, h) => AtMost(m, n) /\ AtMost(m, e)
    BY <1>1, <2>1, <2>2, AtMostIsOrder
  <2>4. \A m \in Name : Before(m, h) => Before(m, n) /\ Before(m, e)
    BY <1>1, <2>1, <2>2, AtMostIsOrder
  <2>5. \A m \in Name : AtMost(m, h) /\ s[p].pc = "putting" => Before(m, n)
    BY <1>1, <2>1, AtMostIsOrder
  <2>6. QED
    BY <1>1, <2>3, <2>4, <2>5, BeforeIsOrder
<1>7. /\ \A q : q # p => (Active(s, q) <=> Active(r, q)) /\ (Naming(s, q) <=> Naming(r, q))
      /\ \A q, i : q # p => (Holds(s, q, i) <=> Holds(r, q, i))
      /\ \A q : q # p /\ Active(r, q) => Target(f, s, q) = Target(f, r, q) /\ s[q] = r[q]
  <2>1. \A q : q # p => (Active(s, q) <=> Active(r, q)) /\ (Naming(s, q) <=> Naming(r, q))
    BY <1>2, OthersGoOn
  <2>2. \A q, i : q # p => (Holds(s, q, i) <=> Holds(r, q, i))
    BY <1>2, OthersGoOn
  <2>3. \A q : q # p /\ Active(r, q) => Target(f, s, q) = Target(f, r, q)
    BY <1>2, OthersGoOn
  <2>4. \A q : q # p /\ Active(r, q) => s[q] = r[q]
    BY <1>2 DEF Only, Active
  <2>5. QED
    BY <2>1, <2>2, <2>3, <2>4
<1>8. \A q : Active(s, q) \/ Naming(s, q) => q \in Producers
  BY DEF Active, Naming
<1>9. Values(e, f, s, c, w, d, a)
  <2>1. ASSUME NEW q \in Producers
        PROVE  /\ Active(s, q) => <<q, s[q].begun>> \in DOMAIN f
               /\ Holding(s, q) => s[q].file \in DOMAIN f
    <3>1. CASE q = p
      BY <1>1, <1>3, <3>1 DEF Named
    <3>2. CASE q # p
      <4>1. s[q] = r[q]
        BY <1>2, <3>2 DEF Only
      <4>2. QED
        BY <4>1 DEF Active, Holding, Queue, Values
    <3>3. QED
      BY <3>1, <3>2
  <2>2. QED
    BY <1>1, <1>2, <2>1 DEF Queue, Values, Only
<1>10. Directory(e, f, s)
  <2>1. \A i : In(f, i) => AtMost(f[i].name, e) /\ AtMost(f[i].name, h)
    BY <1>6, NamesAre DEF Queue, Directory
  <2>2. ASSUME NEW q, Active(s, q)
        PROVE  AtMost(Target(f, s, q), e) /\ (q # p => AtMost(Target(f, r, q), h))
    <3>1. CASE q = p
      BY <1>1, <3>1 DEF Named
    <3>2. CASE q # p
      BY <1>6, <1>7, <1>8, <2>2, <3>2, NamesAre DEF Queue, Directory
    <3>3. QED
      BY <3>1, <3>2
  <2>3. ASSUME NEW q, Active(s, q), s[q].pc = "putting"
        PROVE  /\ Before(s[q].name, e)
               /\ \A i : In(f, i) => f[i].name # s[q].name
               /\ \A o : Naming(s, o) /\ o # q => s[o].name # s[q].name
    <3>1. CASE q = p
      <4>1. Before(n, e)
        BY <2>3, <3>1 DEF Named
      <4>2. \A i : In(f, i) => f[i].name # n
        BY <1>6, <2>1, <2>3, <3>1, NamesAre
      <4>3. ASSUME NEW o, Naming(s, o), o # p
            PROVE  s[o].name # n
        <5>1. Active(s, o) /\ Active(r, o) /\ o \in Producers /\ ~Holding(r, o)
          BY <1>7, <4>3 DEF Active, Naming, Holding
        <5>2. Target(f, r, o) = s[o].name
          BY <1>7, <4>3, <5>1 DEF Target
        <5>3. QED
          BY <1>6, <2>2, <2>3, <3>1, <4>3, <5>1, <5>2, NamesAre
      <4>4. QED
        BY <1>1, <3>1, <4>1, <4>2, <4>3
    <3>2. CASE q # p
      <4>1. s[q] = r[q] /\ Active(r, q) /\ q \in Producers
        BY <1>7, <1>8, <2>3, <3>2
      <4>2. Before(r[q].name, h) /\ r[q].name \in Name
        BY <2>3, <4>1, NamesAre DEF Queue, Directory
      <4>3. ASSUME NEW o, Naming(s, o), o # q
            PROVE  s[o].name # s[q].name
        <5>1. CASE o = p
          BY <1>1, <1>6, <4>1, <4>2, <5>1
        <5>2. CASE o # p
          <6>1. Naming(r, o) /\ s[o] = r[o]
            BY <1>7, <4>3, <5>2 DEF Naming, Active
          <6>2. QED
            BY <2>3, <4>1, <4>3, <6>1 DEF Queue, Directory
        <5>3. QED
          BY <5>1, <5>2
      <4>4. QED
        BY <1>6, <2>3, <4>1, <4>2, <4>3 DEF Queue, Directory
    <3>3. QED
      BY <3>1, <3>2
  <2>4. \A q, k : Later(s, q, k) => ~In(f, <<q, k>>) /\ \A o : ~Holds(s, o, <<q, k>>)
    BY <1>1, <1>5, <1>7 DEF Queue, Directory
  <2>5. QED
    BY <2>1, <2>2, <2>3, <2>4 DEF Queue, Directory
<1>11. Fence(e, f, s, c)
  <2>1. \A i : In(f, i) /\ f[i].taken => Before(f[i].name, e) /\ Before(f[i].name, n)
    BY <1>6, NamesAre DEF Queue, Fence
  <2>2. \A m \in c.list : Before(m, e) /\ Before(m, n)
    BY <1>6, NamesAre DEF Queue, Fence
  <2>3. c.pc = "listing" => AtMost(c.fence, e) /\ AtMost(c.fence, n)
    BY <1>6, NamesAre DEF Queue, Fence
  <2>4. \A q, i : Holds(s, q, i) /\ ~In(f, i) => f[i].taken /\ s[q].fenced
    BY <1>1, <1>7 DEF Queue, Fence, Holds, Holding, Active
  <2>5. ASSUME NEW q, Active(s, q), ~s[q].fenced
        PROVE  /\ \A m \in c.list : Before(m, Target(f, s, q))
               /\ c.pc = "listing" => AtMost(c.fence, Target(f, s, q))
               /\ \A i : In(f, i) /\ f[i].taken => Before(f[i].name, Target(f, s, q))
    <3>1. CASE q = p
      BY <1>1, <2>1, <2>2, <2>3, <3>1
    <3>2. CASE q # p
      BY <1>7, <2>5, <3>2 DEF Queue, Fence
    <3>3. QED
      BY <3>1, <3>2
  <2>6. QED
    BY <2>1, <2>2, <2>3, <2>4, <2>5 DEF Fence
<1>12. Known(f, s, w, d)
  BY <1>4 DEF Queue, Known
<1>13. Sequence(f, s, c)
  <2>1. ASSUME NEW i, NEW j, NEW q, NEW k, In(f, i), Lies(f, i, j, q, k), Active(s, q)
        PROVE  /\ AtMost(f[i].name, Target(f, s, q))
               /\ Target(f, s, q) \in c.list => f[i].name \in c.list
    <3>1. CASE q = p
      <4>1. AtMost(f[i].name, n)
        BY <1>6, <2>1, NamesAre DEF Queue, Directory
      <4>2. n \notin c.list
        BY <1>1, <1>6, NamesAre DEF Queue, Fence
      <4>3. QED
        BY <1>1, <3>1, <4>1, <4>2
    <3>2. CASE q # p
      BY <1>7, <2>1, <3>2 DEF Queue, Sequence
    <3>3. QED
      BY <3>1, <3>2
  <2>2. QED
    BY <2>1 DEF Queue, Sequence
<1>14. QED
  BY <1>9, <1>10, <1>11, <1>12, <1>13 DEF Queue

(* StoreOpen: the file of that name, or a new one.                         *)
FileFor(f, g, i, r, s, p) ==
  /\ Only(r, s, p, DOMAIN f) /\ r[p].pc = "named" /\ s[p].pc = "opened" /\ s[p].file = i
  /\ s[p].begun = r[p].begun /\ s[p].fenced = r[p].fenced
  /\ In(g, i) /\ g[i].name = r[p].name
  /\ \/ g = f
     \/ /\ i = <<p, r[p].begun>> /\ ButFor(f, g, i) /\ g[i].data = <<>> /\ ~g[i].taken
        /\ \A x : In(f, x) => f[x].name # r[p].name

(* The new file has no commands, and no other has its name.                *)
LEMMA FileIsNew ==
  ASSUME NEW h, NEW f, NEW r, NEW c, NEW w, NEW d, NEW a, Queue(h, f, r, c, w, d, a),
         NEW g, NEW i, NEW s, NEW p, FileFor(f, g, i, r, s, p)
  PROVE  /\ DOMAIN g = DOMAIN f /\ g \in [DOMAIN f -> FileType] /\ i \in DOMAIN f
         /\ \A x : In(g, x) <=> In(f, x) \/ x = i
         /\ \A x : In(f, x) => g[x] = f[x]
         /\ \A q, x : Holds(r, q, x) => g[x] = f[x]
         /\ \A x, j, q, k : Lies(g, x, j, q, k) => Lies(f, x, j, q, k)
         /\ \A x, j, q, k : In(g, x) /\ Lies(g, x, j, q, k) => In(f, x)
         /\ \A x, j, q, k : In(f, x) => (Unmarked(g, x, j, q, k) <=> Unmarked(f, x, j, q, k))
         /\ \A x : In(g, x) /\ g[x].taken => In(f, x)
         /\ \A x : In(f, x) /\ f[x].name = r[p].name => x = i
<1>1. CASE g = f
  <2>1. In(f, i) /\ f[i].name = r[p].name
    BY <1>1 DEF FileFor
  <2>2. \A x : In(f, x) /\ f[x].name = r[p].name => x = i
    BY <2>1 DEF Queue, Directory
  <2>3. QED
    BY <1>1, <2>1, <2>2 DEF Queue, Values, In
<1>2. CASE g # f
  <2>1. /\ i = <<p, r[p].begun>> /\ ButFor(f, g, i) /\ g[i].data = <<>> /\ ~g[i].taken
        /\ In(g, i) /\ \A x : In(f, x) => f[x].name # r[p].name
    BY <1>2 DEF FileFor
  <2>2. Later(r, p, r[p].begun)
    BY DEF FileFor, Only, Later, Naming, Queue, Values, ProdType
  <2>3. ~In(f, i) /\ \A q : ~Holds(r, q, i)
    BY <2>1, <2>2 DEF Queue, Directory
  <2>4. \A j, q, k : ~Lies(g, i, j, q, k)
    BY <2>1 DEF Lies
  <2>5. \A q, x : Holds(r, q, x) => x \in DOMAIN f
    BY DEF Holds, Holding, Queue, Values
  <2>6. /\ \A x : In(g, x) <=> In(f, x) \/ x = i
        /\ \A x : In(f, x) => g[x] = f[x]
        /\ \A q, x : Holds(r, q, x) => g[x] = f[x]
    BY SMTT(60), <2>1, <2>3, <2>5, OthersKept DEF ButFor, In
  <2>7. /\ \A x, j, q, k : Lies(g, x, j, q, k) => Lies(f, x, j, q, k)
        /\ \A x, j, q, k : In(g, x) /\ Lies(g, x, j, q, k) => In(f, x)
        /\ \A x, j, q, k : In(f, x) => (Unmarked(g, x, j, q, k) <=> Unmarked(f, x, j, q, k))
    BY <2>1, <2>3, <2>4, <2>6, OthersKept
  <2>8. QED
    BY <2>1, <2>6, <2>7 DEF ButFor
<1>3. QED
  BY <1>1, <1>2

(* StoreOpen keeps the invariant.                                          *)
LEMMA OpensForStore ==
  ASSUME NEW h, NEW f, NEW r, NEW c, NEW w, NEW d, NEW a, Queue(h, f, r, c, w, d, a),
         NEW g, NEW i, NEW s, NEW p, FileFor(f, g, i, r, s, p)
  PROVE  Queue(h, g, s, c, w, d, a)
<1>1. /\ DOMAIN g = DOMAIN f /\ g \in [DOMAIN f -> FileType] /\ i \in DOMAIN f
      /\ \A x : In(g, x) <=> In(f, x) \/ x = i
      /\ \A x : In(f, x) => g[x] = f[x]
      /\ \A q, x : Holds(r, q, x) => g[x] = f[x]
      /\ \A x : In(g, x) /\ g[x].taken => In(f, x)
      /\ \A x : In(f, x) /\ f[x].name = r[p].name => x = i
  BY FileIsNew
<1>2. /\ \A x, j, q, k : Lies(g, x, j, q, k) => Lies(f, x, j, q, k)
      /\ \A x, j, q, k : In(g, x) /\ Lies(g, x, j, q, k) => In(f, x)
      /\ \A x, j, q, k : In(f, x) => (Unmarked(g, x, j, q, k) <=> Unmarked(f, x, j, q, k))
      /\ \A x, j, q, k : Unmarked(g, x, j, q, k) => Lies(g, x, j, q, k)
  BY FileIsNew DEF Unmarked
<1>3. /\ p \in Producers /\ Only(r, s, p, DOMAIN f)
      /\ r[p].pc = "named" /\ s[p].pc = "opened" /\ s[p].file = i
      /\ s[p].begun = r[p].begun /\ s[p].fenced = r[p].fenced
      /\ In(g, i) /\ g[i].name = r[p].name
  BY DEF FileFor, Only
<1>4. /\ Active(r, p) /\ Active(s, p) /\ Naming(r, p) /\ ~Naming(s, p) /\ ~Holding(r, p) /\ Holding(s, p)
      /\ Target(f, r, p) = r[p].name /\ Target(g, s, p) = r[p].name
      /\ \A x : Holds(s, p, x) <=> x = i
      /\ \A k : Stored(s, p, k) <=> Stored(r, p, k)
  BY <1>3 DEF Active, Naming, Holding, Target, Holds, Stored
<1>5. /\ \A q : Active(s, q) <=> Active(r, q)
      /\ \A q, k : Stored(s, q, k) <=> Stored(r, q, k)
      /\ \A q : Naming(s, q) => Naming(r, q) /\ q # p
      /\ \A q, x : Holds(s, q, x) => Holds(r, q, x) \/ (q = p /\ x = i)
  BY <1>3, <1>4, OthersGoOn
<1>6. \A q : Active(r, q) => q \in Producers /\ (q # p => s[q] = r[q]) /\ s[q].fenced = r[q].fenced
  BY <1>3 DEF Active, Only
<1>7. \A q : Active(r, q) => Target(g, s, q) = Target(f, r, q)
  <2>1. ASSUME NEW q, Active(r, q), q # p
        PROVE  Target(g, s, q) = Target(f, r, q)
    <3>1. s[q] = r[q] /\ q \in Producers
      BY <1>6, <2>1
    <3>2. Holding(r, q) => g[r[q].file] = f[r[q].file]
      BY <1>1 DEF Holds
    <3>3. QED
      BY <3>1, <3>2 DEF Target, Holding
  <2>2. QED
    BY <1>4, <2>1
<1>8. ASSUME NEW q, NEW k, Later(s, q, k)
      PROVE  Later(r, q, k) /\ <<q, k>> # i
  <2>1. Later(r, q, k)
    <3>1. CASE q = p
      BY <1>3, <1>4, <1>8, <3>1 DEF Later
    <3>2. CASE q # p
      BY <1>3, <1>8, <3>2, OthersGoOn
    <3>3. QED
      BY <3>1, <3>2
  <2>2. ~In(f, <<q, k>>)
    BY <2>1 DEF Queue, Directory
  <2>3. i = <<p, r[p].begun>> => <<q, k>> # i
    BY <1>3, <1>4, <1>8 DEF Later, Queue, Values, ProdType
  <2>4. In(f, i) \/ i = <<p, r[p].begun>>
    BY DEF FileFor
  <2>5. QED
    BY <2>1, <2>2, <2>3, <2>4
<1>9. Values(h, g, s, c, w, d, a)
  <2>1. ASSUME NEW q \in Producers
        PROVE  /\ Active(s, q) => <<q, s[q].begun>> \in DOMAIN f
               /\ Holding(s, q) => s[q].file \in DOMAIN f
    <3>1. CASE q = p
      BY <1>1, <1>3, <1>4, <3>1 DEF Queue, Values
    <3>2. CASE q # p
      <4>1. s[q] = r[q]
        BY <1>3, <3>2 DEF Only
      <4>2. QED
        BY <4>1 DEF Active, Holding, Queue, Values
    <3>3. QED
      BY <3>1, <3>2
  <2>2. QED
    BY <1>1, <1>3, <2>1 DEF Queue, Values, Only
<1>10. Directory(h, g, s)
  <2>1. \A x : In(g, x) => AtMost(g[x].name, h)
    BY <1>1, <1>3, <1>4 DEF Queue, Directory
  <2>2. \A x, y : In(g, x) /\ In(g, y) /\ g[x].name = g[y].name => x = y
    <3>1. ASSUME NEW x, NEW y, In(g, x), In(g, y), g[x].name = g[y].name
          PROVE  x = y
      <4>1. CASE x = i \/ y = i
        BY <1>1, <1>3, <3>1, <4>1
      <4>2. CASE x # i /\ y # i
        <5>1. In(f, x) /\ In(f, y) /\ f[x].name = f[y].name
          BY <1>1, <3>1, <4>2
        <5>2. QED
          BY <5>1 DEF Queue, Directory
      <4>3. QED
        BY <4>1, <4>2
    <3>2. QED
      BY <3>1
  <2>3. \A q : Active(s, q) => AtMost(Target(g, s, q), h)
    BY <1>5, <1>7 DEF Queue, Directory
  <2>4. ASSUME NEW q, Active(s, q), s[q].pc = "putting"
        PROVE  /\ Before(s[q].name, h)
               /\ \A x : In(g, x) => g[x].name # s[q].name
               /\ \A o : Naming(s, o) /\ o # q => s[o].name # s[q].name
    <3>1. q # p /\ Active(r, q) /\ s[q] = r[q]
      BY <1>3, <1>5, <1>6, <2>4
    <3>2. r[p].name # r[q].name
      BY <1>4, <2>4, <3>1 DEF Queue, Directory
    <3>3. \A x : In(g, x) => g[x].name # r[q].name
      BY <1>1, <1>3, <2>4, <3>1, <3>2 DEF Queue, Directory
    <3>4. ASSUME NEW o, Naming(s, o), o # q
          PROVE  s[o].name # r[q].name
      <4>1. Naming(r, o) /\ o # p /\ Active(r, o)
        BY <1>5, <3>4 DEF Naming, Active
      <4>2. s[o] = r[o]
        BY <1>6, <4>1
      <4>3. QED
        BY <2>4, <3>1, <3>4, <4>1, <4>2 DEF Queue, Directory
    <3>5. Before(r[q].name, h)
      BY <2>4, <3>1 DEF Queue, Directory
    <3>6. QED
      BY <3>1, <3>3, <3>4, <3>5
  <2>5. ASSUME NEW q, NEW k, Later(s, q, k)
        PROVE  ~In(g, <<q, k>>) /\ \A o : ~Holds(s, o, <<q, k>>)
    BY <1>1, <1>5, <1>8, <2>5 DEF Queue, Directory
  <2>6. QED
    BY <2>1, <2>2, <2>3, <2>4, <2>5 DEF Directory
<1>11. Fence(h, g, s, c)
  <2>1. \A x : In(g, x) /\ g[x].taken => In(f, x) /\ f[x].taken /\ g[x].name = f[x].name
    BY <1>1
  <2>2. ASSUME NEW q, NEW x, Holds(s, q, x), ~In(g, x)
        PROVE  g[x].taken /\ s[q].fenced
    <3>1. Holds(r, q, x) /\ ~In(f, x)
      BY <1>1, <1>3, <1>5, <2>2
    <3>2. Active(r, q) /\ g[x] = f[x]
      BY <1>1, <3>1 DEF Holds, Holding, Active
    <3>3. QED
      BY <1>6, <3>1, <3>2 DEF Queue, Fence
  <2>3. QED
    BY <1>5, <1>6, <1>7, <2>1, <2>2 DEF Queue, Fence
<1>12. Reading(c) => In(f, c.file) /\ g[c.file] = f[c.file]
  BY <1>1 DEF Queue, Position
<1>13. Position(g, c)
  BY <1>1, <1>2, <1>12 DEF Queue, Position
<1>14. Known(g, s, w, d)
  BY <1>2, <1>5 DEF Queue, Known
<1>15. Waiting(g, c, w)
  BY <1>1, <1>2, <1>12 DEF Queue, Waiting
<1>16. Sequence(g, s, c)
  <2>1. \A x, j, j2, q, k, k2 : Lies(g, x, j, q, k) /\ Lies(g, x, j2, q, k2) /\ j < j2 => k < k2
    BY <1>2 DEF Queue, Sequence
  <2>2. ASSUME NEW x, NEW y, NEW j, NEW j2, NEW q, NEW k, NEW k2,
               In(g, x), Lies(g, x, j, q, k), In(g, y), Lies(g, y, j2, q, k2),
               Before(g[x].name, g[y].name) \/ (g[x].name \in c.list /\ g[y].name \notin c.list)
        PROVE  k < k2
    <3>1. /\ In(f, x) /\ Lies(f, x, j, q, k) /\ In(f, y) /\ Lies(f, y, j2, q, k2)
          /\ g[x] = f[x] /\ g[y] = f[y]
      BY <1>1, <1>2, <2>2
    <3>2. QED
      BY <2>2, <3>1 DEF Queue, Sequence
  <2>3. ASSUME NEW x, NEW j, NEW q, NEW k, In(g, x), Lies(g, x, j, q, k), Active(s, q)
        PROVE  /\ AtMost(g[x].name, Target(g, s, q))
               /\ Target(g, s, q) \in c.list => g[x].name \in c.list
    <3>1. In(f, x) /\ Lies(f, x, j, q, k) /\ g[x] = f[x] /\ Active(r, q)
      BY <1>1, <1>2, <1>5, <2>3
    <3>2. QED
      BY <1>7, <3>1 DEF Queue, Sequence
  <2>4. QED
    BY <2>1, <2>2, <2>3 DEF Sequence
<1>17. Order(g, c, d, a)
  BY <1>1, <1>2 DEF Queue, Order
<1>18. QED
  BY <1>9, <1>10, <1>11, <1>13, <1>14, <1>15, <1>16, <1>17 DEF Queue

(* StoreLock keeps the invariant: the process that holds the file locks it.*)
LEMMA LocksFile ==
  ASSUME NEW h, NEW f, NEW r, NEW c, NEW w, NEW d, NEW a, Queue(h, f, r, c, w, d, a),
         NEW s, NEW p, Only(r, s, p, DOMAIN f), r[p].pc = "opened", s[p].pc = "locked",
         s[p].file = r[p].file, s[p].begun = r[p].begun, s[p].fenced = r[p].fenced
  PROVE  Queue(h, f, s, c, w, d, a)
<1>1. /\ \A q : Active(s, q) <=> Active(r, q)
      /\ \A q : Naming(s, q) <=> Naming(r, q)
      /\ \A q : Holding(s, q) <=> Holding(r, q)
      /\ \A q, i : Holds(s, q, i) <=> Holds(r, q, i)
      /\ \A q, k : Stored(s, q, k) <=> Stored(r, q, k)
      /\ \A q, k : Later(s, q, k) <=> Later(r, q, k)
  <2>1. /\ Active(s, p) <=> Active(r, p)
        /\ Naming(s, p) <=> Naming(r, p)
        /\ Holding(s, p) <=> Holding(r, p)
        /\ \A i : Holds(s, p, i) <=> Holds(r, p, i)
        /\ \A k : Stored(s, p, k) <=> Stored(r, p, k)
        /\ \A k : Later(s, p, k) <=> Later(r, p, k)
    BY DEF Active, Naming, Holding, Holds, Stored, Later
  <2>2. QED
    BY <2>1, OthersGoOn
<1>2. \A q : Active(r, q) => Target(f, s, q) = Target(f, r, q) /\ s[q].fenced = r[q].fenced
  <2>1. Target(f, s, p) = Target(f, r, p)
    BY DEF Target, Holding, Only
  <2>2. \A q : Active(r, q) /\ q # p => s[q] = r[q]
    BY DEF Active, Only
  <2>3. QED
    BY <2>1, <2>2, OthersGoOn
<1>3. \A q : Active(r, q) /\ ~Holding(r, q) => s[q] = r[q]
  BY DEF Active, Holding, Only
<1>4. Values(h, f, s, c, w, d, a)
  <2>1. ASSUME NEW q \in Producers
        PROVE  s[q].begun = r[q].begun /\ s[q].file = r[q].file
    BY DEF Only
  <2>2. QED
    BY <1>1, <2>1 DEF Queue, Values, Only
<1>5. Directory(h, f, s)
  <2>1. ASSUME NEW p1, Active(s, p1), s[p1].pc = "putting"
        PROVE  /\ Before(s[p1].name, h)
               /\ \A i : In(f, i) => f[i].name # s[p1].name
               /\ \A q : Naming(s, q) /\ q # p1 => s[q].name # s[p1].name
    <3>1. s[p1] = r[p1] /\ Active(r, p1)
      BY <1>1, <1>3, <2>1 DEF Holding
    <3>2. \A q : Naming(s, q) => Naming(r, q) /\ s[q] = r[q]
      BY <1>1, <1>3 DEF Naming, Active, Holding
    <3>3. QED
      BY <2>1, <3>1, <3>2 DEF Queue, Directory
  <2>2. QED
    BY <1>1, <1>2, <2>1 DEF Queue, Directory
<1>6. Fence(h, f, s, c)
  <2>1. \A q, i : Holds(s, q, i) => Active(r, q)
    BY <1>1 DEF Holds, Holding, Active
  <2>2. QED
    BY <1>1, <1>2, <2>1 DEF Queue, Fence
<1>7. Known(f, s, w, d)
  BY <1>1 DEF Queue, Known
<1>8. Sequence(f, s, c)
  BY <1>1, <1>2 DEF Queue, Sequence
<1>9. QED
  BY <1>4, <1>5, <1>6, <1>7, <1>8 DEF Queue

(* A process stores its command as the last entry l of the file i, or does *)
(* not because the file is full; o is the fate of the command.             *)
Stores(f, g, i, l, r, s, p, c, w, x, o) ==
  /\ Only(r, s, p, DOMAIN f) /\ Active(r, p) /\ s[p].pc = "idle" /\ s[p].begun = r[p].begun
  /\ \A y : In(f, y) => In(g, y) /\ g[y].name = f[y].name
  /\ \A y : In(g, y) => In(f, y) \/ y = i
  /\ In(g, i) => g[i].name = Target(f, r, p)
  /\ \A q, y : Holds(r, q, y) /\ q # p => g[y].name = f[y].name
  /\ \A y, j, q, k : Lies(g, y, j, q, k) =>
       Lies(f, y, j, q, k) \/ (y = i /\ j = l /\ q = p /\ k = r[p].begun)
  /\ \A y, j, q, k : In(g, y) /\ Lies(g, y, j, q, k) =>
       (In(f, y) /\ Lies(f, y, j, q, k)) \/ (y = i /\ j = l /\ q = p /\ k = r[p].begun)
  /\ \A j, q, k : Lies(g, i, j, q, k) => j <= l
  /\ \A y, j, q, k : In(f, y) /\ Unmarked(f, y, j, q, k) => Unmarked(g, y, j, q, k)
  /\ \A y, j, q, k : In(g, y) /\ Unmarked(g, y, j, q, k) =>
       (In(f, y) /\ Unmarked(f, y, j, q, k)) \/ (y = i /\ j = l /\ q = p /\ k = r[p].begun)
  /\ l \in Nat
  /\ x = w \/ (/\ x = w \cup {o}
               /\ o \in FateType /\ o.command = <<p, r[p].begun>> /\ (o.taken => o.fenced)
               /\ o.taken \/ (In(g, i) /\ Unmarked(g, i, l, p, r[p].begun))
               /\ Reading(c) /\ c.file = i => o.taken)
  /\ ~AtMark(c, i, l)

(* A stored command is the last of its process, in its place.              *)
LEMMA StoresInOrder ==
  ASSUME NEW h, NEW f, NEW r, NEW c, NEW w, NEW d, NEW a, Queue(h, f, r, c, w, d, a),
         NEW g, NEW i, NEW l, NEW s, NEW p, NEW x, NEW o, Stores(f, g, i, l, r, s, p, c, w, x, o)
  PROVE  Known(g, s, x, d) /\ Waiting(g, c, x) /\ Sequence(g, s, c) /\ Order(g, c, d, a)
<1> DEFINE n == r[p].begun
<1>1. /\ p \in Producers /\ Active(r, p) /\ ~Active(s, p) /\ n \in Nat
      /\ Stored(s, p, n) /\ ~Stored(r, p, n)
      /\ \A k : Stored(r, p, k) => k \in Nat /\ k < n /\ Stored(s, p, k)
  BY DEF Stores, Active, Stored, Queue, Values, ProdType
<1>2. \A q, k : Stored(r, q, k) => Stored(s, q, k)
  BY <1>1, OthersGoOn DEF Stores
<1>3. /\ \A y, j, q, k : Lies(g, y, j, q, k) =>
           Lies(f, y, j, q, k) \/ (y = i /\ j = l /\ q = p /\ k = n)
      /\ \A y, j, q, k : In(g, y) /\ Lies(g, y, j, q, k) =>
           (In(f, y) /\ Lies(f, y, j, q, k)) \/ (y = i /\ j = l /\ q = p /\ k = n)
      /\ \A j, q, k : Lies(g, i, j, q, k) => j <= l
      /\ \A y, j, q, k : In(g, y) /\ Unmarked(g, y, j, q, k) =>
           (In(f, y) /\ Unmarked(f, y, j, q, k)) \/ (y = i /\ j = l /\ q = p /\ k = n)
      /\ \A y, j, q, k : In(f, y) /\ Unmarked(f, y, j, q, k) => Unmarked(g, y, j, q, k)
      /\ l \in Nat
  BY DEF Stores
<1>4. /\ \A y : In(f, y) => In(g, y) /\ g[y].name = f[y].name
      /\ In(g, i) => g[i].name = Target(f, r, p)
      /\ ~AtMark(c, i, l)
  BY DEF Stores
<1>5. \A y, j, k : Lies(f, y, j, p, k) => k \in Nat /\ k < n
  BY <1>1 DEF Queue, Known
<1>6. x = w \/ (/\ x = w \cup {o}
                /\ o \in FateType /\ o.command = <<p, n>> /\ (o.taken => o.fenced)
                /\ o.taken \/ (In(g, i) /\ Unmarked(g, i, l, p, n))
                /\ Reading(c) /\ c.file = i => o.taken)
  BY DEF Stores
<1>7. Reading(c) => In(f, c.file) /\ In(g, c.file)
  BY <1>4 DEF Queue, Position
<1> HIDE DEF n
<1>8. Known(g, s, x, d)
  <2>1. \A y, j, q, k : Lies(g, y, j, q, k) => Stored(s, q, k)
    BY <1>1, <1>2, <1>3 DEF Queue, Known
  <2>2. \A y \in x : Stored(s, y.command[1], y.command[2])
    BY <1>1, <1>2, <1>6 DEF Queue, Known
  <2>3. QED
    BY <1>2, <2>1, <2>2 DEF Queue, Known
<1>9. Waiting(g, c, x)
  <2>1. ASSUME NEW y \in w
        PROVE  /\ y.taken => y.fenced
               /\ y.taken \/ \E z, j : In(g, z) /\ Unmarked(g, z, j, y.command[1], y.command[2])
               /\ Reading(c) => \A j : Unmarked(g, c.file, j, y.command[1], y.command[2]) =>
                    (Beyond(c, j) => y.taken) /\ ~AtMark(c, c.file, j)
    <3>1. ~(y.command[1] = p /\ y.command[2] = n)
      BY <1>1 DEF Queue, Known
    <3>2. Reading(c) => \A j : Unmarked(g, c.file, j, y.command[1], y.command[2]) =>
                                 Unmarked(f, c.file, j, y.command[1], y.command[2])
      BY <1>3, <1>7, <3>1
    <3>3. y.taken \/ \E z, j : In(g, z) /\ Unmarked(g, z, j, y.command[1], y.command[2])
      BY <1>3, <1>4 DEF Queue, Waiting
    <3>4. QED
      BY <3>2, <3>3 DEF Queue, Waiting
  <2>2. ASSUME x # w
        PROVE  /\ o.taken => o.fenced
               /\ o.taken \/ \E z, j : In(g, z) /\ Unmarked(g, z, j, o.command[1], o.command[2])
               /\ Reading(c) => \A j : Unmarked(g, c.file, j, o.command[1], o.command[2]) =>
                    (Beyond(c, j) => o.taken) /\ ~AtMark(c, c.file, j)
    <3>1. o.command[1] = p /\ o.command[2] = n
      BY <1>6, <2>2
    <3>2. ASSUME Reading(c), NEW j, Unmarked(g, c.file, j, p, n)
          PROVE  c.file = i /\ j = l
      <4>1. ~Unmarked(f, c.file, j, p, n)
        BY <1>1, <1>5 DEF Unmarked
      <4>2. QED
        BY <1>3, <1>7, <3>2, <4>1
    <3>3. QED
      BY <1>4, <1>6, <2>2, <3>1, <3>2
  <2>3. QED
    BY <1>6, <2>1, <2>2 DEF Waiting
<1>10. Sequence(g, s, c)
  <2>1. ASSUME NEW y, NEW j, NEW j2, NEW q, NEW k, NEW k2,
               Lies(g, y, j, q, k), Lies(g, y, j2, q, k2), j < j2
        PROVE  k < k2
    <3>1. CASE Lies(f, y, j, q, k) /\ Lies(f, y, j2, q, k2)
      BY <2>1, <3>1 DEF Queue, Sequence
    <3>2. CASE Lies(f, y, j, q, k) /\ y = i /\ j2 = l /\ q = p /\ k2 = n
      BY <1>5, <3>2
    <3>3. CASE y = i /\ j = l
      <4>1. j2 <= l /\ l < j2 /\ l \in Nat /\ j2 \in Int
        <5>1. j2 \in Int
          BY <2>1 DEF Lies
        <5>2. QED
          BY <1>3, <2>1, <3>3, <5>1
      <4>2. QED
        BY <4>1
    <3>4. QED
      BY <1>3, <2>1, <3>1, <3>2, <3>3
  <2>2. ASSUME NEW y, NEW z, NEW j, NEW j2, NEW q, NEW k, NEW k2,
               In(g, y), Lies(g, y, j, q, k), In(g, z), Lies(g, z, j2, q, k2),
               Before(g[y].name, g[z].name) \/ (g[y].name \in c.list /\ g[z].name \notin c.list)
        PROVE  k < k2
    <3>1. CASE In(f, y) /\ Lies(f, y, j, q, k) /\ In(f, z) /\ Lies(f, z, j2, q, k2)
      BY <1>4, <2>2, <3>1 DEF Queue, Sequence
    <3>2. CASE Lies(f, y, j, q, k) /\ q = p /\ k2 = n
      BY <1>5, <3>2
    <3>3. CASE y = i /\ q = p
      <4>1. g[y].name = Target(f, r, p) /\ Target(f, r, p) \in Name
        BY <1>1, <1>4, <2>2, <3>3, NamesAre
      <4>2. CASE z = i
        BY <2>2, <3>3, <4>1, <4>2, BeforeIsOrder
      <4>3. CASE In(f, z) /\ Lies(f, z, j2, p, k2)
        <5>1. /\ g[z].name = f[z].name /\ f[z].name \in Name
              /\ AtMost(f[z].name, Target(f, r, p))
              /\ Target(f, r, p) \in c.list => f[z].name \in c.list
          BY <1>1, <1>4, <4>3, NamesAre DEF Queue, Sequence
        <5>2. ~Before(Target(f, r, p), f[z].name)
          BY <4>1, <5>1, AtMostIsOrder
        <5>3. QED
          BY <2>2, <4>1, <5>1, <5>2
      <4>4. QED
        BY <1>3, <2>2, <3>3, <4>2, <4>3
    <3>4. QED
      BY <1>3, <2>2, <3>1, <3>2, <3>3
  <2>3. ASSUME NEW y, NEW j, NEW q, NEW k, In(g, y), Lies(g, y, j, q, k), Active(s, q)
        PROVE  /\ AtMost(g[y].name, Target(g, s, q))
               /\ Target(g, s, q) \in c.list => g[y].name \in c.list
    <3>1. q # p /\ Active(r, q) /\ q \in Producers
      BY <1>1, <2>3, OthersGoOn DEF Stores, Active
    <3>2. In(f, y) /\ Lies(f, y, j, q, k) /\ g[y].name = f[y].name
      BY <1>3, <1>4, <2>3, <3>1
    <3>3. Target(g, s, q) = Target(f, r, q)
      <4>1. s[q] = r[q]
        BY <3>1 DEF Stores, Only
      <4>2. Holding(r, q) => g[r[q].file].name = f[r[q].file].name
        BY <3>1 DEF Stores, Holds
      <4>3. QED
        BY <4>1, <4>2 DEF Target, Holding
    <3>4. QED
      BY <3>1, <3>2, <3>3 DEF Queue, Sequence
  <2>4. QED
    BY <2>1, <2>2, <2>3 DEF Sequence
<1>11. Order(g, c, d, a)
  <2>1. ASSUME NEW y, NEW j, NEW q, NEW k, In(g, y), Unmarked(g, y, j, q, k), NEW m \in 1..Len(d[q])
        PROVE  \/ d[q][m] < k
               \/ d[q][m] = k /\ (<<q, k>> \in a \/ AtMark(c, y, j))
    <3>1. CASE In(f, y) /\ Unmarked(f, y, j, q, k)
      BY <2>1, <3>1 DEF Queue, Order
    <3>2. CASE q = p /\ k = n
      <4>1. Stored(r, p, d[p][m])
        BY <1>1, <2>1, <3>2 DEF Queue, Known
      <4>2. QED
        BY <1>1, <3>2, <4>1
    <3>3. QED
      BY <1>3, <2>1, <3>1, <3>2
  <2>2. QED
    BY <2>1 DEF Queue, Order
<1>12. QED
  BY <1>8, <1>9, <1>10, <1>11

(* StoreAppend: the command is appended to the file, which a process that  *)
(* removed it may have left to this one.                                   *)
Fate(f, i, r, p) ==
  [command |-> <<p, r[p].begun>>, taken |-> f[i].taken, fenced |-> r[p].fenced]
Appended(f, g, i, r, s, p, w, x) ==
  /\ Only(r, s, p, DOMAIN f) /\ r[p].pc = "locked" /\ r[p].file = i
  /\ s[p].pc = "idle" /\ s[p].begun = r[p].begun
  /\ ButFor(f, g, i)
  /\ \/ /\ NameKept(f, g, i) /\ g[i].taken = f[i].taken
        /\ \/ x = w /\ g[i].data = f[i].data
           \/ /\ x = w \cup {Fate(f, i, r, p)}
              /\ g[i].data = Append(f[i].data, [command |-> <<p, r[p].begun>>, mark |-> FALSE])
     \/ /\ ~f[i].linked /\ ~g[i].linked /\ g[i].data = <<>>
        /\ \A q : q # p => ~Holds(r, q, i)
        /\ x = w \/ x = w \cup {Fate(f, i, r, p)}

(* The file then has its commands, and the new one at its end.             *)
LEMMA AppendedIs ==
  ASSUME NEW h, NEW f, NEW r, NEW c, NEW w, NEW d, NEW a, Queue(h, f, r, c, w, d, a),
         NEW g, NEW i, NEW s, NEW p, NEW x, Appended(f, g, i, r, s, p, w, x)
  PROVE  \E l \in Nat :
           /\ l = Len(f[i].data) + 1
           /\ \A y, j, q, k : Lies(g, y, j, q, k) =>
                Lies(f, y, j, q, k) \/ (y = i /\ j = l /\ q = p /\ k = r[p].begun)
           /\ \A j, q, k : Lies(g, i, j, q, k) => j <= l
           /\ \A y, j, q, k : In(f, y) /\ Unmarked(f, y, j, q, k) => Unmarked(g, y, j, q, k)
           /\ \A y, j, q, k : Unmarked(g, y, j, q, k) =>
                Unmarked(f, y, j, q, k) \/ (y = i /\ j = l /\ q = p /\ k = r[p].begun)
           /\ x # w /\ In(g, i) => Unmarked(g, i, l, p, r[p].begun)
<1> DEFINE n == r[p].begun
           e == [command |-> <<p, n>>, mark |-> FALSE]
<1>1. /\ ButFor(f, g, i) /\ p \in Producers /\ n \in Nat /\ e \in Entry
      /\ i \in DOMAIN f /\ f[i].data \in Seq(Entry)
  BY DEF Appended, ButFor, Only, Queue, Values, ProdType, FileType, Entry
<1>2. PICK t \in Seq(Entry) : t = f[i].data
  BY <1>1
<1>3. PICK l \in Nat : l = Len(t) + 1
  BY <1>2
<1>4. PICK u \in Seq(Entry) : u = Append(t, e)
  BY <1>1, <1>2, AppendProperties
<1>5. Len(u) = l /\ (\A j \in 1..l - 1 : u[j] = t[j]) /\ u[l] = e
  BY <1>1, <1>2, <1>3, <1>4, AppendProperties
<1>6. \A j, q, k : Lies(f, i, j, q, k) <=> j \in 1..l - 1 /\ t[j].command = <<q, k>>
  BY <1>1, <1>2, <1>3 DEF Lies
<1>7. \A j, q, k : Unmarked(f, i, j, q, k) <=> Lies(f, i, j, q, k) /\ ~t[j].mark
  BY <1>2 DEF Unmarked
<1>8. CASE g[i].data = f[i].data /\ x = w /\ NameKept(f, g, i)
  <2>1. \A j, q, k : Lies(g, i, j, q, k) <=> Lies(f, i, j, q, k)
    BY <1>1, <1>8 DEF Lies, ButFor
  <2>2. \A j, q, k : Unmarked(g, i, j, q, k) <=> Unmarked(f, i, j, q, k)
    BY <1>8, <2>1 DEF Unmarked
  <2>3. \A j, q, k : Lies(g, i, j, q, k) => j <= l
    BY <1>3, <1>6, <2>1
  <2>4. /\ \A y, j, q, k : Lies(g, y, j, q, k) <=> Lies(f, y, j, q, k)
        /\ \A y, j, q, k : Unmarked(g, y, j, q, k) <=> Unmarked(f, y, j, q, k)
    BY <1>1, <2>1, <2>2, OthersKept
  <2>5. l = Len(f[i].data) + 1
    BY <1>2, <1>3
  <2>6. QED
    BY <1>8, <2>3, <2>4, <2>5
<1>9. CASE g[i].data = Append(f[i].data, e)
  <2>1. g[i].data = u
    BY <1>2, <1>4, <1>9
  <2>2. \A j, q, k : Lies(g, i, j, q, k) <=> j \in 1..l /\ u[j].command = <<q, k>>
    BY <1>1, <1>5, <2>1 DEF Lies, ButFor
  <2>3. \A j \in 1..l : j = l \/ j \in 1..l - 1
    BY <1>3
  <2>4. 1..l - 1 \subseteq 1..l /\ l \in 1..l
    BY <1>2, <1>3
  <2>5. \A j, q, k : Lies(g, i, j, q, k) <=> Lies(f, i, j, q, k) \/ (j = l /\ q = p /\ k = n)
    <3>1. u[l].command = <<p, n>>
      BY <1>5
    <3>2. QED
      BY <1>5, <1>6, <2>2, <2>3, <2>4, <3>1
  <2>6. \A j, q, k : Unmarked(g, i, j, q, k) <=> Unmarked(f, i, j, q, k) \/ (j = l /\ q = p /\ k = n)
    <3>1. ~u[l].mark
      BY <1>5
    <3>2. \A j, q, k : Unmarked(g, i, j, q, k) <=> Lies(g, i, j, q, k) /\ ~u[j].mark
      BY <2>1 DEF Unmarked
    <3>3. \A j, q, k : Lies(f, i, j, q, k) => u[j] = t[j]
      BY <1>5, <1>6
    <3>4. QED
      BY <1>7, <2>5, <3>1, <3>2, <3>3
  <2>7. \A j, q, k : Lies(g, i, j, q, k) => j <= l
    BY <1>3, <2>2
  <2>8. QED
    BY <1>1, <1>2, <1>3, <2>5, <2>6, <2>7, OthersKept
<1>10. CASE g[i].data = <<>> /\ ~f[i].linked /\ ~g[i].linked
  <2>1. \A j, q, k : ~Lies(g, i, j, q, k) /\ ~Unmarked(g, i, j, q, k)
    BY <1>10 DEF Lies, Unmarked
  <2>2. ~In(f, i) /\ ~In(g, i)
    BY <1>10 DEF In
  <2>3. QED
    BY <1>1, <1>2, <1>3, <2>1, <2>2, OthersKept
<1>11. QED
  BY <1>8, <1>9, <1>10 DEF Appended

(* StoreAppend keeps the invariant.                                        *)
LEMMA AppendsCommand ==
  ASSUME NEW h, NEW f, NEW r, NEW c, NEW w, NEW d, NEW a, Queue(h, f, r, c, w, d, a),
         NEW g, NEW i, NEW s, NEW p, NEW x, Appended(f, g, i, r, s, p, w, x)
  PROVE  Queue(h, g, s, c, x, d, a)
<1> DEFINE n == r[p].begun
           o == Fate(f, i, r, p)
<1>1. PICK l \in Nat :
        /\ l = Len(f[i].data) + 1
        /\ \A y, j, q, k : Lies(g, y, j, q, k) =>
             Lies(f, y, j, q, k) \/ (y = i /\ j = l /\ q = p /\ k = n)
        /\ \A j, q, k : Lies(g, i, j, q, k) => j <= l
        /\ \A y, j, q, k : In(f, y) /\ Unmarked(f, y, j, q, k) => Unmarked(g, y, j, q, k)
        /\ \A y, j, q, k : Unmarked(g, y, j, q, k) =>
             Unmarked(f, y, j, q, k) \/ (y = i /\ j = l /\ q = p /\ k = n)
        /\ x # w /\ In(g, i) => Unmarked(g, i, l, p, n)
  BY AppendedIs
<1>2. /\ Only(r, s, p, DOMAIN f) /\ p \in Producers /\ ButFor(f, g, i)
      /\ r[p].pc = "locked" /\ s[p].pc = "idle" /\ s[p].begun = n
      /\ Active(r, p) /\ ~Active(s, p) /\ ~Naming(s, p) /\ ~Naming(r, p) /\ ~Holding(s, p)
      /\ Holds(r, p, i) /\ Target(f, r, p) = f[i].name /\ n \in Nat
      /\ x = w \/ x = w \cup {o}
  BY DEF Appended, Only, Active, Naming, Holding, Holds, Target, Queue, Values, ProdType
<1>3. /\ \A y : In(g, y) <=> In(f, y)
      /\ \A y : In(f, y) => g[y].name = f[y].name /\ g[y].taken = f[y].taken
      /\ \A q, y : Holds(r, q, y) /\ q # p => g[y].name = f[y].name /\ g[y].taken = f[y].taken
  <2>0. In(g, i) <=> In(f, i)
    BY <1>2 DEF Appended, NameKept, In, ButFor
  <2>1. \A y : In(g, y) <=> In(f, y)
    BY <1>2, <2>0, OthersKept
  <2>2. \A y : In(f, y) => g[y].name = f[y].name /\ g[y].taken = f[y].taken
    BY <1>2 DEF Appended, NameKept, ButFor, In
  <2>3. \A q, y : Holds(r, q, y) => y \in DOMAIN f
    BY DEF Holds, Holding, Queue, Values
  <2>4. \A q, y : Holds(r, q, y) /\ q # p => g[y].name = f[y].name /\ g[y].taken = f[y].taken
    BY <1>2, <2>3 DEF Appended, NameKept, ButFor
  <2>5. QED
    BY <2>1, <2>2, <2>4
<1>4. o \in FateType /\ o.command = <<p, n>> /\ o.taken = f[i].taken /\ o.fenced = r[p].fenced
  BY <1>2 DEF Fate, FateType, ButFor, Queue, Values, FileType, ProdType
<1> HIDE DEF n, o
<1>5. /\ ~In(f, i) => f[i].taken /\ r[p].fenced
      /\ f[i].taken => r[p].fenced
  <2>1. ~In(f, i) => f[i].taken /\ r[p].fenced
    BY <1>2 DEF Queue, Fence
  <2>2. ASSUME In(f, i), f[i].taken
        PROVE  r[p].fenced
    <3>1. ~Before(f[i].name, f[i].name)
      BY <2>2, NamesAre, BeforeIsOrder
    <3>2. QED
      BY <1>2, <2>2, <3>1 DEF Queue, Fence
  <2>3. QED
    BY <2>1, <2>2
<1>6. Reading(c) /\ c.file = i => f[i].taken
  BY DEF Queue, Position
<1>7. ~AtMark(c, i, l)
  <2>1. SUFFICES ASSUME AtMark(c, i, l)
                 PROVE  FALSE
    OBVIOUS
  <2>2. Reading(c) /\ c.file = i /\ c.pc = "mark" /\ c.pos = l
    BY <2>1 DEF AtMark, Reading
  <2>3. c.pos <= c.eof /\ c.eof <= Len(f[i].data) /\ c.eof \in Nat /\ c.pos \in Nat
        /\ Len(f[i].data) \in Nat
    BY <1>2, <2>2 DEF Queue, Position, Values, ConsType, ButFor, FileType
  <2>4. QED
    BY <1>1, <2>2, <2>3
<1>8. Stores(f, g, i, l, r, s, p, c, w, x, o)
  <2>1. /\ \A y : In(f, y) => In(g, y) /\ g[y].name = f[y].name
        /\ \A y : In(g, y) => In(f, y) \/ y = i
        /\ In(g, i) => g[i].name = Target(f, r, p)
        /\ \A q, y : Holds(r, q, y) /\ q # p => g[y].name = f[y].name
    BY <1>2, <1>3
  <2>2. /\ \A y, j, q, k : Lies(g, y, j, q, k) =>
             Lies(f, y, j, q, k) \/ (y = i /\ j = l /\ q = p /\ k = r[p].begun)
        /\ \A y, j, q, k : In(g, y) /\ Lies(g, y, j, q, k) =>
             (In(f, y) /\ Lies(f, y, j, q, k)) \/ (y = i /\ j = l /\ q = p /\ k = r[p].begun)
        /\ \A y, j, q, k : In(g, y) /\ Unmarked(g, y, j, q, k) =>
             (In(f, y) /\ Unmarked(f, y, j, q, k)) \/ (y = i /\ j = l /\ q = p /\ k = r[p].begun)
    BY <1>1, <1>3 DEF n
  <2>3. x = w \/ (/\ x = w \cup {o}
                  /\ o \in FateType /\ o.command = <<p, r[p].begun>> /\ (o.taken => o.fenced)
                  /\ o.taken \/ (In(g, i) /\ Unmarked(g, i, l, p, r[p].begun))
                  /\ Reading(c) /\ c.file = i => o.taken)
    BY <1>1, <1>2, <1>3, <1>4, <1>5, <1>6 DEF n
  <2>4. QED
    BY <1>1, <1>2, <1>7, <2>1, <2>2, <2>3 DEF Stores, n
<1>9. Known(g, s, x, d) /\ Waiting(g, c, x) /\ Sequence(g, s, c) /\ Order(g, c, d, a)
  BY <1>8, StoresInOrder
<1>10. /\ \A q : Active(s, q) => q # p /\ Active(r, q) /\ s[q] = r[q]
       /\ \A q : Naming(s, q) => q # p /\ Naming(r, q) /\ s[q] = r[q]
       /\ \A q, y : Holds(s, q, y) => q # p /\ Holds(r, q, y)
       /\ \A q, k : Later(s, q, k) => Later(r, q, k)
  <2>1. \A k : Later(s, p, k) => Later(r, p, k)
    BY <1>2 DEF Later, n
  <2>2. \A q, k : Later(s, q, k) => Later(r, q, k)
    BY <1>2, <2>1, OthersGoOn
  <2>3. \A y : ~Holds(s, p, y)
    BY <1>2 DEF Holds
  <2>4. \A q, y : Holds(s, q, y) => q # p /\ Holds(r, q, y)
    BY <1>2, <2>3, OthersGoOn
  <2>5. \A q : Active(s, q) \/ Naming(s, q) => q # p /\ s[q] = r[q]
    BY <1>2 DEF Active, Naming, Only
  <2>6. \A q : Active(s, q) \/ Naming(s, q) => (Active(s, q) <=> Active(r, q)) /\ (Naming(s, q) <=> Naming(r, q))
    BY <2>5 DEF Active, Naming
  <2>7. QED
    BY <2>2, <2>4, <2>5, <2>6
<1>11. \A q : Active(s, q) => Target(g, s, q) = Target(f, r, q)
  <2>1. \A q : Active(s, q) /\ Holding(r, q) => g[r[q].file].name = f[r[q].file].name
    BY <1>3, <1>10 DEF Holds
  <2>2. QED
    BY <1>10, <2>1 DEF Target, Holding
<1>12. Reading(c) => In(f, c.file)
  BY DEF Queue, Position
<1>13. Values(h, g, s, c, x, d, a)
  <2>1. ASSUME NEW q \in Producers
        PROVE  /\ Active(s, q) => <<q, s[q].begun>> \in DOMAIN f
               /\ Holding(s, q) => s[q].file \in DOMAIN f
    <3>1. Holding(s, q) => Active(s, q)
      BY DEF Holding, Active
    <3>2. QED
      BY <1>10, <3>1 DEF Holding, Queue, Values
  <2>2. x \in SUBSET FateType
    BY <1>2, <1>4 DEF Queue, Values
  <2>3. QED
    BY <1>2, <2>1, <2>2 DEF Queue, Values, Only, ButFor
<1>14. Directory(h, g, s)
  <2>1. ASSUME NEW q, Active(s, q), s[q].pc = "putting"
        PROVE  /\ Before(s[q].name, h)
               /\ \A y : In(g, y) => g[y].name # s[q].name
               /\ \A z : Naming(s, z) /\ z # q => s[z].name # s[q].name
    BY <1>3, <1>10, <2>1 DEF Queue, Directory
  <2>2. QED
    BY <1>3, <1>10, <1>11, <2>1 DEF Queue, Directory
<1>15. Fence(h, g, s, c)
  <2>1. ASSUME NEW q, NEW y, Holds(s, q, y), ~In(g, y)
        PROVE  g[y].taken /\ s[q].fenced
    <3>1. Holds(r, q, y) /\ ~In(f, y) /\ g[y].taken = f[y].taken /\ s[q] = r[q]
      BY <1>2, <1>3, <1>10, <2>1 DEF Holds, Holding, Only
    <3>2. QED
      BY <3>1 DEF Queue, Fence
  <2>2. QED
    BY <1>3, <1>10, <1>11, <2>1 DEF Queue, Fence
<1>16. Position(g, c)
  <2>1. ASSUME Reading(c)
        PROVE  /\ In(g, c.file) /\ g[c.file].taken = f[c.file].taken /\ g[c.file].name = f[c.file].name
               /\ Len(f[c.file].data) \in Nat /\ Len(g[c.file].data) \in Nat
               /\ Len(g[c.file].data) >= Len(f[c.file].data)
    <3>1. In(g, c.file) /\ g[c.file].taken = f[c.file].taken /\ g[c.file].name = f[c.file].name
      BY <1>3, <1>12, <2>1
    <3>2. f[c.file].data \in Seq(Entry) /\ g[c.file].data \in Seq(Entry)
      BY <1>2, <1>12, <2>1 DEF Queue, Values, In, ButFor, FileType
    <3>3. CASE c.file = i
      <4>1. f[i].linked
        BY <1>12, <2>1, <3>3 DEF In
      <4>2. PICK e \in Entry : e = [command |-> <<p, n>>, mark |-> FALSE]
        BY <1>2 DEF Entry
      <4>3. g[i].data = f[i].data \/ g[i].data = Append(f[i].data, e)
        BY <4>1, <4>2 DEF Appended, n
      <4>4. QED
        BY <3>1, <3>2, <3>3, <4>2, <4>3, AppendProperties
    <3>4. CASE c.file # i
      <4>1. g[c.file] = f[c.file]
        BY <1>2, <1>12, <2>1, <3>4 DEF ButFor, In
      <4>2. QED
        BY <3>1, <3>2, <4>1
    <3>5. QED
      BY <3>3, <3>4
  <2>2. ASSUME Reading(c), NEW j, NEW q, NEW k, Unmarked(g, c.file, j, q, k)
        PROVE  /\ c.pc = "read" => j > c.pos
               /\ c.pc = "mark" => j >= c.pos
               /\ c.pc = "truncate" => j > c.eof
    <3>1. CASE Unmarked(f, c.file, j, q, k)
      BY <2>2, <3>1 DEF Queue, Position
    <3>2. CASE c.file = i /\ j = l
      <4>1. c.pos \in Nat /\ c.eof \in Nat /\ Len(f[i].data) \in Nat
        BY <1>2, <2>1, <2>2, <3>2 DEF Queue, Values, ConsType
      <4>2. c.pc \in {"read", "mark", "truncate"} => c.eof <= Len(f[i].data)
        BY <2>2, <3>2 DEF Queue, Position
      <4>3. c.pc \in {"read", "mark"} => c.pos <= c.eof
        BY <2>2 DEF Queue, Position
      <4>4. QED
        BY <1>1, <3>2, <4>1, <4>2, <4>3
    <3>3. QED
      BY <1>1, <2>2, <3>1, <3>2
  <2>3. c.eof \in Nat
    BY DEF Queue, Values, ConsType
  <2>4. QED
    BY SMTT(60), <2>1, <2>2, <2>3 DEF Queue, Position
<1>17. QED
  BY <1>9, <1>13, <1>14, <1>15, <1>16 DEF Queue

(* PutCommit: a file with one command gets its name, which no other has.   *)
Committed(f, g, i, r, s, p, w, x) ==
  /\ Only(r, s, p, DOMAIN f) /\ r[p].pc = "putting" /\ i = <<p, r[p].begun>>
  /\ s[p].pc = "idle" /\ s[p].begun = r[p].begun
  /\ ButFor(f, g, i) /\ In(g, i) /\ ~g[i].taken /\ g[i].name = r[p].name
  /\ g[i].data = <<[command |-> <<p, r[p].begun>>, mark |-> FALSE]>>
  /\ x = w \cup {[command |-> <<p, r[p].begun>>, taken |-> FALSE, fenced |-> r[p].fenced]}

(* PutCommit keeps the invariant.                                          *)
LEMMA CommitsFile ==
  ASSUME NEW h, NEW f, NEW r, NEW c, NEW w, NEW d, NEW a, Queue(h, f, r, c, w, d, a),
         NEW g, NEW i, NEW s, NEW p, NEW x, Committed(f, g, i, r, s, p, w, x)
  PROVE  Queue(h, g, s, c, x, d, a)
<1> DEFINE n == r[p].begun
           o == [command |-> <<p, n>>, taken |-> FALSE, fenced |-> r[p].fenced]
<1>1. /\ Only(r, s, p, DOMAIN f) /\ p \in Producers /\ ButFor(f, g, i) /\ i = <<p, n>>
      /\ r[p].pc = "putting" /\ s[p].pc = "idle" /\ s[p].begun = n
      /\ Active(r, p) /\ Naming(r, p) /\ ~Active(s, p) /\ ~Naming(s, p) /\ ~Holding(s, p)
      /\ Later(r, p, n) /\ Target(f, r, p) = r[p].name /\ n \in Nat
      /\ In(g, i) /\ ~g[i].taken /\ g[i].name = r[p].name /\ x = w \cup {o}
  BY DEF Committed, Only, Active, Naming, Holding, Later, Target, Queue, Values, ProdType
<1>2. o \in FateType /\ o.command = <<p, n>> /\ ~o.taken
  BY <1>1 DEF FateType, Queue, Values, ProdType
<1>3. ~In(f, i) /\ \A q : ~Holds(r, q, i)
  BY <1>1 DEF Queue, Directory
<1>4. /\ \A y : In(g, y) <=> In(f, y) \/ y = i
      /\ \A y : In(f, y) => g[y] = f[y]
      /\ \A q, y : Holds(r, q, y) => g[y] = f[y]
  <2>1. \A q, y : Holds(r, q, y) => y \in DOMAIN f
    BY DEF Holds, Holding, Queue, Values
  <2>2. \A y : In(g, y) <=> In(f, y) \/ y = i
    BY <1>1, OthersKept
  <2>3. \A y \in DOMAIN f : y # i => g[y] = f[y]
    BY <1>1 DEF ButFor
  <2>4. \A y : In(f, y) => y \in DOMAIN f
    BY DEF In
  <2>5. QED
    BY <1>3, <2>1, <2>2, <2>3, <2>4
<1>5. /\ \A j, q, k : Lies(g, i, j, q, k) <=> j = 1 /\ q = p /\ k = n
      /\ Unmarked(g, i, 1, p, n)
  <2>1. PICK e : e = [command |-> <<p, n>>, mark |-> FALSE]
    OBVIOUS
  <2>2. g[i].data = <<e>> /\ Len(<<e>>) = 1 /\ <<e>>[1] = e
    BY <2>1 DEF Committed
  <2>3. \A j : j \in 1..1 <=> j = 1
    OBVIOUS
  <2>4. i \in DOMAIN g
    BY <1>1 DEF In
  <2>5. \A j, q, k : Lies(g, i, j, q, k) <=> j = 1 /\ e.command = <<q, k>>
    BY <2>2, <2>3, <2>4 DEF Lies
  <2>6. \A j, q, k : Lies(g, i, j, q, k) <=> j = 1 /\ q = p /\ k = n
    BY <2>1, <2>5
  <2>7. QED
    BY <2>1, <2>2, <2>6 DEF Unmarked
<1>6. /\ \A y, j, q, k : y # i => (Lies(g, y, j, q, k) <=> Lies(f, y, j, q, k))
      /\ \A y, j, q, k : y # i => (Unmarked(g, y, j, q, k) <=> Unmarked(f, y, j, q, k))
      /\ \A j, q, k : Unmarked(g, i, j, q, k) => j = 1 /\ q = p /\ k = n
  <2>1. \A j, q, k : Unmarked(g, i, j, q, k) => j = 1 /\ q = p /\ k = n
    BY <1>5 DEF Unmarked
  <2>2. QED
    BY <1>1, <2>1, OthersKept
<1>7. Reading(c) => In(f, c.file) /\ c.file # i /\ g[c.file] = f[c.file]
  BY <1>3, <1>4 DEF Queue, Position
<1>8. ~AtMark(c, i, 1)
  BY <1>7 DEF AtMark, Reading
<1> HIDE DEF n, o
<1>9. Stores(f, g, i, 1, r, s, p, c, w, x, o)
  <2>1. /\ \A y : In(f, y) => In(g, y) /\ g[y].name = f[y].name
        /\ \A y : In(g, y) => In(f, y) \/ y = i
        /\ In(g, i) => g[i].name = Target(f, r, p)
        /\ \A q, y : Holds(r, q, y) /\ q # p => g[y].name = f[y].name
    BY <1>1, <1>4
  <2>2. /\ \A y, j, q, k : Lies(g, y, j, q, k) =>
             Lies(f, y, j, q, k) \/ (y = i /\ j = 1 /\ q = p /\ k = r[p].begun)
        /\ \A y, j, q, k : In(g, y) /\ Lies(g, y, j, q, k) =>
             (In(f, y) /\ Lies(f, y, j, q, k)) \/ (y = i /\ j = 1 /\ q = p /\ k = r[p].begun)
        /\ \A j, q, k : Lies(g, i, j, q, k) => j <= 1
        /\ \A y, j, q, k : In(f, y) /\ Unmarked(f, y, j, q, k) => Unmarked(g, y, j, q, k)
        /\ \A y, j, q, k : In(g, y) /\ Unmarked(g, y, j, q, k) =>
             (In(f, y) /\ Unmarked(f, y, j, q, k)) \/ (y = i /\ j = 1 /\ q = p /\ k = r[p].begun)
    BY <1>3, <1>4, <1>5, <1>6 DEF n
  <2>3. x = w \/ (/\ x = w \cup {o}
                  /\ o \in FateType /\ o.command = <<p, r[p].begun>> /\ (o.taken => o.fenced)
                  /\ o.taken \/ (In(g, i) /\ Unmarked(g, i, 1, p, r[p].begun))
                  /\ Reading(c) /\ c.file = i => o.taken)
    BY <1>1, <1>2, <1>5, <1>7 DEF n
  <2>4. QED
    BY <1>1, <1>8, <2>1, <2>2, <2>3 DEF Stores, n
<1>10. Known(g, s, x, d) /\ Waiting(g, c, x) /\ Sequence(g, s, c) /\ Order(g, c, d, a)
  BY <1>9, StoresInOrder
<1>11. /\ \A q : Active(s, q) => q # p /\ Active(r, q) /\ s[q] = r[q]
       /\ \A q : Naming(s, q) => q # p /\ Naming(r, q) /\ s[q] = r[q]
       /\ \A q, y : Holds(s, q, y) => q # p /\ Holds(r, q, y)
       /\ \A q, k : Later(s, q, k) => Later(r, q, k) /\ <<q, k>> # i
  <2>1. \A k : Later(s, p, k) => Later(r, p, k) /\ k # n
    BY <1>1 DEF Later, n
  <2>2. \A q, k : Later(s, q, k) => Later(r, q, k) /\ <<q, k>> # i
    BY <1>1, <2>1, OthersGoOn
  <2>3. \A y : ~Holds(s, p, y)
    BY <1>1 DEF Holds
  <2>4. \A q, y : Holds(s, q, y) => q # p /\ Holds(r, q, y)
    BY <1>1, <2>3, OthersGoOn
  <2>5. \A q : Active(s, q) \/ Naming(s, q) => q # p /\ s[q] = r[q]
    BY <1>1 DEF Active, Naming, Only
  <2>6. \A q : Active(s, q) \/ Naming(s, q) => (Active(s, q) <=> Active(r, q)) /\ (Naming(s, q) <=> Naming(r, q))
    BY <2>5 DEF Active, Naming
  <2>7. QED
    BY <2>2, <2>4, <2>5, <2>6
<1>12. \A q : Active(s, q) => Target(g, s, q) = Target(f, r, q)
  <2>1. \A q : Active(s, q) /\ Holding(r, q) => g[r[q].file] = f[r[q].file]
    BY <1>4, <1>11 DEF Holds
  <2>2. QED
    BY <1>11, <2>1 DEF Target, Holding
<1>13. Values(h, g, s, c, x, d, a)
  <2>1. ASSUME NEW q \in Producers
        PROVE  /\ Active(s, q) => <<q, s[q].begun>> \in DOMAIN f
               /\ Holding(s, q) => s[q].file \in DOMAIN f
    <3>1. Holding(s, q) => Active(s, q)
      BY DEF Holding, Active
    <3>2. QED
      BY <1>11, <3>1 DEF Holding, Queue, Values
  <2>2. x \in SUBSET FateType
    BY <1>1, <1>2 DEF Queue, Values
  <2>3. QED
    BY <1>1, <2>1, <2>2 DEF Queue, Values, Only, ButFor
<1>14. Directory(h, g, s)
  <2>1. /\ \A y : In(f, y) => f[y].name # r[p].name
        /\ AtMost(r[p].name, h)
        /\ \A q : Naming(r, q) /\ q # p => r[q].name # r[p].name
    BY <1>1 DEF Queue, Directory
  <2>2. \A y : In(g, y) => AtMost(g[y].name, h)
    BY <1>1, <1>4, <2>1 DEF Queue, Directory
  <2>3. \A y, z : In(g, y) /\ In(g, z) /\ g[y].name = g[z].name => y = z
    <3>1. ASSUME NEW y, NEW z, In(g, y), In(g, z), g[y].name = g[z].name
          PROVE  y = z
      <4>1. CASE y = i \/ z = i
        BY <1>1, <1>4, <2>1, <3>1, <4>1
      <4>2. CASE y # i /\ z # i
        <5>1. In(f, y) /\ In(f, z) /\ f[y].name = f[z].name
          BY <1>4, <3>1, <4>2
        <5>2. QED
          BY <5>1 DEF Queue, Directory
      <4>3. QED
        BY <4>1, <4>2
    <3>2. QED
      BY <3>1
  <2>4. \A q : Active(s, q) => AtMost(Target(g, s, q), h)
    BY <1>11, <1>12 DEF Queue, Directory
  <2>5. ASSUME NEW q, Active(s, q), s[q].pc = "putting"
        PROVE  /\ Before(s[q].name, h)
               /\ \A y : In(g, y) => g[y].name # s[q].name
               /\ \A z : Naming(s, z) /\ z # q => s[z].name # s[q].name
    <3>1. Active(r, q) /\ s[q] = r[q] /\ q # p /\ Naming(r, q)
      BY <1>11, <2>5 DEF Naming, Active
    <3>2. r[q].name # r[p].name
      BY <2>1, <3>1
    <3>3. Before(s[q].name, h)
      BY <2>5, <3>1 DEF Queue, Directory
    <3>4. \A y : In(g, y) => g[y].name # s[q].name
      BY <1>1, <1>4, <2>5, <3>1, <3>2 DEF Queue, Directory
    <3>5. \A z : Naming(s, z) /\ z # q => s[z].name # s[q].name
      BY <1>11, <2>5, <3>1 DEF Queue, Directory
    <3>6. QED
      BY <3>3, <3>4, <3>5
  <2>6. \A q, k : Later(s, q, k) => ~In(g, <<q, k>>) /\ \A z : ~Holds(s, z, <<q, k>>)
    BY ZenonT(40), <1>4, <1>11 DEF Queue, Directory
  <2>7. QED
    BY <2>2, <2>3, <2>4, <2>5, <2>6 DEF Directory
<1>15. Fence(h, g, s, c)
  <2>1. \A y : In(g, y) /\ g[y].taken => In(f, y) /\ f[y].taken /\ g[y].name = f[y].name
    BY <1>1, <1>4
  <2>2. ASSUME NEW q, NEW y, Holds(s, q, y), ~In(g, y)
        PROVE  g[y].taken /\ s[q].fenced
    <3>1. Holds(r, q, y) /\ ~In(f, y) /\ g[y] = f[y] /\ s[q] = r[q]
      BY <1>1, <1>4, <1>11, <2>2 DEF Holds, Holding, Only
    <3>2. QED
      BY <3>1 DEF Queue, Fence
  <2>3. QED
    BY <1>11, <1>12, <2>1, <2>2 DEF Queue, Fence
<1>16. Position(g, c)
  BY <1>4, <1>6, <1>7 DEF Queue, Position
<1>17. QED
  BY <1>10, <1>13, <1>14, <1>15, <1>16 DEF Queue

-----------------------------------------------------------------------------
(* The steps of the specification.                                         *)

(* The commands are pairs of a producer and a number.                      *)
LEMMA CommandsAre ==
  ASSUME load \in Loads
  PROVE  /\ load.commands \in [Producers -> Nat]
         /\ Commands \subseteq Producers \X Nat
         /\ \A p \in Producers : \A k \in Nat :
              <<p, k>> \in Commands <=> k >= 1 /\ k <= load.commands[p]
<1>1. load.commands \in [Producers -> Nat]
  BY QueueAssumption
<1>2. QED
  BY <1>1 DEF Commands

(* A file nobody can reach.                                                *)
LEMMA NoFileIs ==
  /\ NoFile \in FileType /\ ~NoFile.linked /\ NoFile.data = <<>>
  /\ Nothing \notin Producers \X Nat
<1>1. PICK x : x = NewFile(<<0, 0>>, <<>>)
  OBVIOUS
<1>2. x \in FileType /\ x.data = <<>>
  BY <1>1 DEF NewFile, FileType, Holder, Name
<1>3. NoFile = [x EXCEPT !.linked = FALSE]
  BY <1>1 DEF NoFile
<1>4. Nothing \notin Producers \X Nat
  BY QueueAssumption DEF Nothing
<1>5. QED
  BY <1>2, <1>3, <1>4 DEF FileType

(* The file a producer has open.                                           *)
LEMMA FileOfIs == \A p \in Producers : FileOf(p) = prod[p].file
BY QueueAssumption DEF FileOf

(* The invariant holds at the start.                                       *)
LEMMA QueueInit == Init => QueueInv
<1> SUFFICES ASSUME Init
             PROVE  QueueInv
  OBVIOUS
<1>1. load \in Loads /\ DOMAIN files = Commands /\ Commands \subseteq Producers \X Nat
  BY CommandsAre DEF Init
<1>2. /\ \A i : ~In(files, i)
      /\ \A i, j, p, k : ~Lies(files, i, j, p, k) /\ ~Unmarked(files, i, j, p, k)
  BY NoFileIs DEF Init, In, Lies, Unmarked
<1>3. \A p \in Producers : prod[p].pc = "idle" /\ prod[p].begun = 0
  BY DEF Init, ProdIdle
<1>4. \A p : ~Active(prod, p) /\ ~Naming(prod, p) /\ ~Holding(prod, p) /\ \A i : ~Holds(prod, p, i)
  BY <1>3 DEF Active, Naming, Holding, Holds
<1>5. cons.pc = "idle" /\ cons.list = {} /\ ~Reading(cons)
  BY DEF Init, ConsIdle, Reading
<1>6. waiting = {} /\ again = {} /\ \A p \in Producers : done[p] = <<>> /\ Len(done[p]) = 0
  BY DEF Init
<1>7. Values(header, files, prod, cons, waiting, done, again)
  <2>1. files \in [DOMAIN files -> FileType]
    BY NoFileIs DEF Init
  <2>2. prod \in [Producers -> ProdType(DOMAIN files)]
    BY DEF Init, ProdIdle, ProdType, Name
  <2>3. cons \in ConsType(DOMAIN files)
    BY DEF Init, ConsIdle, ConsType, Name
  <2>4. header \in Name /\ done \in [Producers -> Seq(Nat)]
    BY DEF Init, Name
  <2>5. QED
    BY <1>1, <1>4, <1>5, <1>6, <2>1, <2>2, <2>3, <2>4 DEF Values
<1>8. Directory(header, files, prod)
  BY <1>2, <1>4 DEF Directory
<1>9. Fence(header, files, prod, cons)
  BY <1>2, <1>4, <1>5 DEF Fence
<1>10. Position(files, cons) /\ Waiting(files, cons, waiting)
  BY <1>5, <1>6 DEF Position, Waiting
<1>11. Known(files, prod, waiting, done)
  BY <1>2, <1>6 DEF Known
<1>12. Sequence(files, prod, cons)
  BY <1>2 DEF Sequence
<1>13. Order(files, cons, done, again)
  BY <1>2, <1>6 DEF Order
<1>14. QED
  BY <1>1, <1>7, <1>8, <1>9, <1>10, <1>11, <1>12, <1>13 DEF QueueInv, Queue

(* The invariant goes on to the next state with the values there.          *)
LEMMA QueueGoesOn ==
  ASSUME QueueInv, UNCHANGED given, DOMAIN files' = DOMAIN files,
         Queue(header', files', prod', cons', waiting', done', again')
  PROVE  QueueInv'
<1>1. load' = load /\ Commands' = Commands
  BY DEF given, Commands
<1>2. QED
  BY <1>1 DEF QueueInv

(* A new file.                                                             *)
LEMMA NewFileIs ==
  ASSUME NEW n \in Name, NEW t \in Seq(Entry)
  PROVE  /\ NewFile(n, t) \in FileType
         /\ NewFile(n, t).name = n /\ NewFile(n, t).linked = TRUE
         /\ NewFile(n, t).data = t /\ NewFile(n, t).taken = FALSE
BY DEF NewFile, FileType, Holder

(* A process begins a command, or ends it.                                 *)
LEMMA ProdSet ==
  ASSUME NEW r, NEW C, r \in [Producers -> ProdType(C)], NEW p \in Producers,
         NEW y \in ProdType(C), NEW s, s = [r EXCEPT ![p] = y]
  PROVE  Only(r, s, p, C) /\ s[p] = y
BY DEF Only

(* A process that does nothing.                                            *)
LEMMA ProdIdleIs ==
  ASSUME NEW b \in Nat, NEW C
  PROVE  /\ ProdIdle(b) \in ProdType(C)
         /\ ProdIdle(b).pc = "idle" /\ ProdIdle(b).begun = b /\ ProdIdle(b).fenced = FALSE
BY DEF ProdIdle, ProdType, Name

(* What the steps of a producer start from.                                *)
LEMMA ProducerIs ==
  ASSUME QueueInv, NEW p \in Producers
  PROVE  /\ Queue(header, files, prod, cons, waiting, done, again)
         /\ header \in Name /\ prod \in [Producers -> ProdType(Commands)]
         /\ files \in [Commands -> FileType] /\ DOMAIN files = Commands
         /\ prod[p] \in ProdType(Commands) /\ prod[p].begun \in Nat /\ prod[p].name \in Name
         /\ Begin(p) => <<p, prod[p].begun + 1>> \in Commands
         /\ prod[p].pc \in {"opened", "locked"} => prod[p].file \in Commands
         /\ prod[p].pc # "idle" => Command(p) \in Commands
<1>1. load \in Loads /\ DOMAIN files = Commands
      /\ Queue(header, files, prod, cons, waiting, done, again)
  BY DEF QueueInv
<1>2. /\ header \in Name /\ prod \in [Producers -> ProdType(Commands)]
      /\ files \in [Commands -> FileType]
      /\ prod[p].pc \in {"opened", "locked"} => prod[p].file \in Commands
      /\ prod[p].pc # "idle" => Command(p) \in Commands
  BY <1>1 DEF Queue, Values, Holding, Active, Command
<1>3. prod[p] \in ProdType(Commands) /\ prod[p].begun \in Nat /\ prod[p].name \in Name
  BY <1>2 DEF ProdType
<1>4. Begin(p) => <<p, prod[p].begun + 1>> \in Commands
  <2>1. PICK b \in Nat : b = prod[p].begun
    BY <1>3
  <2>2. PICK m \in Nat : m = load.commands[p]
    BY <1>1, CommandsAre
  <2>3. b < m => <<p, b + 1>> \in Commands
    BY <1>1, <2>2, CommandsAre
  <2>4. QED
    BY <2>1, <2>2, <2>3 DEF Begin
<1>5. QED
  BY <1>1, <1>2, <1>3, <1>4

(* StoreName ...                                                           *)
LEMMA StepStoreName ==
  ASSUME QueueInv, NEW p \in Producers, StoreName(p)
  PROVE  QueueInv'
<1>1. PICK now \in Time : header' = IntervalName(now)
  BY DEF StoreName
<1>2. header' \in Name /\ AtMost(header, header')
  BY <1>1, ProducerIs, IntervalNameIs
<1>3. AtMost(header', header')
  BY DEF AtMost
<1> DEFINE b == prod[p].begun + 1
<1>4. b \in Nat
  <2>1. prod[p].begun \in Nat
    BY ProducerIs
  <2>2. QED
    BY <2>1
<1>5. PICK y \in ProdType(Commands) :
        y = [ProdIdle(b) EXCEPT !.pc = "named", !.name = header']
  BY <1>2, <1>4 DEF ProdIdle, ProdType
<1>6. y.pc = "named" /\ y.begun = b /\ y.name = header'
  BY <1>5 DEF ProdIdle
<1>7. prod' = [prod EXCEPT ![p] = y]
  BY <1>5 DEF StoreName
<1>8. Only(prod, prod', p, Commands) /\ prod'[p] = y
  BY <1>7, ProducerIs, ProdSet
<1>9. Named(header, header', header', files, prod, prod', p)
  BY <1>2, <1>3, <1>6, <1>8, ProducerIs DEF Named, StoreName, Begin
<1>10. Queue(header', files, prod', cons, waiting, done, again)
  BY <1>9, ProducerIs, GetsName
<1>11. QED
  BY <1>10, QueueGoesOn DEF StoreName

(* ... and PutName keep the invariant.                                     *)
LEMMA StepPutName ==
  ASSUME QueueInv, NEW p \in Producers, PutName(p), ~astray'
  PROVE  QueueInv'
<1>1. PICK now \in Time :
        /\ header' = HeaderAfter(AfterUnique(NextName(now))) /\ ~Behind(now)
        /\ prod' = [prod EXCEPT ![p] = [ProdIdle(@.begun + 1) EXCEPT !.pc = "putting",
                                                                    !.name = NextName(now)]]
  BY DEF PutName
<1>2. PICK n \in Name : n = NextName(now)
  BY ProducerIs, NextNameIs
<1>3. header' \in Name /\ Before(header, n) /\ Before(n, header')
  BY <1>1, <1>2, ProducerIs, NextNameIs
<1>4. AtMost(header, n) /\ AtMost(n, header')
  BY <1>3 DEF AtMost
<1> DEFINE b == prod[p].begun + 1
<1>5. b \in Nat
  <2>1. prod[p].begun \in Nat
    BY ProducerIs
  <2>2. QED
    BY <2>1
<1>6. PICK y \in ProdType(Commands) : y = [ProdIdle(b) EXCEPT !.pc = "putting", !.name = n]
  BY <1>2, <1>5 DEF ProdIdle, ProdType
<1>7. y.pc = "putting" /\ y.begun = b /\ y.name = n
  BY <1>6 DEF ProdIdle
<1>8. prod' = [prod EXCEPT ![p] = y]
  BY <1>1, <1>2, <1>6
<1>9. Only(prod, prod', p, Commands) /\ prod'[p] = y
  BY <1>8, ProducerIs, ProdSet
<1>10. Named(header, header', n, files, prod, prod', p)
  BY <1>2, <1>3, <1>4, <1>7, <1>9, ProducerIs DEF Named, PutName, Begin
<1>11. Queue(header', files, prod', cons, waiting, done, again)
  BY <1>10, ProducerIs, GetsName
<1>12. QED
  BY <1>11, QueueGoesOn DEF PutName

(* StoreOpen keeps it, ...                                                 *)
LEMMA StepStoreOpen ==
  ASSUME QueueInv, NEW p \in Producers, StoreOpen(p)
  PROVE  QueueInv'
<1> DEFINE n == prod[p].name
           there == InDirectory(n)
<1>1. PICK i \in IF there = {} THEN {Command(p)} ELSE there :
        /\ files' = IF there = {} THEN [files EXCEPT ![i] = NewFile(n, <<>>)] ELSE files
        /\ prod' = [prod EXCEPT ![p].pc = "opened", ![p].file = i, ![p].name = <<0, 0>>]
  BY DEF StoreOpen
<1>2. prod[p].pc = "named" /\ Command(p) \in Commands /\ n \in Name
  BY ProducerIs DEF StoreOpen
<1>3. i \in Commands
  BY <1>1, <1>2 DEF InDirectory
<1>4. PICK y \in ProdType(Commands) :
        y = [[[prod[p] EXCEPT !.pc = "opened"] EXCEPT !.file = i] EXCEPT !.name = <<0, 0>>]
  BY <1>3, ProducerIs DEF ProdType, Name
<1>5. y.pc = "opened" /\ y.file = i /\ y.begun = prod[p].begun /\ y.fenced = prod[p].fenced
  BY <1>4, ProducerIs DEF ProdType
<1>6. prod' = [prod EXCEPT ![p] = y]
  BY <1>1, <1>4
<1>7. Only(prod, prod', p, Commands) /\ prod'[p] = y
  BY <1>6, ProducerIs, ProdSet
<1>8. /\ In(files', i) /\ files'[i].name = n
      /\ \/ files' = files
         \/ /\ i = <<p, prod[p].begun>> /\ ButFor(files, files', i) /\ files'[i].data = <<>>
            /\ ~files'[i].taken /\ \A x : In(files, x) => files[x].name # n
  <2>1. CASE there = {}
    <3>0. <<>> \in Seq(Entry)
      OBVIOUS
    <3>1. PICK z \in FileType : z = NewFile(n, <<>>)
      BY <1>2, <3>0, NewFileIs
    <3>2. z.name = n /\ z.linked = TRUE /\ z.data = <<>> /\ z.taken = FALSE
      BY ZenonT(40), <1>2, <3>0, <3>1, NewFileIs
    <3>3. i = <<p, prod[p].begun>> /\ files' = [files EXCEPT ![i] = z]
      BY <1>1, <2>1, <3>1 DEF Command
    <3>4. ButFor(files, files', i) /\ files'[i] = z
      BY <1>3, <3>3, ProducerIs DEF ButFor
    <3>5. \A x : In(files, x) => files[x].name # n
      BY <2>1, ProducerIs DEF In, InDirectory
    <3>6. QED
      BY <1>3, <3>2, <3>3, <3>4, <3>5 DEF In, ButFor
  <2>2. CASE there # {}
    <3>1. files' = files /\ i \in there
      BY <1>1, <2>2
    <3>2. QED
      BY <3>1, ProducerIs DEF InDirectory, In
  <2>3. QED
    BY <2>1, <2>2
<1>9. FileFor(files, files', i, prod, prod', p)
  BY <1>2, <1>5, <1>7, <1>8, ProducerIs DEF FileFor
<1>10. Queue(header, files', prod', cons, waiting, done, again)
  BY <1>9, ProducerIs, OpensForStore
<1>11. DOMAIN files' = DOMAIN files
  BY <1>8 DEF ButFor
<1>12. QED
  BY <1>10, <1>11, QueueGoesOn DEF StoreOpen

(* One file is replaced.                                                   *)
LEMMA FileSet ==
  ASSUME NEW f, NEW C, f \in [C -> FileType], NEW i \in C, NEW y \in FileType,
         NEW g, g = [f EXCEPT ![i] = y]
  PROVE  ButFor(f, g, i) /\ g[i] = y /\ g \in [C -> FileType]
BY DEF ButFor

(* The file's lock is taken or given back.                                 *)
LEMMA LockSet ==
  ASSUME NEW y \in FileType, NEW o \in Holder
  PROVE  /\ [y EXCEPT !.lock = o] \in FileType
         /\ [y EXCEPT !.lock = o].name = y.name /\ [y EXCEPT !.lock = o].linked = y.linked
         /\ [y EXCEPT !.lock = o].data = y.data /\ [y EXCEPT !.lock = o].taken = y.taken
BY DEF FileType

(* StoreLock, ...                                                          *)
LEMMA StepStoreLock ==
  ASSUME QueueInv, NEW p \in Producers, StoreLock(p)
  PROVE  QueueInv'
<1>1. /\ prod[p].pc = "opened" /\ prod[p].file \in Commands /\ p \in Holder
      /\ files[prod[p].file] \in FileType
  BY ProducerIs DEF StoreLock, Holder
<1>2. PICK x \in FileType : x = [files[prod[p].file] EXCEPT !.lock = p]
  BY <1>1, LockSet
<1>3. files' = [files EXCEPT ![prod[p].file] = x]
  BY <1>2 DEF StoreLock
<1>4. SameView(files, files')
  <2>1. PICK i \in Commands : i = prod[p].file
    BY <1>1
  <2>2. x.name = files[i].name /\ x.linked = files[i].linked
        /\ x.data = files[i].data /\ x.taken = files[i].taken
    BY <1>1, <1>2, <2>1, LockSet
  <2>3. files' = [files EXCEPT ![i] = x]
    BY <1>3, <2>1
  <2>4. files \in [Commands -> FileType] /\ DOMAIN files = Commands
    BY ProducerIs
  <2>5. QED
    BY <2>2, <2>3, <2>4 DEF SameView
<1>5. PICK y \in ProdType(Commands) : y = [prod[p] EXCEPT !.pc = "locked"]
  BY ProducerIs DEF ProdType
<1>6. y.pc = "locked" /\ y.file = prod[p].file /\ y.begun = prod[p].begun /\ y.fenced = prod[p].fenced
  BY <1>5, ProducerIs DEF ProdType
<1>7. prod' = [prod EXCEPT ![p] = y]
  BY <1>5 DEF StoreLock
<1>8. Only(prod, prod', p, Commands) /\ prod'[p] = y
  BY <1>7, ProducerIs, ProdSet
<1>9. Queue(header, files', prod, cons, waiting, done, again)
  BY <1>4, ProducerIs, ViewKept
<1>10. DOMAIN files' = Commands /\ DOMAIN files = Commands
  BY <1>4, ProducerIs DEF SameView
<1>11. Only(prod, prod', p, DOMAIN files')
  BY <1>8, <1>10
<1>12. Queue(header, files', prod', cons, waiting, done, again)
  BY <1>1, <1>6, <1>8, <1>9, <1>11, LocksFile
<1>13. QED
  BY <1>10, <1>12, QueueGoesOn DEF StoreLock

(* ... StoreAppend ...                                                     *)
LEMMA StepStoreAppend ==
  ASSUME QueueInv, NEW p \in Producers, StoreAppend(p)
  PROVE  QueueInv'
<1> DEFINE i == prod[p].file
           others == (Producers \ {p}) \cup {"consumer"}
<1>1. PICK f \in FileType : f = files[i]
  BY ProducerIs DEF StoreAppend
<1>2. PICK c : c = Command(p)
  OBVIOUS
<1>3. PICK t \in Seq(Entry) : t = f.data
  BY <1>1 DEF FileType
<1>4. PICK e \in Entry : e = [command |-> c, mark |-> FALSE]
  BY <1>2, ProducerIs DEF Command, Entry
<1>5. Append(t, e) \in Seq(Entry)
  BY AppendProperties
<1>6. PICK u \in Seq(Entry) : u = IF TakesMore(f) THEN Append(t, e) ELSE t
  BY <1>5
<1>7. PICK v \in FileType : v = [[f EXCEPT !.lock = NoOne] EXCEPT !.data = u]
  BY DEF FileType, Holder
<1>8. v.name = f.name /\ v.linked = f.linked /\ v.taken = f.taken /\ v.data = u
  BY <1>7 DEF FileType
<1>9. PICK z \in FileType : z = Closed(v, i, others)
  BY NoFileIs DEF Closed
<1>10. files' = [files EXCEPT ![i] = z]
  BY <1>1, <1>2, <1>3, <1>4, <1>6, <1>7, <1>9 DEF StoreAppend
<1>11. \/ /\ z.name = f.name /\ z.linked = f.linked /\ z.taken = f.taken /\ z.data = u
       \/ ~f.linked /\ ~z.linked /\ z.data = <<>> /\ \A q \in Producers \ {p} : prod[q].file # i
  BY <1>8, <1>9, NoFileIs, FileOfIs DEF Closed
<1>12. /\ prod[p].pc = "locked" /\ i \in Commands /\ prod[p].begun \in Nat
       /\ files \in [Commands -> FileType] /\ DOMAIN files = Commands
       /\ prod \in [Producers -> ProdType(Commands)]
  BY ProducerIs DEF StoreAppend
<1>13. PICK b \in Nat : b = prod[p].begun
  BY <1>12
<1>14. PICK y \in ProdType(Commands) : y = ProdIdle(b)
  BY ProdIdleIs
<1>15. y.pc = "idle" /\ y.begun = b
  BY <1>14, ProdIdleIs
<1>16. prod' = [prod EXCEPT ![p] = y]
  BY <1>13, <1>14 DEF StoreAppend
<1>17. Only(prod, prod', p, Commands) /\ prod'[p] = y
  BY <1>12, <1>16, ProdSet
<1>18. ButFor(files, files', i) /\ files'[i] = z
  <2>1. PICK j \in Commands : j = i
    BY <1>12
  <2>2. files' = [files EXCEPT ![j] = z]
    BY <1>10, <2>1
  <2>3. ButFor(files, files', j) /\ files'[j] = z
    BY <1>12, <2>2, FileSet
  <2>4. QED
    BY <2>1, <2>3
<1>19. waiting' = IF TakesMore(f) THEN waiting \cup {Fate(files, i, prod, p)} ELSE waiting
  BY <1>1, <1>2 DEF StoreAppend, Fate, Command
<1>20. Appended(files, files', i, prod, prod', p, waiting, waiting')
  <2>1. CASE /\ z.name = f.name /\ z.linked = f.linked /\ z.taken = f.taken /\ z.data = u
    <3>1. NameKept(files, files', i) /\ files'[i].taken = files[i].taken
      BY SMTT(60), <1>1, <1>18, <2>1 DEF NameKept
    <3>2. \/ waiting' = waiting /\ files'[i].data = files[i].data
          \/ /\ waiting' = waiting \cup {Fate(files, i, prod, p)}
             /\ files'[i].data = Append(files[i].data, [command |-> <<p, prod[p].begun>>, mark |-> FALSE])
      BY <1>1, <1>2, <1>3, <1>4, <1>6, <1>18, <1>19, <2>1 DEF Command
    <3>3. QED
      BY <1>12, <1>13, <1>15, <1>17, <1>18, <3>1, <3>2 DEF Appended
  <2>2. CASE ~f.linked /\ ~z.linked /\ z.data = <<>> /\ \A q \in Producers \ {p} : prod[q].file # i
    <3>1. \A q : q # p => ~Holds(prod, q, i)
      BY <2>2 DEF Holds, Holding
    <3>2. waiting' = waiting \/ waiting' = waiting \cup {Fate(files, i, prod, p)}
      BY <1>19
    <3>3. QED
      BY <1>1, <1>12, <1>13, <1>15, <1>17, <1>18, <2>2, <3>1, <3>2 DEF Appended
  <2>3. QED
    BY SMTT(60), <1>11, <2>1, <2>2
<1> HIDE DEF i
<1>21. Queue(header, files', prod', cons, waiting', done, again)
  BY <1>20, ProducerIs, AppendsCommand
<1>22. DOMAIN files' = DOMAIN files
  BY <1>18 DEF ButFor
<1>23. QED
  BY <1>21, <1>22, QueueGoesOn DEF StoreAppend

(* The files when some are no longer in the directory.                     *)
LEMMA WithoutIs ==
  ASSUME NEW S, files \in [Commands -> FileType]
  PROVE  /\ \A i \in Commands \ S : Without(S)[i] = files[i]
         /\ \A i \in Commands \cap S : Without(S)[i] = [files[i] EXCEPT !.linked = FALSE]
         /\ S = {} => Without(S) = files
<1>1. \A f \in FileType : [f EXCEPT !.linked = f.linked] = f
  BY DEF FileType
<1>2. \A i \in Commands \ S : Without(S)[i] = files[i]
  <2>1. SUFFICES ASSUME NEW i \in Commands \ S
                 PROVE  Without(S)[i] = files[i]
    OBVIOUS
  <2>2. PICK f \in FileType : f = files[i]
    OBVIOUS
  <2>3. (f.linked /\ i \notin S) = f.linked
    BY <2>2 DEF FileType
  <2>4. Without(S)[i] = [f EXCEPT !.linked = f.linked /\ i \notin S]
    BY <2>2 DEF Without
  <2>5. QED
    BY <1>1, <2>2, <2>3, <2>4
<1>3. \A i \in Commands \cap S : Without(S)[i] = [files[i] EXCEPT !.linked = FALSE]
  <2>1. SUFFICES ASSUME NEW i \in Commands \cap S
                 PROVE  Without(S)[i] = [files[i] EXCEPT !.linked = FALSE]
    OBVIOUS
  <2>2. (files[i].linked /\ i \notin S) = FALSE
    OBVIOUS
  <2>3. Without(S)[i] = [files[i] EXCEPT !.linked = files[i].linked /\ i \notin S]
    BY DEF Without
  <2>4. QED
    BY <2>2, <2>3
<1>4. S = {} => Without(S) = files
  <2>1. Without(S) = [i \in Commands |-> Without(S)[i]]
    BY DEF Without
  <2>2. QED
    BY <1>2, <2>1
<1>5. QED
  BY <1>2, <1>3, <1>4

(* ... and PutCommit keep it.                                              *)
LEMMA StepPutCommit ==
  ASSUME QueueInv, NEW p \in Producers, PutCommit(p)
  PROVE  QueueInv'
<1> DEFINE n == prod[p].name
<1>1. /\ prod[p].pc = "putting" /\ Command(p) \in Commands /\ n \in Name
      /\ files \in [Commands -> FileType] /\ DOMAIN files = Commands
      /\ prod \in [Producers -> ProdType(Commands)] /\ prod[p].begun \in Nat
      /\ Queue(header, files, prod, cons, waiting, done, again)
  BY ProducerIs DEF PutCommit
<1>2. InDirectory(n) = {}
  <2>1. Active(prod, p)
    BY <1>1 DEF Active
  <2>2. \A i : In(files, i) => files[i].name # n
    BY <1>1, <2>1 DEF Queue, Directory
  <2>3. QED
    BY <1>1, <2>2 DEF InDirectory, In
<1>3. PICK i \in Commands : i = Command(p)
  BY <1>1
<1>4. PICK e \in Entry : e = [command |-> i, mark |-> FALSE]
  BY <1>1, <1>3 DEF Entry, Command
<1>5. PICK t \in Seq(Entry) : t = <<e>>
  <2>1. <<e>> \in Seq(Entry)
    OBVIOUS
  <2>2. QED
    BY <2>1
<1>6. PICK z \in FileType : z = NewFile(n, t)
  BY <1>1, NewFileIs
<1>7. z.name = n /\ z.linked = TRUE /\ z.data = t /\ z.taken = FALSE
  BY ZenonT(40), <1>1, <1>6, NewFileIs
<1>8. files' = [files EXCEPT ![i] = z]
  <2>1. files' = [Without(InDirectory(n)) EXCEPT ![i] = z]
    BY <1>3, <1>4, <1>5, <1>6 DEF PutCommit
  <2>2. Without(InDirectory(n)) = files
    BY <1>1, <1>2, WithoutIs
  <2>3. QED
    BY <2>1, <2>2
<1>9. ButFor(files, files', i) /\ files'[i] = z /\ In(files', i)
  BY <1>1, <1>7, <1>8, FileSet DEF In
<1>10. PICK b \in Nat : b = prod[p].begun
  BY <1>1
<1>11. PICK y \in ProdType(Commands) : y = ProdIdle(b)
  BY ProdIdleIs
<1>12. y.pc = "idle" /\ y.begun = b
  BY <1>11, ProdIdleIs
<1>13. prod' = [prod EXCEPT ![p] = y]
  BY <1>10, <1>11 DEF PutCommit
<1>14. Only(prod, prod', p, Commands) /\ prod'[p] = y
  BY <1>1, <1>13, ProdSet
<1>15. i = <<p, prod[p].begun>>
  BY <1>3 DEF Command
<1>16. waiting' = waiting \cup {[command |-> i, taken |-> FALSE, fenced |-> prod[p].fenced]}
  BY <1>3 DEF PutCommit
<1>17. Committed(files, files', i, prod, prod', p, waiting, waiting')
  BY <1>1, <1>4, <1>5, <1>7, <1>9, <1>10, <1>12, <1>14, <1>15, <1>16 DEF Committed
<1>18. Queue(header, files', prod', cons, waiting', done, again)
  BY <1>1, <1>17, CommitsFile
<1>19. DOMAIN files' = DOMAIN files
  BY <1>9 DEF ButFor
<1>20. QED
  BY <1>18, <1>19, QueueGoesOn DEF PutCommit

(* What the steps of the consumer start from.                              *)
LEMMA ConsumerIs ==
  ASSUME QueueInv
  PROVE  /\ Queue(header, files, prod, cons, waiting, done, again)
         /\ header \in Name /\ prod \in [Producers -> ProdType(Commands)]
         /\ files \in [Commands -> FileType] /\ DOMAIN files = Commands
         /\ cons \in ConsType(Commands) /\ Position(files, cons)
         /\ Reading(cons) => /\ cons.file \in Commands /\ files[cons.file] \in FileType
                             /\ Data \in Seq(Entry)
<1>1. DOMAIN files = Commands /\ Queue(header, files, prod, cons, waiting, done, again)
  BY DEF QueueInv
<1>2. /\ header \in Name /\ prod \in [Producers -> ProdType(Commands)]
      /\ files \in [Commands -> FileType] /\ cons \in ConsType(Commands) /\ Position(files, cons)
      /\ Reading(cons) => cons.file \in Commands
  BY <1>1 DEF Queue, Values
<1>3. Reading(cons) => files[cons.file] \in FileType
  BY <1>2
<1>4. Reading(cons) => Data \in Seq(Entry)
  BY <1>3 DEF Data, FileType
<1>5. QED
  BY <1>1, <1>2, <1>3, <1>4

(* OpenDir, ...                                                            *)
LEMMA StepOpenDir ==
  ASSUME QueueInv, OpenDir
  PROVE  QueueInv'
<1>1. PICK now \in Time : /\ header' = HeaderAfter(NextName(now))
                           /\ cons' = [ConsIdle EXCEPT !.pc = "listing", !.fence = NextName(now)]
  BY DEF OpenDir
<1> DEFINE t == NextName(now)
<1>2. /\ header' \in Name /\ Before(header, header')
      /\ t \in Name /\ AtMost(t, header')
  BY <1>1, ConsumerIs, NextNameIs
<1>3. \A p \in Producers :
        /\ prod'[p].pc = prod[p].pc /\ prod'[p].begun = prod[p].begun
        /\ prod'[p].name = prod[p].name /\ prod'[p].file = prod[p].file
        /\ prod'[p].fenced = (prod[p].pc # "idle")
  BY ConsumerIs DEF OpenDir, ProdType
<1>4. prod' \in [Producers -> [pc : {"idle", "named", "opened", "locked", "putting"}, begun : Nat,
                               name : Name, file : {prod[p].file : p \in Producers}, fenced : BOOLEAN]]
  <2>1. PICK S : S = [pc : {"idle", "named", "opened", "locked", "putting"}, begun : Nat,
                      name : Name, file : {prod[p].file : p \in Producers}, fenced : BOOLEAN]
    OBVIOUS
  <2>2. ASSUME NEW p \in Producers
        PROVE  [prod[p] EXCEPT !.fenced = prod[p].pc # "idle"] \in S
    <3>1. PICK r : r = prod[p] /\ r \in ProdType(Commands) /\ r.file \in {prod[q].file : q \in Producers}
      BY ConsumerIs
    <3>2. PICK b \in BOOLEAN : b = (r.pc # "idle")
      OBVIOUS
    <3>3. [r EXCEPT !.fenced = b] \in S
      BY <2>1, <3>1 DEF ProdType
    <3>4. QED
      BY <3>1, <3>2, <3>3
  <2>3. prod' = [p \in Producers |-> [prod[p] EXCEPT !.fenced = prod[p].pc # "idle"]]
    BY DEF OpenDir
  <2>4. prod' \in [Producers -> S]
    BY <2>2, <2>3
  <2>5. QED
    BY <2>1, <2>4
<1>5. FenceRaised(t, prod, prod', cons')
  BY <1>1, <1>3, <1>4 DEF FenceRaised
<1> HIDE DEF t
<1>6. Queue(header', files, prod', cons', waiting, done, again)
  BY <1>2, <1>5, ConsumerIs, RaisesFence DEF OpenDir
<1>7. QED
  BY <1>6, QueueGoesOn DEF OpenDir

(* ... ListFiles ...                                                       *)
LEMMA StepListFiles ==
  ASSUME QueueInv, ListFiles
  PROVE  QueueInv'
<1>1. BelowFence = {n \in {files[i].name : i \in {j \in DOMAIN files : files[j].linked}} :
                      Before(n, cons.fence)}
  BY ConsumerIs DEF BelowFence, Names
<1>2. Queue(header, files, prod, cons', waiting, done, again)
  BY <1>1, ConsumerIs, Lists DEF ListFiles
<1>3. QED
  BY <1>2, QueueGoesOn DEF ListFiles

(* ... and OpenFile keep the invariant.                                    *)
LEMMA StepOpenFile ==
  ASSUME QueueInv, OpenFile
  PROVE  QueueInv'
<1>1. PICK i \in Commands :
        /\ files[i].linked /\ IsNext(files[i].name)
        /\ files' = [files EXCEPT ![i].lock = IF @ = NoOne THEN "consumer" ELSE @, ![i].taken = TRUE]
        /\ cons' = [cons EXCEPT !.pc = IF files[i].data = <<>> THEN "empty" ELSE "read",
                                !.file = i, !.eof = Len(files[i].data), !.pos = 0]
  BY DEF OpenFile
<1>2. PICK f \in FileType : f = files[i]
  BY ConsumerIs
<1>3. PICK o \in Holder : o = IF f.lock = NoOne THEN "consumer" ELSE f.lock
  BY DEF FileType, Holder
<1>4. PICK z \in FileType : z = [[f EXCEPT !.lock = o] EXCEPT !.taken = TRUE]
  BY DEF FileType
<1>5. z.name = f.name /\ z.linked = f.linked /\ z.data = f.data /\ z.taken = TRUE
  BY <1>4 DEF FileType
<1>6. files' = [files EXCEPT ![i] = z]
  BY <1>1, <1>2, <1>3, <1>4
<1>7. ButFor(files, files', i) /\ files'[i] = z
  BY <1>6, ConsumerIs, FileSet
<1>8. NameKept(files, files', i) /\ files'[i].data = files[i].data /\ files'[i].taken
  BY <1>2, <1>5, <1>7 DEF NameKept
<1>9. PICK l \in Nat : l = Len(f.data)
  BY DEF FileType
<1>10. PICK x \in {"read", "empty"} : x = IF f.data = <<>> THEN "empty" ELSE "read"
  OBVIOUS
<1>11. PICK c \in ConsType(Commands) :
         c = [[[[cons EXCEPT !.pc = x] EXCEPT !.file = i] EXCEPT !.eof = l] EXCEPT !.pos = 0]
  BY ConsumerIs DEF ConsType
<1>12. c.pc = x /\ c.file = i /\ c.eof = l /\ c.pos = 0 /\ c.list = cons.list
  BY <1>11, ConsumerIs DEF ConsType
<1>13. cons' = c
  BY <1>1, <1>2, <1>9, <1>10, <1>11
<1>14. Opened(files, files', i, cons, cons')
  BY <1>2, <1>7, <1>8, <1>9, <1>10, <1>12, <1>13, ConsumerIs DEF Opened
<1>15. In(files, i) /\ files[i].name \in cons.list
       /\ \A n \in cons.list \ {files[i].name} : Before(files[i].name, n)
  BY <1>1, ConsumerIs DEF In, IsNext
<1>16. Queue(header, files', prod, cons', waiting, done, again)
  BY <1>14, <1>15, ConsumerIs, OpensFile DEF OpenFile
<1>17. DOMAIN files' = DOMAIN files
  BY <1>7 DEF ButFor
<1>18. QED
  BY <1>16, <1>17, QueueGoesOn DEF OpenFile

(* What the buffer still has.                                              *)
LEMMA AheadIs ==
  ASSUME QueueInv, cons.pc = "read"
  PROVE  /\ Ahead = {} => \A j, p, k : Unmarked(files, cons.file, j, p, k) => j > cons.eof
         /\ Ahead # {} => \E p \in Producers : \E k \in Nat :
              /\ NextAhead \in 1..cons.eof /\ Unmarked(files, cons.file, NextAhead, p, k)
              /\ Data[NextAhead].command = <<p, k>>
              /\ \A j, q, k2 : Unmarked(files, cons.file, j, q, k2) => j >= NextAhead
<1>1. /\ Reading(cons) /\ cons.file \in Commands /\ Data \in Seq(Entry)
      /\ cons.pos \in Nat /\ cons.eof \in Nat /\ cons.eof <= Len(Data)
      /\ DOMAIN files = Commands /\ Len(Data) \in Nat
  BY ConsumerIs DEF Reading, ConsType, Position, Data
<1>2. \A j, p, k : Unmarked(files, cons.file, j, p, k) =>
        j \in Nat /\ j > cons.pos /\ (j <= cons.eof => j \in Ahead)
  <2>1. ASSUME NEW j, NEW p, NEW k, Unmarked(files, cons.file, j, p, k)
        PROVE  j \in Nat /\ j > cons.pos /\ (j <= cons.eof => j \in Ahead)
    <3>1. j \in 1..Len(Data) /\ ~Data[j].mark
      BY <2>1 DEF Unmarked, Lies, Data
    <3>2. j > cons.pos
      BY <1>1, <2>1, ConsumerIs DEF Position
    <3>3. QED
      BY <1>1, <3>1, <3>2 DEF Ahead
  <2>2. QED
    BY <2>1
<1>3. Ahead = {} => \A j, p, k : Unmarked(files, cons.file, j, p, k) => j > cons.eof
  BY <1>1, <1>2
<1>4. ASSUME Ahead # {}
      PROVE  \E p \in Producers : \E k \in Nat :
              /\ NextAhead \in 1..cons.eof /\ Unmarked(files, cons.file, NextAhead, p, k)
              /\ Data[NextAhead].command = <<p, k>>
              /\ \A j, q, k2 : Unmarked(files, cons.file, j, q, k2) => j >= NextAhead
  <2>1. Ahead \subseteq Nat
    BY <1>1 DEF Ahead
  <2>2. PICK m \in Ahead : \A k \in Ahead : m <= k
    BY <1>4, <2>1, MinOfNaturals
  <2>3. PICK l \in Ahead : l = NextAhead /\ \A k \in Ahead : l <= k
    BY <2>2 DEF NextAhead
  <2>4. l \in 1..cons.eof /\ l \in 1..Len(Data) /\ ~Data[l].mark /\ l \in Nat
    BY <1>1, <2>3 DEF Ahead
  <2>5. Data[l] \in Entry
    BY <1>1, <2>4
  <2>6. PICK p \in Producers, k \in Nat : Data[l].command = <<p, k>>
    BY <2>5 DEF Entry
  <2>7. Unmarked(files, cons.file, l, p, k)
    BY <1>1, <2>4, <2>6 DEF Unmarked, Lies, Data
  <2>8. \A j, q, k2 : Unmarked(files, cons.file, j, q, k2) => j >= l
    BY <1>1, <1>2, <2>3, <2>4
  <2>9. QED
    BY <2>3, <2>4, <2>6, <2>7, <2>8
<1>5. QED
  BY <1>3, <1>4

(* Perform: what the consumer does with the next command, wherever it then *)
(* stands, is what this step does.                                         *)
LEMMA DoesNext ==
  ASSUME QueueInv, cons.pc = "read", Ahead # {}, Does(Data[NextAhead].command)
  PROVE  LET b == [cons EXCEPT !.pc = "mark", !.pos = NextAhead] IN
         /\ Queue(header, files, prod, b, waiting', done', again)
         /\ \A p, k : Lies(files, b.file, b.pos, p, k) => <<p, k>> = Data[NextAhead].command
         /\ Data[NextAhead].command \in Producers \X Nat
<1>1. PICK p \in Producers, k \in Nat :
        /\ NextAhead \in 1..cons.eof /\ Unmarked(files, cons.file, NextAhead, p, k)
        /\ Data[NextAhead].command = <<p, k>>
        /\ \A j, q, k2 : Unmarked(files, cons.file, j, q, k2) => j >= NextAhead
  BY AheadIs
<1>2. PICK j \in 1..cons.eof : j = NextAhead
  BY <1>1
<1>3. cons \in ConsType(Commands) /\ DOMAIN files = Commands /\ cons.eof \in Nat /\ j \in Nat
  BY <1>2, ConsumerIs DEF ConsType
<1>4. PICK b \in ConsType(Commands) : b = [[cons EXCEPT !.pc = "mark"] EXCEPT !.pos = j]
  BY <1>3 DEF ConsType
<1>5. b.pc = "mark" /\ b.pos = j /\ b.eof = cons.eof /\ Along(cons, b)
  BY <1>3, <1>4 DEF ConsType, Along
<1>6. waiting' = {w \in waiting : w.command # <<p, k>>} /\ done' = [done EXCEPT ![p] = Append(@, k)]
  BY <1>1 DEF Does
<1>7. Done(files, cons, b, j, p, k, waiting, waiting', done, done')
  BY <1>3, <1>5, <1>6 DEF Done
<1>8. Queue(header, files, prod, b, waiting', done', again)
  BY <1>1, <1>2, <1>7, ConsumerIs, Performs
<1>9. b = [cons EXCEPT !.pc = "mark", !.pos = NextAhead]
  BY <1>2, <1>4
<1>10. \A q, k2 : Lies(files, b.file, b.pos, q, k2) => <<q, k2>> = Data[NextAhead].command
  BY <1>2, <1>5 DEF Lies, Along, Data
<1>11. QED
  BY <1>1, <1>8, <1>9, <1>10

(* Perform ...                                                             *)
LEMMA StepPerform ==
  ASSUME QueueInv, Perform
  PROVE  QueueInv'
<1>1. Queue(header, files, prod, cons', waiting', done', again)
  BY DoesNext DEF Perform
<1>2. QED
  BY <1>1, QueueGoesOn DEF Perform

(* ... and Mark keep the invariant, ...                                    *)
LEMMA StepMark ==
  ASSUME QueueInv, Mark
  PROVE  QueueInv'
<1>1. /\ Reading(cons) /\ cons.pc = "mark" /\ DOMAIN files = Commands
      /\ files \in [Commands -> FileType] /\ cons \in ConsType(Commands)
  BY ConsumerIs DEF Mark, Reading
<1>2. PICK i \in Commands : i = cons.file
  BY <1>1, ConsumerIs
<1>3. PICK f \in FileType : f = files[i]
  BY <1>1
<1>4. PICK t \in Seq(Entry) : t = f.data
  BY DEF FileType
<1>5. PICK m \in Nat : m = cons.pos
  BY <1>1 DEF ConsType
<1>6. PICK u \in Seq(Entry) : u = [t EXCEPT ![m].mark = TRUE] /\ Len(u) = Len(t)
  <2>1. m \in 1..Len(t)
    <3>1. cons.pos >= 1 /\ cons.pos <= cons.eof /\ cons.eof <= Len(files[cons.file].data)
      BY <1>1, ConsumerIs DEF Position
    <3>2. cons.eof \in Nat /\ Len(t) \in Nat
      BY <1>1 DEF ConsType
    <3>3. QED
      BY <1>2, <1>3, <1>4, <1>5, <3>1, <3>2
  <2>2. t[m] \in Entry
    BY <2>1
  <2>3. PICK e \in Entry : e = [t[m] EXCEPT !.mark = TRUE]
    BY <2>2 DEF Entry
  <2>4. [t EXCEPT ![m].mark = TRUE] = [t EXCEPT ![m] = e]
    BY <2>3
  <2>5. [t EXCEPT ![m] = e] \in Seq(Entry) /\ Len([t EXCEPT ![m] = e]) = Len(t)
    BY <2>1, ExceptSeq
  <2>6. QED
    BY <2>4, <2>5
<1>7. /\ Len(u) = Len(t)
      /\ \A j \in 1..Len(t) : /\ u[j].command = t[j].command
                              /\ u[j].mark <=> t[j].mark \/ j = m
  <2>1. \A j \in 1..Len(t) : t[j] \in Entry
    OBVIOUS
  <2>2. DOMAIN t = 1..Len(t)
    OBVIOUS
  <2>3. \A j \in 1..Len(t) : u[j] = IF j = m THEN [t[j] EXCEPT !.mark = TRUE] ELSE t[j]
    BY <1>6, <2>2
  <2>4. \A e \in Entry : [e EXCEPT !.mark = TRUE].command = e.command /\ [e EXCEPT !.mark = TRUE].mark
    BY DEF Entry
  <2>5. QED
    BY <1>6, <2>1, <2>3, <2>4
<1>8. PICK z \in FileType : z = [f EXCEPT !.data = u]
  BY DEF FileType
<1>9. z.name = f.name /\ z.linked = f.linked /\ z.taken = f.taken /\ z.data = u
  BY <1>8 DEF FileType
<1>10. files' = [files EXCEPT ![i] = z]
  BY <1>2, <1>3, <1>4, <1>5, <1>6, <1>8 DEF Mark, Marked, Data
<1>11. ButFor(files, files', i) /\ files'[i] = z
  BY <1>1, <1>10, FileSet
<1>12. PICK b \in ConsType(Commands) : b = [cons EXCEPT !.pc = "read"]
  BY <1>1 DEF ConsType
<1>13. b.pc = "read" /\ b.pos = m /\ b.eof = cons.eof /\ Along(cons, b) /\ cons' = b
  BY <1>1, <1>5, <1>12 DEF ConsType, Along, Mark
<1>14. NameKept(files, files', i)
  BY <1>3, <1>9, <1>11 DEF NameKept
<1>15. Marks(files, files', cons, cons')
  BY <1>1, <1>2, <1>3, <1>4, <1>5, <1>7, <1>9, <1>11, <1>13, <1>14 DEF Marks
<1>16. Queue(header, files', prod, cons', waiting, done, again)
  BY <1>1, <1>15, ConsumerIs, MarksCommand
<1>17. DOMAIN files' = DOMAIN files
  BY <1>11 DEF ButFor
<1>18. QED
  BY <1>16, <1>17, QueueGoesOn DEF Mark

(* ... ReadMore ...                                                        *)
LEMMA StepReadMore ==
  ASSUME QueueInv, ReadMore
  PROVE  QueueInv'
<1>1. /\ Reading(cons) /\ cons.pc = "read" /\ DOMAIN files = Commands /\ cons \in ConsType(Commands)
      /\ \A j, p, k : Unmarked(files, cons.file, j, p, k) => j > cons.eof
  BY ConsumerIs, AheadIs DEF ReadMore, Reading
<1>2. PICK l \in Nat : l = Len(Data)
  BY <1>1, ConsumerIs
<1>3. cons.eof \in Nat
  BY <1>1 DEF ConsType
<1>4. CASE l > cons.eof
  <2>1. PICK b \in ConsType(Commands) : b = [[cons EXCEPT !.pos = cons.eof] EXCEPT !.eof = l]
    BY <1>1, <1>3 DEF ConsType
  <2>2. b.pc = "read" /\ b.pos = cons.eof /\ b.eof = l /\ Along(cons, b)
    BY <1>1, <2>1 DEF ConsType, Along
  <2>3. cons' = b
    BY <1>2, <1>4, <2>1 DEF ReadMore
  <2>4. Queue(header, files, prod, b, waiting, done, again)
    BY <1>1, <1>2, <1>4, <2>2, ConsumerIs, ReadsMore DEF Data
  <2>5. QED
    BY <2>3, <2>4, QueueGoesOn DEF ReadMore
<1>5. CASE ~(l > cons.eof)
  <2>1. PICK b \in ConsType(Commands) : b = [cons EXCEPT !.pc = "truncate"]
    BY <1>1 DEF ConsType
  <2>2. b.pc = "truncate" /\ b.eof = cons.eof /\ Along(cons, b)
    BY <1>1, <2>1 DEF ConsType, Along
  <2>3. cons' = b
    BY <1>2, <1>5, <2>1 DEF ReadMore
  <2>4. Queue(header, files, prod, b, waiting, done, again)
    BY <1>1, <2>2, ConsumerIs, ReadsMore
  <2>5. QED
    BY <2>3, <2>4, QueueGoesOn DEF ReadMore
<1>6. QED
  BY <1>4, <1>5

(* A lock of the consumer given back.                                      *)
LEMMA UnlockedIs ==
  ASSUME NEW y \in FileType
  PROVE  /\ Unlocked(y) \in FileType
         /\ Unlocked(y).name = y.name /\ Unlocked(y).linked = y.linked
         /\ Unlocked(y).data = y.data /\ Unlocked(y).taken = y.taken
<1>1. PICK o \in Holder : o = IF y.lock = "consumer" THEN NoOne ELSE y.lock
  BY DEF FileType, Holder
<1>2. Unlocked(y) = [y EXCEPT !.lock = o]
  BY <1>1 DEF Unlocked
<1>3. QED
  BY <1>2, LockSet

(* The file of its name in the directory is the one the consumer reads.    *)
LEMMA InPlace ==
  ASSUME QueueInv, Reading(cons)
  PROVE  InItsPlace = {cons.file}
<1>1. /\ Directory(header, files, prod) /\ In(files, cons.file) /\ DOMAIN files = Commands
  BY ConsumerIs DEF Queue, Position
<1>2. \A i : i \in InItsPlace <=> In(files, i) /\ files[i].name = files[cons.file].name
  BY <1>1 DEF InItsPlace, InDirectory, In
<1>3. \A i : i \in InItsPlace <=> i = cons.file
  BY <1>1, <1>2 DEF Directory
<1>4. QED
  BY <1>3

(* ... and Truncate keep it, ...                                           *)
LEMMA StepTruncate ==
  ASSUME QueueInv, Truncate
  PROVE  QueueInv'
<1>1. /\ Reading(cons) /\ cons.pc = "truncate" /\ DOMAIN files = Commands
      /\ files \in [Commands -> FileType] /\ cons \in ConsType(Commands)
  BY ConsumerIs DEF Truncate, Reading
<1>2. PICK i \in Commands : i = cons.file
  BY <1>1, ConsumerIs
<1>3. PICK f \in FileType : f = files[i]
  BY <1>1
<1>4. PICK y \in FileType : y = [f EXCEPT !.data = <<>>]
  <2>1. <<>> \in Seq(Entry)
    OBVIOUS
  <2>2. QED
    BY <2>1 DEF FileType
<1>5. y.name = f.name /\ y.linked = f.linked /\ y.taken = f.taken /\ y.data = <<>>
  BY <1>4 DEF FileType
<1>6. PICK z \in FileType : z = Unlocked(y)
  BY UnlockedIs
<1>7. z.name = f.name /\ z.linked = f.linked /\ z.taken = f.taken /\ z.data = <<>>
  BY <1>5, <1>6, UnlockedIs
<1>8. files' = [files EXCEPT ![i] = z]
  <2>1. \E j \in {i} : files' = [files EXCEPT ![j] = Unlocked([@ EXCEPT !.data = <<>>])]
    BY <1>1, <1>2, InPlace DEF Truncate
  <2>2. QED
    BY <1>3, <1>4, <1>6, <2>1
<1>9. ButFor(files, files', i) /\ files'[i] = z
  BY <1>1, <1>8, FileSet
<1>10. PICK b \in ConsType(Commands) : b = [cons EXCEPT !.pc = "remove"]
  BY <1>1 DEF ConsType
<1>11. b.pc = "remove" /\ Along(cons, b) /\ cons' = b
  BY <1>1, <1>10 DEF ConsType, Along, Truncate
<1>12. NameKept(files, files', i)
  BY <1>3, <1>7, <1>9 DEF NameKept
<1>13. Emptied(files, files', cons, cons')
  BY <1>1, <1>2, <1>3, <1>7, <1>9, <1>11, <1>12 DEF Emptied
<1>14. Queue(header, files', prod, cons', waiting, done, again)
  BY <1>1, <1>13, ConsumerIs, Truncates
<1>15. DOMAIN files' = DOMAIN files
  BY <1>9 DEF ButFor
<1>16. QED
  BY <1>14, <1>15, QueueGoesOn DEF Truncate

(* ... and so does RemoveFile.                                             *)
LEMMA StepRemoveFile ==
  ASSUME QueueInv, RemoveFile
  PROVE  QueueInv'
<1>1. /\ Reading(cons) /\ cons.pc \in {"remove", "empty"} /\ DOMAIN files = Commands
      /\ files \in [Commands -> FileType] /\ cons \in ConsType(Commands)
  BY ConsumerIs DEF RemoveFile, Reading
<1>2. PICK i \in Commands : i = cons.file
  BY <1>1, ConsumerIs
<1>3. PICK f \in FileType : f = files[i]
  BY <1>1
<1>4. PICK y \in FileType : y = [f EXCEPT !.linked = FALSE]
  BY DEF FileType
<1>5. y.name = f.name /\ y.linked = FALSE /\ y.taken = f.taken /\ y.data = f.data
  BY <1>4 DEF FileType
<1>6. PICK x \in FileType : x = IF KeepsLock THEN y ELSE Unlocked(y)
  BY UnlockedIs
<1>7. x.name = f.name /\ x.linked = FALSE /\ x.taken = f.taken /\ x.data = f.data
  BY <1>5, <1>6, UnlockedIs
<1>8. PICK z \in FileType : z = Closed(x, i, Producers)
  BY NoFileIs DEF Closed
<1>9. files' = [files EXCEPT ![i] = z]
  <2>1. PICK g : g = Without({i})
    OBVIOUS
  <2>2. g[i] = y /\ DOMAIN g = Commands /\ \A j \in Commands \ {i} : g[j] = files[j]
    BY <1>1, <1>3, <1>4, <2>1, WithoutIs DEF Without
  <2>3. files' = [g EXCEPT ![i] = Closed(IF KeepsLock THEN @ ELSE Unlocked(@), i, Producers)]
    BY <1>1, <1>2, <2>1, InPlace DEF RemoveFile
  <2>4. files' = [g EXCEPT ![i] = z]
    BY <1>6, <1>8, <2>2, <2>3
  <2>5. QED
    BY <1>1, <2>2, <2>4
<1>10. ButFor(files, files', i) /\ files'[i] = z
  BY <1>1, <1>9, FileSet
<1>11. f.taken
  BY <1>1, <1>2, <1>3, ConsumerIs DEF Position
<1>12. /\ ~z.linked
       /\ \/ z.name = f.name /\ z.data = f.data /\ z.taken
          \/ z.data = <<>> /\ \A p : ~Holds(prod, p, i)
  <2>1. CASE \E p \in Producers : prod[p].file = i
    BY <1>7, <1>8, <1>11, <2>1, FileOfIs DEF Closed
  <2>2. CASE ~\E p \in Producers : prod[p].file = i
    BY <1>7, <1>8, <2>2, NoFileIs, FileOfIs DEF Closed, Holds, Holding
  <2>3. QED
    BY <2>1, <2>2
<1>13. Removed(files, files', prod, cons)
  BY <1>2, <1>3, <1>10, <1>12 DEF Removed
<1>14. Queue(header, files', prod, cons', waiting, done, again)
  BY <1>1, <1>13, ConsumerIs, Removes DEF RemoveFile
<1>15. DOMAIN files' = DOMAIN files
  BY <1>10 DEF ButFor
<1>16. QED
  BY <1>14, <1>15, QueueGoesOn DEF RemoveFile

(* The file of the consumer is unlocked.                                   *)
LEMMA UnlockedFile ==
  ASSUME QueueInv, Reading(cons), files' = [files EXCEPT ![cons.file] = Unlocked(@)]
  PROVE  SameView(files, files')
<1>1. PICK i \in Commands : i = cons.file
  BY ConsumerIs
<1>2. files \in [Commands -> FileType] /\ DOMAIN files = Commands
  BY ConsumerIs
<1>3. PICK f \in FileType : f = files[i]
  BY <1>2
<1>4. PICK y \in FileType : y = Unlocked(f)
  BY UnlockedIs
<1>5. y.name = f.name /\ y.linked = f.linked /\ y.data = f.data /\ y.taken = f.taken
  BY <1>4, UnlockedIs
<1>6. files' = [files EXCEPT ![i] = y]
  BY <1>1, <1>3, <1>4
<1>7. QED
  BY ZenonT(40), <1>2, <1>3, <1>5, <1>6 DEF SameView

(* The pass given up keeps the invariant, whether the peer got the command *)
(* or not, ...                                                             *)
LEMMA StepSendFails ==
  ASSUME QueueInv, SendFails
  PROVE  QueueInv'
<1>1. cons.pc = "read" /\ Ahead # {} /\ Reading(cons) /\ cons' = ConsIdle /\ UNCHANGED given
      /\ header' = header /\ prod' = prod
  BY DEF SendFails, Reading
<1>2. SameView(files, files')
  BY <1>1, UnlockedFile DEF SendFails
<1>3. CASE Does(Data[NextAhead].command) /\ again' = again \cup {Data[NextAhead].command}
  <2>1. PICK b : /\ b = [cons EXCEPT !.pc = "mark", !.pos = NextAhead]
                 /\ Queue(header, files, prod, b, waiting', done', again)
                 /\ \A p, k : Lies(files, b.file, b.pos, p, k) =>
                      <<p, k>> = Data[NextAhead].command
                 /\ Data[NextAhead].command \in Producers \X Nat
    BY <1>1, <1>3, DoesNext
  <2>2. again' \in SUBSET (Producers \X Nat) /\ again \subseteq again'
    BY <1>3, <2>1 DEF Queue, Values
  <2>3. Queue(header, files, prod, b, waiting', done', again')
    BY <2>1, <2>2, MoreAgain
  <2>4. \A p, k : Lies(files, b.file, b.pos, p, k) => <<p, k>> \in again'
    BY <1>3, <2>1
  <2>5. Queue(header, files, prod, ConsIdle, waiting', done', again')
    BY <2>3, <2>4, PassEnds
  <2>6. Queue(header, files', prod, ConsIdle, waiting', done', again')
    BY <1>2, <2>5, ViewKept
  <2>7. QED
    BY <1>1, <1>2, <2>6, QueueGoesOn DEF SameView
<1>4. CASE UNCHANGED <<done, waiting, again>>
  <2>1. Queue(header, files, prod, cons, waiting, done, again)
    BY ConsumerIs
  <2>2. Queue(header, files, prod, ConsIdle, waiting, done, again)
    BY <1>1, <2>1, PassEnds
  <2>3. Queue(header, files', prod, ConsIdle, waiting, done, again)
    BY <1>2, <2>2, ViewKept
  <2>4. QED
    BY <1>1, <1>2, <1>4, <2>3, QueueGoesOn DEF SameView
<1>5. QED
  BY <1>3, <1>4 DEF SendFails

(* ... and so does the end of the consumer's process.                      *)
LEMMA StepStop ==
  ASSUME QueueInv, Stop
  PROVE  QueueInv'
<1>1. /\ cons' = ConsIdle /\ UNCHANGED given
      /\ header' = header /\ prod' = prod /\ waiting' = waiting /\ done' = done
  BY DEF Stop
<1>2. SameView(files, files')
  <2>1. files \in [Commands -> FileType] /\ DOMAIN files = Commands
    BY ConsumerIs
  <2>2. files' = [i \in Commands |-> Unlocked(files[i])]
    BY DEF Stop
  <2>3. \A i \in Commands :
          /\ Unlocked(files[i]) \in FileType
          /\ Unlocked(files[i]).name = files[i].name /\ Unlocked(files[i]).linked = files[i].linked
          /\ Unlocked(files[i]).data = files[i].data /\ Unlocked(files[i]).taken = files[i].taken
    BY <2>1, UnlockedIs
  <2>4. QED
    BY <2>1, <2>2, <2>3 DEF SameView
<1>3. /\ again' \in SUBSET (Producers \X Nat) /\ again \subseteq again'
      /\ \A p, k : cons.pc = "mark" /\ Lies(files, cons.file, cons.pos, p, k) => <<p, k>> \in again'
  <2>1. again \in SUBSET (Producers \X Nat)
    BY SMTT(60), ConsumerIs DEF Queue, Values
  <2>2. CASE cons.pc = "mark"
    <3>1. Reading(cons) /\ Data \in Seq(Entry) /\ Len(Data) \in Nat
      BY <2>2, ConsumerIs DEF Reading
    <3>2. /\ cons.pos \in Nat /\ cons.eof \in Nat
          /\ cons.pos >= 1 /\ cons.pos <= cons.eof /\ cons.eof <= Len(Data)
      BY <2>2, <3>1, ConsumerIs DEF ConsType, Position, Data
    <3>3. cons.pos \in 1..Len(Data)
      BY <3>1, <3>2
    <3>4. Data[cons.pos] \in Entry
      BY <3>1, <3>3
    <3>5. Data[cons.pos].command \in Producers \X Nat
      BY <3>4 DEF Entry
    <3>6. again' = again \cup {Data[cons.pos].command}
      BY <2>2 DEF Stop
    <3>7. QED
      BY <2>1, <3>5, <3>6 DEF Lies, Data
  <2>3. CASE cons.pc # "mark"
    BY <2>1, <2>3 DEF Stop
  <2>4. QED
    BY <2>2, <2>3
<1>4. Queue(header, files, prod, cons, waiting, done, again')
  BY <1>3, ConsumerIs, MoreAgain
<1>5. Queue(header, files, prod, ConsIdle, waiting, done, again')
  BY <1>3, <1>4, PassEnds
<1>6. Queue(header, files', prod, ConsIdle, waiting, done, again')
  BY <1>2, <1>5, ViewKept
<1>7. QED
  BY <1>1, <1>2, <1>6, QueueGoesOn DEF SameView

-----------------------------------------------------------------------------
(* Every step keeps the invariant.                                         *)
LEMMA QueueNext ==
  ASSUME QueueInv, [Next]_vars, ~astray'
  PROVE  QueueInv'
<1>1. ASSUME NEW p \in Producers, StoreName(p) \/ PutName(p) \/ Store(p)
      PROVE  QueueInv'
  BY <1>1, StepStoreName, StepPutName, StepStoreOpen, StepStoreLock, StepStoreAppend,
     StepPutCommit DEF Store
<1>2. CASE Consume
  BY <1>2, StepOpenDir, StepListFiles, StepOpenFile, StepPerform, StepMark, StepReadMore,
     StepTruncate, StepRemoveFile DEF Consume
<1>3. CASE SendFails
  BY <1>3, StepSendFails
<1>4. CASE Stop
  BY <1>4, StepStop
<1>5. CASE UNCHANGED vars
  <2>1. Queue(header, files, prod, cons, waiting, done, again)
    BY ConsumerIs
  <2>2. /\ header' = header /\ files' = files /\ prod' = prod /\ cons' = cons
        /\ waiting' = waiting /\ done' = done /\ again' = again /\ UNCHANGED given
    BY <1>5 DEF vars
  <2>3. Queue(header', files', prod', cons', waiting', done', again')
    BY <2>1, <2>2
  <2>4. QED
    BY <2>2, <2>3, QueueGoesOn
<1>6. QED
  BY <1>1, <1>2, <1>3, <1>4, <1>5 DEF Next

(* It holds as long as no file is given a name behind the header.          *)
QueueOrAstray == astray \/ QueueInv

LEMMA OnceAstray == astray /\ [Next]_vars => astray'
BY DEF Next, StoreName, PutName, Store, StoreOpen, StoreLock, StoreAppend, PutCommit, Consume,
       OpenDir, ListFiles, OpenFile, Perform, Mark, ReadMore, Truncate, RemoveFile, SendFails,
       Stop, bounded, vars

LEMMA QueueKept == QueueOrAstray /\ [Next]_vars => QueueOrAstray'
BY QueueNext, OnceAstray DEF QueueOrAstray

(* What the invariant says of the files ...                                *)
LEMMA QueueFiles ==
  ASSUME QueueInv
  PROVE  FilesSound
<1>1. /\ Queue(header, files, prod, cons, waiting, done, again)
      /\ files \in [Commands -> FileType] /\ DOMAIN files = Commands
  BY ConsumerIs
<1>2. Waiting(files, cons, waiting) /\ Directory(header, files, prod) /\ waiting \in SUBSET FateType
  BY <1>1 DEF Queue, Values
<1>3. ASSUME NEW x \in waiting
      PROVE  (Lost(x) => x.taken) /\ (x.taken => x.fenced)
  <2>1. x.taken => x.fenced
    BY <1>2 DEF Waiting
  <2>2. PICK p \in Producers, k \in Nat : x.command = <<p, k>>
    BY <1>2 DEF FateType
  <2>3. ASSUME NEW i, NEW j, In(files, i), Unmarked(files, i, j, p, k)
        PROVE  InAFile(<<p, k>>)
    <3>1. /\ i \in Commands /\ files[i].linked /\ j \in 1..Len(files[i].data)
          /\ files[i].data[j].command = <<p, k>> /\ ~files[i].data[j].mark
      BY <1>1, <2>3 DEF In, Unmarked, Lies
    <3>2. PICK t \in Seq(Entry) : t = files[i].data
      BY <1>1, <3>1 DEF FileType
    <3>3. t[j] \in Entry /\ j \in DOMAIN t
      BY <3>1, <3>2
    <3>4. t[j] = [command |-> <<p, k>>, mark |-> FALSE]
      BY <3>1, <3>2, <3>3 DEF Entry
    <3>5. QED
      BY <3>1, <3>2, <3>3, <3>4 DEF InAFile
  <2>4. x.taken \/ \E i, j : In(files, i) /\ Unmarked(files, i, j, p, k)
    BY <1>2, <2>2 DEF Waiting
  <2>5. QED
    BY <2>1, <2>2, <2>3, <2>4 DEF Lost
<1>4. ASSUME NEW p \in Producers, prod[p].pc = "putting"
      PROVE  InDirectory(prod[p].name) = {}
  BY <1>1, <1>2, <1>4 DEF Directory, Active, In, InDirectory
<1>5. QED
  BY <1>3, <1>4 DEF FilesSound

(* ... and of the order of the commands.                                   *)
LEMMA QueueOrder ==
  ASSUME QueueInv
  PROVE  PerformedInOrder
BY DEF QueueInv, Queue, Order, PerformedInOrder

(* A command that has been stored is lost only if it was appended to a file *)
(* the consumer had opened, by a process that had the name of the file     *)
(* before the fence rose; and no file is put over another -- until one is  *)
(* given a name behind the header.                                         *)
THEOREM FilesAreSound == Spec => []FilesSound
<1>1. Init => QueueOrAstray
  BY QueueInit DEF QueueOrAstray
<1>2. QueueOrAstray /\ [Next]_vars => QueueOrAstray'
  BY QueueKept
<1>3. QueueOrAstray => FilesSound
  BY QueueFiles DEF QueueOrAstray, FilesSound
<1>4. QED
  BY <1>1, <1>2, <1>3, PTL DEF Spec

(* The commands of a process are performed in the order it stored them,     *)
(* through all its files and whatever happens to the clock, until a file   *)
(* is given a name behind the header; but for those the consumer could not *)
(* mark.                                                                   *)
THEOREM CommandsInOrder == Spec => []PerformedInOrder
<1>1. Init => QueueOrAstray
  BY QueueInit DEF QueueOrAstray
<1>2. QueueOrAstray /\ [Next]_vars => QueueOrAstray'
  BY QueueKept
<1>3. QueueOrAstray => PerformedInOrder
  BY QueueOrder DEF QueueOrAstray, PerformedInOrder
<1>4. QED
  BY <1>1, <1>2, <1>3, PTL DEF Spec
=============================================================================
