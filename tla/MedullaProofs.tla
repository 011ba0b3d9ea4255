--------------------------- MODULE MedullaProofs ---------------------------
(***************************************************************************)
(* What the pulse of the Medulla promises, for any number of processes,    *)
(* any room in pipes and buffers, and any lines and commands: the handlers *)
(* agree with the files, and no line is lost.                              *)
(***************************************************************************)
EXTENDS Medulla, SequenceTheorems, SequenceLemmas, TLAPS

----------------------------------------------------------------------------
(* File numbers.                                                           *)

(* The n-th number from 0 on that is not used.                             *)
LEMMA LowestIsFree ==
  ASSUME NEW U, IsFiniteSet(U), NEW n \in Nat, n # 0
  PROVE  /\ Lowest(n, U) \in Nat /\ Lowest(n, U) \notin U
         /\ Cardinality((0..Lowest(n, U)) \ U) = n
<1> DEFINE Count(d) == Cardinality((0..d) \ U)
           Enough == {d \in Nat : Count(d) >= n}
<1>1. ASSUME NEW d \in Nat
      PROVE  IsFiniteSet(0..d) /\ Cardinality(0..d) = d + 1 /\ IsFiniteSet((0..d) \ U) /\ Count(d) \in Nat
  <2>1. d \in Int /\ ~(0 > d)
    OBVIOUS
  <2>2. IsFiniteSet(0..d) /\ Cardinality(0..d) = d + 1
    BY <2>1, FS_Interval
  <2>3. (0..d) \ U \in SUBSET (0..d)
    OBVIOUS
  <2>4. IsFiniteSet((0..d) \ U)
    BY <2>2, <2>3, FS_Subset
  <2>5. QED
    BY <2>2, <2>4, FS_CardinalityType
<1>2. Cardinality(U) \in Nat
  BY FS_CardinalityType
<1>3. n + Cardinality(U) \in Enough
  <2>1. PICK d \in Nat : d = n + Cardinality(U)
    BY <1>2
  <2>2. Cardinality((0..d) \cap U) <= Cardinality(U) /\ Cardinality((0..d) \cap U) \in Nat
    BY FS_Intersection, FS_CardinalityType
  <2>3. Count(d) = Cardinality(0..d) - Cardinality((0..d) \cap U)
    BY <1>1, FS_Difference
  <2>4. Count(d) >= n
    <3>1. Cardinality(0..d) = d + 1
      BY <1>1
    <3> HIDE DEF Count
    <3>2. QED
      BY <1>2, <2>1, <2>2, <2>3, <3>1
  <2>5. QED
    BY <2>1, <2>4
<1>4. PICK m \in Enough : \A d \in Enough : m <= d
  <2>1. Enough \in SUBSET Nat /\ Enough # {}
    BY <1>3
  <2> HIDE DEF Enough
  <2>2. QED
    BY <2>1, MinOfNaturals
<1>5. m \in Nat /\ Count(m) >= n /\ Count(m) \in Nat /\ m <= n + Cardinality(U)
  BY <1>1, <1>3, <1>4
<1>6. \A d \in Nat : d < m => Count(d) < n
  <2>1. ASSUME NEW d \in Nat, d < m, ~(Count(d) < n)
        PROVE  FALSE
    <3>1. Count(d) \in Nat
      BY <1>1
    <3> HIDE DEF Count
    <3>2. d \in Enough
      BY <2>1, <3>1
    <3>3. m <= d
      BY <1>4, <3>2
    <3>4. QED
      BY <1>5, <2>1, <3>3
  <2>2. QED
    BY <2>1
<1>7. Count(m) = n /\ m \notin U
  <2>1. CASE m = 0
    <3>1. 0..0 = {0}
      OBVIOUS
    <3>2. (0..m) \ U \in SUBSET {0}
      BY <2>1, <3>1
    <3>3. IsFiniteSet({0}) /\ Cardinality({0}) = 1
      BY FS_Singleton
    <3>4. Count(m) <= 1
      BY <3>2, <3>3, FS_Subset
    <3>5. Count(m) = 1 /\ n = 1
      BY <1>5, <3>4
    <3>6. m \notin U
      <4>1. SUFFICES ASSUME m \in U
                     PROVE  FALSE
        OBVIOUS
      <4>2. (0..m) \ U = {}
        BY <2>1, <3>1, <4>1
      <4>3. Count(m) = 0
        BY <4>2, FS_EmptySet
      <4>4. QED
        BY <3>5, <4>3
    <3>7. QED
      BY <3>5, <3>6
  <2>2. CASE m # 0
    <3>1. PICK k \in Nat : m = k + 1
      <4>1. m - 1 \in Nat /\ m = (m - 1) + 1
        BY <1>5, <2>2
      <4>2. QED
        BY <4>1
    <3>2. 0..m = (0..k) \cup {m}
      BY <3>1
    <3>3. IsFiniteSet((0..k) \ U) /\ Count(k) \in Nat
      BY <1>1
    <3>4. Count(k) < n
      BY <1>6, <3>1
    <3>5. m \notin U
      <4>1. SUFFICES ASSUME m \in U
                     PROVE  FALSE
        OBVIOUS
      <4>2. (0..m) \ U = (0..k) \ U
        BY <3>2, <4>1
      <4>3. Count(m) = Count(k)
        BY <4>2
      <4> HIDE DEF Count
      <4>4. QED
        BY <1>5, <3>3, <3>4, <4>3
    <3>6. (0..m) \ U = ((0..k) \ U) \cup {m}
      BY <3>2, <3>5
    <3>7. m \notin (0..k) \ U
      BY <3>1
    <3>8. Count(m) = Count(k) + 1
      BY <3>3, <3>6, <3>7, FS_AddElement
    <3> HIDE DEF Count
    <3>9. QED
      BY <1>5, <3>3, <3>4, <3>5, <3>8
  <2>3. QED
    BY <2>1, <2>2
<1>8. PICK S : S = {d \in 0..(n + Cardinality(U)) : Cardinality((0..d) \ U) = n}
  OBVIOUS
<1>9. m \in S /\ S \in SUBSET Nat
  <2>1. m \in 0..(n + Cardinality(U))
    BY <1>2, <1>5
  <2>2. QED
    BY <1>2, <1>7, <1>8, <2>1
<1>10. Min(S) \in S /\ Min(S) <= m
  BY <1>9, MinOfNaturals
<1>11. PICK x \in S : x = Min(S)
  BY <1>10
<1>12. Count(x) = n /\ x \in Nat
  BY <1>8, <1>9, <1>11
<1>13. x = m
  <2>1. ~(x < m)
    <3> HIDE DEF Count
    <3>1. QED
      BY <1>6, <1>12
  <2>2. QED
    BY <1>5, <1>10, <1>11, <1>12, <2>1
<1>14. Lowest(n, U) = m
  BY <1>8, <1>11, <1>13 DEF Lowest
<1>15. QED
  BY <1>5, <1>7, <1>14
----------------------------------------------------------------------------
(* The invariant, about values.                                            *)
Record == [status : {"unused", "open", "closed"}, ended : BOOLEAN, fd : [File -> Nat \cup {-1}],
           queue : Seq(Nat), writer : BOOLEAN, handed : [Out -> Nat]]
Pipe == [written : Nat, read : Nat]
Handler == [type : {0, 1}, fd : Nat, process : Servants \cup Jobs, file : File, close : BOOLEAN]
Activity == [op : {"command", "lines", "write", "wait"}, process : Proc \cup {NoOne},
             file : File \cup {NoOne}, left : Nat]

(* The process p, whose struct is r: lf, en and pp are its child's life,   *)
(* the ends that are open, and its pipes.  A file that the program has     *)
(* closed is at its end and stays there.                                   *)
Process(p, r, lf, en, pp) ==
  /\ r \in Record /\ lf \in {"none", "running", "zombie", "reaped"}
  /\ en \in SUBSET File /\ pp \in [File -> Pipe]
  /\ \A f \in File : pp[f].written - pp[f].read \in 0..Capacity
  /\ \A f \in Out : r.handed[f] <= pp[f].read \div 2
  /\ lf \in {"running", "zombie"} => r.status = "open" /\ ~r.ended
  /\ r.status = "unused" => (\A f \in File : r.fd[f] = -1) /\ ~r.ended /\ en = {}
  /\ r.status # "unused" => \A f \in Out : r.fd[f] = -1 => f \notin en /\ pp[f].written = pp[f].read
  /\ r.status = "closed" =>
       r.ended /\ \A f \in Out : r.fd[f] = -1 /\ 2 * r.handed[f] >= pp[f].written - 1
  /\ r.fd["put"] # -1 <=> r.status = "open" /\ p \in Servants /\ ~r.ended
  /\ r.queue # <<>> => r.fd["put"] # -1 /\ r.writer

(* No two files have the same number.                                      *)
Distinct(pr) ==
  \A p, q \in Proc, f, g \in File : pr[p].fd[f] # -1 /\ pr[p].fd[f] = pr[q].fd[g] => p = q /\ f = g

Opened(pr) == {p \in Proc : pr[p].status = "open"}
Counted(pr, n) == IsFiniteSet(Opened(pr)) /\ n = Cardinality(Opened(pr)) /\ n <= ChildMax

(* The files of a process with the struct r that are watched.              *)
Watch(r) == {f \in File : r.status = "open" /\ r.fd[f] # -1 /\ (f = "put" => r.writer)}

(* The entries of the list L that are not dropped are those of the files   *)
(* that are watched.                                                       *)
Apart(L) == \A i, j \in 1..Len(L) : Same(L[i], L[j].type, L[j].fd) => i = j
Listed(L, pr) ==
  /\ L \in Seq(Handler) /\ Apart(L)
  /\ \A i \in 1..Len(L) : ~L[i].close =>
       L[i].file \in Watch(pr[L[i].process]) /\ L[i] = Entry(L[i].process, L[i].file, pr[L[i].process].fd[L[i].file])
  /\ \A p \in Servants \cup Jobs : \A f \in Watch(pr[p]) :
       \E i \in 1..Len(L) : L[i] = Entry(p, f, pr[p].fd[f])

(* The calls c that are going on: a process is waited for by one call at   *)
(* most, under those that handle its lines; a write is the only call.      *)
Stack(c, pr) ==
  /\ c \in Seq(Activity)
  /\ \A i \in 1..Len(c) :
       /\ c[i].op = "lines" => c[i].process \in Proc /\ c[i].file \in Out /\ pr[c[i].process].status # "unused"
       /\ c[i].op = "wait" => c[i].process \in Waited /\ pr[c[i].process].status = "open"
       /\ c[i].op = "write" => Len(c) = 1 /\ c[i].process \in Servants /\ pr[c[i].process].queue # <<>>
  /\ \A i, j \in 1..Len(c) :
       c[i].op = "wait" /\ c[j].op \in {"wait", "lines"} /\ c[i].process = c[j].process => i <= j

(* The entries of L still to be visited, n from the end, are not dropped,  *)
(* and those in the set s do not wait; the one being written is past.      *)
Still(L, n) == {L[i] : i \in {j \in 1..Len(L) : j > Len(L) - n}}
Waitless(f, en, pp) ==
  f \notin en \/ IF f = "put" THEN Capacity - (pp[f].written - pp[f].read) > 0 ELSE pp[f].written - pp[f].read > 0
Visits(L, n, a, s, en, pp, c) ==
  /\ n \in 0..Len(L)
  /\ a = "commands" => \A i \in 1..Len(L) : ~L[i].close
  /\ a \in {"commands", "collect", "clear"} => n = 0
  /\ a = "visit" => \A e \in Still(L, n) :
       /\ ~e.close
       /\ <<e.type, e.fd>> \in s => Waitless(e.file, en[e.process], pp[e.process])
       /\ \A k \in 1..Len(c) : c[k].op = "write" => e.process # c[k].process \/ e.file # "put"
  /\ \A k \in 1..Len(c) : c[k].op = "write" => a = "visit"

(* Lines that were read are handed over, or being handed over.             *)
Handed(pr, pp, c) ==
  \A p \in Proc, f \in Out :
    \/ pr[p].handed[f] = pp[p][f].read \div 2
    \/ \E i \in 1..Len(c) : c[i].op = "lines" /\ c[i].process = p /\ c[i].file = f

Processes(pr, lf, en, pp) ==
  /\ pr \in [Proc -> Record] /\ lf \in [Proc -> {"none", "running", "zombie", "reaped"}]
  /\ en \in [Proc -> SUBSET File] /\ pp \in [Proc -> [File -> Pipe]]
  /\ \A p \in Proc : Process(p, pr[p], lf[p], en[p], pp[p])

Pointed(sv, pr) ==
  /\ sv \in [Servants -> Proc \cup {NoOne, "free"}]
  /\ \A s \in Servants : sv[s] \in Proc => pr[sv[s]].status # "unused"

Flags ==
  /\ busy \in [Proc -> Out \cup {NoOne}] /\ sigchld \in BOOLEAN /\ serving \in BOOLEAN
  /\ at \in {"commands", "visit", "collect", "clear", "final", "down", "crashed"}

MedullaInv ==
  /\ Flags
  /\ Processes(proc, life, ends, pipe) /\ Distinct(proc) /\ Counted(proc, count)
  /\ Pointed(servant, proc)
  /\ Listed(handlers, proc)
  /\ Stack(calls, proc)
  /\ Visits(handlers, left, at, fdset, ends, pipe, calls)
  /\ Handed(proc, pipe, calls)

(* The numbers in use are finite in number.                                *)
LEMMA UsedIsFinite ==
  ASSUME NEW pr \in [Proc -> Record], IsFiniteSet(Opened(pr)),
         \A p \in Proc : pr[p].status # "open" => \A f \in File : pr[p].fd[f] = -1
  PROVE  IsFiniteSet({pr[p].fd[f] : p \in Proc, f \in File})
<1>1. IsFiniteSet(File)
  <2>1. File = {"get", "log"} \cup {"put"}
    BY DEF File, Out
  <2>2. {"get", "log"} = {"get"} \cup {"log"}
    OBVIOUS
  <2>3. IsFiniteSet({"get"}) /\ IsFiniteSet({"log"}) /\ IsFiniteSet({"put"})
    BY FS_Singleton
  <2>4. IsFiniteSet({"get"} \cup {"log"})
    BY <2>3, FS_Union
  <2>5. File = ({"get"} \cup {"log"}) \cup {"put"}
    BY <2>1, <2>2
  <2>6. IsFiniteSet(({"get"} \cup {"log"}) \cup {"put"})
    BY <2>3, <2>4, FS_Union
  <2>7. QED
    BY <2>5, <2>6
<1>2. IsFiniteSet(Opened(pr) \X File)
  BY <1>1, FS_Product
<1>3. PICK T : T = {pr[x[1]].fd[x[2]] : x \in Opened(pr) \X File}
  OBVIOUS
<1>4. PICK g : g = [x \in Opened(pr) \X File |-> pr[x[1]].fd[x[2]]]
  OBVIOUS
<1>5. g \in Surjection(Opened(pr) \X File, T)
  <2>1. g \in [Opened(pr) \X File -> T]
    BY <1>3, <1>4
  <2>2. ASSUME NEW t \in T
        PROVE  \E x \in Opened(pr) \X File : g[x] = t
    BY <1>3, <1>4
  <2>3. QED
    BY <2>1, <2>2 DEF Surjection
<1>6. IsFiniteSet(T)
  BY <1>2, <1>5, FS_Surjection
<1>7. IsFiniteSet(T \cup {-1})
  BY <1>6, FS_AddElement
<1>8. ASSUME NEW p \in Proc, NEW f \in File
      PROVE  pr[p].fd[f] \in T \cup {-1}
  <2>1. CASE p \in Opened(pr)
    <3>1. PICK x \in Opened(pr) \X File : x = <<p, f>>
      BY <2>1
    <3>2. pr[x[1]].fd[x[2]] = pr[p].fd[f]
      BY <3>1
    <3>3. QED
      BY <1>3, <3>2
  <2>2. CASE p \notin Opened(pr)
    BY <2>2 DEF Opened
  <2>3. QED
    BY <2>1, <2>2
<1>9. {pr[p].fd[f] : p \in Proc, f \in File} \in SUBSET (T \cup {-1})
  BY <1>8
<1>10. QED
  BY <1>7, <1>9, FS_Subset

(* A new process has file numbers of its own.                              *)
LEMMA NewFdsFresh ==
  ASSUME MedullaInv, NEW p \in Proc
  PROVE  /\ NewFds(p) \in [File -> Nat \cup {-1}]
         /\ \A f \in File : NewFds(p)[f] # -1 => \A q \in Proc, g \in File : proc[q].fd[g] # NewFds(p)[f]
         /\ \A f, g \in File : NewFds(p)[f] # -1 /\ NewFds(p)[f] = NewFds(p)[g] => f = g
         /\ \A f \in Out : NewFds(p)[f] # -1
         /\ NewFds(p)["put"] # -1 <=> p \in Servants
<1>1. IsFiniteSet(InUse)
  <2>1. proc \in [Proc -> Record] /\ IsFiniteSet(Opened(proc))
    BY DEF MedullaInv, Processes, Counted
  <2>2. ASSUME NEW q \in Proc, proc[q].status # "open", NEW f \in File
        PROVE  proc[q].fd[f] = -1
    <3>1. Process(q, proc[q], life[q], ends[q], pipe[q])
      BY DEF MedullaInv, Processes
    <3>2. proc[q].status \in {"unused", "closed"}
      BY <2>1, <2>2 DEF Record
    <3>3. QED
      BY <2>2, <3>1, <3>2 DEF Process, File, Out
  <2>3. QED
    BY <2>1, <2>2, UsedIsFinite DEF InUse
<1>2. ASSUME NEW n \in Nat, n # 0
      PROVE  FreeFd(n) \in Nat /\ FreeFd(n) \notin InUse /\ Cardinality((0..FreeFd(n)) \ InUse) = n
  BY <1>1, <1>2, LowestIsFree DEF FreeFd
<1>3. PICK F : F = [n \in Nat |-> FreeFd(n)]
  OBVIOUS
<1>4. /\ \A n \in {2, 3, 4, 5} : F[n] \in Nat /\ F[n] \notin InUse
      /\ \A m, n \in {2, 3, 4, 5} : F[m] = F[n] => m = n
  <2>1. \A n \in {2, 3, 4, 5} : F[n] \in Nat /\ F[n] \notin InUse /\ Cardinality((0..F[n]) \ InUse) = n
    BY <1>2, <1>3
  <2>2. QED
    BY <2>1
<1>5. PICK new : new = NewFds(p)
  OBVIOUS
<1>6. new = IF p \in Servants THEN [put |-> F[2], get |-> F[3], log |-> F[5]]
            ELSE [put |-> -1, get |-> F[2], log |-> F[4]]
  BY <1>3, <1>5 DEF NewFds
<1>7. /\ new \in [File -> Nat \cup {-1}]
      /\ \A f \in Out : new[f] # -1
      /\ new["put"] # -1 <=> p \in Servants
  BY <1>4, <1>6 DEF File, Out
<1>8. \A f, g \in File : new[f] # -1 /\ new[f] = new[g] => f = g
  BY <1>4, <1>6 DEF File, Out
<1>9. ASSUME NEW f \in File, new[f] # -1
      PROVE  new[f] \notin InUse
  BY <1>4, <1>6, <1>9 DEF File, Out
<1>10. \A q \in Proc, g \in File : proc[q].fd[g] \in InUse
  BY DEF InUse
<1>11. QED
  BY <1>5, <1>7, <1>8, <1>9, <1>10

----------------------------------------------------------------------------
(* The list of handlers.                                                   *)

(* Only p's entries differ.                                                *)
Differs(g, h, p) == \A q \in Proc : q # p => h[q] = g[q]

(* What nbMedullaWaitEnable makes of a list.                               *)
LEMMA EnabledIs ==
  ASSUME NEW L \in Seq(Handler), NEW e \in Handler
  PROVE  \E N \in Seq(Handler), k \in {0, 1} :
           /\ N = nbMedullaWaitEnable(L, e) /\ Len(N) = Len(L) + k
           /\ \A i \in 1..Len(L) : N[i + k] = IF Same(L[i], e.type, e.fd) THEN e ELSE L[i]
           /\ k = 0 => \E i \in 1..Len(L) : Same(L[i], e.type, e.fd)
           /\ k = 1 => N[1] = e /\ \A i \in 1..Len(L) : ~Same(L[i], e.type, e.fd)
<1>1. Len(L) \in Nat /\ DOMAIN L = 1..Len(L) /\ \A i \in 1..Len(L) : L[i] \in Handler
  OBVIOUS
<1>2. CASE \E i \in DOMAIN L : Same(L[i], e.type, e.fd)
  <2>1. PICK N : N = [i \in DOMAIN L |-> IF Same(L[i], e.type, e.fd) THEN e ELSE L[i]]
    OBVIOUS
  <2>2. N \in Seq(Handler) /\ Len(N) = Len(L)
    BY <1>1, <2>1
  <2>3. N = nbMedullaWaitEnable(L, e)
    BY <1>2, <2>1 DEF nbMedullaWaitEnable
  <2>4. \A i \in 1..Len(L) : N[i + 0] = IF Same(L[i], e.type, e.fd) THEN e ELSE L[i]
    BY <1>1, <2>1
  <2>5. QED
    BY <1>1, <1>2, <2>2, <2>3, <2>4
<1>3. CASE ~ \E i \in DOMAIN L : Same(L[i], e.type, e.fd)
  <2>1. PICK N : N = <<e>> \o L
    OBVIOUS
  <2>2. N \in Seq(Handler) /\ Len(N) = Len(L) + 1 /\ N[1] = e /\ \A i \in 1..Len(L) : N[i + 1] = L[i]
    BY <1>1, <2>1
  <2>3. N = nbMedullaWaitEnable(L, e)
    BY <1>3, <2>1 DEF nbMedullaWaitEnable
  <2>4. \A i \in 1..Len(L) : ~Same(L[i], e.type, e.fd)
    BY <1>1, <1>3
  <2>5. \A i \in 1..Len(L) : N[i + 1] = IF Same(L[i], e.type, e.fd) THEN e ELSE L[i]
    BY <2>2, <2>4
  <2>6. QED
    BY <2>2, <2>3, <2>4, <2>5
<1>4. QED
  BY <1>2, <1>3

(* A live entry of a list is that of a file which is watched.              *)
LEMMA LiveIsWatched ==
  ASSUME NEW pr \in [Proc -> Record], NEW L, Listed(L, pr), NEW i \in 1..Len(L), ~L[i].close
  PROVE  /\ L[i] \in Handler /\ L[i].process \in Servants \cup Jobs /\ L[i].process \in Proc
         /\ L[i].file \in Watch(pr[L[i].process]) /\ L[i].file \in File
         /\ L[i].type = Type(L[i].file) /\ L[i].fd = pr[L[i].process].fd[L[i].file]
<1>1. L \in Seq(Handler)
  BY DEF Listed
<1>2. L[i] \in Handler
  BY <1>1
<1>3. L[i].file \in Watch(pr[L[i].process]) /\ L[i] = Entry(L[i].process, L[i].file, pr[L[i].process].fd[L[i].file])
  BY DEF Listed
<1>4. L[i].process \in Servants \cup Jobs /\ L[i].process \in Proc /\ L[i].file \in File
  BY <1>2 DEF Handler, Proc
<1>5. Entry(L[i].process, L[i].file, pr[L[i].process].fd[L[i].file]).type = Type(L[i].file)
  BY DEF Entry
<1>6. Entry(L[i].process, L[i].file, pr[L[i].process].fd[L[i].file]).fd = pr[L[i].process].fd[L[i].file]
  BY DEF Entry
<1>7. QED
  BY <1>2, <1>3, <1>4, <1>5, <1>6

LEMMA EntryIsHandler ==
  ASSUME NEW p \in Servants \cup Jobs, NEW f \in File, NEW d \in Nat
  PROVE  /\ Entry(p, f, d) \in Handler /\ Entry(p, f, d).type = Type(f) /\ Entry(p, f, d).fd = d
         /\ Entry(p, f, d).process = p /\ Entry(p, f, d).file = f /\ ~Entry(p, f, d).close
BY DEF Entry, Handler, Type

(* The struct r is that of x with the file f watched too, by the number d, *)
(* which is that of no file that is watched.                               *)
NowWatched(r, x, f, d) ==
  /\ f \notin Watch(x) /\ Watch(r) = Watch(x) \cup {f} /\ r.fd[f] = d
  /\ \A g \in Watch(x) : r.fd[g] = x.fd[g]
Unknown(pr, d) == \A q \in Servants \cup Jobs : \A g \in Watch(pr[q]) : pr[q].fd[g] # d

(* The list M may stand for L: of the entries still to be visited none is  *)
(* new, and none is dropped.                                               *)
Grown(M, L) ==
  /\ Len(M) \in Nat /\ Len(M) >= Len(L)
  /\ \A n \in 0..Len(L) : (\A x \in Still(L, n) : ~x.close) => Still(M, n) \subseteq Still(L, n)
  /\ (\A i \in 1..Len(L) : ~L[i].close) => \A i \in 1..Len(M) : ~M[i].close

(* A file f of p that was not watched is enabled with the number d.        *)
LEMMA FileWatched ==
  ASSUME NEW pr \in [Proc -> Record], NEW L, Listed(L, pr),
         NEW p \in Servants \cup Jobs, NEW f \in File, NEW d \in Nat, Unknown(pr, d),
         NEW new \in [Proc -> Record], NowWatched(new[p], pr[p], f, d), Differs(pr, new, p)
  PROVE  \E M : M = nbMedullaWaitEnable(L, Entry(p, f, d)) /\ Listed(M, new) /\ Grown(M, L)
<1> PICK r \in Record : r = new[p]
  BY DEF Proc
<1> PICK M : M = nbMedullaWaitEnable(L, Entry(p, f, d))
  OBVIOUS
<1>0. /\ f \notin Watch(pr[p]) /\ Watch(r) = Watch(pr[p]) \cup {f} /\ r.fd[f] = d
      /\ \A g \in Watch(pr[p]) : r.fd[g] = pr[p].fd[g]
      /\ \A q \in Servants \cup Jobs : \A g \in Watch(pr[q]) : pr[q].fd[g] # d
  BY DEF NowWatched, Unknown
<1>1. L \in Seq(Handler) /\ Apart(L) /\ Len(L) \in Nat
  BY DEF Listed
<1>2. PICK e \in Handler : /\ e = Entry(p, f, d) /\ e.type = Type(f) /\ e.fd = d /\ e.process = p /\ e.file = f
                           /\ ~e.close
  BY EntryIsHandler
<1>3. PICK N \in Seq(Handler), k \in {0, 1} :
           /\ N = nbMedullaWaitEnable(L, e) /\ Len(N) = Len(L) + k
           /\ \A i \in 1..Len(L) : N[i + k] = IF Same(L[i], e.type, e.fd) THEN e ELSE L[i]
           /\ k = 0 => \E i \in 1..Len(L) : Same(L[i], e.type, e.fd)
           /\ k = 1 => N[1] = e /\ \A i \in 1..Len(L) : ~Same(L[i], e.type, e.fd)
  BY <1>1, EnabledIs
<1>4. N = M
  BY <1>2, <1>3
<1>5. p \in Proc /\ new[p] = r /\ new \in [Proc -> Record] /\ \A q \in Proc : q # p => new[q] = pr[q]
  BY DEF Proc, Differs
<1>6. ASSUME NEW i \in 1..Len(L), ~L[i].close
      PROVE  /\ ~Same(L[i], e.type, e.fd)
             /\ L[i].file \in Watch(new[L[i].process])
             /\ L[i] = Entry(L[i].process, L[i].file, new[L[i].process].fd[L[i].file])
  <2>1. /\ L[i].process \in Servants \cup Jobs /\ L[i].process \in Proc
        /\ L[i].file \in Watch(pr[L[i].process]) /\ L[i].fd = pr[L[i].process].fd[L[i].file]
    BY <1>6, LiveIsWatched
  <2>2. L[i].fd # d
    BY <1>0, <2>1
  <2>3. ~Same(L[i], e.type, e.fd)
    BY <1>2, <2>2 DEF Same
  <2>4. L[i] = Entry(L[i].process, L[i].file, pr[L[i].process].fd[L[i].file])
    BY <1>6 DEF Listed
  <2>5. CASE L[i].process = p
    BY <1>0, <1>5, <2>1, <2>3, <2>4, <2>5
  <2>6. CASE L[i].process # p
    BY <1>5, <2>1, <2>3, <2>4, <2>6
  <2>7. QED
    BY <2>5, <2>6
(* Every place of the new list is that of an old one, or has the entry.    *)
<1>7. ASSUME NEW j \in 1..Len(N)
      PROVE  \/ \E i \in 1..Len(L) : j = i + k /\ N[j] = L[i] /\ ~Same(L[i], e.type, e.fd)
             \/ N[j] = e /\ ((j = 1 /\ k = 1) \/ \E i \in 1..Len(L) : j = i + k /\ Same(L[i], e.type, e.fd))
  <2>1. CASE j - k \in 1..Len(L)
    <3>1. PICK i \in 1..Len(L) : i = j - k
      BY <2>1
    <3>2. j = i + k
      BY <1>1, <1>3, <3>1
    <3>3. N[j] = IF Same(L[i], e.type, e.fd) THEN e ELSE L[i]
      BY <1>3, <3>2
    <3>4. QED
      BY <3>2, <3>3
  <2>2. CASE j - k \notin 1..Len(L)
    <3>1. j = 1 /\ k = 1
      BY <1>1, <1>3, <2>2
    <3>2. QED
      BY <1>3, <3>1
  <2>3. QED
    BY <2>1, <2>2
<1>8. Apart(N)
  <2>1. ASSUME NEW a \in 1..Len(N), NEW b \in 1..Len(N), Same(N[a], N[b].type, N[b].fd)
        PROVE  a = b
    <3>1. CASE N[a] = e /\ N[b] = e
      <4>1. \A i, j \in 1..Len(L) : Same(L[i], e.type, e.fd) /\ Same(L[j], e.type, e.fd) => i = j
        BY <1>1 DEF Apart, Same
      <4>2. \A i \in 1..Len(L) : N[i + k] = e /\ ~Same(L[i], e.type, e.fd) => FALSE
        <5>1. Same(e, e.type, e.fd)
          BY DEF Same
        <5>2. QED
          BY <1>3, <5>1
      <4>3. /\ ((a = 1 /\ k = 1) \/ \E i \in 1..Len(L) : a = i + k /\ Same(L[i], e.type, e.fd))
            /\ ((b = 1 /\ k = 1) \/ \E i \in 1..Len(L) : b = i + k /\ Same(L[i], e.type, e.fd))
        BY <1>7, <3>1, <4>2
      <4>4. QED
        BY <1>3, <4>1, <4>3
    <3>2. CASE N[a] = e /\ N[b] # e
      <4>1. PICK i \in 1..Len(L) : N[b] = L[i] /\ ~Same(L[i], e.type, e.fd)
        BY <1>7, <3>2
      <4>2. QED
        BY <2>1, <3>2, <4>1 DEF Same
    <3>3. CASE N[a] # e /\ N[b] = e
      <4>1. PICK i \in 1..Len(L) : N[a] = L[i] /\ ~Same(L[i], e.type, e.fd)
        BY <1>7, <3>3
      <4>2. QED
        BY <2>1, <3>3, <4>1 DEF Same
    <3>4. CASE N[a] # e /\ N[b] # e
      <4>1. PICK i \in 1..Len(L) : a = i + k /\ N[a] = L[i]
        BY <1>7, <3>4
      <4>2. PICK j \in 1..Len(L) : b = j + k /\ N[b] = L[j]
        BY <1>7, <3>4
      <4>3. i = j
        BY <1>1, <2>1, <4>1, <4>2 DEF Apart
      <4>4. QED
        BY <4>1, <4>2, <4>3
    <3>5. QED
      BY <3>1, <3>2, <3>3, <3>4
  <2>2. QED
    BY <2>1 DEF Apart
<1>9. ASSUME NEW j \in 1..Len(N), ~N[j].close
      PROVE  /\ N[j].file \in Watch(new[N[j].process])
             /\ N[j] = Entry(N[j].process, N[j].file, new[N[j].process].fd[N[j].file])
  <2>1. CASE \E i \in 1..Len(L) : N[j] = L[i]
    BY <1>6, <1>9, <2>1
  <2>2. CASE N[j] = e
    BY <1>0, <1>2, <1>5, <2>2
  <2>3. QED
    BY <1>7, <2>1, <2>2
<1>10. ASSUME NEW q \in Servants \cup Jobs, NEW g \in Watch(new[q])
       PROVE  \E j \in 1..Len(N) : N[j] = Entry(q, g, new[q].fd[g])
  <2>1. q \in Proc
    BY DEF Proc
  <2>2. CASE q = p /\ g = f
    <3>1. \E j \in 1..Len(N) : N[j] = e
      <4>1. CASE k = 0
        <5>1. PICK i \in 1..Len(L) : Same(L[i], e.type, e.fd)
          BY <1>3, <4>1
        <5>2. N[i + 0] = e /\ i + 0 \in 1..Len(N)
          BY <1>1, <1>3, <4>1, <5>1
        <5>3. QED
          BY <5>2
      <4>2. CASE k = 1
        <5>1. N[1] = e /\ 1 \in 1..Len(N)
          BY <1>1, <1>3, <4>2
        <5>2. QED
          BY <5>1
      <4>3. QED
        BY <4>1, <4>2
    <3>2. QED
      BY <1>0, <1>2, <1>5, <2>2, <3>1
  <2>3. CASE ~(q = p /\ g = f)
    <3>1. g \in Watch(pr[q]) /\ new[q].fd[g] = pr[q].fd[g]
      BY <1>0, <1>5, <2>1, <2>3
    <3>2. PICK i \in 1..Len(L) : L[i] = Entry(q, g, pr[q].fd[g])
      BY <3>1 DEF Listed
    <3>3. ~L[i].close
      BY <3>2 DEF Entry
    <3>4. ~Same(L[i], e.type, e.fd)
      BY <1>6, <3>3
    <3>5. N[i + k] = L[i] /\ i + k \in 1..Len(N)
      BY <1>1, <1>3, <3>4
    <3>6. QED
      BY <3>1, <3>2, <3>5
  <2>4. QED
    BY <2>2, <2>3
<1>11. Listed(N, new)
  BY <1>8, <1>9, <1>10 DEF Listed
<1>12. ASSUME NEW n \in 0..Len(L), \A x \in Still(L, n) : ~x.close
       PROVE  Still(N, n) \subseteq Still(L, n)
  <2>1. ASSUME NEW j \in 1..Len(N), j > Len(N) - n
        PROVE  \E i \in 1..Len(L) : i > Len(L) - n /\ N[j] = L[i]
    <3>1. j # 1 \/ k # 1
      BY <1>1, <1>3, <2>1
    <3>2. PICK i \in 1..Len(L) : j = i + k /\ (N[j] = L[i] \/ Same(L[i], e.type, e.fd))
      BY <1>7, <3>1
    <3>3. i > Len(L) - n
      BY <1>1, <1>3, <2>1, <3>2
    <3>4. L[i] \in Still(L, n)
      BY <3>3 DEF Still
    <3>5. ~L[i].close
      BY <1>12, <3>4
    <3>6. N[j] = L[i]
      BY <1>6, <3>2, <3>5
    <3>7. QED
      BY <3>3, <3>6
  <2>2. QED
    BY <2>1 DEF Still
<1>13. ASSUME \A i \in 1..Len(L) : ~L[i].close, NEW j \in 1..Len(N)
       PROVE  ~N[j].close
  BY <1>2, <1>7, <1>13
<1>14. Len(N) \in Nat /\ Len(N) >= Len(L)
  BY <1>1, <1>3
<1>15. Grown(N, L)
  BY <1>12, <1>13, <1>14 DEF Grown
<1>16. QED
  BY <1>4, <1>11, <1>15

(* The struct r is that of x without watching f, and M is the list L where *)
(* only entries for the file f of p, with the number d, were dropped.      *)
Unwatched(r, x, f) == Watch(r) = Watch(x) \ {f} /\ \A g \in Watch(r) : r.fd[g] = x.fd[g]
DropsOnly(M, L, p, f, d) ==
  \A i \in 1..Len(L) : /\ M[i] = L[i] \/ M[i] = [L[i] EXCEPT !.close = TRUE]
                       /\ L[i] = Entry(p, f, d) => M[i].close
                       /\ M[i].close /\ ~L[i].close => L[i].process = p /\ L[i].file = f

(* A file f of p is no longer watched: its entry, if it has one, is the    *)
(* only one that is dropped.                                               *)
LEMMA FileDropped ==
  ASSUME NEW pr \in [Proc -> Record], NEW L, Listed(L, pr),
         NEW p \in Servants \cup Jobs, NEW f \in File, NEW r \in Record,
         Unwatched(r, pr[p], f), NEW M \in Seq(Handler), Len(M) = Len(L), DropsOnly(M, L, p, f, pr[p].fd[f]),
         NEW new \in [Proc -> Record], new[p] = r, Differs(pr, new, p)
  PROVE  Listed(M, new)
<1>1. L \in Seq(Handler) /\ Apart(L) /\ Len(L) \in Nat
  BY DEF Listed
<1>2. p \in Proc /\ new[p] = r /\ \A q \in Proc : q # p => new[q] = pr[q]
  BY DEF Proc, Differs
<1>3. /\ \A i \in 1..Len(L) : L[i] \in Handler
      /\ \A i \in 1..Len(L) : /\ M[i] = L[i] \/ M[i] = [L[i] EXCEPT !.close = TRUE]
                              /\ L[i] = Entry(p, f, pr[p].fd[f]) => M[i].close
                              /\ M[i].close /\ ~L[i].close => L[i].process = p /\ L[i].file = f
      /\ Watch(r) = Watch(pr[p]) \ {f} /\ \A g \in Watch(r) : r.fd[g] = pr[p].fd[g]
  BY <1>1 DEF DropsOnly, Unwatched
<1>4. \A i \in 1..Len(L) : M[i].type = L[i].type /\ M[i].fd = L[i].fd /\ (~M[i].close => M[i] = L[i])
  <2>1. ASSUME NEW h \in Handler, NEW g, g = [h EXCEPT !.close = TRUE]
        PROVE  g.type = h.type /\ g.fd = h.fd /\ g.close
    BY <2>1 DEF Handler
  <2>2. TAKE i \in 1..Len(L)
  <2>3. M[i] = L[i] \/ M[i] = [L[i] EXCEPT !.close = TRUE]
    BY <1>3
  <2>4. CASE M[i] = L[i]
    BY <2>4
  <2>5. CASE M[i] = [L[i] EXCEPT !.close = TRUE]
    BY <1>3, <2>1, <2>5
  <2>6. QED
    BY <2>3, <2>4, <2>5
<1>5. Apart(M)
  BY <1>1, <1>4 DEF Apart, Same
<1>6. ASSUME NEW i \in 1..Len(M), ~M[i].close
      PROVE  /\ M[i].file \in Watch(new[M[i].process])
             /\ M[i] = Entry(M[i].process, M[i].file, new[M[i].process].fd[M[i].file])
  <2>1. i \in 1..Len(L) /\ M[i] = L[i] /\ ~L[i].close
    BY <1>4, <1>6
  <2>2. /\ L[i].process \in Proc
        /\ L[i].file \in Watch(pr[L[i].process])
    BY <2>1, LiveIsWatched
  <2>3. L[i] = Entry(L[i].process, L[i].file, pr[L[i].process].fd[L[i].file])
    BY <2>1 DEF Listed
  <2>4. ~(L[i].process = p /\ L[i].file = f)
    BY <1>3, <1>6, <2>1, <2>3
  <2>5. CASE L[i].process = p
    BY <1>2, <1>3, <2>1, <2>2, <2>3, <2>4, <2>5
  <2>6. CASE L[i].process # p
    BY <1>2, <2>1, <2>2, <2>3, <2>6
  <2>7. QED
    BY <2>5, <2>6
<1>7. ASSUME NEW q \in Servants \cup Jobs, NEW g \in Watch(new[q])
      PROVE  \E i \in 1..Len(M) : M[i] = Entry(q, g, new[q].fd[g])
  <2>1. q \in Proc
    BY DEF Proc
  <2>2. ~(q = p /\ g = f) /\ g \in Watch(pr[q]) /\ new[q].fd[g] = pr[q].fd[g]
    BY <1>2, <1>3, <2>1
  <2>3. PICK i \in 1..Len(L) : L[i] = Entry(q, g, pr[q].fd[g])
    BY <2>2 DEF Listed
  <2>4. ~L[i].close /\ L[i].process = q /\ L[i].file = g
    BY <2>3 DEF Entry
  <2>5. ~M[i].close
    BY <1>3, <2>2, <2>4
  <2>6. QED
    BY <1>4, <2>2, <2>3, <2>5
<1>8. QED
  BY <1>5, <1>6, <1>7 DEF Listed

(* Nothing changes for the list when a process keeps its watched files.    *)
LEMMA WatchKept ==
  ASSUME NEW pr \in [Proc -> Record], NEW L, Listed(L, pr), NEW new \in [Proc -> Record],
         \A p \in Servants \cup Jobs : /\ Watch(new[p]) = Watch(pr[p])
                                       /\ \A g \in Watch(pr[p]) : new[p].fd[g] = pr[p].fd[g]
  PROVE  Listed(L, new)
<1>1. L \in Seq(Handler) /\ Apart(L) /\ Len(L) \in Nat
  BY DEF Listed
<1>2. ASSUME NEW i \in 1..Len(L), ~L[i].close
      PROVE  /\ L[i].file \in Watch(new[L[i].process])
             /\ L[i] = Entry(L[i].process, L[i].file, new[L[i].process].fd[L[i].file])
  <2>1. /\ L[i].process \in Servants \cup Jobs
        /\ L[i].file \in Watch(pr[L[i].process])
    BY <1>2, LiveIsWatched
  <2>2. L[i] = Entry(L[i].process, L[i].file, pr[L[i].process].fd[L[i].file])
    BY <1>2 DEF Listed
  <2>3. QED
    BY <2>1, <2>2
<1>3. ASSUME NEW q \in Servants \cup Jobs, NEW g \in Watch(new[q])
      PROVE  \E i \in 1..Len(L) : L[i] = Entry(q, g, new[q].fd[g])
  <2>1. g \in Watch(pr[q]) /\ new[q].fd[g] = pr[q].fd[g]
    BY SMTT(60)
  <2>2. QED
    BY <2>1 DEF Listed
<1>4. QED
  BY <1>1, <1>2, <1>3 DEF Listed

(* The list that is rebuilt without the entries that were dropped.         *)
LEMMA ListRebuilt ==
  ASSUME NEW pr \in [Proc -> Record], NEW L, Listed(L, pr),
         NEW M, M = Selected(L, {i \in DOMAIN L : ~L[i].close})
  PROVE  Listed(M, pr) /\ Len(M) \in Nat /\ \A i \in 1..Len(M) : ~M[i].close
<1>1. L \in Seq(Handler) /\ Apart(L) /\ Len(L) \in Nat /\ DOMAIN L = 1..Len(L)
  BY DEF Listed
<1>2. PICK I : I = {i \in DOMAIN L : ~L[i].close}
  OBVIOUS
<1>3. I \in SUBSET (1..Len(L))
  BY <1>1, <1>2
<1>4. I \in SUBSET Nat /\ IsFiniteSet(I)
  <2>1. I \in SUBSET Nat
    <3>1. \A i \in 1..Len(L) : i \in Nat
      BY <1>1
    <3>2. QED
      BY <1>3, <3>1
  <2>2. Len(L) \in Int /\ 1 \in Int
    BY <1>1
  <2>3. IsFiniteSet(1..Len(L))
    BY <2>2, FS_Interval
  <2>4. IsFiniteSet(I)
    BY <1>3, <2>3, FS_Subset
  <2>5. QED
    BY <2>1, <2>4
<1>5. PICK f \in [1..Cardinality(I) -> I] :
        /\ f = [n \in 1..Cardinality(I) |-> CHOOSE i \in I : Cardinality({j \in I : j < i}) = n - 1]
        /\ \A m, n \in 1..Cardinality(I) : m < n => f[m] < f[n]
        /\ \A i \in I : \E n \in 1..Cardinality(I) : f[n] = i
  BY <1>4, PlacesInOrder
<1>6. /\ M \in Seq(Handler) /\ Len(M) = Cardinality(I) /\ Len(M) \in Nat
      /\ \A n \in 1..Len(M) : f[n] \in 1..Len(L) /\ M[n] = L[f[n]] /\ ~M[n].close
  <2>1. PICK N : N = [n \in 1..Cardinality(I) |-> L[f[n]]]
    OBVIOUS
  <2>2. Cardinality(I) \in Nat
    BY <1>4, PlacesInOrder
  <2>3. \A n \in 1..Cardinality(I) : f[n] \in 1..Len(L) /\ L[f[n]] \in Handler /\ ~L[f[n]].close
    BY <1>1, <1>2, <1>3
  <2>4. /\ N \in Seq(Handler) /\ Len(N) = Cardinality(I)
        /\ \A n \in 1..Len(N) : f[n] \in 1..Len(L) /\ N[n] = L[f[n]] /\ ~N[n].close
    BY <2>1, <2>2, <2>3
  <2>5. M = N
    BY <1>2, <1>5, <2>1 DEF Selected
  <2>6. QED
    BY <2>2, <2>4, <2>5
<1>7. Apart(M)
  <2>1. ASSUME NEW a \in 1..Len(M), NEW b \in 1..Len(M), Same(M[a], M[b].type, M[b].fd)
        PROVE  a = b
    <3>1. f[a] = f[b]
      BY <1>1, <1>6, <2>1 DEF Apart
    <3>2. f[a] \in Nat /\ f[b] \in Nat /\ a \in Nat /\ b \in Nat
      BY <1>6
    <3>3. ~(a < b) /\ ~(b < a)
      <4>1. \A m, n \in 1..Cardinality(I) : m < n => f[m] < f[n]
        BY <1>5
      <4>2. QED
        BY <1>6, <3>1, <3>2, <4>1
    <3>4. QED
      BY <3>2, <3>3
  <2>2. QED
    BY <2>1 DEF Apart
<1>8. ASSUME NEW n \in 1..Len(M)
      PROVE  /\ M[n].file \in Watch(pr[M[n].process])
             /\ M[n] = Entry(M[n].process, M[n].file, pr[M[n].process].fd[M[n].file])
  <2>1. f[n] \in 1..Len(L) /\ M[n] = L[f[n]] /\ ~L[f[n]].close
    BY <1>6
  <2>2. QED
    BY <2>1 DEF Listed
<1>9. ASSUME NEW p \in Servants \cup Jobs, NEW g \in Watch(pr[p])
      PROVE  \E n \in 1..Len(M) : M[n] = Entry(p, g, pr[p].fd[g])
  <2>1. PICK i \in 1..Len(L) : L[i] = Entry(p, g, pr[p].fd[g])
    BY DEF Listed
  <2>2. i \in I
    BY <1>1, <1>2, <2>1 DEF Entry
  <2>3. PICK n \in 1..Len(M) : f[n] = i
    BY <1>5, <1>6, <2>2
  <2>4. QED
    BY <1>6, <2>1, <2>3
<1>10. QED
  BY <1>6, <1>7, <1>8, <1>9 DEF Listed

----------------------------------------------------------------------------
(* The parts of the invariant under steps that change little of them.      *)
Lives == {"none", "running", "zombie", "reaped"}

LEMMA ProcessChanged ==
  ASSUME NEW pr, NEW lf, NEW en, NEW pp, Processes(pr, lf, en, pp), NEW p \in Proc,
         NEW pr2 \in [Proc -> Record], NEW lf2 \in [Proc -> Lives], NEW en2 \in [Proc -> SUBSET File],
         NEW pp2 \in [Proc -> [File -> Pipe]],
         Differs(pr, pr2, p), Differs(lf, lf2, p), Differs(en, en2, p), Differs(pp, pp2, p),
         Process(p, pr2[p], lf2[p], en2[p], pp2[p])
  PROVE  Processes(pr2, lf2, en2, pp2)
<1>1. ASSUME NEW q \in Proc
      PROVE  Process(q, pr2[q], lf2[q], en2[q], pp2[q])
  <2>1. CASE q = p
    BY <2>1
  <2>2. CASE q # p
    <3>1. pr2[q] = pr[q] /\ lf2[q] = lf[q] /\ en2[q] = en[q] /\ pp2[q] = pp[q]
      BY <2>2 DEF Differs
    <3>2. Process(q, pr[q], lf[q], en[q], pp[q])
      BY DEF Processes
    <3>3. QED
      BY <3>1, <3>2
  <2>3. QED
    BY <2>1, <2>2
<1>2. QED
  BY <1>1 DEF Processes, Lives

LEMMA StackFrame ==
  ASSUME NEW c, NEW pr, Stack(c, pr), NEW new,
         \A p \in Proc : pr[p].status # "unused" => new[p].status # "unused",
         \A i \in 1..Len(c) : c[i].op = "wait" => new[c[i].process].status = "open",
         \A i \in 1..Len(c) : c[i].op = "write" => new[c[i].process].queue # <<>>
  PROVE  Stack(c, new)
BY DEF Stack

LEMMA StackPop ==
  ASSUME NEW c, NEW pr, Stack(c, pr), c # <<>>
  PROVE  /\ Stack(Front(c), pr) /\ Len(Front(c)) = Len(c) - 1 /\ Len(c) \in Nat
         /\ \A i \in 1..Len(c) - 1 : Front(c)[i] = c[i]
         /\ Len(c) \in 1..Len(c) /\ Last(c) = c[Len(c)] /\ c[Len(c)] \in Activity
         /\ \A i \in 1..Len(Front(c)) : c[i].op # "write"
<1>1. c \in Seq(Activity) /\ Len(c) \in Nat /\ Len(c) > 0 /\ Len(c) \in 1..Len(c)
  BY DEF Stack
<1>2. PICK d : d = Front(c)
  OBVIOUS
<1>3. d \in Seq(Activity) /\ Len(d) = Len(c) - 1 /\ \A i \in 1..Len(c) - 1 : d[i] = c[i]
  <2>1. d = SubSeq(c, 1, Len(c) - 1)
    BY <1>2 DEF Front
  <2>2. d = [i \in 1..Len(c) - 1 |-> c[i]]
    BY <1>1, <2>1
  <2>3. Len(c) - 1 \in Nat /\ \A i \in 1..Len(c) - 1 : c[i] \in Activity
    BY <1>1
  <2>4. QED
    BY <2>2, <2>3
<1>4. Last(c) = c[Len(c)] /\ c[Len(c)] \in Activity
  BY <1>1 DEF Last
<1>5. \A i \in 1..Len(d) : i \in 1..Len(c) /\ d[i] = c[i] /\ Len(c) # 1
  BY <1>1, <1>3
<1>6. \A i \in 1..Len(d) : c[i].op # "write"
  BY <1>5 DEF Stack
<1>7. Stack(d, pr)
  BY <1>3, <1>5, <1>6 DEF Stack
<1>8. QED
  BY <1>1, <1>2, <1>3, <1>4, <1>6, <1>7

(* The call a may begin.                                                   *)
Allowed(a, c, pr) ==
  /\ \A i \in 1..Len(c) : c[i].op # "write"
  /\ a.op = "lines" => a.process \in Proc /\ a.file \in Out /\ pr[a.process].status # "unused"
  /\ a.op = "wait" => /\ a.process \in Waited /\ pr[a.process].status = "open"
                      /\ \A i \in 1..Len(c) : c[i].op \in {"wait", "lines"} => c[i].process # a.process
  /\ a.op = "write" => c = <<>> /\ a.process \in Servants /\ pr[a.process].queue # <<>>

LEMMA StackPush ==
  ASSUME NEW c, NEW pr, Stack(c, pr), NEW a \in Activity, Allowed(a, c, pr)
  PROVE  /\ Stack(Append(c, a), pr)
         /\ Len(Append(c, a)) = Len(c) + 1 /\ Append(c, a)[Len(c) + 1] = a /\ Len(c) \in Nat
         /\ \A i \in 1..Len(c) : Append(c, a)[i] = c[i]
<1>1. c \in Seq(Activity) /\ Len(c) \in Nat
  BY DEF Stack
<1>2. PICK d : d = Append(c, a)
  OBVIOUS
<1>3. /\ d \in Seq(Activity) /\ Len(d) = Len(c) + 1 /\ d[Len(c) + 1] = a
      /\ \A i \in 1..Len(c) : d[i] = c[i]
  BY <1>1, <1>2
<1>4. \A i \in 1..Len(d) : (i \in 1..Len(c) /\ d[i] = c[i]) \/ (i = Len(c) + 1 /\ d[i] = a)
  BY <1>1, <1>3
<1>5. ASSUME NEW i \in 1..Len(d)
      PROVE  /\ d[i].op = "lines" => d[i].process \in Proc /\ d[i].file \in Out /\ pr[d[i].process].status # "unused"
             /\ d[i].op = "wait" => d[i].process \in Waited /\ pr[d[i].process].status = "open"
             /\ d[i].op = "write" => Len(d) = 1 /\ d[i].process \in Servants /\ pr[d[i].process].queue # <<>>
  <2>1. CASE i \in 1..Len(c) /\ d[i] = c[i]
    BY <1>1, <2>1 DEF Stack, Allowed
  <2>2. CASE d[i] = a
    BY <1>1, <1>3, <2>2 DEF Allowed
  <2>3. QED
    BY <1>4, <2>1, <2>2
<1>6. ASSUME NEW i \in 1..Len(d), NEW j \in 1..Len(d),
             d[i].op = "wait", d[j].op \in {"wait", "lines"}, d[i].process = d[j].process
      PROVE  i <= j
  <2>1. CASE i \in 1..Len(c) /\ d[i] = c[i] /\ j \in 1..Len(c) /\ d[j] = c[j]
    BY <1>6, <2>1 DEF Stack
  <2>2. CASE i \in 1..Len(c) /\ j = Len(c) + 1
    BY <1>1, <2>2
  <2>3. CASE i = Len(c) + 1 /\ d[i] = a /\ j \in 1..Len(c) /\ d[j] = c[j]
    BY <1>6, <2>3 DEF Allowed
  <2>4. CASE i = Len(c) + 1 /\ j = Len(c) + 1
    BY <1>1, <2>4
  <2>5. QED
    BY <1>4, <2>1, <2>2, <2>3, <2>4
<1>7. Stack(d, pr)
  BY <1>3, <1>5, <1>6 DEF Stack
<1>8. QED
  BY <1>1, <1>2, <1>3, <1>7

(* The places that are still to be visited.                                *)
LEMMA StillEntry ==
  ASSUME NEW L \in Seq(Handler), NEW n, NEW e \in Still(L, n)
  PROVE  e \in Handler /\ \E i \in 1..Len(L) : i > Len(L) - n /\ e = L[i]
BY DEF Still

(* The list M, which comes of L, and the files s2, of which no live entry  *)
(* of L has one that is not in s, under a stack c2 without other writes.   *)
LEMMA VisitsFrame ==
  ASSUME NEW L \in Seq(Handler), NEW n, NEW a, NEW s, NEW en, NEW pp, NEW c, Visits(L, n, a, s, en, pp, c),
         NEW M, NEW s2, NEW en2, NEW pp2, NEW c2,
         Len(M) \in Nat, Len(M) >= Len(L), a = "visit" => Still(M, n) \subseteq Still(L, n),
         a = "commands" => \A i \in 1..Len(M) : ~M[i].close,
         \A i \in 1..Len(L) : ~L[i].close /\ <<L[i].type, L[i].fd>> \in s2 => <<L[i].type, L[i].fd>> \in s,
         a = "visit" => \A e \in Still(L, n) : ~e.close =>
           (Waitless(e.file, en[e.process], pp[e.process]) => Waitless(e.file, en2[e.process], pp2[e.process])),
         \A k \in 1..Len(c2) : c2[k].op = "write" =>
           \E j \in 1..Len(c) : c[j].op = "write" /\ c[j].process = c2[k].process
  PROVE  Visits(M, n, a, s2, en2, pp2, c2)
<1>1. n \in 0..Len(M) /\ (a \in {"commands", "collect", "clear"} => n = 0)
  <2>1. n \in 0..Len(L) /\ Len(L) \in Nat /\ (a \in {"commands", "collect", "clear"} => n = 0)
    BY DEF Visits
  <2>2. QED
    BY <2>1
<1>2. ASSUME a = "visit", NEW e \in Still(M, n)
      PROVE  /\ ~e.close
             /\ <<e.type, e.fd>> \in s2 => Waitless(e.file, en2[e.process], pp2[e.process])
             /\ \A k \in 1..Len(c2) : c2[k].op = "write" => e.process # c2[k].process \/ e.file # "put"
  <2>1. e \in Still(L, n)
    BY <1>2
  <2>2. /\ ~e.close
        /\ <<e.type, e.fd>> \in s => Waitless(e.file, en[e.process], pp[e.process])
        /\ \A k \in 1..Len(c) : c[k].op = "write" => e.process # c[k].process \/ e.file # "put"
    BY <1>2, <2>1 DEF Visits
  <2>3. <<e.type, e.fd>> \in s2 => <<e.type, e.fd>> \in s
    <3>1. PICK i \in 1..Len(L) : e = L[i]
      BY <2>1 DEF Still
    <3>2. QED
      BY <2>2, <3>1
  <2>4. <<e.type, e.fd>> \in s2 => Waitless(e.file, en2[e.process], pp2[e.process])
    BY <1>2, <2>1, <2>2, <2>3
  <2>5. \A k \in 1..Len(c2) : c2[k].op = "write" => e.process # c2[k].process \/ e.file # "put"
    BY <2>2
  <2>6. QED
    BY <2>2, <2>4, <2>5
<1>3. \A k \in 1..Len(c2) : c2[k].op = "write" => a = "visit"
  BY DEF Visits
<1>4. QED
  BY <1>1, <1>2, <1>3 DEF Visits

(* Outside commands and visits, with nothing going on.                     *)
LEMMA VisitsElsewhere ==
  ASSUME NEW L, NEW n \in 0..Len(L), NEW a, a \notin {"commands", "visit"}, a \in {"collect", "clear"} => n = 0,
         NEW s, NEW en, NEW pp
  PROVE  Visits(L, n, a, s, en, pp, <<>>)
<1>1. Len(<<>>) = 0
  OBVIOUS
<1>2. QED
  BY <1>1 DEF Visits

LEMMA HandedFrame ==
  ASSUME NEW pr, NEW pp, NEW c, Handed(pr, pp, c), NEW pr2, NEW pp2, NEW c2,
         \A p \in Proc, f \in Out :
           \/ pr2[p].handed[f] = pr[p].handed[f] /\ pp2[p][f].read = pp[p][f].read
           \/ pr2[p].handed[f] = pp2[p][f].read \div 2
           \/ \E j \in 1..Len(c2) : c2[j].op = "lines" /\ c2[j].process = p /\ c2[j].file = f,
         \A i \in 1..Len(c) : c[i].op = "lines" =>
           \/ pr2[c[i].process].handed[c[i].file] = pp2[c[i].process][c[i].file].read \div 2
           \/ \E j \in 1..Len(c2) : c2[j].op = "lines" /\ c2[j].process = c[i].process /\ c2[j].file = c[i].file
  PROVE  Handed(pr2, pp2, c2)
<1>1. SUFFICES ASSUME NEW p \in Proc, NEW f \in Out,
                      ~(pr2[p].handed[f] = pp2[p][f].read \div 2),
                      ~(\E j \in 1..Len(c2) : c2[j].op = "lines" /\ c2[j].process = p /\ c2[j].file = f)
               PROVE  FALSE
  BY DEF Handed
<1>2. pr2[p].handed[f] = pr[p].handed[f] /\ pp2[p][f].read = pp[p][f].read
  BY <1>1
<1>3. PICK i \in 1..Len(c) : c[i].op = "lines" /\ c[i].process = p /\ c[i].file = f
  BY <1>1, <1>2 DEF Handed
<1>4. QED
  BY <1>1, <1>3

LEMMA DistinctFrame ==
  ASSUME NEW pr, Distinct(pr), NEW new,
         \A p \in Proc, f \in File : new[p].fd[f] = pr[p].fd[f] \/ new[p].fd[f] = -1
  PROVE  Distinct(new)
BY DEF Distinct

LEMMA CountedFrame ==
  ASSUME NEW pr, NEW n, Counted(pr, n), NEW new,
         \A p \in Proc : new[p].status = "open" <=> pr[p].status = "open"
  PROVE  Counted(new, n)
<1>1. Opened(new) = Opened(pr)
  BY DEF Opened
<1>2. QED
  BY <1>1 DEF Counted

LEMMA CountedClosed ==
  ASSUME NEW pr, NEW n, Counted(pr, n), NEW new, NEW p \in Proc,
         pr[p].status = "open", new[p].status = "closed", Differs(pr, new, p)
  PROVE  Counted(new, n - 1)
<1>1. Opened(new) = Opened(pr) \ {p} /\ p \in Opened(pr)
  BY DEF Opened, Differs
<1>2. IsFiniteSet(Opened(pr)) /\ n = Cardinality(Opened(pr)) /\ n <= ChildMax /\ n \in Nat
  BY FS_CardinalityType DEF Counted
<1>3. IsFiniteSet(Opened(pr) \ {p}) /\ Cardinality(Opened(pr) \ {p}) = n - 1
  BY <1>1, <1>2, FS_RemoveElement
<1>4. n - 1 <= ChildMax
  BY <1>2, MedullaAssumption
<1>5. QED
  BY <1>1, <1>3, <1>4 DEF Counted

LEMMA CountedOpened ==
  ASSUME NEW pr, NEW n, Counted(pr, n), n < ChildMax, NEW new, NEW p \in Proc,
         pr[p].status # "open", new[p].status = "open", Differs(pr, new, p)
  PROVE  Counted(new, n + 1)
<1>1. Opened(new) = Opened(pr) \cup {p} /\ p \notin Opened(pr)
  BY DEF Opened, Differs
<1>2. IsFiniteSet(Opened(pr)) /\ n = Cardinality(Opened(pr)) /\ n \in Nat
  BY FS_CardinalityType DEF Counted
<1>3. IsFiniteSet(Opened(pr) \cup {p}) /\ Cardinality(Opened(pr) \cup {p}) = n + 1
  BY <1>1, <1>2, FS_AddElement
<1>4. n + 1 <= ChildMax
  BY <1>2, MedullaAssumption
<1>5. QED
  BY <1>1, <1>3, <1>4 DEF Counted

LEMMA PointedFrame ==
  ASSUME NEW sv, NEW pr, Pointed(sv, pr), NEW new,
         \A p \in Proc : pr[p].status # "unused" => new[p].status # "unused"
  PROVE  Pointed(sv, new)
BY DEF Pointed

----------------------------------------------------------------------------
(* The steps.                                                              *)
Struct(status, ended, fd, queue, writer, handed) ==
  [status |-> status, ended |-> ended, fd |-> fd, queue |-> queue, writer |-> writer, handed |-> handed]

LEMMA StructFields ==
  ASSUME NEW st \in {"unused", "open", "closed"}, NEW en \in BOOLEAN, NEW fd \in [File -> Nat \cup {-1}],
         NEW q \in Seq(Nat), NEW w \in BOOLEAN, NEW h \in [Out -> Nat]
  PROVE  \E r \in Record : /\ r = Struct(st, en, fd, q, w, h)
                           /\ r.status = st /\ r.ended = en /\ r.fd = fd /\ r.queue = q /\ r.writer = w
                           /\ r.handed = h
<1>1. PICK r : r = Struct(st, en, fd, q, w, h)
  OBVIOUS
<1>2. r \in Record
  BY <1>1 DEF Record, Struct
<1>3. r.status = st /\ r.ended = en /\ r.fd = fd /\ r.queue = q /\ r.writer = w /\ r.handed = h
  BY <1>1 DEF Struct
<1>4. QED
  BY <1>1, <1>2, <1>3

(* The parts of the invariant.                                             *)
LEMMA Parts ==
  ASSUME MedullaInv
  PROVE  /\ proc \in [Proc -> Record] /\ life \in [Proc -> Lives] /\ ends \in [Proc -> SUBSET File]
         /\ pipe \in [Proc -> [File -> Pipe]] /\ servant \in [Servants -> Proc \cup {NoOne, "free"}]
         /\ \A p \in Proc : Process(p, proc[p], life[p], ends[p], pipe[p])
         /\ handlers \in Seq(Handler) /\ Len(handlers) \in Nat /\ DOMAIN handlers = 1..Len(handlers)
         /\ calls \in Seq(Activity) /\ Len(calls) \in Nat /\ DOMAIN calls = 1..Len(calls)
         /\ left \in 0..Len(handlers)
<1>1. handlers \in Seq(Handler) /\ calls \in Seq(Activity) /\ left \in 0..Len(handlers)
  BY DEF MedullaInv, Listed, Stack, Visits
<1>2. QED
  BY <1>1 DEF MedullaInv, Processes, Lives, Pointed

(* The innermost call is over.                                             *)
LEMMA CallDone ==
  ASSUME MedullaInv, calls # <<>>,
         Last(calls).op = "lines" =>
           proc[Last(calls).process].handed[Last(calls).file]
             = pipe[Last(calls).process][Last(calls).file].read \div 2
  PROVE  /\ Stack(Done, proc) /\ Visits(handlers, left, at, fdset, ends, pipe, Done)
         /\ Handed(proc, pipe, Done)
         /\ Len(calls) \in 1..Len(calls) /\ Last(calls) = calls[Len(calls)] /\ Last(calls) \in Activity
         /\ Len(Done) = Len(calls) - 1 /\ \A i \in 1..Len(calls) - 1 : Done[i] = calls[i]
         /\ \A i \in 1..Len(Done) : Done[i].op # "write"
<1>1. PICK d : d = Done
  OBVIOUS
<1>2. PICK c : c = Last(calls)
  OBVIOUS
<1>3. /\ Stack(d, proc) /\ Len(d) = Len(calls) - 1 /\ Len(calls) \in Nat
      /\ \A i \in 1..Len(calls) - 1 : d[i] = calls[i]
      /\ Len(calls) \in 1..Len(calls) /\ c = calls[Len(calls)] /\ c \in Activity
      /\ \A i \in 1..Len(d) : calls[i].op # "write"
  BY <1>1, <1>2, StackPop DEF MedullaInv, Done
<1>4. \A i \in 1..Len(d) : d[i].op # "write"
  BY <1>3
<1>5. Visits(handlers, left, at, fdset, ends, pipe, d)
  <2>1. \A i \in 1..Len(handlers) : at = "commands" => ~handlers[i].close
    BY DEF MedullaInv, Visits
  <2>2. handlers \in Seq(Handler) /\ Len(handlers) \in Nat /\ Visits(handlers, left, at, fdset, ends, pipe, calls)
    BY Parts DEF MedullaInv
  <2>3. QED
    BY <1>4, <2>1, <2>2, VisitsFrame
<1>6. Handed(proc, pipe, d)
  <2>1. \A i \in 1..Len(calls) : i \in 1..Len(d) \/ i = Len(calls)
    BY <1>3
  <2>2. c.op = "lines" => proc[c.process].handed[c.file] = pipe[c.process][c.file].read \div 2
    BY <1>2
  <2>3. \A i \in 1..Len(calls) : calls[i].op = "lines" =>
           \/ proc[calls[i].process].handed[calls[i].file] = pipe[calls[i].process][calls[i].file].read \div 2
           \/ \E j \in 1..Len(d) : d[j].op = "lines" /\ d[j].process = calls[i].process /\ d[j].file = calls[i].file
    BY <1>3, <2>1, <2>2
  <2>4. Handed(proc, pipe, calls)
    BY DEF MedullaInv
  <2>5. QED
    BY <2>3, <2>4, HandedFrame
<1>7. QED
  BY <1>1, <1>2, <1>3, <1>4, <1>5, <1>6

LEMMA CommandStep ==
  ASSUME MedullaInv, OtherCommand \/ nbCmdStop
  PROVE  MedullaInv'
<1>1. calls # <<>> /\ Last(calls).op = "command" /\ calls' = Done
  BY DEF OtherCommand, nbCmdStop, Doing
<1>2. /\ serving' \in BOOLEAN
      /\ UNCHANGED <<life, ends, busy, pipe, sigchld, proc, count, handlers, fdset, left, at, servant>>
  BY DEF OtherCommand, nbCmdStop, kernel, watching, given, MedullaInv, Flags
<1>3. Stack(Done, proc) /\ Visits(handlers, left, at, fdset, ends, pipe, Done) /\ Handed(proc, pipe, Done)
  BY <1>1, CallDone
<1>4. Stack(calls', proc') /\ Visits(handlers', left', at', fdset', ends', pipe', calls') /\ Handed(proc', pipe', calls')
  BY <1>1, <1>2, <1>3
<1>5. Flags'
  BY <1>2 DEF MedullaInv, Flags
<1>6. /\ Processes(proc', life', ends', pipe') /\ Distinct(proc') /\ Counted(proc', count')
      /\ Pointed(servant', proc') /\ Listed(handlers', proc')
  BY <1>2 DEF MedullaInv
<1>7. QED
  BY <1>4, <1>5, <1>6 DEF MedullaInv

LEMMA HandedAllStep ==
  ASSUME MedullaInv, HandedAll
  PROVE  MedullaInv'
<1>1. /\ calls # <<>> /\ Last(calls).op = "lines" /\ calls' = Done
      /\ proc[Last(calls).process].handed[Last(calls).file] = pipe[Last(calls).process][Last(calls).file].read \div 2
  BY DEF HandedAll, Doing, Lines
<1>2. UNCHANGED <<life, ends, busy, pipe, sigchld, proc, count, handlers, fdset, left, at, servant, serving>>
  BY DEF HandedAll, kernel, watching, given
<1>3. Stack(Done, proc) /\ Visits(handlers, left, at, fdset, ends, pipe, Done) /\ Handed(proc, pipe, Done)
  BY <1>1, CallDone
<1>4. Stack(calls', proc') /\ Visits(handlers', left', at', fdset', ends', pipe', calls') /\ Handed(proc', pipe', calls')
  BY <1>1, <1>2, <1>3
<1>5. Flags'
  BY <1>2 DEF MedullaInv, Flags
<1>6. /\ Processes(proc', life', ends', pipe') /\ Distinct(proc') /\ Counted(proc', count')
      /\ Pointed(servant', proc') /\ Listed(handlers', proc')
  BY <1>2 DEF MedullaInv
<1>7. QED
  BY <1>4, <1>5, <1>6 DEF MedullaInv

(* The pulse goes on to another place, with nothing going on.              *)
LEMMA PlaceStep ==
  ASSUME MedullaInv, Interrupted \/ Stopped \/ VisitEnd \/ CollectedAll \/ Down
  PROVE  MedullaInv'
<1>1. /\ calls = <<>> /\ at' \in {"collect", "final", "clear", "down"}
      /\ UNCHANGED <<life, ends, busy, pipe, sigchld, proc, count, handlers, calls, servant, serving>>
  BY DEF Interrupted, Stopped, VisitEnd, CollectedAll, Down, kernel, watching, given, Idle
<1>2. left \in 0..Len(handlers) /\ Len(handlers) \in Nat /\ (at \in {"commands", "collect", "clear"} => left = 0)
  BY Parts DEF MedullaInv, Visits
<1>3. left' \in 0..Len(handlers) /\ (at' \in {"collect", "clear"} => left' = 0)
  <2>1. CASE Interrupted
    BY <1>2, <2>1 DEF Interrupted
  <2>2. CASE Stopped
    BY <1>2, <2>2 DEF Stopped
  <2>3. CASE VisitEnd
    BY <1>2, <2>3 DEF VisitEnd
  <2>4. CASE CollectedAll
    BY <1>2, <2>4 DEF CollectedAll
  <2>5. CASE Down
    BY <1>2, <2>5 DEF Down
  <2>6. QED
    BY <2>1, <2>2, <2>3, <2>4, <2>5
<1>4. Visits(handlers', left', at', fdset', ends', pipe', <<>>)
  BY <1>1, <1>3, VisitsElsewhere
<1>5. Stack(calls', proc') /\ Visits(handlers', left', at', fdset', ends', pipe', calls') /\ Handed(proc', pipe', calls')
  BY <1>1, <1>4 DEF MedullaInv
<1>6. Flags'
  BY <1>1 DEF MedullaInv, Flags
<1>7. /\ Processes(proc', life', ends', pipe') /\ Distinct(proc') /\ Counted(proc', count')
      /\ Pointed(servant', proc') /\ Listed(handlers', proc')
  BY <1>1 DEF MedullaInv
<1>8. QED
  BY <1>5, <1>6, <1>7 DEF MedullaInv

(* A call begins that is not a write.                                      *)
LEMMA CallBegun ==
  ASSUME MedullaInv, NEW a \in Activity, a.op # "write", calls # <<>> => Last(calls).op # "write",
         a.op = "lines" => a.process \in Proc /\ a.file \in Out /\ proc[a.process].status # "unused",
         a.op # "wait"
  PROVE  /\ Stack(Begun(a), proc)
         /\ Len(Begun(a)) = Len(calls) + 1 /\ Begun(a)[Len(calls) + 1] = a
         /\ \A i \in 1..Len(calls) : Begun(a)[i] = calls[i] /\ calls[i].op # "write"
         /\ \A k \in 1..Len(Begun(a)) : Begun(a)[k].op # "write"
<1>1. calls \in Seq(Activity) /\ Len(calls) \in Nat /\ Stack(calls, proc)
  BY Parts DEF MedullaInv
<1>2. \A i \in 1..Len(calls) : calls[i].op # "write"
  <2>1. SUFFICES ASSUME NEW i \in 1..Len(calls), calls[i].op = "write"
                 PROVE  FALSE
    OBVIOUS
  <2>2. Len(calls) = 1 /\ i = 1
    BY <1>1, <2>1 DEF Stack
  <2>3. calls # <<>>
    <3>1. calls = <<>> => Len(calls) = 0
      OBVIOUS
    <3>2. QED
      BY <2>2, <3>1
  <2>4. Last(calls) = calls[1]
    BY <2>2 DEF Last
  <2>5. QED
    BY <2>1, <2>2, <2>3, <2>4
<1>3. PICK d : d = Begun(a)
  OBVIOUS
<1>4. /\ Stack(d, proc) /\ Len(d) = Len(calls) + 1 /\ d[Len(calls) + 1] = a
      /\ \A i \in 1..Len(calls) : d[i] = calls[i]
  <2>1. Allowed(a, calls, proc)
    BY <1>1, <1>2 DEF Allowed
  <2>2. QED
    BY <1>1, <1>3, <2>1, StackPush DEF Begun
<1>5. \A k \in 1..Len(d) : d[k].op # "write"
  <2>1. \A k \in 1..Len(d) : k \in 1..Len(calls) \/ k = Len(calls) + 1
    BY <1>1, <1>4
  <2>2. QED
    BY <1>2, <1>4, <2>1
<1>6. QED
  BY <1>2, <1>3, <1>4, <1>5

LEMMA CommandIs == Command \in Activity /\ Command.op = "command"
BY DEF Command, Call, Activity

LEMMA SchedulerStep ==
  ASSUME MedullaInv, medullaScheduler
  PROVE  MedullaInv'
<1>1. /\ calls = <<>> /\ calls' = Begun(Command)
      /\ UNCHANGED <<life, ends, busy, pipe, sigchld, proc, count, handlers, fdset, left, at, servant, serving>>
  BY DEF medullaScheduler, kernel, watching, Idle
<1>2. PICK d : d = Begun(Command)
  OBVIOUS
<1>3. Stack(d, proc) /\ (\A k \in 1..Len(d) : d[k].op # "write")
      /\ Len(d) = Len(calls) + 1 /\ \A i \in 1..Len(calls) : d[i] = calls[i]
  BY <1>1, <1>2, CallBegun, CommandIs
<1>4. Visits(handlers, left, at, fdset, ends, pipe, d)
  <2>1. \A i \in 1..Len(handlers) : at = "commands" => ~handlers[i].close
    BY DEF MedullaInv, Visits
  <2>2. handlers \in Seq(Handler) /\ Len(handlers) \in Nat /\ Visits(handlers, left, at, fdset, ends, pipe, calls)
    BY Parts DEF MedullaInv
  <2>3. QED
    BY <1>3, <2>1, <2>2, VisitsFrame
<1>5. Handed(proc, pipe, d)
  <2>1. Handed(proc, pipe, calls) /\ Len(calls) = 0
    BY <1>1 DEF MedullaInv
  <2>2. QED
    BY <2>1, HandedFrame
<1>6. Stack(calls', proc') /\ Visits(handlers', left', at', fdset', ends', pipe', calls') /\ Handed(proc', pipe', calls')
  BY <1>1, <1>2, <1>3, <1>4, <1>5
<1>7. Flags'
  BY <1>1 DEF MedullaInv, Flags
<1>8. /\ Processes(proc', life', ends', pipe') /\ Distinct(proc') /\ Counted(proc', count')
      /\ Pointed(servant', proc') /\ Listed(handlers', proc')
  BY <1>1 DEF MedullaInv
<1>9. QED
  BY <1>6, <1>7, <1>8 DEF MedullaInv

LEMMA SelectStep ==
  ASSUME MedullaInv, Select
  PROVE  MedullaInv'
<1>1. /\ at = "commands" /\ calls = <<>> /\ fdset' = ReadyFds
      /\ UNCHANGED <<life, ends, busy, pipe, sigchld, proc, count, handlers, calls, servant, serving>>
  BY DEF Select, kernel, given, Idle
<1>2. handlers \in Seq(Handler) /\ Len(handlers) \in Nat
  BY Parts
<1>3. \/ at' = "collect" /\ left' = 0
      \/ at' = "visit" /\ left' = Len(handlers)
  BY DEF Select
<1>4. Visits(handlers', left', at', fdset', ends', pipe', <<>>)
  <2>1. CASE at' = "collect" /\ left' = 0
    BY <1>1, <1>2, <2>1, VisitsElsewhere
  <2>2. CASE at' = "visit" /\ left' = Len(handlers)
    <3>1. ASSUME NEW e \in Still(handlers, Len(handlers))
          PROVE  /\ ~e.close
                 /\ <<e.type, e.fd>> \in ReadyFds => Waitless(e.file, ends[e.process], pipe[e.process])
      <4>1. PICK i \in 1..Len(handlers) : e = handlers[i]
        BY <1>2 DEF Still
      <4>2. ~e.close
        BY <1>1, <4>1 DEF MedullaInv, Visits
      <4>3. ASSUME <<e.type, e.fd>> \in ReadyFds
            PROVE  Waitless(e.file, ends[e.process], pipe[e.process])
        <5>1. PICK x \in ToSet(handlers) : <<x.type, x.fd>> = <<e.type, e.fd>> /\ Ready(x.process, x.file)
          BY <4>3 DEF ReadyFds
        <5>2. PICK j \in 1..Len(handlers) : x = handlers[j]
          BY <1>2, <5>1 DEF ToSet
        <5>3. j = i
          BY <4>1, <5>1, <5>2 DEF MedullaInv, Listed, Apart, Same
        <5>4. Ready(e.process, e.file)
          BY <4>1, <5>1, <5>2, <5>3
        <5>5. QED
          BY <5>4 DEF Ready, Waitless, Room, Content
      <4>4. QED
        BY <4>2, <4>3
    <3>2. Len(<<>>) = 0 /\ Len(handlers) \in 0..Len(handlers)
      BY <1>2
    <3>3. Visits(handlers, Len(handlers), "visit", ReadyFds, ends, pipe, <<>>)
      BY <3>1, <3>2 DEF Visits
    <3>4. QED
      BY <1>1, <2>2, <3>3
  <2>3. QED
    BY <1>3, <2>1, <2>2
<1>5. Stack(calls', proc') /\ Visits(handlers', left', at', fdset', ends', pipe', calls') /\ Handed(proc', pipe', calls')
  BY <1>1, <1>4 DEF MedullaInv
<1>6. Flags'
  BY <1>1, <1>3 DEF MedullaInv, Flags
<1>7. /\ Processes(proc', life', ends', pipe') /\ Distinct(proc') /\ Counted(proc', count')
      /\ Pointed(servant', proc') /\ Listed(handlers', proc')
  BY <1>1 DEF MedullaInv
<1>8. QED
  BY <1>5, <1>6, <1>7 DEF MedullaInv

LEMMA RebuildStep ==
  ASSUME MedullaInv, Rebuild
  PROVE  MedullaInv'
<1>1. /\ at \in {"clear", "collect"} /\ calls = <<>> /\ at' = "commands" /\ sigchld' = FALSE
      /\ handlers' = Selected(handlers, {i \in DOMAIN handlers : ~handlers[i].close})
      /\ UNCHANGED <<life, ends, busy, pipe, proc, count, left, calls, servant, serving>>
  BY DEF Rebuild, given, Idle
<1>2. left = 0
  BY <1>1 DEF MedullaInv, Visits
<1>3. PICK M : M = Selected(handlers, {i \in DOMAIN handlers : ~handlers[i].close})
  OBVIOUS
<1>4. Listed(M, proc) /\ Len(M) \in Nat /\ \A i \in 1..Len(M) : ~M[i].close
  BY <1>3, Parts, ListRebuilt DEF MedullaInv
<1>5. PICK s : s = fdset'
  OBVIOUS
<1>6. Visits(M, 0, "commands", s, ends, pipe, <<>>)
  <2>1. Len(<<>>) = 0 /\ 0 \in 0..Len(M)
    BY <1>4
  <2>2. QED
    BY <1>4, <2>1 DEF Visits
<1>7. Stack(calls', proc') /\ Visits(handlers', left', at', fdset', ends', pipe', calls') /\ Handed(proc', pipe', calls')
  BY <1>1, <1>2, <1>3, <1>5, <1>6 DEF MedullaInv
<1>8. Flags'
  BY <1>1 DEF MedullaInv, Flags
<1>9. /\ Processes(proc', life', ends', pipe') /\ Distinct(proc') /\ Counted(proc', count')
      /\ Pointed(servant', proc') /\ Listed(handlers', proc')
  BY <1>1, <1>3, <1>4 DEF MedullaInv
<1>10. QED
  BY <1>7, <1>8, <1>9 DEF MedullaInv

(* What is put into a pipe, and what is taken from it.                     *)
LEMMA TakenIs ==
  ASSUME pipe \in [Proc -> [File -> Pipe]], NEW p \in Proc, NEW f \in File, NEW n \in Nat
  PROVE  \E pp \in [Proc -> [File -> Pipe]] :
           /\ pp = Taken(p, f, n)
           /\ pp[p][f].read = pipe[p][f].read + n /\ pp[p][f].written = pipe[p][f].written
           /\ \A g \in File : g # f => pp[p][g] = pipe[p][g]
           /\ Differs(pipe, pp, p)
<1>1. PICK x \in Pipe : x = pipe[p][f]
  OBVIOUS
<1>2. x.written \in Nat /\ x.read \in Nat
  BY DEF Pipe
<1>3. PICK y : y = [x EXCEPT !.read = x.read + n]
  OBVIOUS
<1>4. y \in Pipe /\ y.read = x.read + n /\ y.written = x.written
  BY <1>2, <1>3 DEF Pipe
<1>5. PICK h : h = [pipe[p] EXCEPT ![f] = y]
  OBVIOUS
<1>6. h \in [File -> Pipe] /\ h[f] = y /\ \A g \in File : g # f => h[g] = pipe[p][g]
  BY <1>4, <1>5
<1>7. PICK pp : pp = [pipe EXCEPT ![p] = h]
  OBVIOUS
<1>8. pp \in [Proc -> [File -> Pipe]] /\ pp[p] = h /\ Differs(pipe, pp, p)
  BY <1>6, <1>7 DEF Differs
<1>9. pp = Taken(p, f, n)
  BY <1>1, <1>3, <1>5, <1>7 DEF Taken
<1>10. QED
  BY <1>1, <1>4, <1>6, <1>8, <1>9

LEMMA WrittenIs ==
  ASSUME pipe \in [Proc -> [File -> Pipe]], NEW p \in Proc, NEW f \in File, NEW n \in Nat
  PROVE  \E pp \in [Proc -> [File -> Pipe]] :
           /\ pp = Written(p, f, n)
           /\ pp[p][f].written = pipe[p][f].written + n /\ pp[p][f].read = pipe[p][f].read
           /\ \A g \in File : g # f => pp[p][g] = pipe[p][g]
           /\ Differs(pipe, pp, p)
<1>1. PICK x \in Pipe : x = pipe[p][f]
  OBVIOUS
<1>2. x.written \in Nat /\ x.read \in Nat
  BY DEF Pipe
<1>3. PICK y : y = [x EXCEPT !.written = x.written + n]
  OBVIOUS
<1>4. y \in Pipe /\ y.written = x.written + n /\ y.read = x.read
  BY <1>2, <1>3 DEF Pipe
<1>5. PICK h : h = [pipe[p] EXCEPT ![f] = y]
  OBVIOUS
<1>6. h \in [File -> Pipe] /\ h[f] = y /\ \A g \in File : g # f => h[g] = pipe[p][g]
  BY <1>4, <1>5
<1>7. PICK pp : pp = [pipe EXCEPT ![p] = h]
  OBVIOUS
<1>8. pp \in [Proc -> [File -> Pipe]] /\ pp[p] = h /\ Differs(pipe, pp, p)
  BY <1>6, <1>7 DEF Differs
<1>9. pp = Written(p, f, n)
  BY <1>1, <1>3, <1>5, <1>7 DEF Written
<1>10. QED
  BY <1>1, <1>4, <1>6, <1>8, <1>9

LEMMA LinesIs ==
  ASSUME NEW p \in Proc, NEW f \in Out
  PROVE  /\ Call("lines", p, f, 0) \in Activity /\ Call("lines", p, f, 0).op = "lines"
         /\ Call("lines", p, f, 0).process = p /\ Call("lines", p, f, 0).file = f
BY DEF Call, Activity, File

(* All there is in a file is read, and its lines are being handed over.    *)
LEMMA ReadBegun ==
  ASSUME MedullaInv, NEW p \in Proc, NEW f \in Out, proc[p].fd[f] # -1,
         calls # <<>> => Last(calls).op # "write"
  PROVE  \E pp \in [Proc -> [File -> Pipe]], c \in Seq(Activity) :
           /\ pp = Taken(p, f, Content(p, f)) /\ c = Begun(Call("lines", p, f, 0))
           /\ Processes(proc, life, ends, pp) /\ Stack(c, proc) /\ Handed(proc, pp, c)
           /\ \A k \in 1..Len(c) : c[k].op # "write"
           /\ \A g \in File : g # f => pp[p][g] = pipe[p][g]
           /\ Differs(pipe, pp, p)
<1>1. f \in File
  BY DEF File
<1>2. /\ pipe \in [Proc -> [File -> Pipe]] /\ Process(p, proc[p], life[p], ends[p], pipe[p]) /\ proc[p] \in Record
      /\ Processes(proc, life, ends, pipe)
      /\ proc \in [Proc -> Record] /\ life \in [Proc -> Lives] /\ ends \in [Proc -> SUBSET File]
  BY Parts DEF MedullaInv
<1>3. proc[p].status = "open"
  <2>1. proc[p].status \in {"unused", "open", "closed"}
    BY <1>2 DEF Record
  <2>2. proc[p].status # "unused" /\ proc[p].status # "closed"
    BY <1>1, <1>2 DEF Process
  <2>3. QED
    BY <2>1, <2>2
<1>4. Content(p, f) \in Nat
  BY <1>1, <1>2, MedullaAssumption DEF Process, Content
<1>5. PICK pp \in [Proc -> [File -> Pipe]] :
           /\ pp = Taken(p, f, Content(p, f))
           /\ pp[p][f].read = pipe[p][f].read + Content(p, f) /\ pp[p][f].written = pipe[p][f].written
           /\ \A g \in File : g # f => pp[p][g] = pipe[p][g]
           /\ Differs(pipe, pp, p)
  BY <1>1, <1>2, <1>4, TakenIs
<1>6. PICK x \in Pipe, y \in Pipe : x = pipe[p][f] /\ y = pp[p][f]
  BY <1>1, <1>2
<1>7. /\ x.written \in Nat /\ x.read \in Nat /\ y.written = x.written /\ y.read = x.written
      /\ y.written - y.read \in 0..Capacity /\ x.read <= y.read
  <2>1. x.written \in Nat /\ x.read \in Nat
    BY DEF Pipe
  <2>2. Content(p, f) = x.written - x.read
    BY SMTT(60), <1>6 DEF Content
  <2>3. y.written = x.written /\ y.read = x.read + (x.written - x.read)
    BY <1>5, <1>6, <2>2
  <2>4. QED
    BY <1>4, <2>1, <2>2, <2>3, MedullaAssumption
<1>8. Process(p, proc[p], life[p], ends[p], pp[p])
  <2>1. \A g \in File : pp[p][g].written - pp[p][g].read \in 0..Capacity
    BY <1>2, <1>5, <1>6, <1>7 DEF Process
  <2>2. \A g \in Out : proc[p].handed[g] <= pp[p][g].read \div 2
    <3>1. TAKE g \in Out
    <3>2. g \in File /\ proc[p].handed[g] \in Nat /\ proc[p].handed[g] <= pipe[p][g].read \div 2
      BY <1>2 DEF Process, Record, File
    <3>3. CASE g # f
      BY <1>5, <3>2, <3>3
    <3>4. CASE g = f
      <4>1. x.read \div 2 <= y.read \div 2
        BY <1>7
      <4>2. x.read \div 2 \in Nat /\ y.read \div 2 \in Nat
        BY <1>7
      <4>3. QED
        BY <1>6, <3>2, <3>4, <4>1, <4>2
    <3>5. QED
      BY <3>3, <3>4
  <2>3. \A g \in Out : proc[p].fd[g] = -1 => g \notin ends[p] /\ pp[p][g].written = pp[p][g].read
    BY <1>2, <1>3, <1>5 DEF Process, File
  <2>4. QED
    BY <1>2, <1>3, <1>5, <2>1, <2>2, <2>3 DEF Process
<1>9. Processes(proc, life, ends, pp)
  <2>1. Differs(proc, proc, p) /\ Differs(life, life, p) /\ Differs(ends, ends, p)
    BY DEF Differs
  <2>2. QED
    BY <1>2, <1>5, <1>8, <2>1, ProcessChanged
<1>10. PICK c : c = Begun(Call("lines", p, f, 0))
  OBVIOUS
<1>11. PICK a \in Activity : a = Call("lines", p, f, 0) /\ a.op = "lines" /\ a.process = p /\ a.file = f
  BY LinesIs
<1>12. /\ Stack(c, proc) /\ c \in Seq(Activity) /\ Len(c) = Len(calls) + 1 /\ c[Len(calls) + 1] = a
       /\ \A i \in 1..Len(calls) : c[i] = calls[i]
       /\ \A k \in 1..Len(c) : c[k].op # "write"
  <2>1. Stack(c, proc) /\ Len(c) = Len(calls) + 1 /\ c[Len(calls) + 1] = a
       /\ (\A i \in 1..Len(calls) : c[i] = calls[i])
       /\ \A k \in 1..Len(c) : c[k].op # "write"
    BY <1>3, <1>10, <1>11, CallBegun
  <2>2. QED
    BY <2>1 DEF Stack
<1>13. Handed(proc, pp, c)
  <2>1. Len(calls) \in Nat /\ Handed(proc, pipe, calls)
    BY Parts DEF MedullaInv
  <2>2. Len(calls) + 1 \in 1..Len(c) /\ \A i \in 1..Len(calls) : i \in 1..Len(c)
    BY <1>12, <2>1
  <2>3. \A q \in Proc, g \in Out : ~(q = p /\ g = f) => pp[q][g].read = pipe[q][g].read
    BY <1>5 DEF Differs, File
  <2>4. \A i \in 1..Len(calls) : calls[i].op = "lines" =>
          \E j \in 1..Len(c) : c[j].op = "lines" /\ c[j].process = calls[i].process /\ c[j].file = calls[i].file
    BY <1>12, <2>2
  <2>5. \E j \in 1..Len(c) : c[j].op = "lines" /\ c[j].process = p /\ c[j].file = f
    BY <1>11, <1>12, <2>2
  <2>6. QED
    BY <2>1, <2>3, <2>4, <2>5, HandedFrame
<1>14. QED
  BY <1>5, <1>9, <1>10, <1>12, <1>13

(* The list, the sets and the place remain.                                *)
LEMMA VisitsKept ==
  ASSUME MedullaInv, NEW en2, NEW pp2, NEW c2,
         \A q \in Servants \cup Jobs, g \in File :
           Waitless(g, ends[q], pipe[q]) => Waitless(g, en2[q], pp2[q]),
         \A k \in 1..Len(c2) : c2[k].op = "write" =>
           \E j \in 1..Len(calls) : calls[j].op = "write" /\ calls[j].process = c2[k].process
  PROVE  Visits(handlers, left, at, fdset, en2, pp2, c2)
<1>1. /\ handlers \in Seq(Handler) /\ Len(handlers) \in Nat
      /\ Visits(handlers, left, at, fdset, ends, pipe, calls)
  BY Parts DEF MedullaInv
<1>2. \A i \in 1..Len(handlers) : at = "commands" => ~handlers[i].close
  BY DEF MedullaInv, Visits
<1>3. ASSUME NEW e \in Still(handlers, left)
      PROVE  Waitless(e.file, ends[e.process], pipe[e.process]) => Waitless(e.file, en2[e.process], pp2[e.process])
  <2>1. e \in Handler
    BY <1>1, StillEntry
  <2>2. e.process \in Servants \cup Jobs /\ e.file \in File
    BY <2>1 DEF Handler
  <2>3. QED
    BY <2>2
<1>4. QED
  BY <1>1, <1>2, <1>3, VisitsFrame

(* Of an open process: nothing is changed but the struct.                  *)
LEMMA StructStep ==
  ASSUME MedullaInv, NEW p \in Proc, NEW new \in [Proc -> Record], Differs(proc, new, p),
         Process(p, new[p], life[p], ends[p], pipe[p])
  PROVE  Processes(new, life, ends, pipe)
<1>1. /\ Processes(proc, life, ends, pipe) /\ life \in [Proc -> Lives] /\ ends \in [Proc -> SUBSET File]
      /\ pipe \in [Proc -> [File -> Pipe]]
  BY Parts DEF MedullaInv
<1>2. Differs(life, life, p) /\ Differs(ends, ends, p) /\ Differs(pipe, pipe, p)
  BY DEF Differs
<1>3. QED
  BY <1>1, <1>2, ProcessChanged

LEMMA HandLineStep ==
  ASSUME MedullaInv, HandLine
  PROVE  MedullaInv'
<1>1. PICK k, a : k = Len(calls) /\ a = Last(calls)
  OBVIOUS
<1>2. calls # <<>> /\ a.op = "lines"
  BY <1>1 DEF HandLine, Doing
<1>3. /\ calls \in Seq(Activity) /\ k \in Nat /\ k \in 1..Len(calls) /\ a = calls[k] /\ a \in Activity
      /\ Stack(calls, proc)
  <2>1. calls \in Seq(Activity) /\ Len(calls) \in Nat /\ Stack(calls, proc)
    BY Parts DEF MedullaInv
  <2>2. Len(calls) \in 1..Len(calls) /\ Last(calls) = calls[Len(calls)] /\ calls[Len(calls)] \in Activity
    BY <1>2, <2>1, StackPop
  <2>3. QED
    BY <1>1, <2>1, <2>2
<1>4. PICK p \in Proc, f \in Out : p = a.process /\ f = a.file /\ proc[p].status # "unused"
  BY <1>2, <1>3 DEF Stack
<1>5. /\ proc[p].handed[f] < Lines(p, f)
      /\ proc' = [proc EXCEPT ![p].handed[f] = @ + 1]
      /\ calls' = IF f = "get" THEN Begun(Command) ELSE calls
  BY <1>1, <1>4 DEF HandLine
<1>6. UNCHANGED <<life, ends, busy, pipe, sigchld, count, handlers, fdset, left, at, servant, serving>>
  BY DEF HandLine, kernel, watching, given
<1>7. /\ proc \in [Proc -> Record] /\ Process(p, proc[p], life[p], ends[p], pipe[p])
      /\ pipe \in [Proc -> [File -> Pipe]]
  BY Parts
<1>8. PICK r \in Record : r = proc[p]
  BY <1>7
<1>9. PICK h : h = [r.handed EXCEPT ![f] = r.handed[f] + 1]
  OBVIOUS
<1>10. r.handed \in [Out -> Nat] /\ h \in [Out -> Nat] /\ h[f] = r.handed[f] + 1 /\ \A g \in Out : g # f => h[g] = r.handed[g]
  <2>1. r.handed \in [Out -> Nat]
    BY DEF Record
  <2>2. QED
    BY <1>9, <2>1
<1>11. PICK r2 \in Record : /\ r2 = [r EXCEPT !.handed = h]
                            /\ r2.status = r.status /\ r2.ended = r.ended /\ r2.fd = r.fd /\ r2.queue = r.queue
                            /\ r2.writer = r.writer /\ r2.handed = h
  <2>1. [r EXCEPT !.handed = h] \in Record
    BY <1>10 DEF Record
  <2>2. PICK x \in Record : x = [r EXCEPT !.handed = h]
    BY <2>1
  <2>3. x.status = r.status /\ x.ended = r.ended /\ x.fd = r.fd /\ x.queue = r.queue /\ x.writer = r.writer /\ x.handed = h
    BY <2>2 DEF Record
  <2>4. QED
    BY <2>2, <2>3
<1>12. PICK new : new = [proc EXCEPT ![p] = r2]
  OBVIOUS
<1>13. /\ proc' = new /\ new \in [Proc -> Record] /\ new[p] = r2 /\ Differs(proc, new, p)
  <2>1. proc' = new
    BY <1>5, <1>8, <1>9, <1>11, <1>12
  <2>2. QED
    BY <1>7, <1>12, <2>1 DEF Differs
<1>14. /\ \A q \in Proc : /\ new[q].status = proc[q].status /\ new[q].fd = proc[q].fd /\ new[q].queue = proc[q].queue
                          /\ new[q].writer = proc[q].writer
       /\ \A q \in Proc, g \in Out : ~(q = p /\ g = f) => new[q].handed[g] = proc[q].handed[g]
  <2>1. \A q \in Proc : q = p \/ new[q] = proc[q]
    BY <1>13 DEF Differs
  <2>2. /\ new[p].status = proc[p].status /\ new[p].fd = proc[p].fd /\ new[p].queue = proc[p].queue
        /\ new[p].writer = proc[p].writer
    BY <1>8, <1>11, <1>13
  <2>3. \A g \in Out : g # f => new[p].handed[g] = proc[p].handed[g]
    BY <1>8, <1>10, <1>11, <1>13
  <2>4. \A q \in Proc : /\ new[q].status = proc[q].status /\ new[q].fd = proc[q].fd
                          /\ new[q].queue = proc[q].queue /\ new[q].writer = proc[q].writer
    BY <2>1, <2>2
  <2>5. ASSUME NEW q \in Proc, NEW g \in Out, ~(q = p /\ g = f)
        PROVE  new[q].handed[g] = proc[q].handed[g]
    <3>1. CASE q = p
      BY <2>3, <2>5, <3>1
    <3>2. CASE q # p
      BY <2>1, <3>2
    <3>3. QED
      BY <3>1, <3>2
  <2>6. QED
    BY <2>4, <2>5
<1>15. Process(p, r2, life[p], ends[p], pipe[p])
  <2>1. \A g \in Out : r2.handed[g] <= pipe[p][g].read \div 2
    <3>1. TAKE g \in Out
    <3>2. r.handed[g] <= pipe[p][g].read \div 2
      BY <1>7, <1>8 DEF Process
    <3>3. CASE g # f
      BY <1>10, <1>11, <3>2, <3>3
    <3>4. CASE g = f
      <4>1. pipe[p][f] \in Pipe
        BY <1>7 DEF File
      <4>2. pipe[p][f].read \in Nat
        BY <4>1 DEF Pipe
      <4>3. pipe[p][f].read \div 2 \in Nat /\ r.handed[f] \in Nat /\ r.handed[f] < pipe[p][f].read \div 2
        BY <1>5, <1>8, <1>10, <4>2 DEF Lines
      <4>4. QED
        BY <1>10, <1>11, <3>4, <4>3
    <3>5. QED
      BY <3>3, <3>4
  <2>2. r2.status = "closed" => \A g \in Out : 2 * r2.handed[g] >= pipe[p][g].written - 1
    <3>1. SUFFICES ASSUME r2.status = "closed", NEW g \in Out
                   PROVE  2 * r2.handed[g] >= pipe[p][g].written - 1
      OBVIOUS
    <3>2. 2 * r.handed[g] >= pipe[p][g].written - 1
      BY <1>7, <1>8, <1>11, <3>1 DEF Process
    <3>3. pipe[p][g] \in Pipe
      BY <1>7 DEF File
    <3>4. pipe[p][g].written \in Nat /\ r.handed[g] \in Nat /\ r2.handed[g] \in Nat /\ r2.handed[g] >= r.handed[g]
      BY <1>10, <1>11, <3>3 DEF Pipe
    <3>5. QED
      BY <3>2, <3>4
  <2>3. QED
    BY <1>7, <1>8, <1>11, <2>1, <2>2 DEF Process
<1>16. Processes(new, life, ends, pipe)
  BY <1>13, <1>15, StructStep
<1>17. Distinct(new) /\ Counted(new, count) /\ Pointed(servant, new)
  BY <1>14, DistinctFrame, CountedFrame, PointedFrame DEF MedullaInv
<1>18. Listed(handlers, new)
  <2>1. \A q \in Proc : Watch(new[q]) = Watch(proc[q]) /\ \A g \in Watch(proc[q]) : new[q].fd[g] = proc[q].fd[g]
    BY <1>14 DEF Watch
  <2>2. \A q \in Servants \cup Jobs : q \in Proc
    BY DEF Proc
  <2>3. QED
    BY SMTT(60), <1>7, <1>13, <2>1, <2>2, WatchKept DEF MedullaInv
<1>19. Stack(calls, new)
  <2>1. \A i \in 1..Len(calls) : calls[i].op = "wait" => new[calls[i].process].status = "open"
    BY <1>14 DEF MedullaInv, Stack, Proc
  <2>2. \A i \in 1..Len(calls) : calls[i].op = "write" => new[calls[i].process].queue # <<>>
    BY <1>14 DEF MedullaInv, Stack, Proc
  <2>3. QED
    BY <1>3, <1>14, <2>1, <2>2, StackFrame
<1>20. PICK c : c = calls'
  OBVIOUS
<1>21. PICK d : d = Begun(Command)
  OBVIOUS
<1>22. /\ Stack(d, new) /\ (\A i \in 1..Len(d) : d[i].op # "write")
       /\ (\A i \in 1..Len(calls) : i \in 1..Len(d) /\ d[i] = calls[i])
  <2>1. /\ Stack(d, proc) /\ (\A i \in 1..Len(d) : d[i].op # "write") /\ Len(d) = Len(calls) + 1
        /\ (\A i \in 1..Len(calls) : d[i] = calls[i]) /\ d[Len(calls) + 1] = Command
    BY <1>1, <1>2, <1>21, CallBegun, CommandIs
  <2>2. Len(calls) \in Nat
    BY Parts
  <2>3. \A i \in 1..Len(d) : d[i].op = "wait" => new[d[i].process].status = "open"
    BY <1>14, <2>1 DEF Stack, Proc
  <2>4. Stack(d, new)
    BY <1>14, <2>1, <2>3, StackFrame
  <2>5. QED
    BY <2>1, <2>2, <2>4
<1>23. /\ Stack(c, new)
       /\ \A i \in 1..Len(calls) : i \in 1..Len(c) /\ c[i] = calls[i]
       /\ \A i \in 1..Len(c) : c[i].op # "write" \/ c = calls
  <2>1. c = d \/ c = calls
    BY <1>5, <1>20, <1>21
  <2>2. CASE c = d
    BY <1>22, <2>2
  <2>3. CASE c = calls
    BY <1>19, <2>3
  <2>4. QED
    BY <2>1, <2>2, <2>3
<1>24. Visits(handlers, left, at, fdset, ends, pipe, c)
  BY <1>23, VisitsKept
<1>25. Handed(new, pipe, c)
  <2>1. Handed(proc, pipe, calls)
    BY DEF MedullaInv
  <2>2. \A i \in 1..Len(calls) : calls[i].op = "lines" =>
          \E j \in 1..Len(c) : c[j].op = "lines" /\ c[j].process = calls[i].process /\ c[j].file = calls[i].file
    BY <1>23
  <2>3. \E j \in 1..Len(c) : c[j].op = "lines" /\ c[j].process = p /\ c[j].file = f
    BY <1>2, <1>3, <1>4, <1>23
  <2>4. QED
    BY <1>14, <2>1, <2>2, <2>3, HandedFrame
<1>26. Flags'
  BY <1>6 DEF MedullaInv, Flags
<1>27. QED
  BY <1>6, <1>13, <1>16, <1>17, <1>18, <1>20, <1>23, <1>24, <1>25, <1>26 DEF MedullaInv

(* A process with the struct r is closed, or keeps open.                   *)
LEMMA CloseParts ==
  ASSUME MedullaInv, NEW p \in Proc, proc[p].status = "open", NEW b \in BOOLEAN,
         NEW r \in Record, r.status = "open", CloseIf(b, p, r)
  PROVE  \E r2 \in Record, new \in [Proc -> Record] :
           /\ r2.status = (IF b THEN "closed" ELSE "open") /\ r2.ended = r.ended /\ r2.fd = r.fd
           /\ r2.queue = r.queue /\ r2.writer = r.writer /\ r2.handed = r.handed
           /\ proc' = new /\ new[p] = r2 /\ Differs(proc, new, p)
           /\ Counted(new, count') /\ Pointed(servant', new)
<1>1. PICK r2 : r2 = IF b THEN [r EXCEPT !.status = "closed"] ELSE r
  OBVIOUS
<1>2. /\ r2 \in Record
      /\ r2.status = (IF b THEN "closed" ELSE "open") /\ r2.ended = r.ended /\ r2.fd = r.fd
      /\ r2.queue = r.queue /\ r2.writer = r.writer /\ r2.handed = r.handed
  <2>1. CASE b
    <3>1. PICK x : x = [r EXCEPT !.status = "closed"]
      OBVIOUS
    <3>2. x \in Record
      BY <3>1 DEF Record
    <3>3. /\ x.status = "closed" /\ x.ended = r.ended /\ x.fd = r.fd
          /\ x.queue = r.queue /\ x.writer = r.writer /\ x.handed = r.handed
      BY <3>1 DEF Record
    <3>4. QED
      BY <1>1, <2>1, <3>1, <3>2, <3>3
  <2>2. CASE ~b
    BY <1>1, <2>2
  <2>3. QED
    BY <2>1, <2>2
<1>3. PICK new : new = [proc EXCEPT ![p] = r2]
  OBVIOUS
<1>4. proc \in [Proc -> Record] /\ servant \in [Servants -> Proc \cup {NoOne, "free"}]
  BY Parts
<1>5. new \in [Proc -> Record] /\ new[p] = r2 /\ Differs(proc, new, p)
  BY <1>2, <1>3, <1>4 DEF Differs
<1>6. proc' = new
  BY <1>1, <1>3 DEF CloseIf
<1>7. Counted(new, count')
  <2>1. CASE b
    <3>1. count' = count - 1
      BY <2>1 DEF CloseIf
    <3>2. new[p].status = "closed"
      BY <1>2, <1>5, <2>1
    <3>3. QED
      BY <1>5, <3>1, <3>2, CountedClosed DEF MedullaInv
  <2>2. CASE ~b
    <3>1. count' = count
      BY <2>2 DEF CloseIf
    <3>2. \A q \in Proc : new[q].status = "open" <=> proc[q].status = "open"
      BY <1>2, <1>5, <2>2 DEF Differs
    <3>3. QED
      BY <3>1, <3>2, CountedFrame DEF MedullaInv
  <2>3. QED
    BY <2>1, <2>2
<1>8. Pointed(servant', new)
  <2>1. PICK sv : sv = [s \in Servants |-> IF b /\ servant[s] = p THEN "free" ELSE servant[s]]
    OBVIOUS
  <2>2. sv \in [Servants -> Proc \cup {NoOne, "free"}] /\ "free" \notin Proc
    BY <1>4, <2>1, MedullaAssumption
  <2>3. ASSUME NEW s \in Servants, sv[s] \in Proc
        PROVE  new[sv[s]].status # "unused"
    <3>1. sv[s] = servant[s]
      BY <2>1, <2>2, <2>3
    <3>2. proc[sv[s]].status # "unused"
      BY <2>3, <3>1 DEF MedullaInv, Pointed
    <3>3. QED
      BY <1>2, <1>5, <2>3, <3>2 DEF Differs
  <2>4. Pointed(sv, new)
    BY <2>2, <2>3 DEF Pointed
  <2>5. servant' = sv
    BY <2>1 DEF CloseIf
  <2>6. QED
    BY <2>4, <2>5
<1>9. QED
  BY <1>2, <1>5, <1>6, <1>7, <1>8

(* A file f of the open process p is at its end: it is closed, and with b  *)
(* the process as well.                                                    *)
LEMMA FileEnded ==
  ASSUME MedullaInv, NEW p \in Proc, NEW f \in Out, AtEnd(p, f), proc[p].status = "open",
         NEW b \in BOOLEAN, b => proc[p].ended /\ Open(p) \subseteq {f},
         b => \A g \in Out : proc[p].handed[g] = pipe[p][g].read \div 2,
         NEW r \in Record, r.status = (IF b THEN "closed" ELSE "open"), r.ended = proc[p].ended,
         r.fd = [proc[p].fd EXCEPT ![f] = -1],
         r.queue = proc[p].queue, r.writer = proc[p].writer, r.handed = proc[p].handed
  PROVE  Process(p, r, life[p], ends[p], pipe[p])
<1>1. PICK x \in Record : x = proc[p]
  BY Parts
<1>2. Process(p, x, life[p], ends[p], pipe[p]) /\ x.status = "open" /\ x.fd \in [File -> Nat \cup {-1}]
      /\ pipe[p] \in [File -> Pipe]
  BY <1>1, Parts DEF Record
<1>3. /\ r.fd[f] = -1 /\ \A g \in File : g # f => r.fd[g] = x.fd[g]
      /\ r.fd["put"] = x.fd["put"] /\ f # "put" /\ f \in File /\ "put" \in File
  BY <1>1, <1>2 DEF File, Out
<1>4. f \notin ends[p] /\ pipe[p][f].written = pipe[p][f].read
  <2>1. pipe[p][f] \in Pipe
    BY <1>2, <1>3
  <2>2. pipe[p][f].written \in Nat /\ pipe[p][f].read \in Nat
    BY <2>1 DEF Pipe
  <2>3. f \notin ends[p] /\ pipe[p][f].written - pipe[p][f].read = 0
    BY DEF AtEnd, Content
  <2>4. QED
    BY <2>2, <2>3
<1>5. \A g \in Out : r.fd[g] = -1 => g \notin ends[p] /\ pipe[p][g].written = pipe[p][g].read
  BY <1>2, <1>3, <1>4 DEF Process, File
<1>6. life[p] \in {"running", "zombie"} => ~b
  BY <1>1, <1>2 DEF Process
<1>7. ASSUME b, NEW g \in Out
      PROVE  r.fd[g] = -1 /\ 2 * r.handed[g] >= pipe[p][g].written - 1
  <2>1. r.fd[g] = -1
    BY <1>1, <1>3, <1>7 DEF Open, File
  <2>2. pipe[p][g] \in Pipe /\ pipe[p][g].written = pipe[p][g].read
    BY <1>2, <1>5, <2>1 DEF File
  <2>3. pipe[p][g].read \in Nat
    BY <2>2 DEF Pipe
  <2>4. 2 * (pipe[p][g].read \div 2) >= pipe[p][g].read - 1
    BY <2>3
  <2>5. r.handed[g] = pipe[p][g].read \div 2
    BY <1>7
  <2>6. QED
    BY <2>1, <2>2, <2>4, <2>5
<1>8. QED
  <2>1. r.fd["put"] # -1 <=> r.status = "open" /\ p \in Servants /\ ~r.ended
    BY <1>1, <1>2, <1>3 DEF Process
  <2>2. r.status = "closed" => r.ended /\ \A g \in Out : r.fd[g] = -1 /\ 2 * r.handed[g] >= pipe[p][g].written - 1
    BY <1>7
  <2>3. life[p] \in {"running", "zombie"} => r.status = "open" /\ ~r.ended
    BY <1>1, <1>2, <1>6 DEF Process
  <2>4. r.status # "unused"
    OBVIOUS
  <2>5. r.queue # <<>> => r.fd["put"] # -1 /\ r.writer
    BY <1>1, <1>2, <1>3 DEF Process
  <2>6. \A g \in Out : r.handed[g] <= pipe[p][g].read \div 2
    BY <1>1, <1>2 DEF Process
  <2>7. QED
    BY <1>2, <1>5, <2>1, <2>2, <2>3, <2>4, <2>5, <2>6 DEF Process

(* The innermost call.                                                     *)
LEMMA TopIs ==
  ASSUME MedullaInv, calls # <<>>
  PROVE  /\ Len(calls) \in Nat /\ Len(calls) \in 1..Len(calls) /\ Last(calls) = calls[Len(calls)]
         /\ Last(calls) \in Activity /\ Stack(calls, proc)
         /\ Last(calls).op = "wait" => Last(calls).process \in Waited /\ proc[Last(calls).process].status = "open"
<1>1. calls \in Seq(Activity) /\ Len(calls) \in Nat /\ Stack(calls, proc)
  BY Parts DEF MedullaInv
<1>2. Len(calls) \in 1..Len(calls) /\ Last(calls) = calls[Len(calls)] /\ calls[Len(calls)] \in Activity
  BY <1>1, StackPop
<1>3. calls[Len(calls)].op = "wait" =>
        calls[Len(calls)].process \in Waited /\ proc[calls[Len(calls)].process].status = "open"
  BY <1>1, <1>2 DEF Stack
<1>4. QED
  BY <1>1, <1>2, <1>3

(* The list does not change for what happens to a process that is waited   *)
(* for.                                                                    *)
LEMMA WaitedUnlisted ==
  ASSUME MedullaInv, NEW p \in Waited, NEW new \in [Proc -> Record], Differs(proc, new, p)
  PROVE  Listed(handlers, new)
<1>1. \A q \in Servants \cup Jobs : new[q] = proc[q]
  BY MedullaAssumption DEF Differs, Proc
<1>2. proc \in [Proc -> Record] /\ Listed(handlers, proc)
  BY Parts DEF MedullaInv
<1>3. QED
  BY <1>1, <1>2, WatchKept

(* Nothing changes that the counts, the numbers and the list depend on.    *)
LEMMA FilesKept ==
  ASSUME MedullaInv, NEW new \in [Proc -> Record],
         \A q \in Proc : new[q].status = proc[q].status /\ new[q].fd = proc[q].fd /\ new[q].writer = proc[q].writer
  PROVE  /\ Distinct(new) /\ Counted(new, count) /\ Pointed(servant, new) /\ Listed(handlers, new)
<1>1. /\ Distinct(proc) /\ Counted(proc, count) /\ Pointed(servant, proc) /\ Listed(handlers, proc)
      /\ proc \in [Proc -> Record]
  BY Parts DEF MedullaInv
<1>2. Distinct(new)
  <2>1. \A q \in Proc, f \in File : new[q].fd[f] = proc[q].fd[f] \/ new[q].fd[f] = -1
    OBVIOUS
  <2>2. QED
    BY <1>1, <2>1, DistinctFrame
<1>3. Counted(new, count)
  <2>1. \A q \in Proc : new[q].status = "open" <=> proc[q].status = "open"
    OBVIOUS
  <2>2. QED
    BY <1>1, <2>1, CountedFrame
<1>4. Pointed(servant, new)
  <2>1. \A q \in Proc : proc[q].status # "unused" => new[q].status # "unused"
    OBVIOUS
  <2>2. QED
    BY <1>1, <2>1, PointedFrame
<1>5. Listed(handlers, new)
  <2>1. \A q \in Proc : Watch(new[q]) = Watch(proc[q]) /\ \A g \in Watch(proc[q]) : new[q].fd[g] = proc[q].fd[g]
    BY DEF Watch
  <2>2. \A q \in Servants \cup Jobs : q \in Proc
    BY DEF Proc
  <2>3. QED
    BY <1>1, <2>1, <2>2, WatchKept
<1>6. QED
  BY <1>2, <1>3, <1>4, <1>5

LEMMA ReadBlockingStep ==
  ASSUME MedullaInv, NEW f \in Out, nbMedullaProcessReadBlocking(f)
  PROVE  MedullaInv'
<1>1. calls # <<>> /\ Last(calls).op = "wait"
  BY DEF nbMedullaProcessReadBlocking, Doing
<1>2. PICK p \in Waited : p = Last(calls).process /\ proc[p].status = "open" /\ p \in Proc
  BY <1>1, TopIs DEF Proc
<1>3. f \in Open(p)
  BY <1>2 DEF nbMedullaProcessReadBlocking
<1>4. \/ pipe' = Taken(p, f, Content(p, f)) /\ calls' = Begun(Call("lines", p, f, 0)) /\ proc' = proc
      \/ AtEnd(p, f) /\ proc' = [proc EXCEPT ![p].fd[f] = -1] /\ pipe' = pipe /\ calls' = calls
  BY <1>2 DEF nbMedullaProcessReadBlocking
<1>5. UNCHANGED <<life, ends, busy, sigchld, count, handlers, fdset, left, at, servant, serving>>
  BY DEF nbMedullaProcessReadBlocking, watching, given
<1>6. Flags'
  BY <1>5 DEF MedullaInv, Flags
<1>7. p \notin Servants \cup Jobs
  BY MedullaAssumption
<1>8. CASE pipe' = Taken(p, f, Content(p, f)) /\ calls' = Begun(Call("lines", p, f, 0)) /\ proc' = proc
  <2>1. PICK pp \in [Proc -> [File -> Pipe]], c \in Seq(Activity) :
           /\ pp = Taken(p, f, Content(p, f)) /\ c = Begun(Call("lines", p, f, 0))
           /\ Processes(proc, life, ends, pp) /\ Stack(c, proc) /\ Handed(proc, pp, c)
           /\ \A k \in 1..Len(c) : c[k].op # "write"
           /\ Differs(pipe, pp, p)
    BY <1>1, <1>2, <1>3, ReadBegun DEF Open
  <2>2. \A q \in Servants \cup Jobs : q # p /\ pp[q] = pipe[q]
    BY <1>7, <2>1 DEF Differs, Proc
  <2>3. Visits(handlers, left, at, fdset, ends, pp, c)
    BY <2>1, <2>2, VisitsKept
  <2>4. pipe' = pp /\ calls' = c /\ proc' = proc
    BY <1>8, <2>1
  <2>5. Distinct(proc) /\ Counted(proc, count) /\ Pointed(servant, proc) /\ Listed(handlers, proc)
    BY DEF MedullaInv
  <2>6. QED
    BY <1>5, <1>6, <2>1, <2>3, <2>4, <2>5 DEF MedullaInv
<1>9. CASE AtEnd(p, f) /\ proc' = [proc EXCEPT ![p].fd[f] = -1] /\ pipe' = pipe /\ calls' = calls
  <2>1. PICK r \in Record : r = proc[p]
    BY <1>2, Parts
  <2>2. r.fd \in [File -> Nat \cup {-1}] /\ f \in File
    BY DEF Record, File
  <2>3. PICK d \in [File -> Nat \cup {-1}] : d = [r.fd EXCEPT ![f] = -1]
    BY <2>2
  <2>4. PICK r2 \in Record : /\ r2 = [r EXCEPT !.fd = d]
                             /\ r2.status = r.status /\ r2.ended = r.ended /\ r2.fd = d /\ r2.queue = r.queue
                             /\ r2.writer = r.writer /\ r2.handed = r.handed
    <3>1. [r EXCEPT !.fd = d] \in Record
      BY DEF Record
    <3>2. PICK x \in Record : x = [r EXCEPT !.fd = d]
      BY <3>1
    <3>3. /\ x.status = r.status /\ x.ended = r.ended /\ x.fd = d /\ x.queue = r.queue
          /\ x.writer = r.writer /\ x.handed = r.handed
      BY <3>2 DEF Record
    <3>4. QED
      BY <3>2, <3>3
  <2>5. PICK new : new = [proc EXCEPT ![p] = r2]
    OBVIOUS
  <2>6. proc' = new
    BY <1>9, <2>1, <2>3, <2>4, <2>5
  <2>7. new \in [Proc -> Record] /\ new[p] = r2 /\ Differs(proc, new, p)
    BY <1>2, <2>5, Parts DEF Differs
  <2>8. Process(p, r2, life[p], ends[p], pipe[p])
    <3>1. PICK b \in BOOLEAN : b = FALSE
      OBVIOUS
    <3>2. /\ b => proc[p].ended /\ Open(p) \subseteq {f}
          /\ b => \A g \in Out : proc[p].handed[g] = pipe[p][g].read \div 2
      BY <3>1
    <3>3. r2.status = (IF b THEN "closed" ELSE "open")
      BY <1>2, <2>1, <2>4, <3>1
    <3>4. r2.ended = proc[p].ended /\ r2.queue = proc[p].queue /\ r2.writer = proc[p].writer /\ r2.handed = proc[p].handed
      BY <2>1, <2>4
    <3>5. r2.fd = [proc[p].fd EXCEPT ![f] = -1]
      BY <2>1, <2>3, <2>4
    <3>6. QED
      BY <1>2, <1>9, <3>2, <3>3, <3>4, <3>5, FileEnded
  <2>9. Processes(new, life, ends, pipe)
    BY <1>2, <2>7, <2>8, StructStep
  <2>10. /\ \A q \in Proc : new[q].status = proc[q].status /\ new[q].queue = proc[q].queue /\ new[q].handed = proc[q].handed
         /\ \A q \in Proc, g \in File : new[q].fd[g] = proc[q].fd[g] \/ new[q].fd[g] = -1
    <3>1. \A q \in Proc : q = p \/ new[q] = proc[q]
      BY <2>7 DEF Differs
    <3>2. \A g \in File : new[p].fd[g] = proc[p].fd[g] \/ new[p].fd[g] = -1
      BY <2>1, <2>2, <2>3, <2>4, <2>7
    <3>3. new[p].status = proc[p].status /\ new[p].queue = proc[p].queue /\ new[p].handed = proc[p].handed
      BY <2>1, <2>4, <2>7
    <3>4. QED
      BY <3>1, <3>2, <3>3
  <2>11. Distinct(new) /\ Counted(new, count) /\ Pointed(servant, new)
    BY <2>10, DistinctFrame, CountedFrame, PointedFrame DEF MedullaInv
  <2>12. Listed(handlers, new)
    BY <2>7, WaitedUnlisted
  <2>13. Stack(calls, new)
    <3>1. Stack(calls, proc)
      BY DEF MedullaInv
    <3>2. \A i \in 1..Len(calls) : calls[i].op = "wait" => new[calls[i].process].status = "open"
      BY <2>10, <3>1 DEF Stack, Proc
    <3>3. \A i \in 1..Len(calls) : calls[i].op = "write" => new[calls[i].process].queue # <<>>
      BY <2>10, <3>1 DEF Stack, Proc
    <3>4. QED
      BY <2>10, <3>1, <3>2, <3>3, StackFrame
  <2>14. Handed(new, pipe, calls)
    <3>1. Handed(proc, pipe, calls)
      BY DEF MedullaInv
    <3>2. \A i \in 1..Len(calls) : calls[i].op = "lines" =>
            \E j \in 1..Len(calls) : calls[j].op = "lines" /\ calls[j].process = calls[i].process /\ calls[j].file = calls[i].file
      OBVIOUS
    <3>3. QED
      BY <2>10, <3>1, <3>2, HandedFrame
  <2>15. Visits(handlers, left, at, fdset, ends, pipe, calls)
    BY DEF MedullaInv
  <2>16. QED
    BY <1>5, <1>6, <1>9, <2>6, <2>9, <2>11, <2>12, <2>13, <2>14, <2>15 DEF MedullaInv
<1>10. QED
  BY <1>4, <1>8, <1>9

LEMMA WaitStep ==
  ASSUME MedullaInv, nbMedullaProcessWait
  PROVE  MedullaInv'
<1>1. calls # <<>> /\ Last(calls).op = "wait" /\ calls' = Done
  BY DEF nbMedullaProcessWait, Doing
<1>2. PICK p \in Waited : p = Last(calls).process /\ proc[p].status = "open" /\ p \in Proc
  BY <1>1, TopIs DEF Proc
<1>3. /\ Open(p) = {} /\ life' = [life EXCEPT ![p] = "reaped"]
      /\ CloseIf(TRUE, p, [proc[p] EXCEPT !.ended = TRUE])
  BY <1>2 DEF nbMedullaProcessWait
<1>4. UNCHANGED <<ends, busy, pipe, sigchld, handlers, fdset, left, at, serving>>
  BY DEF nbMedullaProcessWait, watching, given
<1>5. PICK d : d = Done
  OBVIOUS
<1>6. /\ Stack(d, proc) /\ Visits(handlers, left, at, fdset, ends, pipe, d) /\ Handed(proc, pipe, d)
      /\ Len(d) = Len(calls) - 1 /\ (\A i \in 1..Len(calls) - 1 : d[i] = calls[i])
      /\ \A i \in 1..Len(d) : d[i].op # "write"
  BY <1>1, <1>5, CallDone
<1>7. /\ Len(calls) \in Nat /\ Len(calls) \in 1..Len(calls) /\ Stack(calls, proc)
      /\ calls[Len(calls)].op = "wait" /\ calls[Len(calls)].process = p
  BY <1>1, <1>2, TopIs
<1>8. \A i \in 1..Len(calls) : calls[i].op \in {"wait", "lines"} /\ calls[i].process = p => i = Len(calls)
  <2>1. SUFFICES ASSUME NEW i \in 1..Len(calls), calls[i].op \in {"wait", "lines"}, calls[i].process = p
                 PROVE  i = Len(calls)
    OBVIOUS
  <2>2. Len(calls) <= i
    BY <1>7, <2>1 DEF Stack
  <2>3. QED
    BY <1>7, <2>2
<1>9. \A i \in 1..Len(d) : d[i].op \in {"wait", "lines"} => d[i].process # p
  BY <1>6, <1>7, <1>8
<1>10. \A g \in Out : proc[p].handed[g] = pipe[p][g].read \div 2
  <2>1. SUFFICES ASSUME NEW g \in Out, proc[p].handed[g] # pipe[p][g].read \div 2
                 PROVE  FALSE
    OBVIOUS
  <2>2. PICK i \in 1..Len(calls) : calls[i].op = "lines" /\ calls[i].process = p
    BY <1>2, <2>1 DEF MedullaInv, Handed
  <2>3. i = Len(calls)
    BY <1>8, <2>2
  <2>4. QED
    BY <1>7, <2>2, <2>3
<1>11. PICK x \in Record : x = proc[p] /\ x.status = "open"
  BY <1>2, Parts
<1>12. PICK r \in Record : /\ r = [x EXCEPT !.ended = TRUE]
                           /\ r.status = x.status /\ r.ended = TRUE /\ r.fd = x.fd
                           /\ r.queue = x.queue /\ r.writer = x.writer /\ r.handed = x.handed
  <2>1. [x EXCEPT !.ended = TRUE] \in Record
    BY DEF Record
  <2>2. PICK y \in Record : y = [x EXCEPT !.ended = TRUE]
    BY <2>1
  <2>3. /\ y.status = x.status /\ y.ended = TRUE /\ y.fd = x.fd
        /\ y.queue = x.queue /\ y.writer = x.writer /\ y.handed = x.handed
    BY <2>2 DEF Record
  <2>4. QED
    BY <2>2, <2>3
<1>13. PICK r2 \in Record, new \in [Proc -> Record] :
           /\ r2.status = "closed" /\ r2.ended = TRUE /\ r2.fd = x.fd
           /\ r2.queue = x.queue /\ r2.writer = x.writer /\ r2.handed = x.handed
           /\ proc' = new /\ new[p] = r2 /\ Differs(proc, new, p)
           /\ Counted(new, count') /\ Pointed(servant', new)
  <2>1. CloseIf(TRUE, p, r) /\ r.status = "open"
    BY <1>3, <1>11, <1>12
  <2>2. PICK b \in BOOLEAN : b = TRUE
    OBVIOUS
  <2>3. CloseIf(b, p, r)
    BY <2>1, <2>2
  <2>4. PICK r2 \in Record, new \in [Proc -> Record] :
           /\ r2.status = (IF b THEN "closed" ELSE "open") /\ r2.ended = r.ended /\ r2.fd = r.fd
           /\ r2.queue = r.queue /\ r2.writer = r.writer /\ r2.handed = r.handed
           /\ proc' = new /\ new[p] = r2 /\ Differs(proc, new, p)
           /\ Counted(new, count') /\ Pointed(servant', new)
    BY <1>2, <2>1, <2>3, CloseParts
  <2>5. QED
    BY <1>12, <2>2, <2>4
<1>14. PICK lf : lf = [life EXCEPT ![p] = "reaped"]
  OBVIOUS
<1>15. lf \in [Proc -> Lives] /\ lf[p] = "reaped" /\ Differs(life, lf, p)
  BY <1>2, <1>14, Parts DEF Differs, Lives
<1>16. Process(p, r2, lf[p], ends[p], pipe[p])
  <2>1. Process(p, x, life[p], ends[p], pipe[p]) /\ pipe[p] \in [File -> Pipe]
    BY <1>2, <1>11, Parts
  <2>2. \A g \in Out : x.fd[g] = -1
    BY <1>3, <1>11 DEF Open
  <2>3. p \notin Servants
    BY MedullaAssumption
  <2>4. x.fd["put"] = -1
    BY <2>1, <2>3 DEF Process
  <2>5. ASSUME NEW g \in Out
        PROVE  2 * x.handed[g] >= pipe[p][g].written - 1
    <3>1. pipe[p][g] \in Pipe /\ pipe[p][g].written = pipe[p][g].read
      BY <1>11, <2>1, <2>2 DEF Process, File
    <3>2. pipe[p][g].read \in Nat
      BY <3>1 DEF Pipe
    <3>3. 2 * (pipe[p][g].read \div 2) >= pipe[p][g].read - 1
      BY <3>2
    <3>4. x.handed[g] = pipe[p][g].read \div 2
      BY <1>10, <1>11
    <3>5. QED
      BY <3>1, <3>3, <3>4
  <2>6. QED
    BY <1>11, <1>13, <1>15, <2>1, <2>2, <2>3, <2>4, <2>5 DEF Process
<1>17. Processes(new, lf, ends, pipe)
  <2>1. /\ Processes(proc, life, ends, pipe) /\ ends \in [Proc -> SUBSET File]
        /\ pipe \in [Proc -> [File -> Pipe]]
    BY Parts DEF MedullaInv
  <2>2. Differs(ends, ends, p) /\ Differs(pipe, pipe, p)
    BY DEF Differs
  <2>3. QED
    BY <1>2, <1>13, <1>15, <1>16, <2>1, <2>2, ProcessChanged
<1>18. Distinct(new)
  <2>1. \A q \in Proc, g \in File : new[q].fd[g] = proc[q].fd[g]
    BY <1>11, <1>13 DEF Differs
  <2>2. QED
    BY <2>1, DistinctFrame DEF MedullaInv
<1>19. Listed(handlers, new)
  BY <1>13, WaitedUnlisted
<1>20. Stack(d, new)
  <2>1. \A q \in Proc : proc[q].status # "unused" => new[q].status # "unused"
    BY <1>13 DEF Differs
  <2>2. \A i \in 1..Len(d) : d[i].op = "wait" => new[d[i].process].status = "open"
    BY <1>6, <1>9, <1>13 DEF Stack, Differs, Proc
  <2>3. QED
    BY <1>6, <2>1, <2>2, StackFrame
<1>21. Handed(new, pipe, d)
  <2>1. \A q \in Proc : new[q].handed = proc[q].handed
    BY <1>11, <1>13 DEF Differs
  <2>2. \A i \in 1..Len(d) : d[i].op = "lines" =>
          \E j \in 1..Len(d) : d[j].op = "lines" /\ d[j].process = d[i].process /\ d[j].file = d[i].file
    OBVIOUS
  <2>3. QED
    BY <1>6, <2>1, <2>2, HandedFrame
<1>22. Flags'
  BY <1>4 DEF MedullaInv, Flags
<1>23. life' = lf /\ calls' = d
  BY <1>1, <1>3, <1>5, <1>14
<1>24. QED
  BY <1>4, <1>6, <1>13, <1>17, <1>18, <1>19, <1>20, <1>21, <1>22, <1>23 DEF MedullaInv

(* The entry e whose turn it is, at the place m.                           *)
Visited(m, e) ==
  /\ m \in 1..Len(handlers) /\ m = Min(ToVisit) /\ e = handlers[m] /\ e = Turn
  /\ at = "visit" /\ calls = <<>> /\ e \in Handler /\ ~e.close
  /\ e.process \in Servants \cup Jobs /\ e.process \in Proc /\ e.file \in Watch(proc[e.process]) /\ e.file \in File
  /\ e = Entry(e.process, e.file, proc[e.process].fd[e.file])
  /\ Waitless(e.file, ends[e.process], pipe[e.process])
  /\ Len(handlers) - m \in 0..Len(handlers)
  /\ Still(handlers, Len(handlers) - m) \subseteq Still(handlers, left)
  /\ \A x \in Still(handlers, Len(handlers) - m) : ~(x.process = e.process /\ x.file = e.file)

LEMMA TurnIs ==
  ASSUME MedullaInv, Visiting
  PROVE  \E m, e : Visited(m, e)
<1>1. /\ handlers \in Seq(Handler) /\ Len(handlers) \in Nat /\ DOMAIN handlers = 1..Len(handlers)
      /\ left \in 0..Len(handlers) /\ proc \in [Proc -> Record]
  BY Parts
<1>2. PICK S : S = ToVisit
  OBVIOUS
<1>3. S \in SUBSET Nat /\ S # {} /\ at = "visit" /\ calls = <<>>
  BY <1>1, <1>2 DEF Visiting, ToVisit, Idle
<1>4. Min(S) \in S
  BY <1>3, MinOfNaturals
<1>5. PICK m \in S : m = Min(S)
  BY <1>4
<1>6. m \in 1..Len(handlers) /\ m > Len(handlers) - left /\ <<handlers[m].type, handlers[m].fd>> \in fdset
  BY <1>1, <1>2, <1>5 DEF ToVisit
<1>7. PICK e \in Handler : e = handlers[m]
  BY <1>1, <1>6
<1>8. e = Turn
  BY <1>2, <1>5, <1>7 DEF Turn
<1>9. e \in Still(handlers, left)
  BY <1>6, <1>7 DEF Still
<1>10. ~e.close /\ Waitless(e.file, ends[e.process], pipe[e.process])
  BY <1>3, <1>6, <1>7, <1>9 DEF MedullaInv, Visits
<1>11. Listed(handlers, proc)
  BY DEF MedullaInv
<1>12. /\ e.process \in Servants \cup Jobs /\ e.process \in Proc /\ e.file \in Watch(proc[e.process]) /\ e.file \in File
  BY <1>1, <1>6, <1>7, <1>10, <1>11, LiveIsWatched
<1>13. e = Entry(e.process, e.file, proc[e.process].fd[e.file])
  BY <1>6, <1>7, <1>10, <1>11 DEF Listed
<1>14. Len(handlers) - m \in 0..Len(handlers) /\ Still(handlers, Len(handlers) - m) \subseteq Still(handlers, left)
  <2>1. Len(handlers) - m \in 0..Len(handlers)
    BY <1>1, <1>6
  <2>2. \A j \in 1..Len(handlers) : j > Len(handlers) - (Len(handlers) - m) => j > Len(handlers) - left
    BY <1>1, <1>6
  <2>3. QED
    BY <2>1, <2>2 DEF Still
<1>15. ASSUME NEW x \in Still(handlers, Len(handlers) - m), x.process = e.process, x.file = e.file
       PROVE  FALSE
  <2>1. PICK j \in 1..Len(handlers) : x = handlers[j] /\ j > m
    <3>1. \A j \in 1..Len(handlers) : j > Len(handlers) - (Len(handlers) - m) => j > m
      BY <1>1, <1>6
    <3>2. QED
      BY <3>1 DEF Still
  <2>2. ~x.close
    BY <1>3, <1>14 DEF MedullaInv, Visits
  <2>3. x = Entry(x.process, x.file, proc[x.process].fd[x.file])
    BY <1>11, <2>1, <2>2 DEF Listed
  <2>4. x = e
    BY <1>13, <1>15, <2>3
  <2>5. Same(handlers[j], handlers[m].type, handlers[m].fd)
    BY <1>7, <2>1, <2>4 DEF Same
  <2>6. j = m
    BY <1>6, <1>11, <2>5 DEF Listed, Apart
  <2>7. QED
    BY <1>6, <2>1, <2>6
<1>16. Visited(m, e)
  BY <1>2, <1>3, <1>5, <1>6, <1>7, <1>8, <1>10, <1>12, <1>13, <1>14, <1>15 DEF Visited
<1>17. QED
  BY <1>16

(* The pulse has passed it.                                                *)
LEMMA VisitsPassed ==
  ASSUME MedullaInv, NEW m, NEW e, Visited(m, e),
         NEW M, Len(M) = Len(handlers), \A i \in 1..Len(handlers) : i # m => M[i] = handlers[i],
         NEW pp2, NEW c2,
         \A q \in Servants \cup Jobs, g \in File : ~(q = e.process /\ g = e.file) =>
           (Waitless(g, ends[q], pipe[q]) => Waitless(g, ends[q], pp2[q])),
         \A k \in 1..Len(c2) : c2[k].op = "write" => c2[k].process = e.process /\ e.file = "put"
  PROVE  Visits(M, Len(handlers) - m, at, fdset, ends, pp2, c2)
<1>1. /\ handlers \in Seq(Handler) /\ Len(handlers) \in Nat /\ m \in 1..Len(handlers)
      /\ at = "visit" /\ Len(handlers) - m \in 0..Len(M)
  BY Parts DEF Visited
<1>2. PICK n : n = Len(handlers) - m
  OBVIOUS
<1>3. ASSUME NEW x \in Still(M, n)
      PROVE  /\ ~x.close
             /\ <<x.type, x.fd>> \in fdset => Waitless(x.file, ends[x.process], pp2[x.process])
             /\ \A k \in 1..Len(c2) : c2[k].op = "write" => x.process # c2[k].process \/ x.file # "put"
  <2>1. PICK j \in 1..Len(handlers) : x = M[j] /\ j > Len(handlers) - n
    BY DEF Still
  <2>2. j > m
    BY <1>1, <1>2, <2>1
  <2>3. x = handlers[j]
    BY <1>1, <2>1, <2>2
  <2>4. x \in Still(handlers, n)
    BY <2>1, <2>3 DEF Still
  <2>5. x \in Still(handlers, left) /\ ~(x.process = e.process /\ x.file = e.file)
    BY <1>2, <2>4 DEF Visited
  <2>6. /\ ~x.close
        /\ <<x.type, x.fd>> \in fdset => Waitless(x.file, ends[x.process], pipe[x.process])
    BY <1>1, <2>5 DEF MedullaInv, Visits
  <2>7. x \in Handler
    BY <1>1, <2>3
  <2>8. x.process \in Servants \cup Jobs /\ x.file \in File
    BY <2>7 DEF Handler
  <2>9. <<x.type, x.fd>> \in fdset => Waitless(x.file, ends[x.process], pp2[x.process])
    BY <2>5, <2>6, <2>8
  <2>10. QED
    BY <2>5, <2>6, <2>9
<1>4. QED
  BY <1>1, <1>2, <1>3 DEF Visits

LEMMA ReaderStep ==
  ASSUME MedullaInv, nbMedullaProcessReader
  PROVE  MedullaInv'
<1>1. PICK m, e : Visited(m, e)
  BY TurnIs DEF nbMedullaProcessReader
<1>2. PICK p \in Proc, f \in Out : p = e.process /\ f = e.file
  BY <1>1 DEF nbMedullaProcessReader, Visited
<1>3. /\ left' = Len(handlers) - m
      /\ pipe' = Taken(p, f, Content(p, f)) /\ calls' = Begun(Call("lines", p, f, 0))
  BY <1>1, <1>2 DEF nbMedullaProcessReader, Passed, Visited
<1>4. UNCHANGED <<life, ends, busy, sigchld, proc, count, handlers, fdset, at, servant, serving>>
  BY DEF nbMedullaProcessReader, watching, given
<1>5. proc[p].fd[f] # -1
  BY <1>1, <1>2 DEF Visited, Watch
<1>6. PICK pp \in [Proc -> [File -> Pipe]], c \in Seq(Activity) :
           /\ pp = Taken(p, f, Content(p, f)) /\ c = Begun(Call("lines", p, f, 0))
           /\ Processes(proc, life, ends, pp) /\ Stack(c, proc) /\ Handed(proc, pp, c)
           /\ \A k \in 1..Len(c) : c[k].op # "write"
           /\ \A g \in File : g # f => pp[p][g] = pipe[p][g]
           /\ Differs(pipe, pp, p)
  <2>1. calls = <<>>
    BY <1>1 DEF Visited
  <2>2. QED
    BY <1>5, <2>1, ReadBegun
<1>7. Visits(handlers, Len(handlers) - m, at, fdset, ends, pp, c)
  <2>1. ASSUME NEW q \in Servants \cup Jobs, NEW g \in File, ~(q = e.process /\ g = e.file)
        PROVE  Waitless(g, ends[q], pipe[q]) => Waitless(g, ends[q], pp[q])
    <3>1. pp[q][g] = pipe[q][g]
      BY <1>2, <1>6, <2>1 DEF Differs, Proc
    <3>2. QED
      BY <3>1 DEF Waitless
  <2>2. QED
    BY <1>1, <1>6, <2>1, VisitsPassed
<1>8. Flags'
  BY <1>4 DEF MedullaInv, Flags
<1>9. Distinct(proc) /\ Counted(proc, count) /\ Pointed(servant, proc) /\ Listed(handlers, proc)
  BY DEF MedullaInv
<1>10. QED
  BY <1>3, <1>4, <1>6, <1>7, <1>8, <1>9 DEF MedullaInv

(* Its entry is dropped.                                                   *)
LEMMA DroppedIs ==
  ASSUME MedullaInv, NEW m, NEW e, Visited(m, e)
  PROVE  \E M \in Seq(Handler) :
           /\ M = [handlers EXCEPT ![m].close = TRUE] /\ Len(M) = Len(handlers)
           /\ \A i \in 1..Len(handlers) : i # m => M[i] = handlers[i]
           /\ DropsOnly(M, handlers, e.process, e.file, proc[e.process].fd[e.file])
<1>1. handlers \in Seq(Handler) /\ Len(handlers) \in Nat /\ DOMAIN handlers = 1..Len(handlers)
  BY Parts
<1>2. m \in 1..Len(handlers) /\ e = handlers[m] /\ e \in Handler /\ e = Entry(e.process, e.file, proc[e.process].fd[e.file])
  BY DEF Visited
<1>3. PICK h : h = [e EXCEPT !.close = TRUE]
  OBVIOUS
<1>4. h \in Handler /\ h.close
  BY <1>2, <1>3 DEF Handler
<1>5. PICK M : M = [handlers EXCEPT ![m] = h]
  OBVIOUS
<1>6. M = [handlers EXCEPT ![m].close = TRUE]
  BY <1>2, <1>3, <1>5
<1>7. /\ M \in Seq(Handler) /\ Len(M) = Len(handlers) /\ M[m] = h
      /\ \A i \in 1..Len(handlers) : i # m => M[i] = handlers[i]
  BY <1>1, <1>2, <1>4, <1>5
<1>8. \A i \in 1..Len(handlers) : handlers[i] = e => i = m
  <2>1. SUFFICES ASSUME NEW i \in 1..Len(handlers), handlers[i] = e
                 PROVE  i = m
    OBVIOUS
  <2>2. Same(handlers[i], handlers[m].type, handlers[m].fd)
    BY <1>2, <2>1 DEF Same
  <2>3. QED
    BY <1>2, <2>2 DEF MedullaInv, Listed, Apart
<1>9. ASSUME NEW i \in 1..Len(handlers)
      PROVE  /\ i # m => M[i] = handlers[i]
             /\ M[i] = handlers[i] \/ M[i] = [handlers[i] EXCEPT !.close = TRUE]
             /\ handlers[i] = Entry(e.process, e.file, proc[e.process].fd[e.file]) => M[i].close
             /\ M[i].close /\ ~handlers[i].close => handlers[i].process = e.process /\ handlers[i].file = e.file
  <2>1. CASE i = m
    BY <1>2, <1>3, <1>4, <1>7, <2>1
  <2>2. CASE i # m
    BY <1>2, <1>7, <1>8, <2>2
  <2>3. QED
    BY <2>1, <2>2
<1>10. DropsOnly(M, handlers, e.process, e.file, proc[e.process].fd[e.file])
  BY <1>9 DEF DropsOnly
<1>11. QED
  BY <1>6, <1>7, <1>10

LEMMA ReaderEndStep ==
  ASSUME MedullaInv, nbMedullaProcessReaderEnd
  PROVE  MedullaInv'
<1>1. PICK m, e : Visited(m, e)
  BY TurnIs DEF nbMedullaProcessReaderEnd
<1>2. PICK p \in Servants \cup Jobs, f \in Out : p = e.process /\ f = e.file /\ p \in Proc /\ f \in File
  BY <1>1 DEF nbMedullaProcessReaderEnd, Visited
<1>3. /\ left' = Len(handlers) - m /\ handlers' = [handlers EXCEPT ![m].close = TRUE]
      /\ AtEnd(p, f) /\ CloseIf(LastEnd(p, f), p, [proc[p] EXCEPT !.fd[f] = -1])
  BY <1>1, <1>2 DEF nbMedullaProcessReaderEnd, Passed, Dropped, Visited
<1>4. UNCHANGED <<life, ends, busy, pipe, sigchld, calls, fdset, at, serving>>
  BY DEF nbMedullaProcessReaderEnd, kernel, given
<1>5. calls = <<>> /\ Len(calls) = 0
  <2>1. calls = <<>>
    BY <1>1 DEF Visited
  <2>2. QED
    BY <2>1
<1>6. proc[p].status = "open" /\ proc[p].fd[f] # -1 /\ f \in Watch(proc[p])
  BY <1>1, <1>2 DEF Visited, Watch
<1>7. PICK x \in Record : x = proc[p] /\ x.fd \in [File -> Nat \cup {-1}] /\ Process(p, x, life[p], ends[p], pipe[p])
  BY <1>2, Parts DEF Record
<1>8. PICK d \in [File -> Nat \cup {-1}] : d = [x.fd EXCEPT ![f] = -1]
  BY <1>2, <1>7
<1>9. PICK r \in Record : /\ r = [x EXCEPT !.fd = d]
                          /\ r.status = x.status /\ r.ended = x.ended /\ r.fd = d
                          /\ r.queue = x.queue /\ r.writer = x.writer /\ r.handed = x.handed
  <2>1. [x EXCEPT !.fd = d] \in Record
    BY DEF Record
  <2>2. PICK y \in Record : y = [x EXCEPT !.fd = d]
    BY <2>1
  <2>3. /\ y.status = x.status /\ y.ended = x.ended /\ y.fd = d
        /\ y.queue = x.queue /\ y.writer = x.writer /\ y.handed = x.handed
    BY <2>2 DEF Record
  <2>4. QED
    BY <2>2, <2>3
<1>10. PICK b \in BOOLEAN : b = LastEnd(p, f)
  <2>1. LastEnd(p, f) \in BOOLEAN
    BY DEF LastEnd
  <2>2. QED
    BY <2>1
<1>11. b <=> x.ended /\ Open(p) \subseteq {f}
  BY <1>7, <1>10 DEF LastEnd
<1>12. PICK r2 \in Record, new \in [Proc -> Record] :
           /\ r2.status = (IF b THEN "closed" ELSE "open") /\ r2.ended = r.ended /\ r2.fd = r.fd
           /\ r2.queue = r.queue /\ r2.writer = r.writer /\ r2.handed = r.handed
           /\ proc' = new /\ new[p] = r2 /\ Differs(proc, new, p)
           /\ Counted(new, count') /\ Pointed(servant', new)
  <2>1. CloseIf(b, p, r) /\ r.status = "open"
    BY <1>3, <1>6, <1>7, <1>8, <1>9, <1>10
  <2>2. QED
    BY <1>2, <1>6, <2>1, CloseParts
<1>13. \A g \in Out : proc[p].handed[g] = pipe[p][g].read \div 2
  BY <1>2, <1>5 DEF MedullaInv, Handed
<1>14. Process(p, r2, life[p], ends[p], pipe[p])
  <2>1. b => proc[p].ended /\ Open(p) \subseteq {f}
    BY <1>7, <1>11
  <2>2. r2.fd = [proc[p].fd EXCEPT ![f] = -1]
    BY <1>7, <1>8, <1>9, <1>12
  <2>3. r2.ended = proc[p].ended /\ r2.queue = proc[p].queue /\ r2.writer = proc[p].writer /\ r2.handed = proc[p].handed
    BY <1>7, <1>9, <1>12
  <2>4. QED
    BY <1>2, <1>3, <1>6, <1>12, <1>13, <2>1, <2>2, <2>3, FileEnded
<1>15. Processes(new, life, ends, pipe)
  BY <1>2, <1>12, <1>14, StructStep
<1>16. Distinct(new)
  <2>1. \A g \in File : new[p].fd[g] = proc[p].fd[g] \/ new[p].fd[g] = -1
    BY <1>2, <1>7, <1>8, <1>9, <1>12
  <2>2. \A q \in Proc, g \in File : new[q].fd[g] = proc[q].fd[g] \/ new[q].fd[g] = -1
    BY <1>12, <2>1 DEF Differs
  <2>3. QED
    BY <2>2, DistinctFrame DEF MedullaInv
<1>17. PICK M \in Seq(Handler) :
           /\ M = [handlers EXCEPT ![m].close = TRUE] /\ Len(M) = Len(handlers)
           /\ \A i \in 1..Len(handlers) : i # m => M[i] = handlers[i]
           /\ DropsOnly(M, handlers, e.process, e.file, proc[e.process].fd[e.file])
  BY <1>1, DroppedIs
<1>18. Listed(M, new)
  <2>1. Watch(r2) = Watch(proc[p]) \ {f}
    <3>1. \A g \in File : g # f => r2.fd[g] = x.fd[g]
      BY <1>8, <1>9, <1>12
    <3>2. r2.fd[f] = -1
      BY <1>2, <1>7, <1>8, <1>9, <1>12
    <3>3. CASE b
      <4>1. x.fd["put"] = -1
        BY <1>7, <1>11, <3>3 DEF Process
      <4>2. \A g \in Out : g # f => x.fd[g] = -1
        BY <1>7, <1>11, <3>3 DEF Open
      <4>3. \A g \in File : g # f => x.fd[g] = -1
        BY <4>1, <4>2 DEF File
      <4>4. Watch(r2) = {}
        BY <1>12, <3>3 DEF Watch
      <4>5. Watch(x) \subseteq {f}
        BY <4>3 DEF Watch
      <4>6. QED
        BY <1>7, <4>4, <4>5
    <3>4. CASE ~b
      <4>1. r2.status = "open" /\ x.status = "open" /\ r2.writer = x.writer
        BY <1>6, <1>7, <1>9, <1>12, <3>4
      <4>2. Watch(r2) = Watch(x) \ {f}
        BY <3>1, <3>2, <4>1 DEF Watch
      <4>3. QED
        BY <1>7, <4>2
    <3>5. QED
      BY <3>3, <3>4
  <2>2. \A g \in Watch(r2) : r2.fd[g] = proc[p].fd[g]
    <3>1. \A g \in File : g # f => r2.fd[g] = x.fd[g]
      BY <1>8, <1>9, <1>12
    <3>2. \A g \in Watch(r2) : g \in File /\ g # f
      BY <2>1 DEF Watch
    <3>3. QED
      BY <1>7, <3>1, <3>2
  <2>3. proc \in [Proc -> Record] /\ new[p] = r2 /\ Differs(proc, new, p)
    BY <1>12, Parts
  <2>4. Listed(handlers, proc)
    BY DEF MedullaInv
  <2>5. DropsOnly(M, handlers, p, f, proc[p].fd[f]) /\ Unwatched(r2, proc[p], f)
    BY <1>2, <1>17, <2>1, <2>2 DEF Unwatched
  <2>6. f \in File /\ Len(M) = Len(handlers)
    BY <1>2, <1>17
  <2>7. QED
    BY <2>3, <2>4, <2>5, <2>6, FileDropped
<1>19. Visits(M, Len(handlers) - m, at, fdset, ends, pipe, calls)
  <2>1. \A i \in 1..Len(handlers) : i # m => M[i] = handlers[i]
    BY <1>17
  <2>2. \A q \in Servants \cup Jobs, g \in File : ~(q = e.process /\ g = e.file) =>
          (Waitless(g, ends[q], pipe[q]) => Waitless(g, ends[q], pipe[q]))
    OBVIOUS
  <2>3. \A k \in 1..Len(calls) : calls[k].op = "write" => calls[k].process = e.process /\ e.file = "put"
    BY <1>5
  <2>4. Len(M) = Len(handlers)
    BY <1>17
  <2>5. QED
    BY <1>1, <2>1, <2>2, <2>3, <2>4, VisitsPassed
<1>20. Handed(new, pipe, calls)
  <2>1. \A q \in Proc : new[q].handed = proc[q].handed
    BY <1>7, <1>9, <1>12 DEF Differs
  <2>2. QED
    BY <1>5, <2>1, HandedFrame DEF MedullaInv
<1>21. Stack(calls, new)
  BY <1>5 DEF MedullaInv, Stack
<1>22. Flags'
  BY <1>4 DEF MedullaInv, Flags
<1>23. QED
  BY <1>3, <1>4, <1>12, <1>15, <1>16, <1>17, <1>18, <1>19, <1>20, <1>21, <1>22 DEF MedullaInv

LEMMA WriterStep ==
  ASSUME MedullaInv, nbMedullaProcessWriter
  PROVE  MedullaInv'
<1>1. PICK m, e : Visited(m, e)
  BY TurnIs DEF nbMedullaProcessWriter
<1>2. PICK p \in Servants \cup Jobs : p = e.process /\ e.file = "put" /\ p \in Proc /\ "put" \in File
  BY <1>1 DEF nbMedullaProcessWriter, Visited
<1>3. left' = Len(handlers) - m
  BY <1>1 DEF nbMedullaProcessWriter, Passed, Visited
<1>4. UNCHANGED <<life, ends, busy, pipe, sigchld, count, fdset, at, serving, servant>>
  BY DEF nbMedullaProcessWriter, kernel, given
<1>5. \/ /\ proc[p].queue = <<>> /\ handlers' = [handlers EXCEPT ![m].close = TRUE]
         /\ proc' = [proc EXCEPT ![p].writer = FALSE] /\ calls' = calls
      \/ /\ proc[p].queue # <<>> /\ proc' = proc /\ handlers' = handlers
         /\ calls' = Begun(Call("write", p, "put", Head(proc[p].queue)))
  BY <1>1, <1>2 DEF nbMedullaProcessWriter, Dropped, Visited
<1>6. calls = <<>> /\ Len(calls) = 0 /\ Stack(calls, proc)
  <2>1. calls = <<>>
    BY <1>1 DEF Visited
  <2>2. QED
    BY <2>1 DEF MedullaInv
<1>7. "put" \in Watch(proc[p]) /\ proc[p].fd["put"] # -1
  BY <1>1, <1>2 DEF Visited, Watch
<1>8. PICK x \in Record : x = proc[p] /\ Process(p, x, life[p], ends[p], pipe[p])
  BY <1>2, Parts
<1>9. Flags'
  BY <1>4 DEF MedullaInv, Flags
<1>10. Processes(proc, life, ends, pipe) /\ Distinct(proc) /\ Counted(proc, count) /\ Pointed(servant, proc)
       /\ Listed(handlers, proc) /\ Handed(proc, pipe, calls)
  BY DEF MedullaInv
<1>11. \A q \in Servants \cup Jobs, g \in File : ~(q = e.process /\ g = e.file) =>
         (Waitless(g, ends[q], pipe[q]) => Waitless(g, ends[q], pipe[q]))
  OBVIOUS
<1>12. CASE /\ proc[p].queue = <<>> /\ handlers' = [handlers EXCEPT ![m].close = TRUE]
            /\ proc' = [proc EXCEPT ![p].writer = FALSE] /\ calls' = calls
  <2>1. PICK r \in Record : /\ r = [x EXCEPT !.writer = FALSE]
                            /\ r.status = x.status /\ r.ended = x.ended /\ r.fd = x.fd
                            /\ r.queue = x.queue /\ r.writer = FALSE /\ r.handed = x.handed
    <3>1. [x EXCEPT !.writer = FALSE] \in Record
      BY DEF Record
    <3>2. PICK y \in Record : y = [x EXCEPT !.writer = FALSE]
      BY <3>1
    <3>3. /\ y.status = x.status /\ y.ended = x.ended /\ y.fd = x.fd
          /\ y.queue = x.queue /\ y.writer = FALSE /\ y.handed = x.handed
      BY <3>2 DEF Record
    <3>4. QED
      BY <3>2, <3>3
  <2>2. PICK new : new = [proc EXCEPT ![p] = r]
    OBVIOUS
  <2>3. new \in [Proc -> Record] /\ new[p] = r /\ Differs(proc, new, p) /\ proc \in [Proc -> Record]
    BY <1>2, <2>2, Parts DEF Differs
  <2>4. proc' = new
    BY <1>8, <1>12, <2>1, <2>2
  <2>5. Process(p, r, life[p], ends[p], pipe[p])
    BY <1>8, <1>12, <2>1 DEF Process
  <2>6. Processes(new, life, ends, pipe)
    BY <1>2, <2>3, <2>5, StructStep
  <2>7. \A q \in Proc : new[q].status = proc[q].status /\ new[q].fd = proc[q].fd /\ new[q].handed = proc[q].handed
    <3>1. \A q \in Proc : q = p \/ new[q] = proc[q]
      BY <2>3 DEF Differs
    <3>2. new[p].status = proc[p].status /\ new[p].fd = proc[p].fd /\ new[p].handed = proc[p].handed
      BY <1>8, <2>1, <2>3
    <3>3. QED
      BY <3>1, <3>2
  <2>8. Distinct(new) /\ Counted(new, count) /\ Pointed(servant, new)
    BY <1>10, <2>7, DistinctFrame, CountedFrame, PointedFrame
  <2>9. PICK M \in Seq(Handler) :
           /\ M = [handlers EXCEPT ![m].close = TRUE] /\ Len(M) = Len(handlers)
           /\ \A i \in 1..Len(handlers) : i # m => M[i] = handlers[i]
           /\ DropsOnly(M, handlers, e.process, e.file, proc[e.process].fd[e.file])
    BY <1>1, DroppedIs
  <2>10. Unwatched(r, proc[p], "put")
    BY <1>8, <2>1 DEF Unwatched, Watch
  <2>11. Listed(M, new)
    <3>1. DropsOnly(M, handlers, p, "put", proc[p].fd["put"])
      BY <1>2, <2>9
    <3>2. Len(M) = Len(handlers)
      BY <2>9
    <3>3. QED
      BY <1>2, <1>10, <2>3, <2>10, <3>1, <3>2, FileDropped
  <2>12. Visits(M, Len(handlers) - m, at, fdset, ends, pipe, calls)
    <3>1. \A i \in 1..Len(handlers) : i # m => M[i] = handlers[i]
      BY <2>9
    <3>2. \A k \in 1..Len(calls) : calls[k].op = "write" => calls[k].process = e.process /\ e.file = "put"
      BY <1>6
    <3>3. Len(M) = Len(handlers)
      BY <2>9
    <3>4. QED
      BY <1>1, <1>11, <3>1, <3>2, <3>3, VisitsPassed
  <2>13. Handed(new, pipe, calls)
    BY <1>6, <1>10, <2>7, HandedFrame
  <2>14. Stack(calls, new)
    BY <1>6 DEF Stack
  <2>15. QED
    BY <1>3, <1>4, <1>9, <1>12, <2>4, <2>6, <2>8, <2>9, <2>11, <2>12, <2>13, <2>14 DEF MedullaInv
<1>13. CASE /\ proc[p].queue # <<>> /\ proc' = proc /\ handlers' = handlers
            /\ calls' = Begun(Call("write", p, "put", Head(proc[p].queue)))
  <2>1. x.queue \in Seq(Nat) /\ x.queue # <<>> /\ p \in Servants
    BY <1>7, <1>8, <1>13 DEF Record, Process
  <2>2. Head(x.queue) \in Nat
    BY <2>1
  <2>3. PICK a \in Activity : a = Call("write", p, "put", Head(proc[p].queue)) /\ a.op = "write" /\ a.process = p
    <3>1. PICK n \in Nat : n = Head(proc[p].queue)
      BY <1>8, <2>2
    <3>2. PICK a : a = Call("write", p, "put", n)
      OBVIOUS
    <3>3. a \in Activity /\ a.op = "write" /\ a.process = p
      BY <1>2, <3>2 DEF Call, Activity
    <3>4. QED
      BY <3>1, <3>2, <3>3
  <2>4. PICK c : c = Begun(a)
    OBVIOUS
  <2>5. Stack(c, proc) /\ Len(c) = 1 /\ c[1] = a
    <3>1. \A i \in 1..Len(calls) : calls[i].op # "write"
      BY <1>6
    <3>2. /\ Stack(Append(calls, a), proc)
          /\ Len(Append(calls, a)) = Len(calls) + 1 /\ Append(calls, a)[Len(calls) + 1] = a
      <4>1. Allowed(a, calls, proc)
        BY <1>6, <1>8, <2>1, <2>3, <3>1 DEF Allowed
      <4>2. QED
        BY <1>6, <4>1, StackPush
    <3>3. QED
      BY <1>6, <2>4, <3>2 DEF Begun
  <2>6. Visits(handlers, Len(handlers) - m, at, fdset, ends, pipe, c)
    <3>1. \A k \in 1..Len(c) : c[k].op = "write" => c[k].process = e.process /\ e.file = "put"
      BY <1>2, <2>3, <2>5
    <3>2. \A i \in 1..Len(handlers) : i # m => handlers[i] = handlers[i]
      OBVIOUS
    <3>3. QED
      BY <1>1, <1>11, <3>1, <3>2, VisitsPassed
  <2>7. Handed(proc, pipe, c)
    BY <1>6, <1>10, HandedFrame
  <2>8. calls' = c
    BY <1>13, <2>3, <2>4
  <2>9. QED
    BY <1>3, <1>4, <1>9, <1>10, <1>13, <2>5, <2>6, <2>7, <2>8 DEF MedullaInv
<1>14. QED
  BY <1>5, <1>12, <1>13

LEMMA WriteStep ==
  ASSUME MedullaInv, Write
  PROVE  MedullaInv'
<1>1. calls # <<>> /\ Last(calls).op = "write"
  BY DEF Write, Doing
<1>2. PICK c \in Activity : c = Last(calls) /\ c.op = "write" /\ c.left \in Nat
  <2>1. Last(calls) \in Activity
    BY <1>1, TopIs
  <2>2. QED
    BY <1>1, <2>1 DEF Activity
<1>3. /\ Len(calls) = 1 /\ calls[1] = c /\ c.process \in Servants /\ proc[c.process].queue # <<>>
      /\ Stack(calls, proc)
  <2>1. Len(calls) \in 1..Len(calls) /\ calls[Len(calls)] = c /\ Stack(calls, proc)
    BY <1>1, <1>2, TopIs
  <2>2. Len(calls) = 1 /\ c.process \in Servants /\ proc[c.process].queue # <<>>
    BY <1>2, <2>1 DEF Stack
  <2>3. QED
    BY <2>1, <2>2
<1>4. PICK p \in Servants : p = c.process /\ p \in Proc /\ "put" \in File
  BY <1>3 DEF Proc, File
<1>5. PICK x \in Record : x = proc[p] /\ Process(p, x, life[p], ends[p], pipe[p]) /\ x.queue # <<>> /\ x.queue \in Seq(Nat)
  <2>1. proc[p] \in Record /\ Process(p, proc[p], life[p], ends[p], pipe[p])
    BY <1>4, Parts
  <2>2. QED
    BY <1>3, <1>4, <2>1 DEF Record
<1>6. PICK n : n = Min({c.left, Room(p, "put")})
  OBVIOUS
<1>7. n \in Nat /\ n <= c.left /\ n <= Room(p, "put") /\ Room(p, "put") \in Nat
  <2>1. Content(p, "put") \in 0..Capacity
    BY <1>4, <1>5 DEF Process, Content
  <2>2. Room(p, "put") \in Nat
    BY <2>1, MedullaAssumption DEF Room
  <2>3. PICK S : S = {c.left, Room(p, "put")}
    OBVIOUS
  <2>4. S \in SUBSET Nat /\ S # {} /\ c.left \in S /\ Room(p, "put") \in S
    BY <1>2, <2>2, <2>3
  <2>5. Min(S) \in S /\ \A y \in S : Min(S) <= y
    BY <2>4, MinOfNaturals
  <2>6. n = Min(S)
    BY <1>6, <2>3
  <2>7. QED
    BY <2>2, <2>4, <2>5, <2>6
<1>8. \/ /\ calls' = Done /\ proc' = [proc EXCEPT ![p].queue = Tail(@)]
         /\ pipe' = Written(p, "put", n) \/ pipe' = pipe
      \/ /\ pipe' = Written(p, "put", n) /\ proc' = proc
         /\ calls' = Append(Done, [c EXCEPT !.left = c.left - n])
  <2>1. CASE "put" \notin ends[p] \/ n = c.left
    BY <1>2, <1>4, <1>6, <2>1 DEF Write
  <2>2. CASE ~("put" \notin ends[p] \/ n = c.left)
    BY <1>2, <1>4, <1>6, <2>2 DEF Write
  <2>3. QED
    BY <2>1, <2>2
<1>9. UNCHANGED <<life, ends, busy, sigchld, count, handlers, fdset, left, at, serving, servant>>
  BY DEF Write, watching, given
<1>10. PICK w \in [Proc -> [File -> Pipe]] :
           /\ w = Written(p, "put", n)
           /\ w[p]["put"].written = pipe[p]["put"].written + n /\ w[p]["put"].read = pipe[p]["put"].read
           /\ \A g \in File : g # "put" => w[p][g] = pipe[p][g]
           /\ Differs(pipe, w, p)
  BY <1>4, <1>7, Parts, WrittenIs
<1>11. PICK pp \in [Proc -> [File -> Pipe]] :
           /\ pp = pipe' /\ \A g \in File : g # "put" => pp[p][g] = pipe[p][g]
           /\ pp[p]["put"].written - pp[p]["put"].read \in 0..Capacity
           /\ Differs(pipe, pp, p)
  <2>1. CASE pipe' = w
    <3>1. PICK y \in Pipe, z \in Pipe : y = pipe[p]["put"] /\ z = w[p]["put"]
      BY <1>4, <1>10, Parts
    <3>2. y.written \in Nat /\ y.read \in Nat /\ z.written = y.written + n /\ z.read = y.read
      BY <1>10, <3>1 DEF Pipe
    <3>3. y.written - y.read \in 0..Capacity /\ n <= Capacity - (y.written - y.read)
      BY <1>4, <1>5, <1>7, <3>1 DEF Process, Room, Content
    <3>4. z.written - z.read \in 0..Capacity
      BY <1>7, <3>2, <3>3, MedullaAssumption
    <3>5. QED
      BY <1>10, <2>1, <3>1, <3>4
  <2>2. CASE pipe' = pipe
    <3>1. pipe[p]["put"].written - pipe[p]["put"].read \in 0..Capacity
      BY <1>4, <1>5 DEF Process
    <3>2. pipe \in [Proc -> [File -> Pipe]] /\ Differs(pipe, pipe, p)
      BY Parts DEF Differs
    <3>3. QED
      BY <2>2, <3>1, <3>2
  <2>3. QED
    BY <1>8, <1>10, <2>1, <2>2
<1>12. Process(p, x, life[p], ends[p], pp[p])
  <2>1. \A g \in File : pp[p][g].written - pp[p][g].read \in 0..Capacity
    BY <1>5, <1>11 DEF Process
  <2>2. \A g \in Out : g \in File /\ g # "put" /\ pp[p][g] = pipe[p][g]
    BY <1>11 DEF Out, File
  <2>3. pp[p] \in [File -> Pipe]
    BY <1>4, <1>11
  <2>4. QED
    BY <1>5, <2>1, <2>2, <2>3 DEF Process
<1>13. PICK r \in Record :
          /\ r = [x EXCEPT !.queue = Tail(x.queue)]
          /\ r.status = x.status /\ r.ended = x.ended /\ r.fd = x.fd
          /\ r.writer = x.writer /\ r.handed = x.handed
  <2>1. Tail(x.queue) \in Seq(Nat)
    BY <1>5
  <2>2. PICK t \in Seq(Nat) : t = Tail(x.queue)
    BY <2>1
  <2>3. [x EXCEPT !.queue = t] \in Record
    BY DEF Record
  <2>4. PICK y \in Record : y = [x EXCEPT !.queue = t]
    BY <2>3
  <2>5. /\ y.status = x.status /\ y.ended = x.ended /\ y.fd = x.fd
        /\ y.writer = x.writer /\ y.handed = x.handed
    BY <2>4 DEF Record
  <2>6. QED
    BY <2>2, <2>4, <2>5
<1>14. PICK new \in [Proc -> Record] : new = proc' /\ (new[p] = r \/ new[p] = x) /\ Differs(proc, new, p)
  <2>1. proc \in [Proc -> Record]
    BY Parts
  <2>2. CASE proc' = [proc EXCEPT ![p].queue = Tail(@)]
    <3>1. PICK y : y = [proc EXCEPT ![p] = r]
      OBVIOUS
    <3>2. y \in [Proc -> Record] /\ y[p] = r /\ Differs(proc, y, p)
      BY <1>4, <2>1, <3>1 DEF Differs
    <3>3. proc' = y
      BY <1>5, <1>13, <2>2, <3>1
    <3>4. QED
      BY <3>2, <3>3
  <2>3. CASE proc' = proc
    BY <1>5, <2>1, <2>3 DEF Differs
  <2>4. QED
    BY <1>8, <2>2, <2>3
<1>15. Process(p, new[p], life[p], ends[p], pp[p])
  <2>1. CASE new[p] = x
    BY <1>12, <2>1
  <2>2. CASE new[p] = r
    <3>1. x.queue # <<>> => x.fd["put"] # -1 /\ x.writer
      BY <1>12 DEF Process
    <3>2. QED
      BY <1>5, <1>12, <1>13, <2>2, <3>1 DEF Process
  <2>3. QED
    BY <1>14, <2>1, <2>2
<1>16. Processes(new, life, ends, pp)
  <2>1. /\ Processes(proc, life, ends, pipe) /\ ends \in [Proc -> SUBSET File]
        /\ life \in [Proc -> Lives]
    BY Parts DEF MedullaInv
  <2>2. Differs(ends, ends, p) /\ Differs(life, life, p)
    BY DEF Differs
  <2>3. QED
    BY <1>4, <1>11, <1>14, <1>15, <2>1, <2>2, ProcessChanged
<1>17. \A q \in Proc : /\ new[q].status = proc[q].status /\ new[q].fd = proc[q].fd /\ new[q].handed = proc[q].handed
                       /\ new[q].writer = proc[q].writer
  <2>1. \A q \in Proc : q = p \/ new[q] = proc[q]
    BY <1>14 DEF Differs
  <2>2. /\ new[p].status = proc[p].status /\ new[p].fd = proc[p].fd /\ new[p].handed = proc[p].handed
        /\ new[p].writer = proc[p].writer
    BY <1>5, <1>13, <1>14
  <2>3. QED
    BY <2>1, <2>2
<1>18. Distinct(new) /\ Counted(new, count) /\ Pointed(servant, new)
  BY <1>17, FilesKept
<1>19. Listed(handlers, new)
  BY <1>17, FilesKept
<1>20. PICK d : d = Done
  OBVIOUS
<1>21. Stack(d, proc) /\ Len(d) = 0 /\ d = <<>>
  <2>1. Stack(d, proc) /\ Len(d) = Len(calls) - 1
    BY <1>1, <1>20, CallDone
  <2>2. d \in Seq(Activity) /\ Len(d) = 0
    BY <1>3, <2>1 DEF Stack
  <2>3. QED
    BY <2>1, <2>2
<1>22. PICK c2 : c2 = calls'
  OBVIOUS
<1>23. Stack(c2, new) /\ \A k \in 1..Len(c2) : c2[k].op = "write" /\ c2[k].process = p
  <2>1. CASE c2 = d
    BY <1>21, <2>1 DEF Stack
  <2>2. CASE proc' = proc /\ c2 = Append(d, [c EXCEPT !.left = c.left - n])
    <3>1. PICK a : a = [c EXCEPT !.left = c.left - n]
      OBVIOUS
    <3>2. a \in Activity /\ a.op = "write" /\ a.process = p
      <4>1. PICK k \in Nat : k = c.left - n
        BY <1>2, <1>7
      <4>2. a = [c EXCEPT !.left = k]
        BY <3>1, <4>1
      <4>3. QED
        BY <1>2, <1>4, <4>2 DEF Activity
    <3>3. Allowed(a, d, proc)
      BY <1>4, <1>5, <1>21, <3>2 DEF Allowed
    <3>4. PICK s : s = Append(d, a)
      OBVIOUS
    <3>5. Stack(s, proc) /\ Len(s) = Len(d) + 1 /\ s[Len(d) + 1] = a
      BY <1>21, <3>2, <3>3, <3>4, StackPush
    <3>6. s = c2 /\ new = proc /\ Len(s) = 1 /\ s[1] = a
      BY <1>14, <1>21, <2>2, <3>1, <3>4, <3>5
    <3>7. QED
      BY <3>2, <3>5, <3>6
  <2>3. QED
    BY <1>8, <1>20, <1>22, <2>1, <2>2
<1>24. Handed(new, pp, c2)
  <2>1. Handed(proc, pipe, calls)
    BY DEF MedullaInv
  <2>2. \A q \in Proc, g \in Out : new[q].handed[g] = proc[q].handed[g] /\ pp[q][g].read = pipe[q][g].read
    <3>1. \A g \in Out : pp[p][g] = pipe[p][g]
      BY <1>11 DEF Out, File
    <3>2. \A q \in Proc, g \in Out : pp[q][g] = pipe[q][g]
      BY <1>11, <3>1 DEF Differs
    <3>3. QED
      BY <1>17, <3>2
  <2>3. \A i \in 1..Len(calls) : calls[i].op # "lines"
    <3>1. \A i \in 1..Len(calls) : i = 1
      BY <1>3
    <3>2. QED
      BY <1>2, <1>3, <3>1
  <2>4. QED
    BY <2>1, <2>2, <2>3, HandedFrame
<1>25. Visits(handlers, left, at, fdset, ends, pp, c2)
  <2>1. /\ handlers \in Seq(Handler) /\ Len(handlers) \in Nat
        /\ Visits(handlers, left, at, fdset, ends, pipe, calls)
    BY Parts DEF MedullaInv
  <2>2. 1 \in 1..Len(calls) /\ calls[1].op = "write" /\ calls[1].process = p
    BY <1>2, <1>3, <1>4
  <2>3. at = "visit"
    BY <2>1, <2>2 DEF Visits
  <2>4. ASSUME NEW e \in Still(handlers, left)
        PROVE  Waitless(e.file, ends[e.process], pipe[e.process]) => Waitless(e.file, ends[e.process], pp[e.process])
    <3>1. e.process # p \/ e.file # "put"
      BY <2>1, <2>2, <2>3 DEF Visits
    <3>2. e \in Handler
      BY <2>1, StillEntry
    <3>3. e.process \in Proc /\ e.file \in File
      BY <3>2 DEF Handler, Proc
    <3>4. pp[e.process][e.file] = pipe[e.process][e.file]
      BY <1>11, <3>1, <3>3 DEF Differs
    <3>5. QED
      BY <3>4 DEF Waitless
  <2>5. \A k \in 1..Len(c2) : c2[k].op = "write" =>
           \E j \in 1..Len(calls) : calls[j].op = "write" /\ calls[j].process = c2[k].process
    BY <1>23, <2>2
  <2>6. at # "commands"
    BY <2>3
  <2>7. QED
    BY <2>1, <2>4, <2>5, <2>6, VisitsFrame
<1>26. Flags'
  BY <1>9 DEF MedullaInv, Flags
<1>27. QED
  BY <1>9, <1>11, <1>14, <1>16, <1>18, <1>19, <1>22, <1>23, <1>24, <1>25, <1>26 DEF MedullaInv

(* What nbMedullaWaitDisable drops when a file is closed.                  *)
LEMMA DisabledIs ==
  ASSUME MedullaInv, NEW p \in Servants, proc[p].fd["put"] # -1
  PROVE  \E M \in Seq(Handler) :
           /\ M = nbMedullaWaitDisable(handlers, 1, proc[p].fd["put"]) /\ Len(M) = Len(handlers)
           /\ DropsOnly(M, handlers, p, "put", proc[p].fd["put"])
<1>1. /\ handlers \in Seq(Handler) /\ Len(handlers) \in Nat /\ DOMAIN handlers = 1..Len(handlers)
      /\ proc \in [Proc -> Record] /\ Listed(handlers, proc) /\ Distinct(proc) /\ p \in Proc
  BY Parts DEF MedullaInv, Proc
<1>2. PICK d : d = proc[p].fd["put"]
  OBVIOUS
<1>3. PICK M : M = [i \in DOMAIN handlers |->
                      IF Same(handlers[i], 1, d) THEN [handlers[i] EXCEPT !.close = TRUE] ELSE handlers[i]]
  OBVIOUS
<1>4. M = nbMedullaWaitDisable(handlers, 1, d)
  BY <1>3 DEF nbMedullaWaitDisable
<1>5. ASSUME NEW h \in Handler
      PROVE  [h EXCEPT !.close = TRUE] \in Handler /\ [h EXCEPT !.close = TRUE].close
  BY DEF Handler
<1>6. M \in Seq(Handler) /\ Len(M) = Len(handlers)
  <2>1. \A i \in 1..Len(handlers) : M[i] \in Handler
    <3>1. TAKE i \in 1..Len(handlers)
    <3>2. handlers[i] \in Handler
      BY <1>1
    <3>3. [handlers[i] EXCEPT !.close = TRUE] \in Handler
      BY <1>5, <3>2
    <3>4. QED
      BY <1>1, <1>3, <3>2, <3>3
  <2>2. QED
    BY <1>1, <1>3, <2>1
<1>7. ASSUME NEW i \in 1..Len(handlers)
      PROVE  /\ M[i] = handlers[i] \/ M[i] = [handlers[i] EXCEPT !.close = TRUE]
             /\ handlers[i] = Entry(p, "put", d) => M[i].close
             /\ M[i].close /\ ~handlers[i].close => handlers[i].process = p /\ handlers[i].file = "put"
  <2>1. M[i] = IF Same(handlers[i], 1, d) THEN [handlers[i] EXCEPT !.close = TRUE] ELSE handlers[i]
    BY <1>1, <1>3
  <2>2. ASSUME handlers[i] = Entry(p, "put", d)
        PROVE  M[i].close
    <3>1. Same(handlers[i], 1, d)
      BY <2>2 DEF Same, Entry, Type
    <3>2. handlers[i] \in Handler
      BY <1>1
    <3>3. QED
      BY <1>5, <2>1, <3>1, <3>2
  <2>3. ASSUME M[i].close, ~handlers[i].close
        PROVE  handlers[i].process = p /\ handlers[i].file = "put"
    <3>1. Same(handlers[i], 1, d)
      BY <2>1, <2>3
    <3>2. /\ handlers[i].process \in Proc /\ handlers[i].file \in File
          /\ handlers[i].type = Type(handlers[i].file) /\ handlers[i].fd = proc[handlers[i].process].fd[handlers[i].file]
      BY <1>1, <2>3, LiveIsWatched
    <3>3. handlers[i].file = "put" /\ handlers[i].fd = d
      BY <3>1, <3>2 DEF Same, Type
    <3>4. QED
      BY <1>1, <1>2, <3>2, <3>3 DEF Distinct
  <2>4. QED
    BY <2>1, <2>2, <2>3
<1>8. DropsOnly(M, handlers, p, "put", d)
  BY <1>7 DEF DropsOnly
<1>9. QED
  BY <1>2, <1>4, <1>6, <1>8

LEMMA CollectStep ==
  ASSUME MedullaInv, NEW p \in Proc, CollectChild(p)
  PROVE  MedullaInv'
<1>1. /\ calls = <<>> /\ life[p] = "zombie" /\ at \in {"final", "collect"} /\ life' = [life EXCEPT ![p] = "reaped"]
      /\ handlers' = IF proc[p].fd["put"] = -1 THEN handlers ELSE nbMedullaWaitDisable(handlers, 1, proc[p].fd["put"])
      /\ CloseIf(at # "final" /\ Open(p) = {}, p, Collected(p))
  BY DEF CollectChild, Idle
<1>2. UNCHANGED <<ends, busy, pipe, sigchld, left, at, calls, serving>>
  BY DEF CollectChild, given
<1>3. PICK x \in Record : x = proc[p] /\ Process(p, x, life[p], ends[p], pipe[p]) /\ x.fd \in [File -> Nat \cup {-1}]
                          /\ x.status = "open" /\ ~x.ended
  <2>1. proc[p] \in Record /\ Process(p, proc[p], life[p], ends[p], pipe[p])
    BY Parts
  <2>2. proc[p].status = "open" /\ ~proc[p].ended
    BY <1>1, <2>1 DEF Process
  <2>3. QED
    BY <2>1, <2>2 DEF Record
<1>4. PICK d \in [File -> Nat \cup {-1}] : d = [x.fd EXCEPT !["put"] = -1] /\ d["put"] = -1
                                          /\ \A g \in File : g # "put" => d[g] = x.fd[g]
  <2>1. PICK d : d = [x.fd EXCEPT !["put"] = -1]
    OBVIOUS
  <2>2. "put" \in File
    BY DEF File
  <2>3. d \in [File -> Nat \cup {-1}] /\ d["put"] = -1 /\ \A g \in File : g # "put" => d[g] = x.fd[g]
    BY <1>3, <2>1, <2>2
  <2>4. QED
    BY <2>1, <2>3
<1>5. PICK r \in Record : /\ r = Collected(p)
                          /\ r.status = "open" /\ r.ended = TRUE /\ r.fd = d
                          /\ r.queue = <<>> /\ r.writer = x.writer /\ r.handed = x.handed
  <2>1. [x EXCEPT !.ended = TRUE] \in Record
    BY DEF Record
  <2>2. PICK y \in Record : y = [x EXCEPT !.ended = TRUE]
    BY <2>1
  <2>3. /\ y.status = "open" /\ y.ended = TRUE /\ y.fd = x.fd
        /\ y.writer = x.writer /\ y.handed = x.handed
    BY <1>3, <2>2 DEF Record
  <2>4. [y EXCEPT !.fd = d] \in Record
    BY DEF Record
  <2>5. PICK z \in Record : z = [y EXCEPT !.fd = d]
    BY <2>4
  <2>6. /\ z.status = "open" /\ z.ended = TRUE /\ z.fd = d
        /\ z.writer = x.writer /\ z.handed = x.handed
    BY <2>3, <2>5 DEF Record
  <2>7. PICK e : e = <<>> /\ e \in Seq(Nat)
    <3>1. <<>> \in Seq(Nat)
      OBVIOUS
    <3>2. PICK e : e = <<>>
      OBVIOUS
    <3>3. QED
      BY <3>1, <3>2
  <2>8. [z EXCEPT !.queue = e] \in Record
    BY <2>7 DEF Record
  <2>9. PICK w \in Record : w = [z EXCEPT !.queue = e]
    BY <2>8
  <2>10. /\ w.status = "open" /\ w.ended = TRUE /\ w.fd = d /\ w.queue = <<>>
         /\ w.writer = x.writer /\ w.handed = x.handed
    BY <2>6, <2>7, <2>9 DEF Record
  <2>11. w = Collected(p)
    BY <1>3, <1>4, <2>2, <2>3, <2>5, <2>7, <2>9 DEF Collected
  <2>12. QED
    BY <2>10, <2>11
<1>6. PICK b \in BOOLEAN : b = (at # "final" /\ Open(p) = {})
  OBVIOUS
<1>7. PICK r2 \in Record, new \in [Proc -> Record] :
           /\ r2.status = (IF b THEN "closed" ELSE "open") /\ r2.ended = r.ended /\ r2.fd = r.fd
           /\ r2.queue = r.queue /\ r2.writer = r.writer /\ r2.handed = r.handed
           /\ proc' = new /\ new[p] = r2 /\ Differs(proc, new, p)
           /\ Counted(new, count') /\ Pointed(servant', new)
  <2>1. CloseIf(b, p, r) /\ proc[p].status = "open"
    BY <1>1, <1>3, <1>5, <1>6
  <2>2. QED
    BY <1>5, <2>1, CloseParts
<1>8. Len(calls) = 0
  BY <1>1
<1>9. b => \A g \in Out : x.fd[g] = -1
  BY <1>3, <1>6 DEF Open
<1>10. PICK lf : lf = [life EXCEPT ![p] = "reaped"]
  OBVIOUS
<1>11. lf \in [Proc -> Lives] /\ lf[p] = "reaped" /\ Differs(life, lf, p)
  BY <1>10, Parts DEF Differs, Lives
<1>12. Process(p, r2, lf[p], ends[p], pipe[p])
  <2>1. pipe[p] \in [File -> Pipe] /\ \A g \in Out : x.handed[g] = pipe[p][g].read \div 2
    BY <1>3, <1>8, Parts DEF MedullaInv, Handed
  <2>2. ASSUME b, NEW g \in Out
        PROVE  r2.fd[g] = -1 /\ 2 * r2.handed[g] >= pipe[p][g].written - 1
    <3>1. g \in File /\ g # "put" /\ x.fd[g] = -1
      BY <1>9, <2>2 DEF File, Out
    <3>2. r2.fd[g] = -1
      BY <1>4, <1>5, <1>7, <3>1
    <3>3. pipe[p][g] \in Pipe /\ pipe[p][g].written = pipe[p][g].read
      BY <1>3, <2>1, <3>1 DEF Process
    <3>4. pipe[p][g].read \in Nat
      BY <3>3 DEF Pipe
    <3>5. 2 * (pipe[p][g].read \div 2) >= pipe[p][g].read - 1
      BY <3>4
    <3>6. r2.handed[g] = pipe[p][g].read \div 2
      BY <1>5, <1>7, <2>1
    <3>7. QED
      BY <3>2, <3>3, <3>5, <3>6
  <2>3. \A g \in Out : r2.fd[g] = x.fd[g]
    BY <1>4, <1>5, <1>7 DEF File, Out
  <2>4. r2.fd["put"] = -1 /\ r2.queue = <<>> /\ r2.ended
    BY <1>4, <1>5, <1>7
  <2>5. r2.status \in {"open", "closed"} /\ (r2.status = "closed" => b)
    BY <1>7
  <2>6. r2.handed = x.handed
    BY <1>5, <1>7
  <2>7. /\ ends[p] \in SUBSET File /\ \A f \in File : pipe[p][f].written - pipe[p][f].read \in 0..Capacity
        /\ \A f \in Out : x.handed[f] <= pipe[p][f].read \div 2
        /\ \A f \in Out : x.fd[f] = -1 => f \notin ends[p] /\ pipe[p][f].written = pipe[p][f].read
    BY <1>3 DEF Process
  <2>8. QED
    BY <1>11, <2>1, <2>2, <2>3, <2>4, <2>5, <2>6, <2>7 DEF Process
<1>13. Processes(new, lf, ends, pipe)
  <2>1. /\ Processes(proc, life, ends, pipe) /\ ends \in [Proc -> SUBSET File]
        /\ pipe \in [Proc -> [File -> Pipe]]
    BY Parts DEF MedullaInv
  <2>2. Differs(ends, ends, p) /\ Differs(pipe, pipe, p)
    BY DEF Differs
  <2>3. QED
    BY <1>7, <1>11, <1>12, <2>1, <2>2, ProcessChanged
<1>14. Distinct(new)
  <2>1. \A g \in File : new[p].fd[g] = proc[p].fd[g] \/ new[p].fd[g] = -1
    BY <1>3, <1>4, <1>5, <1>7
  <2>2. \A q \in Proc, g \in File : new[q].fd[g] = proc[q].fd[g] \/ new[q].fd[g] = -1
    BY <1>7, <2>1 DEF Differs
  <2>3. QED
    BY <2>2, DistinctFrame DEF MedullaInv
<1>15. Unwatched(r2, x, "put")
  <2>1. \A g \in File : g # "put" => r2.fd[g] = x.fd[g]
    BY <1>4, <1>5, <1>7
  <2>2. r2.fd["put"] = -1
    BY <1>4, <1>5, <1>7
  <2>3. CASE b
    <3>1. \A g \in File : g # "put" => x.fd[g] = -1
      BY <1>9, <2>3 DEF File
    <3>2. Watch(r2) = {}
      BY <1>7, <2>3 DEF Watch
    <3>3. Watch(x) \subseteq {"put"}
      BY <3>1 DEF Watch
    <3>4. QED
      BY <3>2, <3>3 DEF Unwatched
  <2>4. CASE ~b
    <3>1. r2.status = "open" /\ r2.writer = x.writer
      BY <1>5, <1>7, <2>4
    <3>2. QED
      BY <1>3, <2>1, <2>2, <3>1 DEF Unwatched, Watch
  <2>5. QED
    BY <2>3, <2>4
<1>16. PICK M : /\ M = handlers' /\ Len(M) = Len(handlers) /\ Listed(M, new)
  <2>1. proc \in [Proc -> Record] /\ Listed(handlers, proc)
    BY Parts DEF MedullaInv
  <2>2. CASE proc[p].fd["put"] = -1
    <3>1. Watch(r2) = Watch(x) /\ \A g \in Watch(x) : r2.fd[g] = x.fd[g]
      BY <1>3, <1>15, <2>2 DEF Unwatched, Watch
    <3>2. \A q \in Proc : Watch(new[q]) = Watch(proc[q]) /\ \A g \in Watch(proc[q]) : new[q].fd[g] = proc[q].fd[g]
      BY <1>3, <1>7, <3>1 DEF Differs
    <3>3. \A q \in Servants \cup Jobs : q \in Proc
      BY DEF Proc
    <3>4. Listed(handlers, new)
      BY <2>1, <3>2, <3>3, WatchKept
    <3>5. QED
      BY <1>1, <2>2, <3>4
  <2>3. CASE proc[p].fd["put"] # -1
    <3>1. p \in Servants /\ "put" \in File
      BY <1>3, <2>3 DEF Process, File
    <3>2. PICK M \in Seq(Handler) :
           /\ M = nbMedullaWaitDisable(handlers, 1, proc[p].fd["put"]) /\ Len(M) = Len(handlers)
           /\ DropsOnly(M, handlers, p, "put", proc[p].fd["put"])
      BY <2>3, <3>1, DisabledIs
    <3>3. Unwatched(r2, proc[p], "put") /\ new[p] = r2 /\ Differs(proc, new, p)
      BY <1>3, <1>7, <1>15
    <3>4. Listed(M, new)
      BY <2>1, <3>1, <3>2, <3>3, FileDropped
    <3>5. QED
      BY <1>1, <2>3, <3>2, <3>4
  <2>4. QED
    BY <2>2, <2>3
<1>17. PICK s : s = fdset'
  OBVIOUS
<1>18. Visits(M, left, at, s, ends, pipe, <<>>)
  <2>1. left \in 0..Len(M) /\ (at \in {"collect", "clear"} => left = 0)
    BY <1>16, Parts DEF MedullaInv, Visits
  <2>2. QED
    BY <1>1, <2>1, VisitsElsewhere
<1>19. Handed(new, pipe, calls)
  <2>1. \A q \in Proc : new[q].handed = proc[q].handed
    BY <1>3, <1>5, <1>7 DEF Differs
  <2>2. QED
    BY <1>8, <2>1, HandedFrame DEF MedullaInv
<1>20. Stack(calls, new)
  BY <1>8 DEF MedullaInv, Stack
<1>21. Flags'
  BY <1>2 DEF MedullaInv, Flags
<1>22. life' = lf
  BY <1>1, <1>10
<1>23. Visits(handlers', left', at', fdset', ends', pipe', calls')
  BY <1>1, <1>2, <1>16, <1>17, <1>18
<1>24. QED
  BY <1>2, <1>7, <1>13, <1>14, <1>16, <1>19, <1>20, <1>21, <1>22, <1>23 DEF MedullaInv

(* What children do to their pipes, and to what they have open.            *)
LEMMA ChildPipes ==
  ASSUME MedullaInv, NEW p \in Proc, NEW pp \in [Proc -> [File -> Pipe]], Differs(pipe, pp, p),
         \A g \in File : pp[p][g].written - pp[p][g].read \in 0..Capacity,
         \A g \in Out : /\ pp[p][g].read = pipe[p][g].read
                        /\ pp[p][g] = pipe[p][g] \/ g \in ends[p],
         \A g \in File : Waitless(g, ends[p], pipe[p]) => Waitless(g, ends[p], pp[p])
  PROVE  /\ Processes(proc, life, ends, pp) /\ Handed(proc, pp, calls)
         /\ Visits(handlers, left, at, fdset, ends, pp, calls)
<1>1. Process(p, proc[p], life[p], ends[p], pp[p])
  <2>1. Process(p, proc[p], life[p], ends[p], pipe[p]) /\ pp[p] \in [File -> Pipe] /\ proc[p] \in Record
    BY Parts
  <2>2. proc[p].status # "unused" => \A g \in Out : proc[p].fd[g] = -1 => g \notin ends[p] /\ pp[p][g].written = pp[p][g].read
    BY <2>1 DEF Process
  <2>3. ASSUME proc[p].status = "closed", NEW g \in Out
        PROVE  2 * proc[p].handed[g] >= pp[p][g].written - 1
    <3>1. proc[p].fd[g] = -1 /\ 2 * proc[p].handed[g] >= pipe[p][g].written - 1
      BY <2>1, <2>3 DEF Process
    <3>2. g \notin ends[p]
      BY <2>1, <2>3, <3>1 DEF Process
    <3>3. QED
      BY <3>1, <3>2
  <2>4. \A g \in Out : proc[p].handed[g] <= pp[p][g].read \div 2
    BY <2>1 DEF Process
  <2>5. QED
    BY <2>1, <2>2, <2>3, <2>4 DEF Process
<1>2. Processes(proc, life, ends, pp)
  <2>1. /\ Processes(proc, life, ends, pipe) /\ ends \in [Proc -> SUBSET File]
        /\ life \in [Proc -> Lives] /\ proc \in [Proc -> Record]
    BY Parts DEF MedullaInv
  <2>2. Differs(ends, ends, p) /\ Differs(life, life, p) /\ Differs(proc, proc, p)
    BY DEF Differs
  <2>3. QED
    BY <1>1, <2>1, <2>2, ProcessChanged
<1>3. Handed(proc, pp, calls)
  <2>1. \A q \in Proc, g \in Out : pp[q][g].read = pipe[q][g].read
    BY DEF Differs
  <2>2. \A i \in 1..Len(calls) : calls[i].op = "lines" =>
          \E j \in 1..Len(calls) : calls[j].op = "lines" /\ calls[j].process = calls[i].process /\ calls[j].file = calls[i].file
    OBVIOUS
  <2>3. Handed(proc, pipe, calls)
    BY DEF MedullaInv
  <2>4. QED
    BY <2>1, <2>2, <2>3, HandedFrame
<1>4. Visits(handlers, left, at, fdset, ends, pp, calls)
  <2>1. ASSUME NEW q \in Servants \cup Jobs, NEW g \in File
        PROVE  Waitless(g, ends[q], pipe[q]) => Waitless(g, ends[q], pp[q])
    <3>1. CASE q = p
      BY <3>1
    <3>2. CASE q # p
      <4>1. pp[q] = pipe[q]
        BY <3>2 DEF Differs, Proc
      <4>2. QED
        BY <4>1
    <3>3. QED
      BY <3>1, <3>2
  <2>2. QED
    BY <2>1, VisitsKept
<1>5. QED
  BY <1>2, <1>3, <1>4

LEMMA ChildWritesStep ==
  ASSUME MedullaInv, NEW p \in Proc, NEW f \in Out, ChildWrites(p, f)
  PROVE  MedullaInv'
<1>1. /\ f \in ends[p] /\ Room(p, f) > 0 /\ pipe' = Written(p, f, 1)
      /\ busy' = [busy EXCEPT ![p] = IF @ = f THEN NoOne ELSE f]
      /\ UNCHANGED <<life, ends, sigchld, proc, count, handlers, fdset, left, at, calls, serving, servant>>
  BY DEF ChildWrites, watching, given
<1>2. PICK pp \in [Proc -> [File -> Pipe]] :
           /\ pp = Written(p, f, 1)
           /\ pp[p][f].written = pipe[p][f].written + 1 /\ pp[p][f].read = pipe[p][f].read
           /\ \A g \in File : g # f => pp[p][g] = pipe[p][g]
           /\ Differs(pipe, pp, p)
  <2>1. f \in File /\ pipe \in [Proc -> [File -> Pipe]]
    BY Parts DEF File
  <2>2. QED
    BY <2>1, WrittenIs
<1>3. f \in File /\ f # "put" /\ pipe[p] \in [File -> Pipe] /\ Process(p, proc[p], life[p], ends[p], pipe[p])
  BY Parts DEF File, Out
<1>4. PICK y \in Pipe, z \in Pipe : y = pipe[p][f] /\ z = pp[p][f]
  BY <1>3
<1>5. y.written \in Nat /\ y.read \in Nat /\ z.written = y.written + 1 /\ z.read = y.read
  BY <1>2, <1>4 DEF Pipe
<1>6. y.written - y.read \in 0..Capacity /\ Capacity - (y.written - y.read) > 0
  BY <1>1, <1>3, <1>4 DEF Process, Room, Content
<1>7. z.written - z.read \in 0..Capacity /\ z.written - z.read > 0
  BY <1>5, <1>6, MedullaAssumption
<1>8. \A g \in File : pp[p][g].written - pp[p][g].read \in 0..Capacity
  BY <1>2, <1>3, <1>4, <1>7 DEF Process
<1>9. \A g \in Out : /\ pp[p][g].read = pipe[p][g].read
                     /\ pp[p][g] = pipe[p][g] \/ g \in ends[p]
  BY <1>1, <1>2 DEF File
<1>10. ASSUME NEW g \in File
       PROVE  Waitless(g, ends[p], pipe[p]) => Waitless(g, ends[p], pp[p])
  <2>1. CASE g = f
    BY <1>3, <1>4, <1>7, <2>1 DEF Waitless
  <2>2. CASE g # f
    BY <1>2, <2>2 DEF Waitless
  <2>3. QED
    BY <2>1, <2>2
<1>11. /\ Processes(proc, life, ends, pp) /\ Handed(proc, pp, calls)
       /\ Visits(handlers, left, at, fdset, ends, pp, calls)
  BY <1>2, <1>8, <1>9, <1>10, ChildPipes
<1>12. Flags'
  <2>1. busy \in [Proc -> Out \cup {NoOne}]
    BY DEF MedullaInv, Flags
  <2>2. busy' \in [Proc -> Out \cup {NoOne}]
    BY <1>1, <2>1
  <2>3. QED
    BY <1>1, <2>2 DEF MedullaInv, Flags
<1>13. QED
  BY <1>1, <1>2, <1>11, <1>12 DEF MedullaInv

LEMMA ChildReadsStep ==
  ASSUME MedullaInv, NEW p \in Proc, ChildReads(p)
  PROVE  MedullaInv'
<1>1. /\ Content(p, "put") > 0 /\ pipe' = Taken(p, "put", 1)
      /\ UNCHANGED <<life, ends, busy, sigchld, proc, count, handlers, fdset, left, at, calls, serving, servant>>
  BY DEF ChildReads, watching, given
<1>2. "put" \in File /\ "put" \notin Out /\ pipe[p] \in [File -> Pipe] /\ Process(p, proc[p], life[p], ends[p], pipe[p])
  BY Parts DEF File, Out
<1>3. PICK pp \in [Proc -> [File -> Pipe]] :
           /\ pp = Taken(p, "put", 1)
           /\ pp[p]["put"].read = pipe[p]["put"].read + 1 /\ pp[p]["put"].written = pipe[p]["put"].written
           /\ \A g \in File : g # "put" => pp[p][g] = pipe[p][g]
           /\ Differs(pipe, pp, p)
  BY <1>2, Parts, TakenIs
<1>4. PICK y \in Pipe, z \in Pipe : y = pipe[p]["put"] /\ z = pp[p]["put"]
  BY <1>2
<1>5. y.written \in Nat /\ y.read \in Nat /\ z.written = y.written /\ z.read = y.read + 1
  BY <1>3, <1>4 DEF Pipe
<1>6. y.written - y.read \in 0..Capacity /\ y.written - y.read > 0
  BY <1>1, <1>2, <1>4 DEF Process, Content
<1>7. z.written - z.read \in 0..Capacity /\ Capacity - (z.written - z.read) > 0
  BY <1>5, <1>6, MedullaAssumption
<1>8. \A g \in File : pp[p][g].written - pp[p][g].read \in 0..Capacity
  BY <1>2, <1>3, <1>4, <1>7 DEF Process
<1>9. \A g \in Out : /\ pp[p][g].read = pipe[p][g].read
                     /\ pp[p][g] = pipe[p][g] \/ g \in ends[p]
  BY <1>2, <1>3 DEF File
<1>10. ASSUME NEW g \in File
       PROVE  Waitless(g, ends[p], pipe[p]) => Waitless(g, ends[p], pp[p])
  <2>1. CASE g = "put"
    BY <1>4, <1>7, <2>1 DEF Waitless
  <2>2. CASE g # "put"
    BY <1>3, <2>2 DEF Waitless
  <2>3. QED
    BY <2>1, <2>2
<1>11. /\ Processes(proc, life, ends, pp) /\ Handed(proc, pp, calls)
       /\ Visits(handlers, left, at, fdset, ends, pp, calls)
  BY <1>3, <1>8, <1>9, <1>10, ChildPipes
<1>12. Flags'
  BY <1>1 DEF MedullaInv, Flags
<1>13. QED
  BY <1>1, <1>3, <1>11, <1>12 DEF MedullaInv

LEMMA ChildEndsStep ==
  ASSUME MedullaInv, NEW p \in Proc, ChildEnds(p) \/ ChildHangsUp(p)
  PROVE  MedullaInv'
<1>1. PICK lf, en :
        /\ lf = life' /\ en = ends' /\ (en = [ends EXCEPT ![p] = ends[p]] \/ en = [ends EXCEPT ![p] = {}])
        /\ lf = life \/ (life[p] = "running" /\ lf = [life EXCEPT ![p] = "zombie"])
  BY Parts DEF ChildEnds, ChildHangsUp
<1>2. /\ sigchld' \in BOOLEAN
      /\ UNCHANGED <<busy, pipe, proc, count, handlers, fdset, left, at, calls, serving, servant>>
  BY DEF ChildEnds, ChildHangsUp, watching, given, MedullaInv, Flags
<1>3. /\ ends \in [Proc -> SUBSET File] /\ life \in [Proc -> Lives] /\ proc \in [Proc -> Record]
      /\ pipe \in [Proc -> [File -> Pipe]]
      /\ Process(p, proc[p], life[p], ends[p], pipe[p]) /\ Processes(proc, life, ends, pipe)
  BY Parts DEF MedullaInv
<1>4. /\ en \in [Proc -> SUBSET File] /\ en[p] \in {ends[p], {}} /\ Differs(ends, en, p)
      /\ lf \in [Proc -> Lives] /\ (lf[p] = life[p] \/ (lf[p] = "zombie" /\ life[p] = "running")) /\ Differs(life, lf, p)
  BY ZenonT(40), <1>1, <1>3 DEF Differs, Lives
<1>5. Process(p, proc[p], lf[p], en[p], pipe[p])
  BY <1>3, <1>4 DEF Process
<1>6. Processes(proc, lf, en, pipe)
  <2>1. Differs(proc, proc, p) /\ Differs(pipe, pipe, p)
    BY DEF Differs
  <2>2. QED
    BY <1>3, <1>4, <1>5, <2>1, ProcessChanged
<1>7. Visits(handlers, left, at, fdset, en, pipe, calls)
  <2>1. \A q \in Servants \cup Jobs : en[q] \in {ends[q], {}}
    BY <1>4 DEF Differs, Proc
  <2>2. \A q \in Servants \cup Jobs, g \in File : Waitless(g, ends[q], pipe[q]) => Waitless(g, en[q], pipe[q])
    BY <2>1 DEF Waitless
  <2>3. QED
    BY <2>2, VisitsKept
<1>8. Flags'
  BY <1>2 DEF MedullaInv, Flags
<1>9. QED
  BY <1>1, <1>2, <1>6, <1>7, <1>8 DEF MedullaInv

LEMMA QueueIs ==
  ASSUME NEW q \in Seq(Nat)
  PROVE  nbMedullaQueuePut(q) \in Seq(Nat) /\ nbMedullaQueuePut(q) # <<>>
<1>1. 1 \in Nat /\ Len(q) \in Nat
  OBVIOUS
<1>2. CASE q = <<>> \/ Last(q) = Page
  <2>1. nbMedullaQueuePut(q) = Append(q, 1)
    BY <1>2 DEF nbMedullaQueuePut
  <2>2. Append(q, 1) \in Seq(Nat) /\ Append(q, 1) # <<>>
    BY <1>1
  <2>3. QED
    BY <2>1, <2>2
<1>3. CASE ~(q = <<>> \/ Last(q) = Page)
  <2>1. nbMedullaQueuePut(q) = Front(q) \o <<Last(q) + 1>>
    BY <1>3 DEF nbMedullaQueuePut
  <2>2. Front(q) \in Seq(Nat) /\ Last(q) \in Nat
    <3>1. Len(q) > 0
      BY <1>3
    <3>2. PICK d : d = SubSeq(q, 1, Len(q) - 1)
      OBVIOUS
    <3>3. d \in Seq(Nat)
      BY <1>1, <3>1, <3>2, SubSeqIsSeq
    <3>4. Last(q) \in Nat
      BY <1>1, <3>1 DEF Last
    <3>5. QED
      BY <3>2, <3>3, <3>4 DEF Front
  <2>3. PICK a \in Seq(Nat), n \in Nat : a = Front(q) /\ n = Last(q) + 1
    BY <2>2
  <2>4. a \o <<n>> \in Seq(Nat) /\ a \o <<n>> # <<>>
    <3>1. Len(a \o <<n>>) = Len(a) + 1 /\ Len(a) \in Nat
      OBVIOUS
    <3>2. QED
      BY <3>1
  <2>5. QED
    BY <2>1, <2>3, <2>4
<1>4. QED
  BY <1>2, <1>3

LEMMA ServantStep ==
  ASSUME MedullaInv, NEW s \in Servants, servantCommand(s)
  PROVE  MedullaInv'
<1>1. /\ calls # <<>> /\ Last(calls).op = "command" /\ calls' = Done
      /\ servant[s] \in Proc /\ ~proc[servant[s]].ended
  BY DEF servantCommand, Doing
<1>2. UNCHANGED <<life, ends, busy, pipe, sigchld, count, left, serving, servant>>
  BY DEF servantCommand, kernel, given
<1>3. PICK c : c = Done
  OBVIOUS
<1>4. /\ Stack(c, proc) /\ Visits(handlers, left, at, fdset, ends, pipe, c) /\ Handed(proc, pipe, c)
      /\ \A i \in 1..Len(c) : c[i].op # "write"
  BY <1>1, <1>3, CallDone
<1>5. CASE at' = "crashed" /\ UNCHANGED <<proc, watching>>
  <2>1. Visits(handlers, left, "crashed", fdset, ends, pipe, c)
    <3>1. left \in 0..Len(handlers)
      BY Parts
    <3>2. QED
      BY <1>4, <3>1 DEF Visits
  <2>2. Flags'
    BY <1>2, <1>5 DEF MedullaInv, Flags
  <2>3. /\ Processes(proc, life, ends, pipe) /\ Distinct(proc) /\ Counted(proc, count)
        /\ Pointed(servant, proc) /\ Listed(handlers, proc)
    BY DEF MedullaInv
  <2>4. proc' = proc /\ handlers' = handlers /\ fdset' = fdset
    BY <1>5 DEF watching
  <2>5. QED
    BY <1>1, <1>2, <1>3, <1>4, <1>5, <2>1, <2>2, <2>3, <2>4 DEF MedullaInv
<1>6. CASE servant[s] \in Servants /\ nbMedullaProcessPut(servant[s]) /\ at' = at
  <2>1. PICK p \in Servants : p = servant[s] /\ p \in Proc /\ "put" \in File
    BY <1>1, <1>6 DEF File
  <2>2. /\ proc' = [proc EXCEPT ![p].queue = nbMedullaQueuePut(@), ![p].writer = TRUE]
        /\ IF proc[p].writer THEN handlers' = handlers /\ fdset' = fdset
           ELSE /\ handlers' = nbMedullaWaitEnable(handlers, Entry(p, "put", proc[p].fd["put"]))
                /\ fdset' = fdset \cup {<<1, proc[p].fd["put"]>>}
    BY <1>6, <2>1 DEF nbMedullaProcessPut, watching
  <2>3. PICK x \in Record : x = proc[p] /\ Process(p, x, life[p], ends[p], pipe[p]) /\ x.queue \in Seq(Nat)
                            /\ x.fd \in [File -> Nat \cup {-1}]
    BY <2>1, Parts DEF Record
  <2>4. x.status = "open" /\ ~x.ended /\ x.fd["put"] # -1 /\ x.fd["put"] \in Nat
    <3>1. x.status # "unused" /\ ~x.ended
      BY <1>1, <2>1, <2>3 DEF MedullaInv, Pointed
    <3>2. x.status \in {"unused", "open", "closed"}
      BY DEF Record
    <3>3. x.status = "open"
      BY <2>3, <3>1, <3>2 DEF Process
    <3>4. x.fd["put"] # -1
      BY <2>1, <2>3, <3>1, <3>3 DEF Process
    <3>5. QED
      BY <2>1, <2>3, <3>1, <3>3, <3>4
  <2>5. PICK q \in Seq(Nat) : q = nbMedullaQueuePut(x.queue) /\ q # <<>>
    BY <2>3, QueueIs
  <2>6. PICK r \in Record : /\ r = [[x EXCEPT !.queue = q] EXCEPT !.writer = TRUE]
                            /\ r.status = x.status /\ r.ended = x.ended /\ r.fd = x.fd
                            /\ r.queue = q /\ r.writer = TRUE /\ r.handed = x.handed
    <3>1. [x EXCEPT !.queue = q] \in Record
      BY DEF Record
    <3>2. PICK y \in Record : y = [x EXCEPT !.queue = q]
      BY <3>1
    <3>3. /\ y.status = x.status /\ y.ended = x.ended /\ y.fd = x.fd
          /\ y.queue = q /\ y.handed = x.handed
      BY <3>2 DEF Record
    <3>4. [y EXCEPT !.writer = TRUE] \in Record
      BY DEF Record
    <3>5. PICK z \in Record : z = [y EXCEPT !.writer = TRUE]
      BY <3>4
    <3>6. /\ z.status = x.status /\ z.ended = x.ended /\ z.fd = x.fd
          /\ z.queue = q /\ z.writer = TRUE /\ z.handed = x.handed
      BY <3>3, <3>5 DEF Record
    <3>7. QED
      BY <3>2, <3>5, <3>6
  <2>7. PICK new : new = [proc EXCEPT ![p] = r]
    OBVIOUS
  <2>8. new \in [Proc -> Record] /\ new[p] = r /\ Differs(proc, new, p) /\ proc \in [Proc -> Record]
    BY <2>1, <2>7, Parts DEF Differs
  <2>9. proc' = new
    BY <2>2, <2>3, <2>5, <2>6, <2>7
  <2>10. Process(p, r, life[p], ends[p], pipe[p])
    BY <2>3, <2>4, <2>6 DEF Process
  <2>11. Processes(new, life, ends, pipe)
    BY <2>1, <2>8, <2>10, StructStep
  <2>12. \A y \in Proc : new[y].status = proc[y].status /\ new[y].fd = proc[y].fd /\ new[y].handed = proc[y].handed
    <3>1. \A y \in Proc : y = p \/ new[y] = proc[y]
      BY <2>8 DEF Differs
    <3>2. new[p].status = proc[p].status /\ new[p].fd = proc[p].fd /\ new[p].handed = proc[p].handed
      BY <2>3, <2>6, <2>8
    <3>3. QED
      BY <3>1, <3>2
  <2>13. Distinct(new) /\ Counted(new, count) /\ Pointed(servant, new)
    <3>1. Distinct(proc) /\ Counted(proc, count) /\ Pointed(servant, proc)
      BY DEF MedullaInv
    <3>2. Distinct(new)
      BY <2>12, <3>1, DistinctFrame
    <3>3. Counted(new, count)
      BY <2>12, <3>1, CountedFrame
    <3>4. Pointed(servant, new)
      BY <2>12, <3>1, PointedFrame
    <3>5. QED
      BY <3>2, <3>3, <3>4
  <2>14. Stack(c, new)
    <3>1. \A i \in 1..Len(c) : c[i].op = "wait" => new[c[i].process].status = "open"
      BY <1>4, <2>12 DEF Stack, Proc
    <3>2. \A y \in Proc : proc[y].status # "unused" => new[y].status # "unused"
      BY <2>12
    <3>3. QED
      BY <1>4, <3>1, <3>2, StackFrame
  <2>15. Handed(new, pipe, c)
    <3>1. \A i \in 1..Len(c) : c[i].op = "lines" =>
            \E j \in 1..Len(c) : c[j].op = "lines" /\ c[j].process = c[i].process /\ c[j].file = c[i].file
      OBVIOUS
    <3>2. QED
      BY <1>4, <2>12, <3>1, HandedFrame
  <2>16. Flags'
    BY <1>2, <1>6 DEF MedullaInv, Flags
  <2>17. Listed(handlers, proc) /\ handlers \in Seq(Handler) /\ Len(handlers) \in Nat
    BY Parts DEF MedullaInv
  <2>18. CASE proc[p].writer
    <3>1. \A y \in Proc : new[y].writer = proc[y].writer
      BY ZenonT(40), <2>3, <2>6, <2>8, <2>18 DEF Differs, Record
    <3>2. Listed(handlers, new)
      BY <2>8, <2>12, <3>1, FilesKept
    <3>3. handlers' = handlers /\ fdset' = fdset
      BY <2>2, <2>18
    <3>4. QED
      BY <1>1, <1>2, <1>3, <1>4, <1>6, <2>9, <2>11, <2>13, <2>14, <2>15, <2>16, <3>2, <3>3 DEF MedullaInv
  <2>19. CASE ~proc[p].writer
    <3>1. PICK d \in Nat : d = proc[p].fd["put"] /\ d # -1
      BY <2>3, <2>4
    <3>2. "put" \notin Watch(proc[p])
      BY <2>19 DEF Watch
    <3>3. NowWatched(r, proc[p], "put", d)
      <4>1. r.fd["put"] = d /\ \A g \in Watch(proc[p]) : r.fd[g] = proc[p].fd[g]
        BY <2>3, <2>6, <3>1
      <4>2. Watch(r) = Watch(x) \cup {"put"}
        BY <2>1, <2>4, <2>6 DEF Watch
      <4>3. QED
        BY <2>3, <3>2, <4>1, <4>2 DEF NowWatched
    <3>4. Unknown(proc, d)
      <4>1. SUFFICES ASSUME NEW y \in Servants \cup Jobs, NEW g \in Watch(proc[y]), proc[y].fd[g] = d
                     PROVE  FALSE
        BY DEF Unknown
      <4>2. y \in Proc /\ g \in File
        BY DEF Proc, Watch
      <4>3. y = p /\ g = "put"
        BY <2>1, <3>1, <4>1, <4>2 DEF MedullaInv, Distinct
      <4>4. QED
        BY <3>2, <4>3
    <3>5. PICK M : M = nbMedullaWaitEnable(handlers, Entry(p, "put", d)) /\ Listed(M, new) /\ Grown(M, handlers)
      <4>1. p \in Servants \cup Jobs /\ "put" \in File
        BY <2>1
      <4>2. Listed(handlers, proc)
        BY <2>17
      <4>3. NowWatched(new[p], proc[p], "put", d)
        BY <2>8, <3>3
      <4>4. proc \in [Proc -> Record] /\ new \in [Proc -> Record] /\ Differs(proc, new, p)
        BY <2>8
      <4>5. QED
        BY SMTT(60), <3>4, <4>1, <4>2, <4>3, <4>4, FileWatched
    <3>6. Len(M) \in Nat /\ Len(M) >= Len(handlers)
      BY <3>5 DEF Grown
    <3>7. PICK t : t = fdset \cup {<<1, d>>}
      OBVIOUS
    <3>8. Visits(M, left, at, t, ends, pipe, c)
      <4>1. Visits(handlers, left, at, fdset, ends, pipe, c) /\ left \in 0..Len(handlers)
        BY <1>4, Parts
      <4>2. at = "visit" => Still(M, left) \subseteq Still(handlers, left)
        BY <3>5, <4>1 DEF Visits, Grown
      <4>3. at = "commands" => \A i \in 1..Len(M) : ~M[i].close
        BY <3>5, <4>1 DEF Visits, Grown
      <4>4. ASSUME NEW i \in 1..Len(handlers), ~handlers[i].close, <<handlers[i].type, handlers[i].fd>> \in t
            PROVE  <<handlers[i].type, handlers[i].fd>> \in fdset
        <5>1. handlers[i].fd # d
          <6>1. /\ handlers[i].process \in Servants \cup Jobs /\ handlers[i].file \in Watch(proc[handlers[i].process])
                /\ handlers[i].fd = proc[handlers[i].process].fd[handlers[i].file]
            BY <2>8, <2>17, <4>4, LiveIsWatched
          <6>2. QED
            BY <3>4, <6>1 DEF Unknown
        <5>2. QED
          BY <3>7, <4>4, <5>1
      <4>5. QED
        BY <1>4, <2>17, <3>6, <4>1, <4>2, <4>3, <4>4, VisitsFrame
    <3>9. handlers' = M /\ fdset' = t
      BY <2>2, <2>19, <3>1, <3>5, <3>7
    <3>10. QED
      BY <1>1, <1>2, <1>3, <1>6, <2>9, <2>11, <2>13, <2>14, <2>15, <2>16, <3>5, <3>8, <3>9 DEF MedullaInv
  <2>20. QED
    BY <2>18, <2>19
<1>7. QED
  BY <1>5, <1>6 DEF servantCommand

----------------------------------------------------------------------------
(* A process is opened.                                                    *)

(* The numbers fds of the files of p are those of no other file.           *)
Opening(p, fds) ==
  /\ fds \in [File -> Nat \cup {-1}]
  /\ \A f \in Files(p) : fds[f] \in Nat /\ \A q \in Proc, g \in File : proc[q].fd[g] # fds[f]
  /\ \A f, g \in Files(p) : fds[f] = fds[g] => f = g

(* The processes when only the files S of the new process p are watched.   *)
Half(p, fds, S) ==
  [proc EXCEPT ![p] = Struct("open", FALSE, [f \in File |-> IF f \in S THEN fds[f] ELSE -1], <<>>,
                             "put" \in S, [f \in Out |-> 0])]

LEMMA HalfIs ==
  ASSUME MedullaInv, NEW p \in Proc, NEW fds, Opening(p, fds), NEW S \in SUBSET Files(p)
  PROVE  /\ Half(p, fds, S) \in [Proc -> Record] /\ Differs(proc, Half(p, fds, S), p)
         /\ Watch(Half(p, fds, S)[p]) = S /\ \A g \in S : Half(p, fds, S)[p].fd[g] = fds[g]
<1>1. PICK fd : fd = [f \in File |-> IF f \in S THEN fds[f] ELSE -1]
  OBVIOUS
<1>2. fd \in [File -> Nat \cup {-1}]
  BY <1>1 DEF Opening
<1>3. S \in SUBSET File
  BY DEF Files, File, Out
<1>4. PICK b \in BOOLEAN : b = ("put" \in S)
  <2>1. ("put" \in S) \in BOOLEAN
    OBVIOUS
  <2>2. QED
    BY <2>1, Zenon
<1>5. PICK h \in [Out -> Nat] : h = [f \in Out |-> 0]
  OBVIOUS
<1>6. <<>> \in Seq(Nat)
  OBVIOUS
<1>7. PICK r \in Record : /\ r = Struct("open", FALSE, fd, <<>>, b, h)
                          /\ r.status = "open" /\ r.fd = fd /\ r.writer = b
  <2>1. PICK st \in {"unused", "open", "closed"}, no \in BOOLEAN, q \in Seq(Nat) :
          st = "open" /\ no = FALSE /\ q = <<>>
    BY <1>6
  <2>2. \E r \in Record : /\ r = Struct(st, no, fd, q, b, h)
                          /\ r.status = st /\ r.ended = no /\ r.fd = fd /\ r.queue = q /\ r.writer = b
                          /\ r.handed = h
    BY <1>2, StructFields
  <2>3. QED
    BY <2>1, <2>2
<1>8. PICK new : new = [proc EXCEPT ![p] = r]
  OBVIOUS
<1>9. new \in [Proc -> Record] /\ new[p] = r /\ Differs(proc, new, p)
  BY <1>8, Parts DEF Differs
<1>10. Watch(r) = S
  <2>1. \A f \in File : fd[f] # -1 <=> f \in S
    BY <1>1 DEF Opening
  <2>2. QED
    BY <1>3, <1>4, <1>7, <2>1 DEF Watch
<1>11. \A g \in S : r.fd[g] = fds[g]
  BY <1>1, <1>3, <1>7
<1>12. new = Half(p, fds, S)
  BY <1>1, <1>4, <1>5, <1>7, <1>8 DEF Half
<1>13. QED
  BY <1>9, <1>10, <1>11, <1>12

LEMMA GrownSelf ==
  ASSUME NEW L, Len(L) \in Nat
  PROVE  Grown(L, L)
BY DEF Grown

LEMMA GrownTwice ==
  ASSUME NEW L, NEW M, NEW N, Len(L) \in Nat, Grown(M, L), Grown(N, M)
  PROVE  Grown(N, L)
<1>1. Len(M) \in Nat /\ Len(N) \in Nat /\ Len(M) >= Len(L) /\ Len(N) >= Len(M) /\ Len(N) >= Len(L)
  BY DEF Grown
<1>2. ASSUME NEW n \in 0..Len(L), \A x \in Still(L, n) : ~x.close
      PROVE  Still(N, n) \subseteq Still(L, n)
  <2>1. Still(M, n) \subseteq Still(L, n)
    BY <1>2 DEF Grown
  <2>2. n \in 0..Len(M)
    BY <1>1
  <2>3. Still(N, n) \subseteq Still(M, n)
    BY <1>2, <2>1, <2>2 DEF Grown
  <2>4. QED
    BY <2>1, <2>3
<1>3. (\A i \in 1..Len(L) : ~L[i].close) => \A i \in 1..Len(N) : ~N[i].close
  BY DEF Grown
<1>4. QED
  BY <1>1, <1>2, <1>3 DEF Grown

(* One file more is watched, if it is one of the process.                  *)
LEMMA FileAdded ==
  ASSUME MedullaInv, NEW p \in Servants \cup Jobs, NEW fds, Opening(p, fds),
         NEW S \in SUBSET Files(p), NEW f \in File, f \notin S, NEW L, Listed(L, Half(p, fds, S))
  PROVE  \E M : /\ M = IF f \in Files(p) THEN nbMedullaWaitEnable(L, Entry(p, f, fds[f])) ELSE L
                /\ Listed(M, Half(p, fds, S \cup ({f} \cap Files(p)))) /\ Grown(M, L)
<1>1. CASE f \notin Files(p)
  <2>1. S \cup ({f} \cap Files(p)) = S
    BY <1>1
  <2>2. Len(L) \in Nat
    <3>1. L \in Seq(Handler)
      BY DEF Listed
    <3>2. QED
      BY <3>1
  <2>3. Grown(L, L)
    BY <2>2, GrownSelf
  <2>4. QED
    BY <1>1, <2>1, <2>3
<1>2. CASE f \in Files(p)
  <2>1. PICK T \in SUBSET Files(p) : T = S \cup ({f} \cap Files(p)) /\ T = S \cup {f}
    BY <1>2
  <2>2. p \in Proc
    BY DEF Proc
  <2>3. PICK a \in [Proc -> Record] : a = Half(p, fds, S) /\ Differs(proc, a, p) /\ Watch(a[p]) = S
                                      /\ \A g \in S : a[p].fd[g] = fds[g]
    BY <2>2, HalfIs
  <2>4. PICK b \in [Proc -> Record] : b = Half(p, fds, T) /\ Differs(proc, b, p) /\ Watch(b[p]) = T
                                      /\ \A g \in T : b[p].fd[g] = fds[g]
    BY <2>2, HalfIs
  <2>5. Differs(a, b, p)
    BY <2>3, <2>4 DEF Differs
  <2>6. PICK d \in Nat : d = fds[f]
    BY <1>2 DEF Opening
  <2>7. NowWatched(b[p], a[p], f, d)
    BY <2>1, <2>3, <2>4, <2>6 DEF NowWatched
  <2>8. Unknown(a, d)
    <3>1. SUFFICES ASSUME NEW q \in Servants \cup Jobs, NEW g \in Watch(a[q]), a[q].fd[g] = d
                   PROVE  FALSE
      BY DEF Unknown
    <3>2. q \in Proc /\ g \in File
      BY DEF Proc, Watch
    <3>3. CASE q = p
      <4>1. g \in S /\ a[p].fd[g] = fds[g]
        BY <2>3, <3>3
      <4>2. g = f
        BY <1>2, <2>6, <3>1, <3>3, <4>1 DEF Opening
      <4>3. QED
        BY <4>1, <4>2
    <3>4. CASE q # p
      <4>1. proc[q].fd[g] = d
        BY <2>3, <3>1, <3>2, <3>4 DEF Differs
      <4>2. QED
        BY <1>2, <2>6, <3>2, <4>1 DEF Opening
    <3>5. QED
      BY <3>3, <3>4
  <2>9. Listed(L, a)
    BY <2>3
  <2>10. PICK M : M = nbMedullaWaitEnable(L, Entry(p, f, d)) /\ Listed(M, b) /\ Grown(M, L)
    BY <2>5, <2>7, <2>8, <2>9, FileWatched
  <2>11. QED
    BY <1>2, <2>1, <2>4, <2>6, <2>10
<1>3. QED
  BY <1>1, <1>2

(* The list with the files of a new process.                               *)
LEMMA ListOpened ==
  ASSUME MedullaInv, NEW p \in Proc, proc[p].status = "unused", NEW fds, Opening(p, fds),
         NEW new \in [Proc -> Record], Differs(proc, new, p), p \notin Waited => Watch(new[p]) = Files(p),
         \A g \in Files(p) : new[p].fd[g] = fds[g]
  PROVE  \E M : M = Watched(p, fds) /\ Listed(M, new) /\ Grown(M, handlers)
<1>1. Listed(handlers, proc) /\ Len(handlers) \in Nat /\ proc \in [Proc -> Record]
  BY Parts DEF MedullaInv
<1>2. CASE p \in Waited
  <2>1. Files(p) = {}
    BY <1>2 DEF Files
  <2>2. handlers = Watched(p, fds)
    BY <2>1 DEF Watched
  <2>3. Listed(handlers, new)
    BY <1>2, WaitedUnlisted
  <2>4. Grown(handlers, handlers)
    BY <1>1, GrownSelf
  <2>5. QED
    BY <2>2, <2>3, <2>4
<1>3. CASE p \notin Waited
  <2>1. p \in Servants \cup Jobs
    BY <1>3 DEF Proc
  <2>2. PICK F \in SUBSET File : F = Files(p)
    BY DEF Files, File, Out
  <2>3. PICK S0, S1, S2, S3 : /\ S0 = {} /\ S1 = S0 \cup ({"put"} \cap F) /\ S2 = S1 \cup ({"get"} \cap F)
                              /\ S3 = S2 \cup ({"log"} \cap F)
    OBVIOUS
  <2>4. /\ S0 \in SUBSET F /\ S1 \in SUBSET F /\ S2 \in SUBSET F /\ S3 = F
        /\ "put" \notin S0 /\ "get" \notin S1 /\ "log" \notin S2
    BY <2>2, <2>3 DEF File, Out
  <2>5. "put" \in File /\ "get" \in File /\ "log" \in File
    BY DEF File, Out
  <2>6. Listed(handlers, Half(p, fds, S0))
    <3>1. PICK h \in [Proc -> Record] : h = Half(p, fds, S0) /\ Differs(proc, h, p) /\ Watch(h[p]) = {}
      BY <2>2, <2>3, <2>4, HalfIs
    <3>2. Watch(proc[p]) = {}
      BY DEF Watch
    <3>3. \A q \in Servants \cup Jobs : /\ Watch(h[q]) = Watch(proc[q])
                                        /\ \A g \in Watch(proc[q]) : h[q].fd[g] = proc[q].fd[g]
      BY <3>1, <3>2 DEF Differs, Proc
    <3>4. QED
      BY <1>1, <3>1, <3>3, WatchKept
  <2>7. PICK A : /\ A = IF "put" \in Files(p) THEN nbMedullaWaitEnable(handlers, Entry(p, "put", fds["put"])) ELSE handlers
                 /\ Listed(A, Half(p, fds, S1)) /\ Grown(A, handlers)
    <3>1. S0 \in SUBSET Files(p) /\ "put" \notin S0 /\ "put" \in File /\ Listed(handlers, Half(p, fds, S0))
      BY <2>2, <2>4, <2>5, <2>6
    <3>2. S1 = S0 \cup ({"put"} \cap Files(p))
      BY <2>2, <2>3
    <3>3. \E M : /\ M = IF "put" \in Files(p) THEN nbMedullaWaitEnable(handlers, Entry(p, "put", fds["put"])) ELSE handlers
                /\ Listed(M, Half(p, fds, S0 \cup ({"put"} \cap Files(p)))) /\ Grown(M, handlers)
      BY <2>1, <3>1, FileAdded
    <3>4. QED
      BY <3>2, <3>3
  <2>8. PICK B : /\ B = IF "get" \in Files(p) THEN nbMedullaWaitEnable(A, Entry(p, "get", fds["get"])) ELSE A
                 /\ Listed(B, Half(p, fds, S2)) /\ Grown(B, A)
    <3>1. S1 \in SUBSET Files(p) /\ "get" \notin S1 /\ "get" \in File /\ Listed(A, Half(p, fds, S1))
      BY <2>2, <2>4, <2>5, <2>7
    <3>2. S2 = S1 \cup ({"get"} \cap Files(p))
      BY <2>2, <2>3
    <3>3. \E M : /\ M = IF "get" \in Files(p) THEN nbMedullaWaitEnable(A, Entry(p, "get", fds["get"])) ELSE A
                /\ Listed(M, Half(p, fds, S1 \cup ({"get"} \cap Files(p)))) /\ Grown(M, A)
      BY <2>1, <3>1, FileAdded
    <3>4. QED
      BY <3>2, <3>3
  <2>9. PICK C : /\ C = IF "log" \in Files(p) THEN nbMedullaWaitEnable(B, Entry(p, "log", fds["log"])) ELSE B
                 /\ Listed(C, Half(p, fds, S3)) /\ Grown(C, B)
    <3>1. S2 \in SUBSET Files(p) /\ "log" \notin S2 /\ "log" \in File /\ Listed(B, Half(p, fds, S2))
      BY <2>2, <2>4, <2>5, <2>8
    <3>2. S3 = S2 \cup ({"log"} \cap Files(p))
      BY <2>2, <2>3
    <3>3. \E M : /\ M = IF "log" \in Files(p) THEN nbMedullaWaitEnable(B, Entry(p, "log", fds["log"])) ELSE B
                /\ Listed(M, Half(p, fds, S2 \cup ({"log"} \cap Files(p)))) /\ Grown(M, B)
      BY <2>1, <3>1, FileAdded
    <3>4. QED
      BY <3>2, <3>3
  <2>10. C = Watched(p, fds)
    BY <2>7, <2>8, <2>9 DEF Watched
  <2>11. Grown(C, handlers)
    <3>1. Grown(B, handlers)
      BY <1>1, <2>7, <2>8, GrownTwice
    <3>2. QED
      BY <1>1, <2>9, <3>1, GrownTwice
  <2>12. Listed(C, new)
    <3>1. PICK h \in [Proc -> Record] : h = Half(p, fds, F) /\ Differs(proc, h, p) /\ Watch(h[p]) = F
                                        /\ \A g \in F : h[p].fd[g] = fds[g]
      BY <2>2, HalfIs
    <3>2. \A q \in Servants \cup Jobs : /\ Watch(new[q]) = Watch(h[q])
                                        /\ \A g \in Watch(h[q]) : new[q].fd[g] = h[q].fd[g]
      <4>1. \A q \in Servants \cup Jobs : q = p \/ new[q] = h[q]
        BY <3>1 DEF Differs, Proc
      <4>2. Watch(new[p]) = Watch(h[p]) /\ \A g \in Watch(h[p]) : new[p].fd[g] = h[p].fd[g]
        BY <1>3, <2>2, <3>1
      <4>3. QED
        BY <4>1, <4>2
    <3>3. Listed(C, h)
      BY <2>4, <2>9, <3>1
    <3>4. QED
      BY <3>2, <3>3, WatchKept
  <2>13. QED
    BY <2>10, <2>11, <2>12
<1>4. QED
  BY <1>2, <1>3

LEMMA OpenStep ==
  ASSUME MedullaInv, NEW p \in Proc, nbMedullaProcessOpen(p)
  PROVE  MedullaInv'
<1>1. /\ calls # <<>> /\ Last(calls).op = "command" /\ proc[p].status = "unused" /\ count < ChildMax
      /\ count' = count + 1 /\ servant' \in Points(p)
  BY DEF nbMedullaProcessOpen, Doing
<1>2. UNCHANGED <<busy, pipe, sigchld, left, at, serving>>
  BY DEF nbMedullaProcessOpen
<1>3. PICK c : c = Done
  OBVIOUS
<1>4. /\ Stack(c, proc) /\ Visits(handlers, left, at, fdset, ends, pipe, c) /\ Handed(proc, pipe, c)
      /\ \A i \in 1..Len(c) : c[i].op # "write"
  BY <1>1, <1>3, CallDone
<1>5. PICK fds : fds = NewFds(p)
  OBVIOUS
<1>6. /\ fds \in [File -> Nat \cup {-1}]
      /\ \A f \in File : fds[f] # -1 => \A q \in Proc, g \in File : proc[q].fd[g] # fds[f]
      /\ \A f, g \in File : fds[f] # -1 /\ fds[f] = fds[g] => f = g
      /\ \A f \in Out : fds[f] # -1
      /\ fds["put"] # -1 <=> p \in Servants
  BY <1>5, NewFdsFresh
<1>7. Files(p) \in SUBSET File /\ \A f \in Files(p) : fds[f] # -1
  BY <1>6 DEF Files, File, Out
<1>8. Opening(p, fds)
  <2>1. \A f \in Files(p) : fds[f] \in Nat
    BY <1>6, <1>7
  <2>2. QED
    BY <1>6, <1>7, <2>1 DEF Opening
<1>9. PICK x \in Record : x = proc[p] /\ Process(p, x, life[p], ends[p], pipe[p])
  BY Parts
<1>10. x.status = "unused" /\ ~x.ended /\ x.queue = <<>> /\ \A f \in File : x.fd[f] = -1
  BY <1>1, <1>9 DEF Process, File
<1>11. PICK w \in BOOLEAN : w = (p \in Servants)
  <2>1. (p \in Servants) \in BOOLEAN
    OBVIOUS
  <2>2. QED
    BY <2>1, Zenon
<1>12. PICK r \in Record : /\ r = [[[x EXCEPT !.status = "open"] EXCEPT !.fd = fds] EXCEPT !.writer = w]
                           /\ r.status = "open" /\ r.ended = x.ended /\ r.fd = fds
                           /\ r.queue = x.queue /\ r.writer = w /\ r.handed = x.handed
  <2>1. PICK y : y = [x EXCEPT !.status = "open"]
    OBVIOUS
  <2>2. y \in Record /\ y.status = "open" /\ y.ended = x.ended /\ y.queue = x.queue /\ y.handed = x.handed
    BY <2>1 DEF Record
  <2>3. PICK z : z = [y EXCEPT !.fd = fds]
    OBVIOUS
  <2>4. /\ z \in Record /\ z.status = y.status /\ z.ended = y.ended /\ z.queue = y.queue
        /\ z.handed = y.handed /\ z.fd = fds
    BY <1>6, <2>2, <2>3 DEF Record
  <2>5. PICK u : u = [z EXCEPT !.writer = w]
    OBVIOUS
  <2>6. /\ u \in Record /\ u.status = z.status /\ u.ended = z.ended /\ u.queue = z.queue
        /\ u.handed = z.handed /\ u.fd = z.fd /\ u.writer = w
    BY <2>4, <2>5 DEF Record
  <2>7. QED
    BY ZenonT(40), <2>1, <2>2, <2>3, <2>4, <2>5, <2>6
<1>13. PICK new : new = [proc EXCEPT ![p] = r]
  OBVIOUS
<1>14. new \in [Proc -> Record] /\ new[p] = r /\ Differs(proc, new, p) /\ proc \in [Proc -> Record]
  BY <1>13, Parts DEF Differs
<1>15. proc' = new
  <2>1. proc' = [proc EXCEPT ![p].status = "open", ![p].fd = fds, ![p].writer = p \in Servants]
    BY <1>5 DEF nbMedullaProcessOpen
  <2>2. QED
    BY <1>9, <1>11, <1>12, <1>13, <1>14, <2>1
<1>16. PICK lf, en : lf = [life EXCEPT ![p] = "running"] /\ en = [ends EXCEPT ![p] = IF p \in Servants THEN File ELSE Out]
  OBVIOUS
<1>17. life' = lf /\ ends' = en
  BY <1>16 DEF nbMedullaProcessOpen
<1>18. /\ lf \in [Proc -> Lives] /\ lf[p] = "running" /\ Differs(life, lf, p)
       /\ en \in [Proc -> SUBSET File] /\ Differs(ends, en, p)
  BY <1>16, Parts DEF Differs, Lives, File
<1>19. Processes(new, lf, en, pipe)
  <2>1. Process(p, r, lf[p], en[p], pipe[p])
    <3>1. /\ \A f \in File : pipe[p][f].written - pipe[p][f].read \in 0..Capacity
          /\ \A f \in Out : r.handed[f] <= pipe[p][f].read \div 2
          /\ pipe[p] \in [File -> Pipe]
      BY <1>9, <1>12 DEF Process
    <3>2. r.fd["put"] # -1 <=> p \in Servants
      BY <1>6, <1>12
    <3>3. \A f \in Out : r.fd[f] # -1
      BY <1>6, <1>12
    <3>4. en[p] \in SUBSET File
      BY <1>18
    <3>5. r.status = "open" /\ ~r.ended /\ r.queue = <<>> /\ lf[p] = "running"
      BY <1>10, <1>12, <1>18
    <3>6. QED
      BY <3>1, <3>2, <3>3, <3>4, <3>5 DEF Process
  <2>2. Processes(proc, life, ends, pipe) /\ pipe \in [Proc -> [File -> Pipe]] /\ Differs(pipe, pipe, p)
    BY Parts DEF MedullaInv, Differs
  <2>3. QED
    BY <1>14, <1>18, <2>1, <2>2, ProcessChanged
<1>20. Distinct(new)
  <2>1. SUFFICES ASSUME NEW q \in Proc, NEW y \in Proc, NEW f \in File, NEW g \in File,
                        new[q].fd[f] # -1, new[q].fd[f] = new[y].fd[g]
                 PROVE  q = y /\ f = g
    BY DEF Distinct
  <2>2. CASE q = p /\ y = p
    <3>1. fds[f] # -1 /\ fds[f] = fds[g]
      BY <1>12, <1>14, <2>1, <2>2
    <3>2. QED
      BY <1>6, <2>2, <3>1
  <2>3. CASE q = p /\ y # p
    <3>1. fds[f] # -1 /\ fds[f] = proc[y].fd[g]
      BY <1>12, <1>14, <2>1, <2>3 DEF Differs
    <3>2. QED
      BY <1>6, <3>1
  <2>4. CASE q # p /\ y = p
    <3>1. fds[g] # -1 /\ fds[g] = proc[q].fd[f]
      BY <1>12, <1>14, <2>1, <2>4 DEF Differs
    <3>2. QED
      BY <1>6, <3>1
  <2>5. CASE q # p /\ y # p
    BY <1>14, <2>1, <2>5 DEF Differs, MedullaInv, Distinct
  <2>6. QED
    BY <2>2, <2>3, <2>4, <2>5
<1>21. Counted(new, count + 1)
  <2>1. Counted(proc, count) /\ proc[p].status # "open" /\ new[p].status = "open"
    BY <1>1, <1>12, <1>14 DEF MedullaInv
  <2>2. QED
    BY <1>1, <1>14, <2>1, CountedOpened
<1>22. \A q \in Proc : proc[q].status # "unused" => new[q].status # "unused" /\ q # p /\ new[q] = proc[q]
  BY <1>1, <1>14 DEF Differs
<1>23. Pointed(servant', new)
  <2>1. servant' \in [Servants -> Proc \cup {NoOne, "free"}]
    BY <1>1 DEF Points
  <2>2. ASSUME NEW s \in Servants, servant'[s] \in Proc
        PROVE  new[servant'[s]].status # "unused"
    <3>1. servant'[s] = p \/ servant'[s] = servant[s]
      BY <1>1 DEF Points
    <3>2. new[p].status # "unused"
      BY <1>12, <1>14
    <3>3. servant[s] \in Proc => proc[servant[s]].status # "unused"
      BY DEF MedullaInv, Pointed
    <3>4. QED
      BY <1>22, <2>2, <3>1, <3>2, <3>3
  <2>3. QED
    BY <2>1, <2>2 DEF Pointed
<1>24. PICK C : C = Watched(p, fds) /\ Listed(C, new) /\ Grown(C, handlers)
  <2>1. p \notin Waited => Watch(new[p]) = Files(p)
    <3>1. Watch(r) = {f \in File : fds[f] # -1 /\ (f = "put" => p \in Servants)}
      BY <1>11, <1>12 DEF Watch
    <3>2. QED
      BY <1>6, <1>14, <3>1 DEF Files, File, Out
  <2>2. \A g \in Files(p) : new[p].fd[g] = fds[g]
    BY <1>12, <1>14
  <2>3. QED
    BY <1>1, <1>8, <1>14, <2>1, <2>2, ListOpened
<1>25. PICK t : t = fdset \cup {<<Type(f), fds[f]>> : f \in Files(p)}
  OBVIOUS
<1>26. handlers' = C /\ fdset' = t
  BY <1>5, <1>24, <1>25 DEF nbMedullaProcessOpen
<1>27. /\ Stack(calls', new) /\ Handed(new, pipe, calls')
       /\ \A k \in 1..Len(calls') : calls'[k].op # "write"
  <2>1. Stack(c, new)
    <3>1. \A i \in 1..Len(c) : c[i].op = "wait" => new[c[i].process].status = "open"
      <4>1. \A i \in 1..Len(c) : c[i].op = "wait" => c[i].process \in Proc /\ proc[c[i].process].status = "open"
        BY <1>4 DEF Stack, Proc
      <4>2. QED
        BY <1>22, <4>1
    <3>2. QED
      BY <1>4, <1>22, <3>1, StackFrame
  <2>2. \A q \in Proc : new[q].handed = proc[q].handed
    BY <1>9, <1>12, <1>14 DEF Differs
  <2>3. CASE p \in Waited
    <3>1. PICK a \in Activity : a = Call("wait", p, NoOne, 0) /\ a.op = "wait" /\ a.process = p
      <4>1. PICK a : a = Call("wait", p, NoOne, 0)
        OBVIOUS
      <4>2. a \in Activity /\ a.op = "wait" /\ a.process = p
        BY <4>1 DEF Call, Activity
      <4>3. QED
        BY <4>1, <4>2
    <3>2. Allowed(a, c, new)
      <4>1. \A i \in 1..Len(c) : c[i].op \in {"wait", "lines"} => c[i].process # p
        <5>1. \A i \in 1..Len(c) : c[i].op \in {"wait", "lines"} => proc[c[i].process].status # "unused"
          BY <1>4 DEF Stack
        <5>2. QED
          BY <1>1, <5>1
      <4>2. new[p].status = "open"
        BY <1>12, <1>14
      <4>3. QED
        BY <1>4, <2>3, <3>1, <4>1, <4>2 DEF Allowed
    <3>3. PICK d : d = Append(c, a)
      OBVIOUS
    <3>4. /\ Stack(d, new) /\ Len(d) = Len(c) + 1 /\ d[Len(c) + 1] = a /\ Len(c) \in Nat
          /\ \A i \in 1..Len(c) : d[i] = c[i]
      BY <2>1, <3>2, <3>3, StackPush
    <3>5. \A i \in 1..Len(c) : i \in 1..Len(d)
      BY <3>4
    <3>6. Handed(new, pipe, d)
      <4>1. \A i \in 1..Len(c) : c[i].op = "lines" =>
              \E j \in 1..Len(d) : d[j].op = "lines" /\ d[j].process = c[i].process /\ d[j].file = c[i].file
        BY <3>4, <3>5
      <4>2. QED
        BY <1>4, <2>2, <4>1, HandedFrame
    <3>7. \A k \in 1..Len(d) : d[k].op # "write"
      <4>1. \A k \in 1..Len(d) : k \in 1..Len(c) \/ k = Len(c) + 1
        BY <3>4
      <4>2. QED
        BY <1>4, <3>1, <3>4, <4>1
    <3>8. calls' = d
      BY <1>3, <2>3, <3>1, <3>3 DEF nbMedullaProcessOpen, nbSpawnChild
    <3>9. QED
      BY <3>4, <3>6, <3>7, <3>8
  <2>4. CASE p \notin Waited
    <3>1. calls' = c
      BY <1>3, <2>4 DEF nbMedullaProcessOpen, nbSpawnChild
    <3>2. Handed(new, pipe, c)
      <4>1. \A i \in 1..Len(c) : c[i].op = "lines" =>
              \E j \in 1..Len(c) : c[j].op = "lines" /\ c[j].process = c[i].process /\ c[j].file = c[i].file
        OBVIOUS
      <4>2. QED
        BY <1>4, <2>2, <4>1, HandedFrame
    <3>3. QED
      BY <1>4, <2>1, <3>1, <3>2
  <2>5. QED
    BY <2>3, <2>4
<1>28. Visits(C, left, at, t, en, pipe, calls')
  <2>1. PICK d : d = calls'
    OBVIOUS
  <2>2. handlers \in Seq(Handler) /\ Listed(handlers, proc) /\ left \in 0..Len(handlers)
    BY Parts DEF MedullaInv
  <2>3. Len(C) \in Nat /\ Len(C) >= Len(handlers)
    BY <1>24 DEF Grown
  <2>4. at = "visit" => Still(C, left) \subseteq Still(handlers, left)
    BY <1>4, <1>24, <2>2 DEF Visits, Grown
  <2>5. at = "commands" => \A i \in 1..Len(C) : ~C[i].close
    BY <1>4, <1>24, <2>2 DEF Visits, Grown
  <2>6. ASSUME NEW i \in 1..Len(handlers), ~handlers[i].close
        PROVE  /\ handlers[i].process \in Proc /\ handlers[i].process # p
               /\ \A f \in Files(p) : handlers[i].fd # fds[f]
    <3>1. /\ handlers[i].process \in Proc /\ handlers[i].file \in File
          /\ handlers[i].file \in Watch(proc[handlers[i].process])
          /\ handlers[i].fd = proc[handlers[i].process].fd[handlers[i].file]
      BY <1>14, <2>2, <2>6, LiveIsWatched
    <3>2. handlers[i].process # p
      BY <1>1, <3>1 DEF Watch
    <3>3. QED
      BY <1>6, <1>7, <3>1, <3>2
  <2>7. ASSUME NEW i \in 1..Len(handlers), ~handlers[i].close, <<handlers[i].type, handlers[i].fd>> \in t
        PROVE  <<handlers[i].type, handlers[i].fd>> \in fdset
    BY <1>25, <2>6, <2>7
  <2>8. ASSUME NEW e \in Still(handlers, left), ~e.close
        PROVE  en[e.process] = ends[e.process]
    <3>1. PICK i \in 1..Len(handlers) : e = handlers[i]
      BY DEF Still
    <3>2. QED
      BY <1>18, <2>6, <2>8, <3>1 DEF Differs
  <2>9. at = "visit" => \A e \in Still(handlers, left) : ~e.close =>
          (Waitless(e.file, ends[e.process], pipe[e.process]) => Waitless(e.file, en[e.process], pipe[e.process]))
    BY <2>8
  <2>10. \A k \in 1..Len(d) : d[k].op = "write" =>
           \E j \in 1..Len(c) : c[j].op = "write" /\ c[j].process = d[k].process
    BY <1>27, <2>1
  <2>11. Visits(C, left, at, t, en, pipe, d)
    BY <1>4, <2>2, <2>3, <2>4, <2>5, <2>7, <2>9, <2>10, VisitsFrame
  <2>12. QED
    BY <2>1, <2>11
<1>29. Flags'
  BY <1>2 DEF MedullaInv, Flags
<1>30. QED
  BY <1>1, <1>2, <1>15, <1>17, <1>19, <1>20, <1>21, <1>23, <1>24, <1>26, <1>27, <1>28, <1>29 DEF MedullaInv

----------------------------------------------------------------------------
(* The theorems.                                                           *)
LEMMA AtStart ==
  ASSUME Init
  PROVE  MedullaInv
<1>1. PICK r : r = [status |-> "unused", ended |-> FALSE, fd |-> [f \in File |-> -1],
                    queue |-> <<>>, writer |-> FALSE, handed |-> [f \in Out |-> 0]]
  OBVIOUS
<1>2. /\ proc = [p \in Proc |-> r] /\ life = [p \in Proc |-> "none"] /\ ends = [p \in Proc |-> {}]
      /\ pipe = [p \in Proc |-> [f \in File |-> [written |-> 0, read |-> 0]]]
      /\ count = 0 /\ handlers = <<>> /\ fdset = {} /\ left = 0 /\ at = "commands" /\ calls = <<>>
      /\ servant = [s \in Servants |-> NoOne]
  BY <1>1 DEF Init
<1>3. /\ r.status = "unused" /\ ~r.ended /\ r.queue = <<>> /\ r.writer = FALSE
      /\ \A f \in File : r.fd[f] = -1
      /\ \A f \in Out : r.handed[f] = 0
  BY <1>1
<1>4. r \in Record
  <2>1. <<>> \in Seq(Nat)
    OBVIOUS
  <2>2. QED
    BY <1>1, <2>1 DEF Record
<1>5. 0 \div 2 = 0 /\ 0 \in 0..Capacity /\ Len(<<>>) = 0
  BY MedullaAssumption
<1>6. Processes(proc, life, ends, pipe)
  <2>1. PICK en, pp : en = {} /\ pp = [f \in File |-> [written |-> 0, read |-> 0]]
    OBVIOUS
  <2>2. pp \in [File -> Pipe] /\ en \in SUBSET File /\ \A f \in File : pp[f].written = 0 /\ pp[f].read = 0
    BY <2>1 DEF Pipe
  <2>3. ASSUME NEW p \in Proc
        PROVE  Process(p, r, "none", en, pp)
    <3>1. \A f \in File : pp[f].written - pp[f].read \in 0..Capacity
      BY <1>5, <2>2
    <3>2. \A f \in Out : r.handed[f] <= pp[f].read \div 2
      BY <1>3, <1>5, <2>2 DEF File
    <3>3. QED
      BY <1>3, <1>4, <2>1, <2>2, <3>1, <3>2 DEF Process, File
  <2>4. \A p \in Proc : proc[p] = r /\ life[p] = "none" /\ ends[p] = en /\ pipe[p] = pp
    BY <1>2, <2>1
  <2>5. /\ proc \in [Proc -> Record] /\ life \in [Proc -> {"none", "running", "zombie", "reaped"}]
        /\ ends \in [Proc -> SUBSET File] /\ pipe \in [Proc -> [File -> Pipe]]
    BY <1>2, <1>4, <2>1, <2>2
  <2>6. QED
    BY <2>3, <2>4, <2>5 DEF Processes
<1>7. Distinct(proc)
  BY <1>2, <1>3 DEF Distinct
<1>8. Counted(proc, count)
  <2>1. Opened(proc) = {}
    BY <1>2, <1>3 DEF Opened
  <2>2. IsFiniteSet({}) /\ Cardinality({}) = 0
    BY FS_EmptySet
  <2>3. 0 <= ChildMax
    BY MedullaAssumption
  <2>4. QED
    BY <1>2, <2>1, <2>2, <2>3 DEF Counted
<1>9. Pointed(servant, proc)
  BY <1>2, MedullaAssumption DEF Pointed
<1>10. Listed(handlers, proc)
  <2>1. \A p \in Proc : Watch(proc[p]) = {}
    BY <1>2, <1>3 DEF Watch
  <2>2. \A p \in Servants \cup Jobs : Watch(proc[p]) = {}
    BY <2>1 DEF Proc
  <2>3. <<>> \in Seq(Handler)
    OBVIOUS
  <2>4. handlers \in Seq(Handler) /\ 1..Len(handlers) = {}
    BY <1>2, <1>5, <2>3
  <2>5. Apart(handlers)
    BY <2>4 DEF Apart
  <2>6. QED
    BY <2>2, <2>4, <2>5 DEF Listed
<1>11. Stack(calls, proc)
  <2>1. <<>> \in Seq(Activity)
    OBVIOUS
  <2>2. QED
    BY <1>2, <1>5, <2>1 DEF Stack
<1>12. Visits(handlers, left, at, fdset, ends, pipe, calls)
  BY <1>2, <1>5 DEF Visits
<1>13. Handed(proc, pipe, calls)
  <2>1. \A p \in Proc, f \in Out : proc[p].handed[f] = 0 /\ pipe[p][f].read = 0
    BY <1>2, <1>3 DEF File
  <2>2. QED
    BY <1>5, <2>1 DEF Handed
<1>14. Flags
  BY DEF Init, Flags
<1>15. QED
  BY <1>6, <1>7, <1>8, <1>9, <1>10, <1>11, <1>12, <1>13, <1>14 DEF MedullaInv

LEMMA MedullaStep ==
  ASSUME MedullaInv, [Next]_vars
  PROVE  MedullaInv'
<1>1. CASE Medulla
  <2>1. CASE OtherCommand \/ nbCmdStop
    BY <2>1, CommandStep
  <2>2. CASE \E s \in Servants : servantCommand(s)
    BY <2>2, ServantStep
  <2>3. CASE \E p \in Proc : nbMedullaProcessOpen(p)
    BY <2>3, OpenStep
  <2>4. CASE \E p \in Proc : CollectChild(p)
    BY <2>4, CollectStep
  <2>5. CASE HandLine
    BY <2>5, HandLineStep
  <2>6. CASE HandedAll
    BY <2>6, HandedAllStep
  <2>7. CASE \E f \in Out : nbMedullaProcessReadBlocking(f)
    BY <2>7, ReadBlockingStep
  <2>8. CASE nbMedullaProcessWait
    BY <2>8, WaitStep
  <2>9. CASE medullaScheduler
    BY <2>9, SchedulerStep
  <2>10. CASE Select
    BY <2>10, SelectStep
  <2>11. CASE Interrupted \/ Stopped \/ VisitEnd \/ CollectedAll \/ Down
    BY <2>11, PlaceStep
  <2>12. CASE nbMedullaProcessReader
    BY <2>12, ReaderStep
  <2>13. CASE nbMedullaProcessReaderEnd
    BY <2>13, ReaderEndStep
  <2>14. CASE nbMedullaProcessWriter
    BY <2>14, WriterStep
  <2>15. CASE Write
    BY <2>15, WriteStep
  <2>16. CASE Rebuild
    BY <2>16, RebuildStep
  <2>17. QED
    BY <1>1, <2>1, <2>2, <2>3, <2>4, <2>5, <2>6, <2>7, <2>8, <2>9, <2>10, <2>11, <2>12, <2>13, <2>14, <2>15,
       <2>16 DEF Medulla
<1>2. CASE Children
  <2>1. PICK p \in Proc : ChildReads(p) \/ ChildEnds(p) \/ ChildHangsUp(p) \/ (\E f \in Out : ChildWrites(p, f))
    BY <1>2 DEF Children
  <2>2. CASE ChildReads(p)
    BY <2>2, ChildReadsStep
  <2>3. CASE ChildEnds(p) \/ ChildHangsUp(p)
    BY <2>3, ChildEndsStep
  <2>4. CASE \E f \in Out : ChildWrites(p, f)
    BY <2>4, ChildWritesStep
  <2>5. QED
    BY <2>1, <2>2, <2>3, <2>4
<1>3. CASE UNCHANGED vars
  <2>1. UNCHANGED <<life, ends, busy, pipe, sigchld, proc, count, handlers, fdset, left, at, calls, serving, servant>>
    BY <1>3 DEF vars, kernel, watching
  <2>2. Flags'
    BY <2>1 DEF MedullaInv, Flags
  <2>3. QED
    BY <2>1, <2>2 DEF MedullaInv
<1>4. QED
  BY <1>1, <1>2, <1>3 DEF Next

LEMMA MedullaInvariant == Spec => []MedullaInv
<1>1. Init => MedullaInv
  BY AtStart
<1>2. MedullaInv /\ [Next]_vars => MedullaInv'
  BY MedullaStep
<1>3. QED
  BY <1>1, <1>2, PTL DEF Spec

(* The bookkeeping of processes and files is sound, and a handler is never *)
(* called to wait, whatever commands do to the list, the numbers and the   *)
(* sets that nbMedullaPulse is walking (nbmedulla.c).                      *)
THEOREM HandlersAreSound == Spec => []HandlersSound
<1>1. ASSUME MedullaInv
      PROVE  HandlersSound
  <2>1. /\ proc \in [Proc -> Record] /\ life \in [Proc -> Lives] /\ ends \in [Proc -> SUBSET File]
        /\ pipe \in [Proc -> [File -> Pipe]] /\ servant \in [Servants -> Proc \cup {NoOne, "free"}]
        /\ \A p \in Proc : Process(p, proc[p], life[p], ends[p], pipe[p])
        /\ handlers \in Seq(Handler) /\ DOMAIN handlers = 1..Len(handlers)
    BY <1>1, Parts
  <2>2. Listed(handlers, proc)
    BY <1>1 DEF MedullaInv
  <2>3. TypeOK
    <3>1. Flags
      BY <1>1 DEF MedullaInv
    <3>2. ASSUME NEW p \in Proc, NEW f \in File
          PROVE  Content(p, f) \in 0..Capacity /\ proc[p].fd[f] \in Int
      <4>1. Content(p, f) \in 0..Capacity
        BY <2>1 DEF Process, Content
      <4>2. proc[p].fd[f] \in Nat \cup {-1}
        BY <2>1 DEF Record
      <4>3. QED
        BY <4>1, <4>2
    <3>3. ASSUME NEW i \in DOMAIN handlers
          PROVE  handlers[i].type \in {0, 1} /\ handlers[i].process \in Proc
      <4>1. handlers[i] \in Handler
        BY <2>1
      <4>2. QED
        BY <4>1 DEF Handler, Proc
    <3>4. QED
      BY <2>1, <3>1, <3>2, <3>3 DEF TypeOK, Flags, Lives
  <2>4. count = Cardinality({p \in Proc : proc[p].status = "open"}) /\ count <= ChildMax
    BY <1>1 DEF MedullaInv, Counted, Opened
  <2>5. \A i, j \in DOMAIN handlers : Same(handlers[i], handlers[j].type, handlers[j].fd) => i = j
    BY <2>1, <2>2 DEF Listed, Apart
  <2>6. ASSUME NEW e \in Live
        PROVE  proc[e.process].fd[e.file] = e.fd /\ e.type = Type(e.file)
    <3>1. PICK i \in 1..Len(handlers) : e = handlers[i] /\ ~handlers[i].close
      BY <2>1 DEF Live, ToSet
    <3>2. QED
      BY <2>1, <2>2, <3>1, LiveIsWatched
  <2>7. ASSUME NEW p \in Async, NEW f \in Watch(proc[p])
        PROVE  Entry(p, f, proc[p].fd[f]) \in Live
    <3>1. p \in Servants \cup Jobs
      BY DEF Async
    <3>2. PICK i \in 1..Len(handlers) : handlers[i] = Entry(p, f, proc[p].fd[f])
      BY <2>2, <3>1 DEF Listed
    <3>3. ~handlers[i].close
      BY <3>2 DEF Entry
    <3>4. QED
      BY <2>1, <3>2, <3>3 DEF Live, ToSet
  <2>8. ASSUME NEW p \in Async, NEW f \in Open(p)
        PROVE  f \in Watch(proc[p])
    BY DEF Async, Open, Watch, File, Out
  <2>9. ASSUME NEW p \in Async, proc[p].queue # <<>>
        PROVE  "put" \in Watch(proc[p])
    <3>1. p \in Proc /\ proc[p].status = "open"
      BY DEF Async, Proc
    <3>2. proc[p].fd["put"] # -1 /\ proc[p].writer
      BY <2>1, <2>9, <3>1 DEF Process
    <3>3. QED
      BY <3>1, <3>2 DEF Watch, File
  <2>10. NeverReadsIdle
    <3>1. SUFFICES ASSUME Visiting
                   PROVE  Ready(Turn.process, Turn.file)
      BY DEF NeverReadsIdle
    <3>2. PICK m, e : Visited(m, e)
      BY <1>1, <3>1, TurnIs
    <3>3. e = Turn /\ Waitless(e.file, ends[e.process], pipe[e.process])
      BY <3>2 DEF Visited
    <3>4. QED
      BY <3>3 DEF Waitless, Ready, Room, Content
  <2>11. \A p \in Async : \A f \in Open(p) : Entry(p, f, proc[p].fd[f]) \in Live
    BY <2>7, <2>8
  <2>12. \A p \in Async : proc[p].queue # <<>> => Entry(p, "put", proc[p].fd["put"]) \in Live
    BY <2>7, <2>9
  <2>13. ProcessesSound
    BY <2>3, <2>4, <2>5, <2>6, <2>11, <2>12 DEF ProcessesSound
  <2>14. QED
    BY <2>10, <2>13 DEF HandlersSound
<1>2. QED
  BY <1>1, MedullaInvariant, PTL

(* No line that a child wrote is lost or given twice: what has been read   *)
(* of a file reaches its consumer, and a process is closed only after all  *)
(* of it, in whichever order nbMedullaProcessReader finds the ends of the  *)
(* files and nbMedullaProcessHandler that of the child.                    *)
THEOREM LinesAreComplete == Spec => []LinesComplete
<1>1. ASSUME MedullaInv
      PROVE  LinesComplete
  <2>1. SUFFICES ASSUME NEW p \in Proc, NEW f \in Out
        PROVE  /\ proc[p].handed[f] <= pipe[p][f].read \div 2
               /\ (\A i \in DOMAIN calls : calls[i].op = "lines" => calls[i].process # p \/ calls[i].file # f)
                    => proc[p].handed[f] = pipe[p][f].read \div 2
               /\ proc[p].status = "closed" => 2 * proc[p].handed[f] >= pipe[p][f].written - 1
    BY DEF LinesComplete
  <2>2. Process(p, proc[p], life[p], ends[p], pipe[p]) /\ DOMAIN calls = 1..Len(calls)
    BY <1>1, Parts
  <2>3. Handed(proc, pipe, calls)
    BY <1>1 DEF MedullaInv
  <2>4. QED
    BY <2>2, <2>3 DEF Process, Handed
<1>2. QED
  BY <1>1, MedullaInvariant, PTL

============================================================================
